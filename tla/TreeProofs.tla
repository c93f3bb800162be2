----------------------------- MODULE TreeProofs -----------------------------
(***************************************************************************)
(* The two trees under KLEE's maps do what is promised of them, for any    *)
(* entries and any number of variables: ImmutableTree is always sorted,    *)
(* balanced and exactly counted, finds and updates what it should, and     *)
(* implements ImmutableMaps; MapOfSets finds what it looks for whenever it *)
(* is stored.                                                              *)
(*                                                                         *)
(* In the trie nothing is lost where two sets share a node, because with a *)
(* set it has every node on the way to it: the least element that a set    *)
(* has beyond a node leads to a child of the node.                         *)
(*                                                                         *)
(* An operation on an ImmutableTree takes a heap and ends in one, and      *)
(* between the two a reference may be anywhere.  Good says of a heap that  *)
(* it is counted right with the pointers e[n] that lead to each n from     *)
(* outside, whoever holds them, and sorted and balanced; every lemma about *)
(* an operation moves pointers between e and the heap.  What the operation *)
(* began with is still there at its end, because a pointer to it was, and  *)
(* a heap has all that is below what it has (Supported).  The members of   *)
(* Node are recursive, and a recursive function has its values only if it  *)
(* exists: it does where its value at a node depends on those below the    *)
(* node, as the heights of a heap bound the descent; balance is defined    *)
(* only for what the recursive call is to return, so that the values have  *)
(* to be sound as well (SoundRecursionHasSolution).                        *)
(***************************************************************************)
EXTENDS ImmutableTree, MapOfSets, FiniteSetTheorems, TLAPS

-----------------------------------------------------------------------------
(* Recursion.  A recursive function exists if its value at x depends on    *)
(* its values at arguments of lower rank only.                             *)

(* Induction, for a set of numbers. *)
LEMMA SetInduction ==
    ASSUME NEW S \in SUBSET Nat, 0 \in S, \A n \in S : n + 1 \in S
    PROVE  S = Nat
<1> DEFINE R == OpToRel(<, Nat)
           T == Nat \ S
<1>1. \A x, y : <<y, x>> \in R <=> x \in Nat /\ y \in Nat /\ y < x
  BY DEF OpToRel
<1>2. T \subseteq Nat
  OBVIOUS
<1> HIDE DEF R, T
<1>3. CASE T # {}
  <2>1. IsWellFoundedOn(R, Nat)
    BY NatLessThanWellFounded DEF R
  <2>2. PICK x \in T : \A y \in T : ~(<<y, x>> \in R)
    BY <1>2, <1>3, <2>1, WFMin
  <2>3. x \in Nat /\ x # 0
    BY DEF T
  <2>4. x - 1 \in Nat /\ <<x - 1, x>> \in R
    BY <1>1, <2>3
  <2>5. x - 1 \in S
    BY <2>2, <2>4 DEF T
  <2>6. (x - 1) + 1 \in S
    BY <2>5
  <2> QED
    BY <2>3, <2>6 DEF T
<1> QED
  BY <1>3 DEF T

(* step[f] is f with its values computed anew from those of f. *)
Descends(step, D, R, rank, N) ==
    /\ R # {}
    /\ rank \in [D -> Nat]
    /\ N \in Nat /\ \A x \in D : rank[x] < N
    /\ step \in [[D -> R] -> [D -> R]]
    /\ \A f, g \in [D -> R], x \in D :
          (\A y \in D : rank[y] < rank[x] => f[y] = g[y]) => step[f][x] = step[g][x]

LEMMA RecursionHasSolution ==
    ASSUME NEW D, NEW R, NEW rank, NEW N, NEW step, Descends(step, D, R, rank, N)
    PROVE  \E f \in [D -> R] : step[f] = f
<1> USE DEF Descends
<1> DEFINE Solves(f, m) == \A x \in D : rank[x] < m => step[f][x] = f[x]
           S == {m \in Nat : \E f \in [D -> R] : Solves(f, m)}
<1>1. 0 \in S
  <2>1. PICK r : r \in R
    OBVIOUS
  <2>2. [x \in D |-> r] \in [D -> R] /\ Solves([x \in D |-> r], 0)
    BY <2>1
  <2> HIDE DEF Solves
  <2> QED
    BY <2>2
<1>2. ASSUME NEW m \in S
      PROVE  m + 1 \in S
  <2>1. PICK f \in [D -> R] : Solves(f, m)
    OBVIOUS
  <2>2. ASSUME NEW x \in D, rank[x] < m + 1
        PROVE  step[step[f]][x] = step[f][x]
    <3>1. \A y \in D : rank[y] < rank[x] => step[f][y] = f[y]
      <4>1. rank[x] \in Nat /\ m \in Nat
        OBVIOUS
      <4> QED
        BY <2>1, <2>2, <4>1
    <3>2. step[f] \in [D -> R]
      OBVIOUS
    <3> QED
      BY <2>2, <3>1, <3>2
  <2>3. step[f] \in [D -> R] /\ Solves(step[f], m + 1)
    BY <2>2
  <2> HIDE DEF Solves
  <2> QED
    BY <2>3
<1>3. S = Nat
  <2> HIDE DEF S
  <2> QED
    BY <1>1, <1>2, SetInduction DEF S
<1>4. PICK f \in [D -> R] : Solves(f, N)
  BY <1>3
<1>5. \A x \in D : step[f][x] = f[x]
  BY <1>4
<1>6. step[f] \in [D -> R]
  OBVIOUS
<1>7. step[f] = f
  BY <1>5, <1>6
<1> QED
  BY <1>7

-----------------------------------------------------------------------------
(* Order.                                                                  *)

(* Finite sets have a least and a greatest element. *)
LEMMA FiniteEnds ==
    ASSUME NEW T \in SUBSET Int, IsFiniteSet(T), T # {}
    PROVE  (\E e \in T : \A k \in T : e <= k) /\ (\E e \in T : \A k \in T : k <= e)
<1> DEFINE Ends(U) == (\E e \in U : \A k \in U : e <= k) /\ (\E e \in U : \A k \in U : k <= e)
           S == {m \in Nat : \A U \in SUBSET T : U # {} /\ Cardinality(U) = m => Ends(U)}
<1>1. \A U \in SUBSET T : IsFiniteSet(U)
  BY FS_Subset
<1>2. 0 \in S
  BY <1>1, FS_EmptySet
<1>3. ASSUME NEW m \in S
      PROVE  m + 1 \in S
  <2>1. m \in Nat /\ \A U \in SUBSET T : U # {} /\ Cardinality(U) = m => Ends(U)
    OBVIOUS
  <2> HIDE DEF S
  <2>2. ASSUME NEW U \in SUBSET T, U # {}, Cardinality(U) = m + 1
        PROVE  Ends(U)
    <3>1. PICK x \in U : TRUE
      BY <2>2
    <3>2. Cardinality(U \ {x}) = m /\ U \ {x} \in SUBSET T
      <4>1. IsFiniteSet(U)
        BY <1>1
      <4>2. Cardinality(U \ {x}) = Cardinality(U) - 1
        BY <4>1, FS_RemoveElement
      <4> QED
        BY <2>1, <2>2, <4>2
    <3>3. \A y \in U : y \in Int /\ (y \in U \ {x} \/ y = x)
      OBVIOUS
    <3>4. CASE U \ {x} = {}
      BY <3>3, <3>4
    <3>5. CASE U \ {x} # {}
      <4>1. PICK a, b \in U \ {x} : \A k \in U \ {x} : a <= k /\ k <= b
        BY <2>1, <3>2, <3>5
      <4>2. \E e \in U : \A k \in U : e <= k
        <5>1. CASE a <= x
          BY <3>3, <4>1, <5>1
        <5>2. CASE x < a
          <6>1. \A k \in U : x <= k
            BY <3>3, <4>1, <5>2
          <6> QED
            BY <6>1
        <5> QED
          BY <3>3, <5>1, <5>2
      <4>3. \E e \in U : \A k \in U : k <= e
        <5>1. CASE x <= b
          BY <3>3, <4>1, <5>1
        <5>2. CASE b < x
          <6>1. \A k \in U : k <= x
            BY <3>3, <4>1, <5>2
          <6> QED
            BY <6>1
        <5> QED
          BY <3>3, <5>1, <5>2
      <4> QED
        BY <4>2, <4>3
    <3> QED
      BY <3>4, <3>5
  <2> HIDE DEF Ends
  <2> QED
    BY <2>1, <2>2 DEF S
<1>4. S = Nat
  <2> HIDE DEF S
  <2> QED
    BY <1>2, <1>3, SetInduction DEF S
<1>5. Cardinality(T) \in Nat
  BY FS_CardinalityType
<1> HIDE DEF Ends
<1>6. Ends(T)
  BY <1>4, <1>5
<1> QED
  BY <1>6 DEF Ends

(* Induction on the rank. *)
LEMMA RankInduction ==
    ASSUME NEW D, NEW rank \in [D -> Nat], NEW T \in SUBSET D,
           \A x \in D : (\A y \in D : rank[y] < rank[x] => y \in T) => x \in T
    PROVE  T = D
<1> DEFINE S == {m \in Nat : \A x \in D : rank[x] < m => x \in T}
<1>1. 0 \in S
  OBVIOUS
<1>2. ASSUME NEW m \in S
      PROVE  m + 1 \in S
  <2>1. m \in Nat /\ \A x \in D : rank[x] < m => x \in T
    OBVIOUS
  <2>2. ASSUME NEW x \in D, rank[x] < m + 1
        PROVE  x \in T
    <3>1. \A y \in D : rank[y] < rank[x] => y \in T
      <4>1. rank[x] \in Nat /\ \A y \in D : rank[y] \in Nat
        OBVIOUS
      <4> QED
        BY <2>1, <2>2, <4>1
    <3> QED
      BY <3>1
  <2> QED
    BY <2>1, <2>2
<1>3. S = Nat
  <2> HIDE DEF S
  <2> QED
    BY <1>1, <1>2, SetInduction DEF S
<1>4. \A x \in D : rank[x] + 1 \in S
  BY <1>3
<1> QED
  BY <1>4

(* The same for a step whose values are sound, that is in sound[x], where  *)
(* those it looks at are.                                                  *)
DescendsSoundly(step, D, sound, rank, N) ==
    LET R == UNION {sound[x] : x \in D}
    IN  /\ rank \in [D -> Nat]
        /\ N \in Nat /\ \A x \in D : rank[x] < N
        /\ \A x \in D : sound[x] # {}
        /\ \A f, g \in [D -> R], x \in D :
              (\A y \in D : rank[y] < rank[x] => f[y] = g[y]) => step[f][x] = step[g][x]
        /\ \A f \in [D -> R], x \in D :
              (\A y \in D : rank[y] < rank[x] => f[y] \in sound[y]) => step[f][x] \in sound[x]

LEMMA SoundRecursionHasSolution ==
    ASSUME NEW D, NEW sound, NEW rank, NEW N, NEW step, DescendsSoundly(step, D, sound, rank, N),
           D # {}
    PROVE  \E f \in [D -> UNION {sound[x] : x \in D}] : \A x \in D : step[f][x] = f[x] /\ f[x] \in sound[x]
<1> DEFINE R == UNION {sound[x] : x \in D}
<1>1. /\ rank \in [D -> Nat]
      /\ N \in Nat /\ \A x \in D : rank[x] < N
      /\ \A x \in D : sound[x] # {}
      /\ \A f, g \in [D -> R], x \in D :
            (\A y \in D : rank[y] < rank[x] => f[y] = g[y]) => step[f][x] = step[g][x]
      /\ \A f \in [D -> R], x \in D :
            (\A y \in D : rank[y] < rank[x] => f[y] \in sound[y]) => step[f][x] \in sound[x]
  BY DEF DescendsSoundly
<1>2. PICK r : r \in R
  BY <1>1
<1>3. \A x \in D : sound[x] \subseteq R
  OBVIOUS
<1> HIDE DEF R
<1> DEFINE clamp == [f \in [D -> R] |-> [x \in D |-> IF step[f][x] \in R THEN step[f][x] ELSE r]]
<1>4. \A f \in [D -> R] : clamp[f] = [x \in D |-> IF step[f][x] \in R THEN step[f][x] ELSE r]
  OBVIOUS
<1>5. clamp \in [[D -> R] -> [D -> R]]
  BY <1>2
<1> HIDE DEF clamp
<1>6. \A f, g \in [D -> R], x \in D :
         (\A y \in D : rank[y] < rank[x] => f[y] = g[y]) => clamp[f][x] = clamp[g][x]
  <2> SUFFICES ASSUME NEW f \in [D -> R], NEW g \in [D -> R], NEW x \in D,
                      \A y \in D : rank[y] < rank[x] => f[y] = g[y]
               PROVE  clamp[f][x] = clamp[g][x]
    OBVIOUS
  <2>1. step[f][x] = step[g][x]
    BY <1>1
  <2>2. \A k \in [D -> R] : clamp[k][x] = IF step[k][x] \in R THEN step[k][x] ELSE r
    <3> SUFFICES ASSUME NEW k \in [D -> R]
                 PROVE  clamp[k][x] = IF step[k][x] \in R THEN step[k][x] ELSE r
      OBVIOUS
    <3>1. clamp[k] = [y \in D |-> IF step[k][y] \in R THEN step[k][y] ELSE r]
      BY <1>4
    <3> QED
      BY <3>1
  <2>3. clamp[f][x] = IF step[f][x] \in R THEN step[f][x] ELSE r
    BY <2>2
  <2>4. clamp[g][x] = IF step[g][x] \in R THEN step[g][x] ELSE r
    BY <2>2
  <2> QED
    BY <2>1, <2>3, <2>4
<1>7. Descends(clamp, D, R, rank, N)
  BY <1>1, <1>2, <1>5, <1>6 DEF Descends
<1>8. PICK f \in [D -> R] : clamp[f] = f
  BY <1>7, RecursionHasSolution
<1>9. \A x \in D : f[x] = IF step[f][x] \in R THEN step[f][x] ELSE r
  <2>1. f = [x \in D |-> IF step[f][x] \in R THEN step[f][x] ELSE r]
    BY <1>4, <1>8
  <2> QED
    BY <2>1
<1> DEFINE T == {x \in D : step[f][x] = f[x] /\ f[x] \in sound[x]}
<1>10. ASSUME NEW x \in D, \A y \in D : rank[y] < rank[x] => y \in T
       PROVE  x \in T
  <2>1. \A y \in D : rank[y] < rank[x] => f[y] \in sound[y]
    BY <1>10
  <2>2. step[f][x] \in sound[x]
    BY <1>1, <2>1
  <2> QED
    BY <1>3, <1>9, <2>2
<1>11. T = D
  <2> HIDE DEF T
  <2>1. T \in SUBSET D
    BY DEF T
  <2> QED
    BY <1>1, <1>10, <2>1, RankInduction
<1> QED
  BY <1>11 DEF R

-----------------------------------------------------------------------------
(* MapOfSets.                                                              *)

LEMMA LeastIsLeast ==
    ASSUME NEW T \in SUBSET Elements, T # {}
    PROVE  Least(T) \in T /\ \A k \in T : Least(T) <= k
<1>1. T \in SUBSET Int /\ IsFiniteSet(T)
  BY FS_Subset, TrieParameters
<1>2. \E e \in T : \A k \in T : e <= k
  BY <1>1, FiniteEnds
<1> QED
  BY <1>2 DEF Least

-----------------------------------------------------------------------------
(* The trie.                                                               *)

(* A trie has every node on the way to one of its nodes, and each of its   *)
(* sets has a node.                                                        *)
Trie ==
    /\ nodes \subseteq SUBSET Elements /\ root \in nodes
    /\ \A n \in nodes : WayTo(n) \subseteq nodes
    /\ DOMAIN value \subseteq nodes

Accepted(P) == {n \in DOMAIN value : value[n] \in P}

Before(n, T) == \A e \in n, k \in T : e < k

(* The accepted nodes under n that have what is in T beyond n, or nothing  *)
(* but what is in T.                                                       *)
Within(n, T, P) == {m \in Accepted(P) : n \subseteq m /\ m # n /\ m \ n \subseteq T}

Above(n, T, P) == {m \in Accepted(P) : n \subseteq m /\ Before(n, m \ n) /\ T \subseteq m \ n}

(* The way from n to a node under it goes through a child of n. *)
LEMMA ChildOnWay ==
    ASSUME Trie, NEW n \in nodes, NEW m \in nodes,
           n \subseteq m, n # m, Before(n, m \ n)
    PROVE  LET k == Least(m \ n)
           IN  /\ k \in m \ n /\ \A e \in m \ n : k <= e
               /\ k \in Children(n)
               /\ Before(n \cup {k}, m \ (n \cup {k}))
<1> DEFINE k == Least(m \ n)
<1>1. m \subseteq Elements /\ m \ n \in SUBSET Elements /\ m \ n # {}
  BY DEF Trie
<1>2. k \in m \ n /\ \A e \in m \ n : k <= e
  BY <1>1, LeastIsLeast
<1> HIDE DEF k
<1>3. \A e \in m : e \in Int
  BY <1>1, TrieParameters
<1>4. n \cup {k} = {e \in m : e <= k}
  BY <1>2, <1>3 DEF Before
<1>5. n \cup {k} \in nodes
  BY <1>2, <1>4 DEF Trie, WayTo
<1>6. k \in Children(n)
  BY <1>1, <1>2, <1>5 DEF Children, Before
<1>7. Before(n \cup {k}, m \ (n \cup {k}))
  BY <1>2, <1>3 DEF Before
<1> QED
  BY <1>2, <1>6, <1>7 DEF k

(* A child is a node of its own. *)
LEMMA ChildIsNode ==
    ASSUME Trie, NEW n \in nodes, NEW k \in Children(n)
    PROVE  /\ k \in Elements /\ n \cup {k} \in nodes /\ k \notin n
           /\ \A e \in n : e < k
BY TrieParameters DEF Children, Trie

LEMMA InitTrie == TrieInit => Trie
BY DEF TrieInit, Trie, root, WayTo

LEMMA InsertKeepsTrie ==
    ASSUME Trie, NEW S \in SUBSET Elements, NEW v, insertSet(S, v)
    PROVE  Trie'
<1>1. nodes' = nodes \cup WayTo(S) /\ DOMAIN value' = DOMAIN value \cup {S}
  BY DEF insertSet
<1>2. S \subseteq Int /\ IsFiniteSet(S)
  BY FS_Subset, TrieParameters
<1>3. S \in WayTo(S)
  <2>1. CASE S = {}
    BY <2>1 DEF WayTo, root
  <2>2. CASE S # {}
    <3>1. PICK k \in S : \A e \in S : e <= k
      BY <1>2, <2>2, FiniteEnds
    <3>2. S = {e \in S : e <= k}
      BY <3>1
    <3> QED
      BY <3>1, <3>2 DEF WayTo
  <2> QED
    BY <2>1, <2>2
<1>4. ASSUME NEW n \in WayTo(S)
      PROVE  n \in SUBSET Elements /\ WayTo(n) \subseteq WayTo(S)
  <2>1. CASE n = root
    BY <2>1 DEF WayTo, root
  <2>2. ASSUME NEW k \in S, n = {e \in S : e <= k}
        PROVE  n \in SUBSET Elements /\ WayTo(n) \subseteq WayTo(S)
    <3>1. ASSUME NEW j \in n
          PROVE  {e \in n : e <= j} = {e \in S : e <= j} /\ j \in S
      <4>1. j \in S /\ j <= k
        BY <2>2
      <4>2. \A e \in S : e <= j => e <= k
        BY <1>2, <4>1
      <4> QED
        BY <2>2, <4>1, <4>2
    <3> QED
      BY <2>2, <3>1 DEF WayTo
  <2> QED
    BY <1>4, <2>1, <2>2 DEF WayTo
<1>5. nodes' \subseteq SUBSET Elements /\ root \in nodes'
  BY <1>1, <1>4 DEF Trie
<1>6. \A n \in nodes' : WayTo(n) \subseteq nodes'
  BY <1>1, <1>4 DEF Trie
<1>7. DOMAIN value' \subseteq nodes'
  BY <1>1, <1>3 DEF Trie
<1> QED
  BY <1>5, <1>6, <1>7 DEF Trie, WayTo, root

LEMMA NextKeepsTrie == Trie /\ [TrieNext]_trieVars => Trie'
<1> SUFFICES ASSUME Trie, [TrieNext]_trieVars PROVE Trie'
  OBVIOUS
<1>1. ASSUME NEW S \in SUBSET Elements, NEW v \in Assignments, insertSet(S, v)
      PROVE  Trie'
  BY <1>1, InsertKeepsTrie
<1>2. ASSUME clear
      PROVE  Trie'
  BY <1>2 DEF clear, Trie, WayTo, root
<1>3. ASSUME UNCHANGED trieVars
      PROVE  Trie'
  BY <1>3 DEF trieVars, Trie, WayTo, root
<1> QED
  BY <1>1, <1>2, <1>3 DEF TrieNext

-----------------------------------------------------------------------------
(* findSubset.                                                             *)

Found == (SUBSET Elements) \cup {NoValue}

MergeAt(f, rest, n, P) ==
    IF rest = {} \/ \A k \in Children(n) : k < Least(rest) THEN NoValue
    ELSE LET k == Least(rest)
             left == rest \ {k}
             child == n \cup {k}
             found == IF k \notin Children(n) THEN NoValue
                      ELSE IF EndsWith(child, P) THEN child ELSE f[left][child]
         IN  IF found # NoValue THEN found ELSE f[left][n]

LEMMA MergeDef ==
    ASSUME Trie, NEW P
    PROVE  mergeSubset(P) = [rest \in SUBSET Elements |-> [n \in nodes |-> MergeAt(mergeSubset(P), rest, n, P)]]
<1> DEFINE D == SUBSET Elements
           R == [nodes -> Found]
           rank == [T \in D |-> Cardinality(T)]
           N == Cardinality(Elements) + 1
           value_(f) == [rest \in D |-> [n \in nodes |-> MergeAt(f, rest, n, P)]]
           step == [f \in [D -> R] |-> value_(f)]
<1>1. /\ \A T \in D : IsFiniteSet(T) /\ Cardinality(T) \in Nat /\ Cardinality(T) < N
      /\ N \in Nat
  <2>1. IsFiniteSet(Elements) /\ Cardinality(Elements) \in Nat
    BY FS_CardinalityType, TrieParameters
  <2>2. \A T \in D : IsFiniteSet(T) /\ Cardinality(T) <= Cardinality(Elements)
    BY <2>1, FS_Subset
  <2>3. \A T \in D : Cardinality(T) \in Nat
    BY <2>2, FS_CardinalityType
  <2> QED
    BY <2>1, <2>2, <2>3
<1>2. ASSUME NEW rest \in D, rest # {}
      PROVE  /\ rest \ {Least(rest)} \in D
             /\ Cardinality(rest \ {Least(rest)}) < Cardinality(rest)
  <2>1. Least(rest) \in rest
    BY <1>2, LeastIsLeast
  <2>2. Cardinality(rest \ {Least(rest)}) = Cardinality(rest) - 1
    BY <1>1, <2>1, FS_RemoveElement
  <2> QED
    BY <1>1, <2>2
<1>3. ASSUME NEW f \in [D -> R], NEW rest \in D, NEW n \in nodes
      PROVE  MergeAt(f, rest, n, P) \in Found
  <2>1. CASE rest = {}
    BY <2>1 DEF MergeAt, Found
  <2>2. CASE rest # {}
    <3> DEFINE left == rest \ {Least(rest)}
    <3>1. f[left] \in R
      BY <1>2, <2>2
    <3> HIDE DEF left
    <3>2. f[left][n] \in Found
      BY <3>1
    <3>3. ASSUME Least(rest) \in Children(n)
          PROVE  n \cup {Least(rest)} \in Found /\ f[left][n \cup {Least(rest)}] \in Found
      <4>1. n \cup {Least(rest)} \in nodes
        BY <3>3 DEF Children
      <4>2. n \cup {Least(rest)} \in Found
        BY <4>1 DEF Trie, Found
      <4> QED
        BY <3>1, <4>1, <4>2
    <3>4. NoValue \in Found
      BY DEF Found
    <3> QED
      BY <3>2, <3>3, <3>4 DEF MergeAt, left
  <2> QED
    BY <2>1, <2>2
<1>4. ASSUME NEW f \in [D -> R], NEW g \in [D -> R], NEW rest \in D,
             \A T \in D : rank[T] < rank[rest] => f[T] = g[T]
      PROVE  step[f][rest] = step[g][rest]
  <2>1. ASSUME NEW n \in nodes
        PROVE  MergeAt(f, rest, n, P) = MergeAt(g, rest, n, P)
    <3>1. CASE rest = {}
      BY <3>1 DEF MergeAt
    <3>2. CASE rest # {}
      <4>1. f[rest \ {Least(rest)}] = g[rest \ {Least(rest)}]
        BY <1>2, <1>4, <3>2
      <4> QED
        BY <4>1 DEF MergeAt
    <3> QED
      BY <3>1, <3>2
  <2>2. step[f] = value_(f) /\ step[g] = value_(g)
    OBVIOUS
  <2> HIDE DEF step
  <2> QED
    BY <2>1, <2>2
<1>5. step \in [[D -> R] -> [D -> R]]
  BY <1>3
<1>6. rank \in [D -> Nat] /\ \A T \in D : rank[T] < N
  BY <1>1
<1>7. R # {}
  <2>1. [n \in nodes |-> NoValue] \in R
    BY DEF Found
  <2> QED
    BY <2>1
<1>8. \E f \in [D -> R] : step[f] = f
  <2>1. \A f, g \in [D -> R], x \in D :
           (\A y \in D : rank[y] < rank[x] => f[y] = g[y]) => step[f][x] = step[g][x]
    BY <1>4
  <2>2. N \in Nat
    BY <1>1
  <2> HIDE DEF D, R, rank, N, step
  <2>3. Descends(step, D, R, rank, N)
    BY <1>5, <1>6, <1>7, <2>1, <2>2 DEF Descends
  <2> QED
    BY <2>3, RecursionHasSolution
<1>9. \E f : f = value_(f)
  BY <1>8
<1> DEFINE c == CHOOSE f : f = value_(f)
<1>10. mergeSubset(P) = c
  BY DEF mergeSubset, MergeAt
<1>11. c = value_(c)
  BY <1>9
<1> QED
  BY <1>10, <1>11

(* What a search must find: one of those, or nothing if there are none. *)
Right(found, those) == IF those = {} THEN found = NoValue ELSE found \in those

(* A node under n with nothing but rest beyond n either lacks the least of *)
(* rest, or is the child with the least, or lies under that child.         *)
LEMMA WithinSplits ==
    ASSUME Trie, NEW P, NEW n \in nodes,
           NEW rest \in SUBSET Elements, rest # {}, Before(n, rest)
    PROVE  LET k == Least(rest)
               left == rest \ {k}
               child == n \cup {k}
           IN  /\ Within(n, left, P) \subseteq Within(n, rest, P)
               /\ k \in Children(n) =>
                     /\ Within(child, left, P) \subseteq Within(n, rest, P)
                     /\ EndsWith(child, P) => child \in Within(n, rest, P)
                     /\ Before(child, left)
               /\ \A m \in Within(n, rest, P) :
                     \/ m \in Within(n, left, P)
                     \/ /\ k \in Children(n)
                        /\ (m = child /\ EndsWith(child, P)) \/ m \in Within(child, left, P)
<1> DEFINE k == Least(rest)
           left == rest \ {k}
           child == n \cup {k}
<1>1. k \in rest /\ \A e \in rest : k <= e
  BY LeastIsLeast
<1> HIDE DEF k
<1>2. Within(n, left, P) \subseteq Within(n, rest, P)
  BY DEF Within
<1>3. ASSUME k \in Children(n)
      PROVE  /\ Within(child, left, P) \subseteq Within(n, rest, P)
             /\ EndsWith(child, P) => child \in Within(n, rest, P)
             /\ Before(child, left)
  <2>1. k \notin n
    BY <1>3, ChildIsNode
  <2>2. Before(child, left)
    <3>1. \A e \in rest : e \in Int
      BY TrieParameters
    <3> QED
      BY <1>1, <3>1 DEF Before
  <2> QED
    BY <1>1, <2>1, <2>2 DEF Within, Accepted, EndsWith
<1>4. ASSUME NEW m \in Within(n, rest, P), m \notin Within(n, left, P)
      PROVE  /\ k \in Children(n)
             /\ (m = child /\ EndsWith(child, P)) \/ m \in Within(child, left, P)
  <2>1. k \in m \ n
    BY <1>4 DEF Within
  <2>2. m \in nodes /\ n \subseteq m /\ n # m /\ m \ n \subseteq rest /\ Before(n, m \ n)
    BY <1>4 DEF Within, Accepted, Trie, Before
  <2>3. /\ Least(m \ n) \in m \ n /\ \A e \in m \ n : Least(m \ n) <= e
        /\ Least(m \ n) \in Children(n)
    BY <2>2, ChildOnWay
  <2>4. Least(m \ n) = k
    <3>1. k \in Int /\ Least(m \ n) \in Int
      BY <1>1, <2>2, <2>3, TrieParameters
    <3> QED
      BY <1>1, <2>1, <2>2, <2>3, <3>1
  <2> QED
    BY <1>4, <2>1, <2>2, <2>3, <2>4 DEF Within, Accepted, EndsWith
<1> QED
  BY <1>2, <1>3, <1>4 DEF k

(* Without a child from the least of rest on, nothing is under n that has  *)
(* nothing but rest beyond n.                                              *)
LEMMA NothingWithin ==
    ASSUME Trie, NEW P, NEW n \in nodes,
           NEW rest \in SUBSET Elements, Before(n, rest),
           rest = {} \/ \A k \in Children(n) : k < Least(rest)
    PROVE  Within(n, rest, P) = {}
<1> SUFFICES ASSUME NEW m \in Within(n, rest, P) PROVE FALSE
  OBVIOUS
<1>1. m \in nodes /\ n \subseteq m /\ n # m /\ m \ n \subseteq rest /\ Before(n, m \ n)
  BY DEF Within, Accepted, Trie, Before
<1>2. Least(m \ n) \in m \ n /\ Least(m \ n) \in Children(n)
  BY <1>1, ChildOnWay
<1>3. rest # {} /\ Least(m \ n) \in rest
  BY <1>1, <1>2
<1>4. Least(m \ n) < Least(rest)
  BY <1>2, <1>3
<1>5. Least(rest) \in rest /\ Least(rest) <= Least(m \ n)
  BY <1>3, LeastIsLeast
<1>6. Least(rest) \in Int /\ Least(m \ n) \in Int
  BY <1>3, <1>5, TrieParameters
<1> QED
  BY <1>4, <1>5, <1>6

LEMMA MergeRight ==
    ASSUME Trie, NEW P
    PROVE  \A rest \in SUBSET Elements, n \in nodes :
              Before(n, rest) => Right(mergeSubset(P)[rest][n], Within(n, rest, P))
<1> DEFINE f == mergeSubset(P)
           Claim(rest) == \A n \in nodes : Before(n, rest) => Right(f[rest][n], Within(n, rest, P))
           S == {i \in Nat : \A rest \in SUBSET Elements : Cardinality(rest) <= i => Claim(rest)}
<1>1. \A rest \in SUBSET Elements, n \in nodes : f[rest][n] = MergeAt(f, rest, n, P)
  <2> HIDE DEF f
  <2>1. f = [rest \in SUBSET Elements |-> [n \in nodes |-> MergeAt(f, rest, n, P)]]
    BY MergeDef DEF f
  <2> QED
    BY <2>1
<1>2. \A rest \in SUBSET Elements : IsFiniteSet(rest) /\ Cardinality(rest) \in Nat
  BY FS_Subset, FS_CardinalityType, TrieParameters
<1> HIDE DEF f
<1>3. ASSUME NEW rest \in SUBSET Elements, NEW n \in nodes, Before(n, rest),
             rest # {} => Claim(rest \ {Least(rest)})
      PROVE  Right(f[rest][n], Within(n, rest, P))
  <2>1. CASE rest = {} \/ \A k \in Children(n) : k < Least(rest)
    <3>1. f[rest][n] = NoValue
      BY <1>1, <2>1 DEF MergeAt
    <3>2. Within(n, rest, P) = {}
      BY <1>3, <2>1, NothingWithin
    <3> QED
      BY <3>1, <3>2 DEF Right
  <2>2. CASE ~(rest = {} \/ \A k \in Children(n) : k < Least(rest))
    <3> DEFINE k == Least(rest)
               left == rest \ {k}
               child == n \cup {k}
               found == IF k \notin Children(n) THEN NoValue
                        ELSE IF EndsWith(child, P) THEN child ELSE f[left][child]
    <3>1. f[rest][n] = IF found # NoValue THEN found ELSE f[left][n]
      BY <1>1, <2>2 DEF MergeAt
    <3>2. /\ Within(n, left, P) \subseteq Within(n, rest, P)
          /\ k \in Children(n) =>
                /\ Within(child, left, P) \subseteq Within(n, rest, P)
                /\ EndsWith(child, P) => child \in Within(n, rest, P)
                /\ Before(child, left)
          /\ \A m \in Within(n, rest, P) :
                \/ m \in Within(n, left, P)
                \/ /\ k \in Children(n)
                   /\ (m = child /\ EndsWith(child, P)) \/ m \in Within(child, left, P)
      BY <1>3, <2>2, WithinSplits
    <3>3. Right(f[left][n], Within(n, left, P))
      BY <1>3, <2>2 DEF Before
    <3>4. k \in Children(n) => child \in nodes /\ Right(f[left][child], Within(child, left, P))
      BY <1>3, <2>2, <3>2, ChildIsNode
    <3>5. \A m \in Within(n, rest, P) : m # NoValue
      BY TrieParameters DEF Within, Accepted, Trie
    <3> HIDE DEF k, left, child
    <3> QED
      BY <3>1, <3>2, <3>3, <3>4, <3>5 DEF Right
  <2> QED
    BY <2>1, <2>2
<1>4. 0 \in S
  <2>1. ASSUME NEW rest \in SUBSET Elements, Cardinality(rest) <= 0
        PROVE  Claim(rest)
    <3>1. rest = {}
      BY <1>2, <2>1, FS_EmptySet
    <3> QED
      BY <1>3, <3>1
  <2> HIDE DEF Claim
  <2> QED
    BY <2>1
<1>5. ASSUME NEW i \in S
      PROVE  i + 1 \in S
  <2>1. i \in Nat /\ \A rest \in SUBSET Elements : Cardinality(rest) <= i => Claim(rest)
    OBVIOUS
  <2> HIDE DEF S
  <2>2. ASSUME NEW rest \in SUBSET Elements, Cardinality(rest) <= i + 1, rest # {}
        PROVE  Claim(rest \ {Least(rest)})
    <3>1. Least(rest) \in rest
      BY <2>2, LeastIsLeast
    <3>2. Cardinality(rest \ {Least(rest)}) = Cardinality(rest) - 1
      BY <1>2, <3>1, FS_RemoveElement
    <3>3. Cardinality(rest \ {Least(rest)}) <= i
      BY <1>2, <2>1, <2>2, <3>2
    <3> HIDE DEF Claim
    <3> QED
      BY <2>1, <3>3
  <2>3. ASSUME NEW rest \in SUBSET Elements, Cardinality(rest) <= i + 1
        PROVE  Claim(rest)
    BY <1>3, <2>2, <2>3
  <2> HIDE DEF Claim
  <2> QED
    BY <2>1, <2>3 DEF S
<1>6. S = Nat
  <2> HIDE DEF S
  <2> QED
    BY <1>4, <1>5, SetInduction DEF S
<1>7. \A rest \in SUBSET Elements : Claim(rest)
  <2> HIDE DEF Claim
  <2> QED
    BY <1>2, <1>6
<1> QED
  BY <1>7 DEF f

(* findSubset finds an accepted subset if there is one. *)
LEMMA FindSubsetRight ==
    ASSUME Trie, NEW P, NEW T \in SUBSET Elements
    PROVE  Right(findSubset(T, P), {n \in Accepted(P) : n \subseteq T})
<1>1. Right(mergeSubset(P)[T][root], Within(root, T, P))
  <2>1. root \in nodes /\ Before(root, T)
    BY DEF Trie, Before, root
  <2> QED
    BY <2>1, MergeRight
<1>2. EndsWith(root, P) <=> root \in Accepted(P)
  BY DEF EndsWith, Accepted
<1>3. Within(root, T, P) = {n \in Accepted(P) : n \subseteq T} \ {root}
  BY DEF Within, root
<1>4. CASE EndsWith(root, P)
  BY <1>2, <1>4 DEF Right, findSubset, root
<1>5. CASE ~EndsWith(root, P)
  <2>1. Within(root, T, P) = {n \in Accepted(P) : n \subseteq T}
    BY <1>2, <1>3, <1>5
  <2> QED
    BY <1>1, <1>5, <2>1 DEF findSubset
<1> QED
  BY <1>4, <1>5

-----------------------------------------------------------------------------
(* findSuperset.                                                           *)

FoundBelow(f, n, rest) == {k \in Children(n) : f[n \cup {k}][rest] # NoValue}

FromAt(f, n, rest, P) ==
    IF rest = {} /\ EndsWith(n, P) THEN n
    ELSE LET below == FoundBelow(f, n, rest)
         IN  IF below # {} THEN f[n \cup {Least(below)}][rest]
             ELSE IF rest # {} /\ Least(rest) \in Children(n)
             THEN f[n \cup {Least(rest)}][rest \ {Least(rest)}]
             ELSE NoValue

LEMMA LeastBelow ==
    ASSUME NEW f, NEW n, NEW rest, FoundBelow(f, n, rest) # {}
    PROVE  Least(FoundBelow(f, n, rest)) \in FoundBelow(f, n, rest)
<1>1. FoundBelow(f, n, rest) \in SUBSET Elements
  BY DEF FoundBelow, Children
<1> QED
  BY <1>1, LeastIsLeast

(* A child is deeper than its parent. *)
LEMMA ChildIsDeeper ==
    ASSUME Trie, NEW n \in nodes
    PROVE  /\ Cardinality(Elements) - Cardinality(n) \in Nat
           /\ \A k \in Children(n) :
                 Cardinality(Elements) - Cardinality(n \cup {k}) < Cardinality(Elements) - Cardinality(n)
<1>1. n \in SUBSET Elements /\ IsFiniteSet(Elements) /\ Cardinality(Elements) \in Nat
  BY FS_CardinalityType, TrieParameters DEF Trie
<1>2. IsFiniteSet(n) /\ Cardinality(n) <= Cardinality(Elements)
  BY <1>1, FS_Subset
<1>3. Cardinality(n) \in Nat
  BY <1>2, FS_CardinalityType
<1>4. ASSUME NEW k \in Children(n)
      PROVE  Cardinality(n \cup {k}) = Cardinality(n) + 1
  BY <1>2, <1>4, ChildIsNode, FS_AddElement
<1> QED
  BY <1>1, <1>2, <1>3, <1>4

LEMMA FromDef ==
    ASSUME Trie, NEW P
    PROVE  supersetFrom(P) = [n \in nodes |-> [rest \in SUBSET Elements |-> FromAt(supersetFrom(P), n, rest, P)]]
<1> DEFINE D == nodes
           R == [SUBSET Elements -> Found]
           rank == [n \in D |-> Cardinality(Elements) - Cardinality(n)]
           N == Cardinality(Elements) + 1
           value_(f) == [n \in D |-> [rest \in SUBSET Elements |-> FromAt(f, n, rest, P)]]
           step == [f \in [D -> R] |-> value_(f)]
<1>1. ASSUME NEW f \in [D -> R], NEW n \in D, NEW rest \in SUBSET Elements
      PROVE  FromAt(f, n, rest, P) \in Found
  <2>1. n \in Found /\ NoValue \in Found
    BY DEF Trie, Found
  <2>2. ASSUME NEW k \in Children(n), NEW T \in SUBSET Elements
        PROVE  f[n \cup {k}][T] \in Found
    <3>1. f[n \cup {k}] \in R
      BY ChildIsNode
    <3> QED
      BY <3>1
  <2>3. FoundBelow(f, n, rest) # {} => Least(FoundBelow(f, n, rest)) \in Children(n)
    BY LeastBelow DEF FoundBelow
  <2> HIDE DEF R
  <2> QED
    BY <2>1, <2>2, <2>3 DEF FromAt
<1>2. ASSUME NEW f \in [D -> R], NEW g \in [D -> R], NEW n \in D,
             \A m \in D : rank[m] < rank[n] => f[m] = g[m]
      PROVE  step[f][n] = step[g][n]
  <2>1. ASSUME NEW k \in Children(n)
        PROVE  f[n \cup {k}] = g[n \cup {k}]
    BY <1>2, ChildIsDeeper, ChildIsNode
  <2>2. ASSUME NEW rest \in SUBSET Elements
        PROVE  FromAt(f, n, rest, P) = FromAt(g, n, rest, P)
    <3>1. FoundBelow(f, n, rest) = FoundBelow(g, n, rest)
      BY <2>1 DEF FoundBelow
    <3>2. FoundBelow(f, n, rest) # {} => Least(FoundBelow(f, n, rest)) \in Children(n)
      BY LeastBelow DEF FoundBelow
    <3> QED
      BY <2>1, <3>1, <3>2 DEF FromAt
  <2>3. step[f] = value_(f) /\ step[g] = value_(g)
    OBVIOUS
  <2> HIDE DEF step
  <2> QED
    BY <2>2, <2>3
<1>3. \E f \in [D -> R] : step[f] = f
  <2>1. step \in [[D -> R] -> [D -> R]]
    BY <1>1
  <2>2. N \in Nat
    BY FS_CardinalityType, TrieParameters
  <2>3. rank \in [D -> Nat] /\ \A n \in D : rank[n] < N
    <3>1. ASSUME NEW n \in D
          PROVE  Cardinality(Elements) - Cardinality(n) \in Nat
                 /\ Cardinality(Elements) - Cardinality(n) < N
      <4>1. IsFiniteSet(n) /\ IsFiniteSet(Elements)
        BY FS_Subset, TrieParameters DEF Trie
      <4>2. Cardinality(n) \in Nat /\ Cardinality(Elements) \in Nat
        BY <4>1, FS_CardinalityType
      <4> QED
        BY <4>2, ChildIsDeeper
    <3> QED
      BY <3>1
  <2>4. R # {}
    <3>1. [rest \in SUBSET Elements |-> NoValue] \in R
      BY DEF Found
    <3> QED
      BY <3>1
  <2>5. \A f, g \in [D -> R], n \in D :
           (\A m \in D : rank[m] < rank[n] => f[m] = g[m]) => step[f][n] = step[g][n]
    BY <1>2
  <2> HIDE DEF D, R, rank, N, step
  <2>6. Descends(step, D, R, rank, N)
    BY <2>1, <2>2, <2>3, <2>4, <2>5 DEF Descends
  <2> QED
    BY <2>6, RecursionHasSolution
<1>4. \E f : f = value_(f)
  BY <1>3
<1> DEFINE c == CHOOSE f : f = value_(f)
<1>5. supersetFrom(P) = c
  BY DEF supersetFrom, FromAt, FoundBelow
<1>6. c = value_(c)
  BY <1>4
<1> QED
  BY <1>5, <1>6

(* A node under n with all of rest beyond n is n itself, or lies under a   *)
(* child with all of rest beyond it, or under the child with the least of  *)
(* rest, with the others beyond that.                                      *)
LEMMA AboveSplits ==
    ASSUME Trie, NEW P, NEW n \in nodes, NEW rest \in SUBSET Elements
    PROVE  /\ rest = {} /\ EndsWith(n, P) => n \in Above(n, rest, P)
           /\ \A k \in Children(n) :
                 /\ Above(n \cup {k}, rest, P) \subseteq Above(n, rest, P)
                 /\ k \in rest => Above(n \cup {k}, rest \ {k}, P) \subseteq Above(n, rest, P)
           /\ \A m \in Above(n, rest, P) :
                 \/ m = n /\ rest = {} /\ EndsWith(n, P)
                 \/ \E k \in Children(n) : m \in Above(n \cup {k}, rest, P)
                 \/ /\ rest # {} /\ Least(rest) \in Children(n)
                    /\ m \in Above(n \cup {Least(rest)}, rest \ {Least(rest)}, P)
<1>1. rest = {} /\ EndsWith(n, P) => n \in Above(n, rest, P)
  BY DEF EndsWith, Above, Accepted, Before
<1>2. ASSUME NEW k \in Children(n), NEW T, NEW m \in Above(n \cup {k}, T, P)
      PROVE  /\ m \in Accepted(P) /\ n \subseteq m /\ k \in m \ n
             /\ Before(n, m \ n) /\ T \subseteq m \ n
  <2>1. k \notin n /\ \A e \in n : e < k
    BY <1>2, ChildIsNode
  <2> QED
    BY <1>2, <2>1 DEF Above, Before
<1>3. ASSUME NEW k \in Children(n)
      PROVE  /\ Above(n \cup {k}, rest, P) \subseteq Above(n, rest, P)
             /\ k \in rest => Above(n \cup {k}, rest \ {k}, P) \subseteq Above(n, rest, P)
  <2>1. ASSUME NEW m \in Above(n \cup {k}, rest, P)
        PROVE  m \in Above(n, rest, P)
    BY <1>2, <1>3, <2>1 DEF Above
  <2>2. ASSUME k \in rest, NEW m \in Above(n \cup {k}, rest \ {k}, P)
        PROVE  m \in Above(n, rest, P)
    <3>1. rest \ {k} \subseteq m \ n /\ k \in m \ n
      BY <1>2, <1>3, <2>2
    <3> QED
      BY <1>2, <1>3, <2>2, <3>1 DEF Above
  <2> QED
    BY <2>1, <2>2
<1>4. ASSUME NEW m \in Above(n, rest, P)
      PROVE  \/ m = n /\ rest = {} /\ EndsWith(n, P)
             \/ \E k \in Children(n) : m \in Above(n \cup {k}, rest, P)
             \/ /\ rest # {} /\ Least(rest) \in Children(n)
                /\ m \in Above(n \cup {Least(rest)}, rest \ {Least(rest)}, P)
  <2>1. m \in nodes /\ m \in Accepted(P) /\ n \subseteq m /\ Before(n, m \ n) /\ rest \subseteq m \ n
    BY <1>4 DEF Above, Accepted, Trie
  <2>2. CASE m = n
    BY <2>1, <2>2 DEF Accepted, EndsWith
  <2>3. CASE m # n
    <3> DEFINE k == Least(m \ n)
    <3>1. /\ k \in m \ n /\ \A e \in m \ n : k <= e
          /\ k \in Children(n)
          /\ Before(n \cup {k}, m \ (n \cup {k}))
      BY <2>1, <2>3, ChildOnWay
    <3> HIDE DEF k
    <3>2. n \cup {k} \subseteq m
      BY <2>1, <3>1
    <3>3. CASE k \notin rest
      <4>1. rest \subseteq m \ (n \cup {k})
        BY <2>1, <3>3
      <4> QED
        BY <2>1, <3>1, <3>2, <4>1 DEF Above
    <3>4. CASE k \in rest
      <4>1. Least(rest) \in rest /\ Least(rest) <= k
        BY <3>4, LeastIsLeast
      <4>2. k \in Int /\ Least(rest) \in Int /\ k <= Least(rest)
        BY <2>1, <3>1, <3>4, <4>1, TrieParameters
      <4>3. Least(rest) = k
        BY <4>1, <4>2
      <4>4. rest \ {k} \subseteq m \ (n \cup {k})
        BY <2>1
      <4> QED
        BY <2>1, <3>1, <3>2, <3>4, <4>3, <4>4 DEF Above
    <3> QED
      BY <3>3, <3>4
  <2> QED
    BY <2>2, <2>3
<1> QED
  BY <1>1, <1>3, <1>4

LEMMA FromRight ==
    ASSUME Trie, NEW P
    PROVE  \A n \in nodes, rest \in SUBSET Elements :
              Right(supersetFrom(P)[n][rest], Above(n, rest, P))
<1> DEFINE f == supersetFrom(P)
           depth(n) == Cardinality(Elements) - Cardinality(n)
           Claim(n) == \A rest \in SUBSET Elements : Right(f[n][rest], Above(n, rest, P))
           S == {i \in Nat : \A n \in nodes : depth(n) < i => Claim(n)}
<1>1. \A n \in nodes, rest \in SUBSET Elements : f[n][rest] = FromAt(f, n, rest, P)
  <2> HIDE DEF f
  <2>1. f = [n \in nodes |-> [rest \in SUBSET Elements |-> FromAt(f, n, rest, P)]]
    BY FromDef DEF f
  <2> QED
    BY <2>1
<1> HIDE DEF f
<1>2. ASSUME NEW n \in nodes, \A k \in Children(n) : Claim(n \cup {k}),
             NEW rest \in SUBSET Elements
      PROVE  Right(f[n][rest], Above(n, rest, P))
  <2> DEFINE below == FoundBelow(f, n, rest)
             least == Least(rest)
  <2>1. /\ rest = {} /\ EndsWith(n, P) => n \in Above(n, rest, P)
        /\ \A k \in Children(n) :
              /\ Above(n \cup {k}, rest, P) \subseteq Above(n, rest, P)
              /\ k \in rest => Above(n \cup {k}, rest \ {k}, P) \subseteq Above(n, rest, P)
        /\ \A m \in Above(n, rest, P) :
              \/ m = n /\ rest = {} /\ EndsWith(n, P)
              \/ \E k \in Children(n) : m \in Above(n \cup {k}, rest, P)
              \/ /\ rest # {} /\ least \in Children(n)
                 /\ m \in Above(n \cup {least}, rest \ {least}, P)
    BY AboveSplits
  <2>2. \A k \in Children(n), T \in SUBSET Elements :
           Right(f[n \cup {k}][T], Above(n \cup {k}, T, P))
    BY <1>2
  <2>3. \A k \in Children(n) : \A T : NoValue \notin Above(n \cup {k}, T, P)
    BY TrieParameters DEF Above, Accepted, Trie
  <2>4. CASE rest = {} /\ EndsWith(n, P)
    <3>1. f[n][rest] = n
      BY <1>1, <2>4 DEF FromAt
    <3> QED
      BY <2>1, <2>4, <3>1 DEF Right
  <2>5. CASE ~(rest = {} /\ EndsWith(n, P)) /\ below # {}
    <3>1. f[n][rest] = f[n \cup {Least(below)}][rest]
      BY <1>1, <2>5 DEF FromAt
    <3>2. Least(below) \in Children(n) /\ f[n \cup {Least(below)}][rest] # NoValue
      <4>1. Least(below) \in below
        BY <2>5, LeastBelow
      <4> QED
        BY <4>1 DEF FoundBelow
    <3> HIDE DEF below
    <3>3. f[n \cup {Least(below)}][rest] \in Above(n \cup {Least(below)}, rest, P)
      BY <2>2, <3>2 DEF Right
    <3> QED
      BY <2>1, <3>1, <3>2, <3>3 DEF Right
  <2>6. CASE ~(rest = {} /\ EndsWith(n, P)) /\ below = {}
    <3>1. f[n][rest] = IF rest # {} /\ least \in Children(n)
                       THEN f[n \cup {least}][rest \ {least}] ELSE NoValue
      BY <1>1, <2>6 DEF FromAt
    <3>2. \A k \in Children(n) : Above(n \cup {k}, rest, P) = {}
      BY <2>2, <2>3, <2>6 DEF FoundBelow, Right
    <3>3. CASE rest # {} /\ least \in Children(n)
      <4>1. least \in rest
        BY <3>3, LeastIsLeast
      <4>2. Above(n, rest, P) = Above(n \cup {least}, rest \ {least}, P)
        BY <2>1, <2>6, <3>2, <3>3, <4>1
      <4>3. Right(f[n \cup {least}][rest \ {least}], Above(n \cup {least}, rest \ {least}, P))
        BY <2>2, <3>3
      <4> QED
        BY <3>1, <3>3, <4>2, <4>3
    <3>4. CASE ~(rest # {} /\ least \in Children(n))
      <4>1. Above(n, rest, P) = {}
        BY <2>1, <2>6, <3>2, <3>4
      <4> QED
        BY <3>1, <3>4, <4>1 DEF Right
    <3> QED
      BY <3>3, <3>4
  <2> QED
    BY <2>4, <2>5, <2>6
<1>3. \A n \in nodes : depth(n) \in Nat
  BY ChildIsDeeper
<1>4. 0 \in S
  BY <1>3
<1>5. ASSUME NEW i \in S
      PROVE  i + 1 \in S
  <2>1. i \in Nat /\ \A n \in nodes : depth(n) < i => Claim(n)
    OBVIOUS
  <2> HIDE DEF S
  <2>2. ASSUME NEW n \in nodes, depth(n) < i + 1
        PROVE  Claim(n)
    <3>1. ASSUME NEW k \in Children(n)
          PROVE  Claim(n \cup {k})
      <4>1. n \cup {k} \in nodes /\ depth(n \cup {k}) < depth(n)
        BY ChildIsNode, ChildIsDeeper
      <4>2. depth(n \cup {k}) \in Nat /\ depth(n) \in Nat
        BY <1>3, <4>1
      <4> HIDE DEF depth, Claim
      <4>3. depth(n \cup {k}) < i
        BY <2>1, <2>2, <4>1, <4>2
      <4> QED
        BY <2>1, <4>1, <4>3
    <3> QED
      BY <1>2, <3>1
  <2> HIDE DEF Claim
  <2> QED
    BY <2>1, <2>2 DEF S
<1>6. S = Nat
  <2> HIDE DEF S
  <2> QED
    BY <1>4, <1>5, SetInduction DEF S
<1>7. \A n \in nodes : Claim(n)
  <2> SUFFICES ASSUME NEW n \in nodes PROVE Claim(n)
    OBVIOUS
  <2> HIDE DEF Claim, depth
  <2>1. depth(n) \in Nat /\ depth(n) + 1 \in S
    BY <1>3, <1>6
  <2> QED
    BY <2>1
<1> QED
  BY <1>7 DEF f

(* findSuperset finds an accepted superset if there is one. *)
LEMMA FindSupersetRight ==
    ASSUME Trie, NEW P, NEW T \in SUBSET Elements
    PROVE  Right(findSuperset(T, P), {n \in Accepted(P) : T \subseteq n})
<1>1. Above(root, T, P) = {n \in Accepted(P) : T \subseteq n}
  BY DEF Above, root, Before
<1>2. root \in nodes
  BY DEF Trie
<1> QED
  BY <1>1, <1>2, FromRight DEF findSuperset

-----------------------------------------------------------------------------
(* The trie always has every node on the way to its sets, and its searches *)
(* always find a value under a set, a subset or a superset of a set        *)
(* exactly if there is one (lookup, findSubset and findSuperset).          *)
THEOREM TrieSearchesRight == TrieSpec => [](Trie /\ SearchesRight)
<1>1. Trie => SearchesRight
  <2> SUFFICES ASSUME Trie, NEW P \in SUBSET Assignments, NEW S \in SUBSET Elements
               PROVE  /\ Right(lookupSet(S), {S} \cap DOMAIN value)
                      /\ Right(findSubset(S, P), {n \in Accepted(P) : n \subseteq S})
                      /\ Right(findSuperset(S, P), {n \in Accepted(P) : S \subseteq n})
    BY DEF SearchesRight, Accepted, Right
  <2>1. Right(lookupSet(S), {S} \cap DOMAIN value)
    BY DEF Right, lookupSet
  <2> QED
    BY <2>1, FindSubsetRight, FindSupersetRight
<1>2. TrieInit => Trie
  BY InitTrie
<1>3. Trie /\ [TrieNext]_trieVars => Trie'
  BY NextKeepsTrie
<1> QED
  BY <1>1, <1>2, <1>3, PTL DEF TrieSpec

-----------------------------------------------------------------------------
(* ImmutableTree.  Heaps.                                                  *)

Nodes ==
    [left : Nat, right : Nat, value : Entries \cup {<< >>}, references : Int, height : Nat]

(* The pointers of h lead to nodes in it, and downwards. *)
Heap(h) ==
    /\ DOMAIN h \subseteq Nat /\ IsFiniteSet(DOMAIN h)
    /\ h \in [DOMAIN h -> Nodes]
    /\ Terminator \in DOMAIN h
    /\ h[Terminator].left = Terminator /\ h[Terminator].right = Terminator
    /\ h[Terminator].height = 0
    /\ \A n \in DOMAIN h : h[n].left \in DOMAIN h /\ h[n].right \in DOMAIN h
    /\ \A n \in DOMAIN h \ {Terminator} :
          /\ h[n].value \in Entries
          /\ h[n].height = Larger(h[h[n].left].height, h[h[n].right].height) + 1

Height(h) == [n \in DOMAIN h |-> h[n].height]

LEMMA HeightsDescend ==
    ASSUME NEW h, Heap(h)
    PROVE  /\ Height(h) \in [DOMAIN h -> Nat]
           /\ \A n \in DOMAIN h : h[n].height \in Nat
           /\ \A n \in DOMAIN h \ {Terminator} :
                 /\ h[h[n].left].height < h[n].height
                 /\ h[h[n].right].height < h[n].height
<1>1. \A n \in DOMAIN h : h[n] \in Nodes
  BY DEF Heap
<1>2. \A n \in DOMAIN h : h[n].height \in Nat
  BY <1>1 DEF Nodes
<1>3. \A n \in DOMAIN h \ {Terminator} :
         /\ h[h[n].left].height \in Nat /\ h[h[n].right].height \in Nat
         /\ h[n].height = Larger(h[h[n].left].height, h[h[n].right].height) + 1
  BY <1>2 DEF Heap
<1> QED
  BY <1>2, <1>3 DEF Height, Larger

LEMMA HeightsBounded ==
    ASSUME NEW h, Heap(h)
    PROVE  \E N \in Nat : \A n \in DOMAIN h : h[n].height < N
<1> DEFINE T == {h[n].height : n \in DOMAIN h}
<1>1. \A n \in DOMAIN h : h[n].height \in Nat
  BY HeightsDescend
<1>2. IsFiniteSet(T)
  <2>1. IsFiniteSet(DOMAIN h)
    BY DEF Heap
  <2> HIDE DEF T
  <2> QED
    <3>1. [n \in DOMAIN h |-> h[n].height] \in Surjection(DOMAIN h, T)
      BY DEF Surjection, T
    <3> QED
      BY <2>1, <3>1, FS_Surjection
<1>3. T # {}
  BY DEF Heap
<1>4. T \in SUBSET Int
  BY <1>1
<1>5. PICK t \in T : \A k \in T : k <= t
  BY <1>2, <1>3, <1>4, FiniteEnds
<1>6. t + 1 \in Nat
  BY <1>1
<1>7. \A n \in DOMAIN h : h[n].height < t + 1
  BY <1>1, <1>5, <1>6
<1> QED
  BY <1>6, <1>7

(* What holds of the nodes below holds of a node: induction on heights. *)
LEMMA HeapInduction ==
    ASSUME NEW h, Heap(h), NEW T \in SUBSET DOMAIN h, Terminator \in T,
           \A n \in DOMAIN h \ {Terminator} : h[n].left \in T /\ h[n].right \in T => n \in T
    PROVE  T = DOMAIN h
<1>1. ASSUME NEW n \in DOMAIN h, \A m \in DOMAIN h : Height(h)[m] < Height(h)[n] => m \in T
      PROVE  n \in T
  <2>1. CASE n = Terminator
    BY <2>1
  <2>2. CASE n # Terminator
    <3>1. h[n].left \in DOMAIN h /\ h[n].right \in DOMAIN h
      BY DEF Heap
    <3>2. h[n].left \in T /\ h[n].right \in T
      BY <1>1, <2>2, <3>1, HeightsDescend DEF Height
    <3> QED
      BY <2>2, <3>2
  <2> QED
    BY <2>1, <2>2
<1> QED
  BY <1>1, HeightsDescend, RankInduction

(* A function on nodes that looks only at the values below a node. *)
LooksBelow(step, h, R) ==
    /\ R # {}
    /\ step \in [[DOMAIN h -> R] -> [DOMAIN h -> R]]
    /\ \A f, g \in [DOMAIN h -> R] : step[f][Terminator] = step[g][Terminator]
    /\ \A f, g \in [DOMAIN h -> R], n \in DOMAIN h \ {Terminator} :
          f[h[n].left] = g[h[n].left] /\ f[h[n].right] = g[h[n].right] => step[f][n] = step[g][n]

LEMMA HeapRecursion ==
    ASSUME NEW h, Heap(h), NEW R, NEW step, LooksBelow(step, h, R)
    PROVE  \E f \in [DOMAIN h -> R] : step[f] = f
<1> USE DEF LooksBelow
<1>1. PICK N \in Nat : \A n \in DOMAIN h : h[n].height < N
  BY HeightsBounded
<1>2. ASSUME NEW f \in [DOMAIN h -> R], NEW g \in [DOMAIN h -> R], NEW n \in DOMAIN h,
             \A m \in DOMAIN h : Height(h)[m] < Height(h)[n] => f[m] = g[m]
      PROVE  step[f][n] = step[g][n]
  <2>1. CASE n = Terminator
    BY <2>1
  <2>2. CASE n # Terminator
    <3>1. h[n].left \in DOMAIN h /\ h[n].right \in DOMAIN h
      BY DEF Heap
    <3>2. f[h[n].left] = g[h[n].left] /\ f[h[n].right] = g[h[n].right]
      BY <1>2, <2>2, <3>1, HeightsDescend DEF Height
    <3> QED
      BY <2>2, <3>2
  <2> QED
    BY <2>1, <2>2
<1>3. \A n \in DOMAIN h : Height(h)[n] < N
  BY <1>1 DEF Height
<1>4. Descends(step, DOMAIN h, R, Height(h), N)
  BY <1>2, <1>3, HeightsDescend DEF Descends
<1> QED
  BY <1>4, RecursionHasSolution

-----------------------------------------------------------------------------
(* Subtrees. *)

LEMMA SubtreeDef ==
    ASSUME NEW h, Heap(h)
    PROVE  \A n \in DOMAIN h :
              Subtree(h, n) = IF n = Terminator THEN {}
                              ELSE {n} \cup Subtree(h, h[n].left) \cup Subtree(h, h[n].right)
<1> DEFINE Body(f, n) == IF isTerminator(n) THEN {} ELSE {n} \cup f[h[n].left] \cup f[h[n].right]
           below == CHOOSE f : f = [n \in DOMAIN h |-> Body(f, n)]
           R == SUBSET DOMAIN h
           step == [f \in [DOMAIN h -> R] |-> [n \in DOMAIN h |-> Body(f, n)]]
<1>1. /\ Terminator \in DOMAIN h
      /\ \A n \in DOMAIN h : h[n].left \in DOMAIN h /\ h[n].right \in DOMAIN h
  BY DEF Heap
<1>2. \A f \in [DOMAIN h -> R] : step[f] = [n \in DOMAIN h |-> Body(f, n)]
  OBVIOUS
<1>3. \A f \in [DOMAIN h -> R], n \in DOMAIN h : Body(f, n) \in R
  BY <1>1
<1>4. step \in [[DOMAIN h -> R] -> [DOMAIN h -> R]]
  BY <1>3
<1>5. \A f \in [DOMAIN h -> R], n \in DOMAIN h : step[f][n] = Body(f, n)
  <2> HIDE DEF Body, step
  <2> QED
    BY <1>2
<1>6. \E f \in [DOMAIN h -> R] : step[f] = f
  <2>1. \A f, g \in [DOMAIN h -> R] : step[f][Terminator] = step[g][Terminator]
    <3>1. \A f \in [DOMAIN h -> R] : Body(f, Terminator) = {}
      BY DEF isTerminator
    <3> HIDE DEF Body, step
    <3> QED
      BY <1>1, <1>5, <3>1
  <2>2. \A f, g \in [DOMAIN h -> R], n \in DOMAIN h \ {Terminator} :
           f[h[n].left] = g[h[n].left] /\ f[h[n].right] = g[h[n].right] => step[f][n] = step[g][n]
    <3>1. \A f, g \in [DOMAIN h -> R], n \in DOMAIN h \ {Terminator} :
           f[h[n].left] = g[h[n].left] /\ f[h[n].right] = g[h[n].right] => Body(f, n) = Body(g, n)
      OBVIOUS
    <3> HIDE DEF Body, step
    <3> QED
      BY <1>5, <3>1
  <2>3. R # {}
    OBVIOUS
  <2> HIDE DEF step, R
  <2>4. LooksBelow(step, h, R)
    BY <1>4, <2>1, <2>2, <2>3 DEF LooksBelow
  <2> QED
    BY <2>4, HeapRecursion
<1>7. \E f : f = [n \in DOMAIN h |-> Body(f, n)]
  BY <1>2, <1>6
<1>8. below = [n \in DOMAIN h |-> Body(below, n)]
  <2> HIDE DEF Body
  <2> QED
    BY <1>7
<1>9. \A n \in DOMAIN h : Subtree(h, n) = below[n]
  BY DEF Subtree
<1>10. \A n \in DOMAIN h : below[n] = Body(below, n)
  <2> HIDE DEF below, Body
  <2> QED
    BY <1>8
<1> HIDE DEF below
<1> QED
  BY <1>1, <1>9, <1>10 DEF isTerminator

(* Sets are finite that pick nodes of a heap. *)

(* g has the nodes of h, and perhaps others; they may count other          *)
(* references.                                                             *)
SameNode(a, b) == a.left = b.left /\ a.right = b.right /\ a.value = b.value /\ a.height = b.height

Extends(h, g) == DOMAIN h \subseteq DOMAIN g /\ \A n \in DOMAIN h : SameNode(h[n], g[n])

LEMMA ExtendsTransitive ==
    ASSUME NEW h, NEW g, NEW k, Extends(h, g), Extends(g, k)
    PROVE  Extends(h, k)
BY DEF Extends, SameNode

LEMMA SubtreeSame ==
    ASSUME NEW h, NEW g, Heap(h), Heap(g), Extends(h, g)
    PROVE  \A n \in DOMAIN h : Subtree(h, n) \subseteq DOMAIN h /\ Subtree(g, n) = Subtree(h, n)
<1> DEFINE T == {n \in DOMAIN h : Subtree(h, n) \subseteq DOMAIN h /\ Subtree(g, n) = Subtree(h, n)}
<1>1. /\ Terminator \in DOMAIN h /\ Terminator \in DOMAIN g
      /\ \A n \in DOMAIN h : h[n].left \in DOMAIN h /\ h[n].right \in DOMAIN h
  BY DEF Heap
<1>2. \A n \in DOMAIN h : n \in DOMAIN g /\ h[n].left = g[n].left /\ h[n].right = g[n].right
  BY DEF Extends, SameNode
<1>3. Terminator \in T
  BY <1>1, SubtreeDef
<1>4. ASSUME NEW n \in DOMAIN h \ {Terminator}, h[n].left \in T /\ h[n].right \in T
      PROVE  n \in T
  <2>1. Subtree(h, n) = {n} \cup Subtree(h, h[n].left) \cup Subtree(h, h[n].right)
    BY SubtreeDef
  <2>2. Subtree(g, n) = {n} \cup Subtree(g, g[n].left) \cup Subtree(g, g[n].right)
    BY <1>2, SubtreeDef
  <2> QED
    BY <1>2, <1>4, <2>1, <2>2
<1>5. T = DOMAIN h
  <2>1. T \in SUBSET DOMAIN h
    OBVIOUS
  <2> HIDE DEF T
  <2> QED
    BY <1>3, <1>4, <2>1, HeapInduction
<1> QED
  BY <1>5

LEMMA ContentSame ==
    ASSUME NEW h, NEW g, Heap(h), Heap(g), Extends(h, g)
    PROVE  \A n \in DOMAIN h : Content(g, n) = Content(h, n)
<1> SUFFICES ASSUME NEW n \in DOMAIN h
             PROVE  Content(g, n) = Content(h, n)
  OBVIOUS
<1>1. Subtree(h, n) \subseteq DOMAIN h /\ Subtree(g, n) = Subtree(h, n)
  BY SubtreeSame
<1>2. \A a \in DOMAIN h : h[a].value = g[a].value
  BY DEF Extends, SameNode
<1> QED
  BY <1>1, <1>2 DEF Content

LEMMA SubtreeInHeap ==
    ASSUME NEW h, Heap(h), NEW n \in DOMAIN h
    PROVE  Subtree(h, n) \subseteq DOMAIN h \ {Terminator}
<1> DEFINE T == {a \in DOMAIN h : Subtree(h, a) \subseteq DOMAIN h \ {Terminator}}
<1>1. Terminator \in DOMAIN h
  BY DEF Heap
<1>2. Terminator \in T
  BY <1>1, SubtreeDef
<1>3. ASSUME NEW a \in DOMAIN h \ {Terminator}, h[a].left \in T /\ h[a].right \in T
      PROVE  a \in T
  <2>1. Subtree(h, a) = {a} \cup Subtree(h, h[a].left) \cup Subtree(h, h[a].right)
    BY SubtreeDef
  <2> QED
    BY <1>3, <2>1
<1>4. T = DOMAIN h
  <2>1. T \in SUBSET DOMAIN h
    OBVIOUS
  <2> HIDE DEF T
  <2> QED
    BY <1>2, <1>3, <2>1, HeapInduction
<1> QED
  BY <1>4

LEMMA ContentDef ==
    ASSUME NEW h, Heap(h), NEW n \in DOMAIN h
    PROVE  /\ Content(h, n) = IF n = Terminator THEN {}
                              ELSE {h[n].value} \cup Content(h, h[n].left) \cup Content(h, h[n].right)
           /\ Content(h, n) \subseteq Entries
<1>1. Subtree(h, n) = IF n = Terminator THEN {}
                      ELSE {n} \cup Subtree(h, h[n].left) \cup Subtree(h, h[n].right)
  BY SubtreeDef
<1>2. \A a \in Subtree(h, n) : h[a].value \in Entries
  BY SubtreeInHeap DEF Heap
<1> QED
  BY <1>1, <1>2 DEF Content

-----------------------------------------------------------------------------
(* Reference counts. *)

One(a, n) == IF a = n THEN 1 ELSE 0

Plus(e, n) == [a \in Nat |-> e[a] + One(a, n)]

Minus(e, n) == [a \in Nat |-> e[a] - One(a, n)]

(* The pointers to n from nodes. *)
Pointers(h, n) ==
    Cardinality({a \in DOMAIN h : h[a].left = n}) + Cardinality({a \in DOMAIN h : h[a].right = n})

(* e[n] pointers lead to n from outside of the heap. *)
Owns(h, e) ==
    /\ e \in [Nat -> Nat]
    /\ \A n \in DOMAIN h :
          /\ h[n].references > 0
          /\ h[n].references = Pointers(h, n) + e[n] + One(n, Terminator)
    /\ \A n \in Nat \ DOMAIN h : e[n] = 0

(* What a new node may be made of. *)
Fits(h, left, entry, right) ==
    /\ \A x \in Content(h, left) : x[1] < entry[1]
    /\ \A x \in Content(h, right) : entry[1] < x[1]
    /\ h[left].height - h[right].height \in -2 .. 2

Shaped(h) == \A n \in DOMAIN h \ {Terminator} : Fits(h, h[n].left, h[n].value, h[n].right)

Good(h, e) == Heap(h) /\ Owns(h, e) /\ Shaped(h)

LEMMA PlusMinus ==
    ASSUME NEW e \in [Nat -> Nat], NEW n \in Nat
    PROVE  /\ Plus(e, n) \in [Nat -> Nat]
           /\ \A a \in Nat : Plus(e, n)[a] = e[a] + One(a, n)
           /\ \A a \in Nat : Minus(e, n)[a] = e[a] - One(a, n)
           /\ e[n] > 0 => Minus(e, n) \in [Nat -> Nat]
<1>1. \A a \in Nat : e[a] \in Nat /\ One(a, n) \in Nat
  BY DEF One
<1>2. e[n] > 0 => \A a \in Nat : e[a] - One(a, n) \in Nat
  BY DEF One
<1> QED
  BY <1>1, <1>2 DEF Plus, Minus

LEMMA PointersFinite ==
    ASSUME NEW h, Heap(h), NEW n
    PROVE  /\ IsFiniteSet({a \in DOMAIN h : h[a].left = n})
           /\ IsFiniteSet({a \in DOMAIN h : h[a].right = n})
           /\ Pointers(h, n) \in Nat
<1>1. IsFiniteSet(DOMAIN h)
  BY DEF Heap
<1>2. IsFiniteSet({a \in DOMAIN h : h[a].left = n}) /\ IsFiniteSet({a \in DOMAIN h : h[a].right = n})
  BY <1>1, FS_Subset
<1> QED
  BY <1>2, FS_CardinalityType DEF Pointers

(* The shape of a heap is that of the heaps it extends or is part of. *)
LEMMA ShapeSame ==
    ASSUME NEW h, NEW g, Heap(h), Heap(g), Extends(h, g), Shaped(g)
    PROVE  Shaped(h)
<1> SUFFICES ASSUME NEW n \in DOMAIN h \ {Terminator}
             PROVE  Fits(h, h[n].left, h[n].value, h[n].right)
  BY DEF Shaped
<1>1. h[n].left \in DOMAIN h /\ h[n].right \in DOMAIN h
  BY DEF Heap
<1>2. /\ n \in DOMAIN g /\ g[n].left = h[n].left /\ g[n].right = h[n].right /\ g[n].value = h[n].value
      /\ \A a \in DOMAIN h : g[a].height = h[a].height
  BY DEF Extends, SameNode
<1>3. \A a \in DOMAIN h : Content(g, a) = Content(h, a)
  BY ContentSame
<1>4. Fits(g, h[n].left, h[n].value, h[n].right)
  BY <1>2 DEF Shaped
<1> QED
  BY <1>1, <1>2, <1>3, <1>4 DEF Fits

LEMMA IncrefGood ==
    ASSUME NEW h, NEW e, Good(h, e), NEW n \in DOMAIN h
    PROVE  /\ Good(incref(h, n), Plus(e, n))
           /\ Extends(h, incref(h, n)) /\ Extends(incref(h, n), h)
<1> DEFINE g == incref(h, n)
<1>1. Heap(h) /\ Owns(h, e) /\ Shaped(h)
  BY DEF Good
<1>2. n \in Nat /\ \A a \in DOMAIN h : h[a] \in Nodes
  BY <1>1 DEF Heap
<1>3. /\ DOMAIN g = DOMAIN h
      /\ \A a \in DOMAIN h : /\ g[a] \in Nodes /\ SameNode(h[a], g[a]) /\ SameNode(g[a], h[a])
                             /\ g[a].references = h[a].references + One(a, n)
  <2> SUFFICES ASSUME NEW a \in DOMAIN h
               PROVE  /\ g[a] \in Nodes /\ SameNode(h[a], g[a]) /\ SameNode(g[a], h[a])
                      /\ g[a].references = h[a].references + One(a, n)
    BY DEF incref
  <2>1. CASE a = n
    BY <1>2, <2>1 DEF incref, Nodes, SameNode, One
  <2>2. CASE a # n
    BY <1>2, <2>2 DEF incref, Nodes, SameNode, One
  <2> QED
    BY <2>1, <2>2
<1>4. g = [a \in DOMAIN g |-> g[a]]
  BY DEF incref
<1> HIDE DEF g
<1>5. Extends(h, g) /\ Extends(g, h)
  BY <1>3 DEF Extends
<1>6. g \in [DOMAIN g -> Nodes]
  BY <1>3, <1>4
<1>7. Heap(g)
  <2>1. \A a \in DOMAIN h : /\ g[a].left = h[a].left /\ g[a].right = h[a].right
                            /\ g[a].value = h[a].value /\ g[a].height = h[a].height
    BY <1>3 DEF SameNode
  <2>2. /\ DOMAIN g \subseteq Nat /\ IsFiniteSet(DOMAIN g) /\ Terminator \in DOMAIN g
        /\ g[Terminator].left = Terminator /\ g[Terminator].right = Terminator
        /\ g[Terminator].height = 0
    BY <1>1, <1>3, <2>1 DEF Heap
  <2>3. \A a \in DOMAIN g : g[a].left \in DOMAIN g /\ g[a].right \in DOMAIN g
    BY <1>1, <1>3, <2>1 DEF Heap
  <2>4. ASSUME NEW a \in DOMAIN g \ {Terminator}
        PROVE  /\ g[a].value \in Entries
               /\ g[a].height = Larger(g[g[a].left].height, g[g[a].right].height) + 1
    <3>1. /\ h[a].value \in Entries /\ h[a].left \in DOMAIN h /\ h[a].right \in DOMAIN h
          /\ h[a].height = Larger(h[h[a].left].height, h[h[a].right].height) + 1
      BY <1>1, <1>3 DEF Heap
    <3> QED
      BY <1>3, <2>1, <3>1
  <2> QED
    BY <1>6, <2>2, <2>3, <2>4 DEF Heap
<1>8. Owns(g, Plus(e, n))
  <2>1. e \in [Nat -> Nat]
    BY <1>1 DEF Owns
  <2>2. \A a : Pointers(g, a) = Pointers(h, a)
    <3>1. \A a : /\ {b \in DOMAIN g : g[b].left = a} = {b \in DOMAIN h : h[b].left = a}
                 /\ {b \in DOMAIN g : g[b].right = a} = {b \in DOMAIN h : h[b].right = a}
      BY <1>3 DEF SameNode
    <3> QED
      BY <3>1 DEF Pointers
  <2>3. ASSUME NEW a \in DOMAIN h
        PROVE  /\ g[a].references > 0
               /\ g[a].references = Pointers(g, a) + Plus(e, n)[a] + One(a, Terminator)
    <3>1. h[a].references > 0 /\ h[a].references \in Int /\ e[a] \in Nat /\ a \in Nat
      <4>1. h[a] \in Nodes /\ a \in Nat
        BY <1>1, <1>2 DEF Heap
      <4> QED
        BY <1>1, <2>1, <4>1 DEF Owns, Nodes
    <3>2. h[a].references = Pointers(h, a) + e[a] + One(a, Terminator)
      BY <1>1 DEF Owns
    <3>3. Pointers(h, a) \in Nat
      BY <1>1, PointersFinite
    <3>4. Plus(e, n)[a] = e[a] + One(a, n)
      BY <1>2, <2>1, <3>1, PlusMinus
    <3>5. g[a].references = h[a].references + One(a, n)
      BY <1>3
    <3>6. One(a, n) \in {0, 1} /\ One(a, Terminator) \in {0, 1}
      BY DEF One
    <3> QED
      BY <2>2, <3>1, <3>2, <3>3, <3>4, <3>5, <3>6
  <2>4. \A a \in Nat \ DOMAIN g : Plus(e, n)[a] = 0
    <3> SUFFICES ASSUME NEW a \in Nat \ DOMAIN g PROVE Plus(e, n)[a] = 0
      OBVIOUS
    <3>1. e[a] = 0 /\ a # n
      BY <1>1, <1>3 DEF Owns
    <3>2. Plus(e, n)[a] = e[a] + One(a, n)
      BY <1>2, <2>1, PlusMinus
    <3> QED
      BY <3>1, <3>2 DEF One
  <2> QED
    BY <1>2, <1>3, <2>1, <2>3, <2>4, PlusMinus DEF Owns
<1>9. Shaped(g)
  BY <1>1, <1>5, <1>7, ShapeSame
<1> QED
  BY <1>5, <1>7, <1>8, <1>9 DEF Good, g

LEMMA UnusedIsNew ==
    ASSUME NEW h, Heap(h)
    PROVE  Unused(h) \in Nat /\ Unused(h) \notin DOMAIN h
<1> DEFINE C == Cardinality(DOMAIN h)
<1>1. IsFiniteSet(DOMAIN h) /\ Terminator \in DOMAIN h /\ C \in Nat
  BY FS_CardinalityType DEF Heap
<1>2. \E a \in 1 .. C : a \notin DOMAIN h
  <2> SUFFICES ASSUME \A a \in 1 .. C : a \in DOMAIN h
               PROVE  FALSE
    OBVIOUS
  <2>1. IsFiniteSet(DOMAIN h \ {Terminator}) /\ Cardinality(DOMAIN h \ {Terminator}) = C - 1
    BY <1>1, FS_RemoveElement
  <2>2. 1 .. C \in SUBSET (DOMAIN h \ {Terminator})
    BY DEF Terminator
  <2>3. Cardinality(1 .. C) <= C - 1
    BY <2>1, <2>2, FS_Subset
  <2>4. Cardinality(1 .. C) = C
    <3>1. Cardinality(1 .. C) = IF 1 > C THEN 0 ELSE C - 1 + 1
      BY <1>1, FS_Interval
    <3> QED
      BY <1>1, <3>1
  <2> QED
    BY <1>1, <2>3, <2>4
<1> QED
  BY <1>1, <1>2 DEF Unused

LEMMA PointersAdded ==
    ASSUME NEW h, Heap(h), NEW g, NEW x, x \notin DOMAIN h, DOMAIN g = DOMAIN h \cup {x},
           \A a \in DOMAIN h : g[a] = h[a], NEW n
    PROVE  Pointers(g, n) = Pointers(h, n) + One(n, g[x].left) + One(n, g[x].right)
<1> DEFINE L == {a \in DOMAIN h : h[a].left = n}
           R == {a \in DOMAIN h : h[a].right = n}
<1>1. IsFiniteSet(L) /\ IsFiniteSet(R) /\ Cardinality(L) \in Nat /\ Cardinality(R) \in Nat
  BY PointersFinite, FS_CardinalityType
<1>2. Cardinality({a \in DOMAIN g : g[a].left = n}) = Cardinality(L) + One(n, g[x].left)
  <2>1. CASE n = g[x].left
    <3>1. {a \in DOMAIN g : g[a].left = n} = L \cup {x}
      BY <2>1
    <3>2. x \notin L
      OBVIOUS
    <3> HIDE DEF L
    <3>3. Cardinality(L \cup {x}) = Cardinality(L) + 1
      BY <1>1, <3>2, FS_AddElement
    <3> QED
      BY <2>1, <3>1, <3>3 DEF One
  <2>2. CASE n # g[x].left
    <3>1. {a \in DOMAIN g : g[a].left = n} = L
      BY <2>2
    <3>2. One(n, g[x].left) = 0
      BY <2>2 DEF One
    <3>3. Cardinality(L) + 0 = Cardinality(L)
      <4> HIDE DEF L
      <4> QED
        BY <1>1
    <3> QED
      BY <3>1, <3>2, <3>3
  <2> QED
    BY <2>1, <2>2
<1>3. Cardinality({a \in DOMAIN g : g[a].right = n}) = Cardinality(R) + One(n, g[x].right)
  <2>1. CASE n = g[x].right
    <3>1. {a \in DOMAIN g : g[a].right = n} = R \cup {x}
      BY <2>1
    <3>2. x \notin R
      OBVIOUS
    <3> HIDE DEF R
    <3>3. Cardinality(R \cup {x}) = Cardinality(R) + 1
      BY <1>1, <3>2, FS_AddElement
    <3> QED
      BY <2>1, <3>1, <3>3 DEF One
  <2>2. CASE n # g[x].right
    <3>1. {a \in DOMAIN g : g[a].right = n} = R
      BY <2>2
    <3>2. One(n, g[x].right) = 0
      BY <2>2 DEF One
    <3>3. Cardinality(R) + 0 = Cardinality(R)
      <4> HIDE DEF R
      <4> QED
        BY <1>1
    <3> QED
      BY <3>1, <3>2, <3>3
  <2> QED
    BY <2>1, <2>2
<1>4. One(n, g[x].left) \in Nat /\ One(n, g[x].right) \in Nat
  BY DEF One
<1>5. Pointers(h, n) = Cardinality(L) + Cardinality(R)
  BY DEF Pointers
<1> HIDE DEF L, R
<1> QED
  BY <1>1, <1>2, <1>3, <1>4, <1>5 DEF Pointers

(* What new Node returns, made of left, value and right. *)
Made(h, left, entry, right, q) ==
    /\ q.node \in DOMAIN q.heap /\ q.node # Terminator /\ q.node \notin DOMAIN h
    /\ q.heap[q.node].left = left /\ q.heap[q.node].right = right /\ q.heap[q.node].value = entry
    /\ q.heap[q.node].height = Larger(h[left].height, h[right].height) + 1
    /\ Content(q.heap, q.node) = {entry} \cup Content(h, left) \cup Content(h, right)

LEMMA NewNodeGood ==
    ASSUME NEW h, NEW e, Good(h, e), NEW left \in DOMAIN h, NEW right \in DOMAIN h, NEW entry \in Entries,
           Fits(h, left, entry, right), e[left] > 0, Minus(e, left)[right] > 0
    PROVE  LET q == NewNode(h, left, right, entry)
           IN  /\ Good(q.heap, Plus(Minus(Minus(e, left), right), q.node))
               /\ Extends(h, q.heap)
               /\ Made(h, left, entry, right, q)
<1> DEFINE x == Unused(h)
           new == [left |-> left, right |-> right, value |-> entry, references |-> 1,
                   height |-> Larger(h[left].height, h[right].height) + 1]
           g == [a \in DOMAIN h \cup {x} |-> IF a = x THEN new ELSE h[a]]
           f == Plus(Minus(Minus(e, left), right), x)
<1>1. Heap(h) /\ Owns(h, e) /\ Shaped(h)
  BY DEF Good
<1>2. x \in Nat /\ x \notin DOMAIN h
  BY <1>1, UnusedIsNew
<1>3. NewNode(h, left, right, entry).heap = g /\ NewNode(h, left, right, entry).node = x
  BY DEF NewNode
<1> HIDE DEF x
<1>4. /\ DOMAIN h \subseteq Nat /\ Terminator \in DOMAIN h /\ IsFiniteSet(DOMAIN h)
      /\ \A a \in DOMAIN h : h[a] \in Nodes /\ h[a].height \in Nat
      /\ \A a \in DOMAIN h : h[a].left \in DOMAIN h /\ h[a].right \in DOMAIN h
      /\ left \in Nat /\ right \in Nat
  BY <1>1, HeightsDescend DEF Heap
<1>5. new \in Nodes
  <2>1. Larger(h[left].height, h[right].height) + 1 \in Nat
    <3>1. h[left].height \in Nat /\ h[right].height \in Nat
      BY <1>4
    <3> QED
      BY <3>1 DEF Larger
  <2> QED
    BY <1>4, <2>1 DEF Nodes
<1>6. /\ DOMAIN g = DOMAIN h \cup {x} /\ g[x] = new /\ \A a \in DOMAIN h : g[a] = h[a]
      /\ g \in [DOMAIN g -> Nodes]
  BY <1>2, <1>4, <1>5
<1>7. /\ new.left = left /\ new.right = right /\ new.value = entry /\ new.references = 1
      /\ new.height = Larger(h[left].height, h[right].height) + 1
  OBVIOUS
<1> HIDE DEF g, new
<1>8. Extends(h, g)
  BY <1>6 DEF Extends, SameNode
<1>9. Heap(g)
  <2>1. DOMAIN g \subseteq Nat /\ IsFiniteSet(DOMAIN g)
    <3>1. IsFiniteSet(DOMAIN h \cup {x})
      BY <1>4, FS_AddElement
    <3> QED
      BY <1>2, <1>4, <1>6, <3>1
  <2>2. /\ Terminator \in DOMAIN g /\ g[Terminator].left = Terminator
        /\ g[Terminator].right = Terminator /\ g[Terminator].height = 0
    BY <1>1, <1>4, <1>6 DEF Heap
  <2>3. \A a \in DOMAIN g : g[a].left \in DOMAIN g /\ g[a].right \in DOMAIN g
    BY <1>4, <1>6, <1>7
  <2>4. ASSUME NEW a \in DOMAIN g \ {Terminator}
        PROVE  /\ g[a].value \in Entries
               /\ g[a].height = Larger(g[g[a].left].height, g[g[a].right].height) + 1
    <3>1. CASE a = x
      BY <1>6, <1>7, <3>1
    <3>2. CASE a # x
      <4>1. a \in DOMAIN h \ {Terminator}
        BY <1>6, <3>2
      <4>2. /\ h[a].value \in Entries
            /\ h[a].height = Larger(h[h[a].left].height, h[h[a].right].height) + 1
        BY <1>1, <4>1 DEF Heap
      <4> QED
        BY <1>4, <1>6, <4>1, <4>2
    <3> QED
      BY <3>1, <3>2
  <2> QED
    BY <1>6, <2>1, <2>2, <2>3, <2>4 DEF Heap
<1>10. /\ e \in [Nat -> Nat] /\ f \in [Nat -> Nat]
       /\ \A a \in Nat : f[a] = e[a] - One(a, left) - One(a, right) + One(a, x)
  <2>1. e \in [Nat -> Nat]
    BY <1>1 DEF Owns
  <2>2. Minus(e, left) \in [Nat -> Nat] /\ \A a \in Nat : Minus(e, left)[a] = e[a] - One(a, left)
    BY <1>4, <2>1, PlusMinus
  <2> DEFINE e1 == Minus(e, left)
  <2> HIDE DEF e1
  <2>3. Minus(e1, right) \in [Nat -> Nat] /\ \A a \in Nat : Minus(e1, right)[a] = e1[a] - One(a, right)
    BY <1>4, <2>2, PlusMinus DEF e1
  <2> DEFINE e2 == Minus(e1, right)
  <2> HIDE DEF e2
  <2>4. Plus(e2, x) \in [Nat -> Nat] /\ \A a \in Nat : Plus(e2, x)[a] = e2[a] + One(a, x)
    BY <1>2, <2>3, PlusMinus DEF e2
  <2> QED
    BY <2>1, <2>2, <2>3, <2>4 DEF e1, e2
<1> HIDE DEF f
<1>11. \A n : Pointers(g, n) = Pointers(h, n) + One(n, left) + One(n, right)
  BY <1>1, <1>2, <1>6, <1>7, PointersAdded
<1>12. Owns(g, f)
  <2>1. ASSUME NEW n \in DOMAIN h
        PROVE  /\ g[n].references > 0
               /\ g[n].references = Pointers(g, n) + f[n] + One(n, Terminator)
    <3>1. h[n].references > 0 /\ h[n].references \in Int /\ e[n] \in Nat /\ n \in Nat
      <4>1. h[n] \in Nodes /\ n \in Nat
        BY <1>4
      <4> QED
        BY <1>1, <1>10, <4>1 DEF Owns, Nodes
    <3>2. h[n].references = Pointers(h, n) + e[n] + One(n, Terminator)
      BY <1>1 DEF Owns
    <3>3. Pointers(h, n) \in Nat
      BY <1>1, PointersFinite
    <3>4. One(n, left) \in Nat /\ One(n, right) \in Nat /\ One(n, Terminator) \in Nat /\ One(n, x) = 0
      BY <1>2 DEF One
    <3> QED
      BY <1>6, <1>10, <1>11, <3>1, <3>2, <3>3, <3>4
  <2>2. /\ g[x].references > 0
        /\ g[x].references = Pointers(g, x) + f[x] + One(x, Terminator)
    <3>1. Pointers(h, x) = 0
      <4>1. {a \in DOMAIN h : h[a].left = x} = {} /\ {a \in DOMAIN h : h[a].right = x} = {}
        BY <1>2, <1>4
      <4> QED
        BY <4>1, FS_EmptySet DEF Pointers
    <3>2. One(x, left) = 0 /\ One(x, right) = 0 /\ One(x, Terminator) = 0 /\ One(x, x) = 1
      BY <1>2, <1>4 DEF One
    <3>3. e[x] = 0
      BY <1>1, <1>2 DEF Owns
    <3> QED
      BY <1>2, <1>6, <1>7, <1>10, <1>11, <3>1, <3>2, <3>3
  <2>3. ASSUME NEW n \in Nat \ DOMAIN g
        PROVE  f[n] = 0
    <3>1. e[n] = 0 /\ n # left /\ n # right /\ n # x
      BY <1>1, <1>6 DEF Owns
    <3> QED
      BY <1>10, <3>1 DEF One
  <2> QED
    BY <1>6, <1>10, <2>1, <2>2, <2>3 DEF Owns
<1>13. \A a \in DOMAIN h : Content(g, a) = Content(h, a)
  BY <1>1, <1>8, <1>9, ContentSame
<1>14. Shaped(g)
  <2> SUFFICES ASSUME NEW n \in DOMAIN g \ {Terminator}
               PROVE  Fits(g, g[n].left, g[n].value, g[n].right)
    BY DEF Shaped
  <2>1. CASE n = x
    BY <1>6, <1>7, <1>13, <2>1 DEF Fits
  <2>2. CASE n # x
    <3>1. n \in DOMAIN h \ {Terminator}
      BY <1>6, <2>2
    <3>2. Fits(h, h[n].left, h[n].value, h[n].right)
      BY <1>1, <3>1 DEF Shaped
    <3> QED
      BY <1>4, <1>6, <1>13, <3>1, <3>2 DEF Fits
  <2> QED
    BY <2>1, <2>2
<1>15. Content(g, x) = {entry} \cup Content(h, left) \cup Content(h, right)
  <2>1. x \in DOMAIN g /\ x # Terminator
    BY <1>2, <1>4, <1>6
  <2>2. Content(g, x) = {g[x].value} \cup Content(g, g[x].left) \cup Content(g, g[x].right)
    BY <1>9, <2>1, ContentDef
  <2> QED
    BY <1>6, <1>7, <1>13, <2>2
<1>16. Made(h, left, entry, right, NewNode(h, left, right, entry))
  BY <1>2, <1>3, <1>4, <1>6, <1>7, <1>15 DEF Made
<1> QED
  BY <1>3, <1>8, <1>9, <1>12, <1>14, <1>16 DEF Good, f

-----------------------------------------------------------------------------
(* decref.                                                                 *)

(* decref: the counts it leaves. *)

DropAt(h, f, m) ==
    [count \in [DOMAIN h -> Int] |->
       LET less == [count EXCEPT ![m] = @ - 1]
       IN  IF less[m] > 0 \/ isTerminator(m)
           THEN less
           ELSE f[h[m].right][f[h[m].left][less]]]

Drops(h) == CHOOSE drop : drop = [m \in DOMAIN h |-> DropAt(h, drop, m)]

Counts(h) == [a \in DOMAIN h |-> h[a].references]

Left(h, n) == Drops(h)[n][Counts(h)]

LEMMA DropDef ==
    ASSUME NEW h, Heap(h)
    PROVE  \A m \in DOMAIN h : Drops(h)[m] = DropAt(h, Drops(h), m)
<1> DEFINE C == [DOMAIN h -> Int]
           R == [C -> C]
           step == [f \in [DOMAIN h -> R] |-> [m \in DOMAIN h |-> DropAt(h, f, m)]]
<1>1. /\ Terminator \in DOMAIN h
      /\ \A n \in DOMAIN h : h[n].left \in DOMAIN h /\ h[n].right \in DOMAIN h
  BY DEF Heap
<1>2. \A f \in [DOMAIN h -> R] : step[f] = [m \in DOMAIN h |-> DropAt(h, f, m)]
  OBVIOUS
<1>3. ASSUME NEW f \in [DOMAIN h -> R], NEW m \in DOMAIN h
      PROVE  DropAt(h, f, m) \in R
  <2>1. f[h[m].left] \in R /\ f[h[m].right] \in R
    BY <1>1
  <2>2. \A count \in C : [count EXCEPT ![m] = @ - 1] \in C
    OBVIOUS
  <2> HIDE DEF C
  <2>3. \A count \in C : f[h[m].right][f[h[m].left][[count EXCEPT ![m] = @ - 1]]] \in C
    BY <2>1, <2>2
  <2> QED
    BY <2>2, <2>3 DEF DropAt, C
<1>4. step \in [[DOMAIN h -> R] -> [DOMAIN h -> R]]
  <2> HIDE DEF R
  <2> QED
    BY <1>3
<1>5. \A f \in [DOMAIN h -> R], m \in DOMAIN h : step[f][m] = DropAt(h, f, m)
  <2> HIDE DEF R, step
  <2> QED
    BY <1>2
<1>6. \E f \in [DOMAIN h -> R] : step[f] = f
  <2>1. \A f, g \in [DOMAIN h -> R] : step[f][Terminator] = step[g][Terminator]
    <3>1. \A f, g : DropAt(h, f, Terminator) = DropAt(h, g, Terminator)
      BY DEF DropAt, isTerminator
    <3> HIDE DEF R, step
    <3> QED
      BY <1>1, <1>5, <3>1
  <2>2. \A f, g \in [DOMAIN h -> R], n \in DOMAIN h \ {Terminator} :
           f[h[n].left] = g[h[n].left] /\ f[h[n].right] = g[h[n].right] => step[f][n] = step[g][n]
    <3>1. \A f, g, n : f[h[n].left] = g[h[n].left] /\ f[h[n].right] = g[h[n].right]
                          => DropAt(h, f, n) = DropAt(h, g, n)
      BY DEF DropAt
    <3> HIDE DEF R, step
    <3> QED
      BY <1>5, <3>1
  <2>3. R # {}
    <3>1. [c \in C |-> c] \in R
      OBVIOUS
    <3> QED
      BY <3>1
  <2> HIDE DEF step, R
  <2>4. LooksBelow(step, h, R)
    BY <1>4, <2>1, <2>2, <2>3 DEF LooksBelow
  <2> QED
    BY <2>4, HeapRecursion
<1>7. \E f : f = [m \in DOMAIN h |-> DropAt(h, f, m)]
  BY <1>2, <1>6
<1>8. Drops(h) = [m \in DOMAIN h |-> DropAt(h, Drops(h), m)]
  BY <1>7 DEF Drops
<1> QED
  BY <1>8

LEMMA DecrefIs ==
    ASSUME NEW h, NEW n
    PROVE  decref(h, n) = [a \in {b \in DOMAIN h : Left(h, n)[b] > 0} |->
                             [h[a] EXCEPT !.references = Left(h, n)[a]]]
BY DEF decref, Left, Counts, Drops, DropAt

(* The nodes that are not freed. *)
Alive(h, count) == {a \in DOMAIN h : count[a] > 0}

AlivePointers(h, count, n) ==
    Cardinality({a \in Alive(h, count) : h[a].left = n})
    + Cardinality({a \in Alive(h, count) : h[a].right = n})

(* count is right if e[n] pointers to n come from outside of the heap. *)
Exact(h, count, e) ==
    /\ count \in [DOMAIN h -> Int]
    /\ e \in [Nat -> Nat]
    /\ \A n \in DOMAIN h : count[n] = AlivePointers(h, count, n) + e[n] + One(n, Terminator)

LEMMA AlivePointersNat ==
    ASSUME NEW h, Heap(h), NEW count, NEW n
    PROVE  /\ AlivePointers(h, count, n) \in Nat
           /\ \A a \in Alive(h, count) : h[a].left = n \/ h[a].right = n => AlivePointers(h, count, n) > 0
<1> DEFINE L == {a \in Alive(h, count) : h[a].left = n}
           R == {a \in Alive(h, count) : h[a].right = n}
<1>1. IsFiniteSet(L) /\ IsFiniteSet(R)
  <2>1. IsFiniteSet(DOMAIN h) /\ L \in SUBSET DOMAIN h /\ R \in SUBSET DOMAIN h
    BY DEF Heap, Alive
  <2> HIDE DEF L, R
  <2> QED
    BY <2>1, FS_Subset
<1>2. AlivePointers(h, count, n) = Cardinality(L) + Cardinality(R)
  BY DEF AlivePointers
<1>3. \A a \in Alive(h, count) : h[a].left = n \/ h[a].right = n => L # {} \/ R # {}
  OBVIOUS
<1> HIDE DEF L, R
<1>4. /\ Cardinality(L) \in Nat /\ Cardinality(R) \in Nat
      /\ L # {} => Cardinality(L) # 0
      /\ R # {} => Cardinality(R) # 0
  BY <1>1, FS_CardinalityType, FS_EmptySet
<1> QED
  BY <1>2, <1>3, <1>4

(* When m is freed, the pointers in it go. *)
LEMMA PointersFreed ==
    ASSUME NEW h, Heap(h), NEW count, NEW less, NEW m \in Alive(h, count),
           Alive(h, less) = Alive(h, count) \ {m}, NEW n
    PROVE  AlivePointers(h, count, n) = AlivePointers(h, less, n) + One(n, h[m].left) + One(n, h[m].right)
<1> DEFINE L == {a \in Alive(h, count) : h[a].left = n}
           R == {a \in Alive(h, count) : h[a].right = n}
           LL == {a \in Alive(h, less) : h[a].left = n}
           RR == {a \in Alive(h, less) : h[a].right = n}
<1>1. IsFiniteSet(L) /\ IsFiniteSet(R)
  <2>1. IsFiniteSet(DOMAIN h) /\ L \in SUBSET DOMAIN h /\ R \in SUBSET DOMAIN h
    BY DEF Heap, Alive
  <2> HIDE DEF L, R
  <2> QED
    BY <2>1, FS_Subset
<1>2. AlivePointers(h, count, n) = Cardinality(L) + Cardinality(R)
  BY DEF AlivePointers
<1>3. AlivePointers(h, less, n) = Cardinality(LL) + Cardinality(RR)
  BY DEF AlivePointers
<1>4. LL = L \ {m} /\ RR = R \ {m}
  OBVIOUS
<1>5. (m \in L <=> n = h[m].left) /\ (m \in R <=> n = h[m].right)
  OBVIOUS
<1> HIDE DEF L, R, LL, RR
<1>6. Cardinality(L) \in Nat /\ Cardinality(R) \in Nat
  BY <1>1, FS_CardinalityType
<1>7. /\ Cardinality(LL) = IF m \in L THEN Cardinality(L) - 1 ELSE Cardinality(L)
      /\ Cardinality(RR) = IF m \in R THEN Cardinality(R) - 1 ELSE Cardinality(R)
  BY <1>1, <1>4, FS_RemoveElement
<1> QED
  BY <1>2, <1>3, <1>5, <1>6, <1>7 DEF One

(* A count that drops above zero. *)
LEMMA ExactLess ==
    ASSUME NEW h, Heap(h), NEW count, NEW e, Exact(h, count, e), NEW m \in DOMAIN h, e[m] > 0
    PROVE  LET less == [count EXCEPT ![m] = @ - 1]
           IN  /\ m \in Alive(h, count) /\ Alive(h, less) \subseteq Alive(h, count)
               /\ less[m] > 0 => Exact(h, less, Minus(e, m))
               /\ m = Terminator => less[m] > 0
               /\ less[m] <= 0 => Exact(h, less, Plus(Plus(Minus(e, m), h[m].left), h[m].right))
<1> DEFINE less == [count EXCEPT ![m] = @ - 1]
           l == h[m].left
           r == h[m].right
<1>1. /\ count \in [DOMAIN h -> Int] /\ e \in [Nat -> Nat]
      /\ \A n \in DOMAIN h : count[n] = AlivePointers(h, count, n) + e[n] + One(n, Terminator)
  BY DEF Exact
<1>2. DOMAIN h \subseteq Nat /\ m \in Nat /\ l \in DOMAIN h /\ r \in DOMAIN h
  BY DEF Heap
<1>3. less \in [DOMAIN h -> Int] /\ \A n \in DOMAIN h : less[n] = count[n] - One(n, m)
  <2>1. less \in [DOMAIN h -> Int]
    BY <1>1
  <2>2. less[m] = count[m] - 1 /\ \A n \in DOMAIN h : n # m => less[n] = count[n]
    BY <1>1
  <2>3. \A n \in DOMAIN h : count[n] \in Int
    BY <1>1
  <2> HIDE DEF less
  <2> QED
    BY <2>1, <2>2, <2>3 DEF One
<1> HIDE DEF less
<1>4. \A n \in DOMAIN h : /\ count[n] \in Int /\ e[n] \in Nat /\ One(n, m) \in {0, 1}
                          /\ One(n, Terminator) \in {0, 1} /\ One(n, l) \in {0, 1} /\ One(n, r) \in {0, 1}
                          /\ AlivePointers(h, count, n) \in Nat /\ AlivePointers(h, less, n) \in Nat
  BY <1>1, <1>2, AlivePointersNat DEF One
<1>5. count[m] > 0 /\ less[m] = count[m] - 1
  <2>1. One(m, m) = 1
    BY DEF One
  <2>2. count[m] = AlivePointers(h, count, m) + e[m] + One(m, Terminator)
    BY <1>1
  <2> QED
    BY <1>3, <1>4, <2>1, <2>2
<1>6. m \in Alive(h, count) /\ Alive(h, less) \subseteq Alive(h, count)
  BY <1>3, <1>4, <1>5 DEF Alive
<1>7. ASSUME less[m] > 0
      PROVE  Exact(h, less, Minus(e, m))
  <2>1. Alive(h, less) = Alive(h, count)
    <3>1. \A n \in DOMAIN h : count[n] > 0 => less[n] > 0
      BY <1>3, <1>4, <1>7 DEF One
    <3> QED
      BY <1>6, <3>1 DEF Alive
  <2>2. Minus(e, m) \in [Nat -> Nat] /\ \A n \in Nat : Minus(e, m)[n] = e[n] - One(n, m)
    BY <1>1, <1>2, PlusMinus
  <2>3. ASSUME NEW n \in DOMAIN h
        PROVE  less[n] = AlivePointers(h, less, n) + Minus(e, m)[n] + One(n, Terminator)
    <3>1. AlivePointers(h, less, n) = AlivePointers(h, count, n)
      BY <2>1 DEF AlivePointers
    <3>2. count[n] = AlivePointers(h, count, n) + e[n] + One(n, Terminator)
      BY <1>1
    <3>3. Minus(e, m)[n] = e[n] - One(n, m) /\ less[n] = count[n] - One(n, m)
      BY <1>2, <1>3, <2>2
    <3> QED
      BY <1>4, <3>1, <3>2, <3>3
  <2> QED
    BY <1>3, <2>2, <2>3 DEF Exact
<1>8. m = Terminator => less[m] > 0
  <2>1. m = Terminator => One(m, Terminator) = 1
    BY DEF One
  <2>2. count[m] = AlivePointers(h, count, m) + e[m] + One(m, Terminator)
    BY <1>1
  <2> QED
    BY <1>4, <1>5, <2>1, <2>2
<1>9. ASSUME less[m] <= 0
      PROVE  Exact(h, less, Plus(Plus(Minus(e, m), l), r))
  <2>1. less[m] = 0
    BY <1>4, <1>5, <1>9
  <2>2. Alive(h, less) = Alive(h, count) \ {m}
    <3>1. \A n \in DOMAIN h : n # m => less[n] = count[n]
      BY <1>3, <1>4 DEF One
    <3> QED
      BY <2>1, <3>1 DEF Alive
  <2>3. Minus(e, m) \in [Nat -> Nat] /\ \A n \in Nat : Minus(e, m)[n] = e[n] - One(n, m)
    BY <1>1, <1>2, PlusMinus
  <2> DEFINE e1 == Minus(e, m)
             e2 == Plus(e1, l)
             e3 == Plus(e2, r)
  <2>4. l \in Nat /\ r \in Nat
    BY <1>2
  <2>5. e2 \in [Nat -> Nat] /\ \A n \in Nat : e2[n] = e1[n] + One(n, l)
    <3> HIDE DEF e1
    <3> QED
      BY <2>3, <2>4, PlusMinus DEF e1
  <2>6. e3 \in [Nat -> Nat] /\ \A n \in Nat : e3[n] = e2[n] + One(n, r)
    <3> HIDE DEF e2
    <3> QED
      BY <2>4, <2>5, PlusMinus DEF e2
  <2>7. ASSUME NEW n \in DOMAIN h
        PROVE  less[n] = AlivePointers(h, less, n) + e3[n] + One(n, Terminator)
    <3> HIDE DEF e1, e2, e3
    <3>1. AlivePointers(h, count, n) = AlivePointers(h, less, n) + One(n, l) + One(n, r)
      BY <1>6, <2>2, PointersFreed
    <3>2. count[n] = AlivePointers(h, count, n) + e[n] + One(n, Terminator)
      BY <1>1
    <3>3. e3[n] = e[n] - One(n, m) + One(n, l) + One(n, r)
      BY <1>2, <1>4, <2>3, <2>5, <2>6 DEF e1
    <3>4. less[n] = count[n] - One(n, m)
      BY <1>3
    <3> HIDE DEF l, r
    <3> QED
      BY <1>4, <3>1, <3>2, <3>3, <3>4
  <2> HIDE DEF e3
  <2>8. Exact(h, less, e3)
    BY <1>3, <2>6, <2>7 DEF Exact
  <2> QED
    BY <2>8 DEF e3
<1> QED
  BY <1>6, <1>7, <1>8, <1>9 DEF less

(* drop from m on leaves counts that are right without one pointer to m. *)
DropsExact(h, m) ==
    \A count \in [DOMAIN h -> Int], e \in [Nat -> Nat] :
        Exact(h, count, e) /\ e[m] > 0 =>
            /\ Exact(h, Drops(h)[m][count], Minus(e, m))
            /\ Alive(h, Drops(h)[m][count]) \subseteq Alive(h, count)

LEMMA DropKeepsExact ==
    ASSUME NEW h, Heap(h), NEW m \in DOMAIN h
    PROVE  DropsExact(h, m)
<1> DEFINE T == {a \in DOMAIN h : DropsExact(h, a)}
<1>1. /\ Terminator \in DOMAIN h /\ DOMAIN h \subseteq Nat
      /\ \A a \in DOMAIN h : h[a].left \in DOMAIN h /\ h[a].right \in DOMAIN h
  BY DEF Heap
<1>2. ASSUME NEW a \in DOMAIN h, a # Terminator => h[a].left \in T /\ h[a].right \in T
      PROVE  a \in T
  <2> SUFFICES ASSUME NEW count \in [DOMAIN h -> Int], NEW e \in [Nat -> Nat],
                      Exact(h, count, e), e[a] > 0
               PROVE  /\ Exact(h, Drops(h)[a][count], Minus(e, a))
                      /\ Alive(h, Drops(h)[a][count]) \subseteq Alive(h, count)
    BY DEF DropsExact
  <2> DEFINE less == [count EXCEPT ![a] = @ - 1]
             l == h[a].left
             r == h[a].right
             e1 == Minus(e, a)
             e2 == Plus(e1, l)
             e3 == Plus(e2, r)
             first == Drops(h)[l][less]
  <2>1. /\ Alive(h, less) \subseteq Alive(h, count)
        /\ less[a] > 0 => Exact(h, less, Minus(e, a))
        /\ a = Terminator => less[a] > 0
        /\ less[a] <= 0 => Exact(h, less, Plus(Plus(Minus(e, a), h[a].left), h[a].right))
    BY ExactLess
  <2>2. less \in [DOMAIN h -> Int]
    OBVIOUS
  <2>3. Drops(h)[a][count] = IF less[a] > 0 \/ isTerminator(a)
                             THEN less ELSE Drops(h)[r][Drops(h)[l][less]]
    <3>1. Drops(h)[a] = DropAt(h, Drops(h), a)
      BY DropDef
    <3> QED
      BY <3>1 DEF DropAt
  <2>4. l \in DOMAIN h /\ r \in DOMAIN h /\ a \in Nat /\ l \in Nat /\ r \in Nat
    BY <1>1
  <2> HIDE DEF less, l, r
  <2>5. CASE less[a] > 0
    BY <2>1, <2>3, <2>5
  <2>6. CASE ~ (less[a] > 0)
    <3>1. a # Terminator /\ less[a] <= 0
      BY <2>1, <2>2, <2>6
    <3>2. Drops(h)[a][count] = Drops(h)[r][first]
      BY <2>3, <2>6, <3>1 DEF isTerminator
    <3>3. Exact(h, less, e3)
      BY <2>1, <3>1 DEF l, r
    <3>4. e1 \in [Nat -> Nat] /\ \A n \in Nat : e1[n] = e[n] - One(n, a)
      BY <2>4, PlusMinus
    <3> HIDE DEF e1
    <3>5. e2 \in [Nat -> Nat] /\ \A n \in Nat : e2[n] = e1[n] + One(n, l)
      BY <2>4, <3>4, PlusMinus
    <3> HIDE DEF e2
    <3>6. e3 \in [Nat -> Nat] /\ \A n \in Nat : e3[n] = e2[n] + One(n, r)
      BY <2>4, <3>5, PlusMinus
    <3> HIDE DEF e3
    <3>7. \A n, k : One(n, k) \in {0, 1} /\ One(n, n) = 1
      BY DEF One
    <3>8. e3[l] > 0
      <4>1. e1[l] \in Nat /\ e2[l] = e1[l] + 1 /\ e3[l] = e2[l] + One(l, r)
        BY <2>4, <3>4, <3>5, <3>6, <3>7
      <4> QED
        BY <3>7, <4>1
    <3>9. DropsExact(h, l) /\ DropsExact(h, r)
      BY <1>2, <3>1 DEF l, r
    <3>10. Exact(h, first, Minus(e3, l)) /\ Alive(h, first) \subseteq Alive(h, less)
      BY <2>2, <3>3, <3>6, <3>8, <3>9 DEF DropsExact
    <3> DEFINE e4 == Minus(e3, l)
    <3>11. e4 \in [Nat -> Nat] /\ \A n \in Nat : e4[n] = e3[n] - One(n, l)
      BY <2>4, <3>6, <3>8, PlusMinus
    <3> HIDE DEF e4
    <3>12. \A n \in Nat : e4[n] = e1[n] + One(n, r)
      <4> SUFFICES ASSUME NEW n \in Nat PROVE e4[n] = e1[n] + One(n, r)
        OBVIOUS
      <4>1. e4[n] = e3[n] - One(n, l) /\ e3[n] = e2[n] + One(n, r) /\ e2[n] = e1[n] + One(n, l)
        BY <3>5, <3>6, <3>11
      <4>2. e1[n] \in Nat
        BY <3>4
      <4> QED
        BY <3>7, <4>1, <4>2
    <3>13. e4[r] > 0
      <4>1. e4[r] = e1[r] + 1 /\ e1[r] \in Nat
        BY <2>4, <3>4, <3>7, <3>12
      <4> QED
        BY <4>1
    <3>14. first \in [DOMAIN h -> Int]
      BY <3>10 DEF Exact
    <3> HIDE DEF first
    <3>15. /\ Exact(h, Drops(h)[r][first], Minus(e4, r))
           /\ Alive(h, Drops(h)[r][first]) \subseteq Alive(h, first)
      BY <3>9, <3>10, <3>11, <3>13, <3>14 DEF DropsExact, e4
    <3>16. Minus(e4, r) = e1
      <4>1. Minus(e4, r) \in [Nat -> Nat] /\ \A n \in Nat : Minus(e4, r)[n] = e4[n] - One(n, r)
        BY <2>4, <3>11, <3>13, PlusMinus
      <4>2. \A n \in Nat : Minus(e4, r)[n] = e1[n]
        <5> SUFFICES ASSUME NEW n \in Nat PROVE Minus(e4, r)[n] = e1[n]
          OBVIOUS
        <5>1. Minus(e4, r)[n] = e4[n] - One(n, r) /\ e4[n] = e1[n] + One(n, r) /\ e1[n] \in Nat
          BY <3>4, <3>12, <4>1
        <5> QED
          BY <3>7, <5>1
      <4> QED
        BY <3>4, <4>1, <4>2
    <3> QED
      BY <2>1, <3>2, <3>10, <3>15, <3>16 DEF e1
  <2> QED
    BY <2>5, <2>6
<1>3. Terminator \in T
  BY <1>1, <1>2
<1>4. \A a \in DOMAIN h \ {Terminator} : h[a].left \in T /\ h[a].right \in T => a \in T
  BY <1>2
<1>5. T = DOMAIN h
  <2>1. T \in SUBSET DOMAIN h
    OBVIOUS
  <2> HIDE DEF T
  <2> QED
    BY <1>3, <1>4, <2>1, HeapInduction
<1> QED
  BY <1>5

LEMMA DecrefGood ==
    ASSUME NEW h, NEW e, Good(h, e), NEW n \in DOMAIN h, e[n] > 0
    PROVE  Good(decref(h, n), Minus(e, n)) /\ Extends(decref(h, n), h)
<1> DEFINE count == Left(h, n)
           all == Counts(h)
           f == Minus(e, n)
           g == [a \in {b \in DOMAIN h : count[b] > 0} |-> [h[a] EXCEPT !.references = count[a]]]
<1>1. Heap(h) /\ Owns(h, e) /\ Shaped(h)
  BY DEF Good
<1>2. /\ DOMAIN h \subseteq Nat /\ Terminator \in DOMAIN h /\ n \in Nat /\ IsFiniteSet(DOMAIN h)
      /\ \A a \in DOMAIN h : h[a].left \in DOMAIN h /\ h[a].right \in DOMAIN h /\ h[a] \in Nodes
  BY <1>1 DEF Heap
<1>3. e \in [Nat -> Nat]
  BY <1>1 DEF Owns
<1>4. all \in [DOMAIN h -> Int] /\ \A a \in DOMAIN h : all[a] = h[a].references
  BY <1>2 DEF Counts, Nodes
<1>5. Exact(h, all, e)
  <2>1. Alive(h, all) = DOMAIN h
    BY <1>1, <1>4 DEF Alive, Owns
  <2>2. \A a : AlivePointers(h, all, a) = Pointers(h, a)
    BY <2>1 DEF AlivePointers, Pointers
  <2>3. \A a \in DOMAIN h : all[a] = AlivePointers(h, all, a) + e[a] + One(a, Terminator)
    BY <1>1, <1>4, <2>2 DEF Owns
  <2> QED
    BY <1>3, <1>4, <2>3 DEF Exact
<1>6. Exact(h, count, f)
  <2>1. DropsExact(h, n)
    BY <1>1, DropKeepsExact
  <2> QED
    BY <1>3, <1>4, <1>5, <2>1 DEF DropsExact, Left
<1>7. decref(h, n) = g
  BY DecrefIs
<1> HIDE DEF count, all
<1>8. f \in [Nat -> Nat] /\ \A a \in Nat : f[a] = e[a] - One(a, n)
  BY <1>2, <1>3, PlusMinus
<1> HIDE DEF f
<1>9. /\ count \in [DOMAIN h -> Int]
      /\ \A a \in DOMAIN h : count[a] = AlivePointers(h, count, a) + f[a] + One(a, Terminator)
  BY <1>6 DEF Exact
<1>10. /\ DOMAIN g = Alive(h, count)
       /\ \A a \in DOMAIN g : /\ g[a] \in Nodes /\ SameNode(g[a], h[a]) /\ g[a].references = count[a]
       /\ g = [a \in DOMAIN g |-> g[a]]
  <2>1. DOMAIN g = Alive(h, count) /\ \A a \in DOMAIN g : g[a] = [h[a] EXCEPT !.references = count[a]]
    BY DEF Alive
  <2>2. ASSUME NEW a \in DOMAIN g
        PROVE  g[a] \in Nodes /\ SameNode(g[a], h[a]) /\ g[a].references = count[a]
    <3>1. h[a] \in Nodes /\ count[a] \in Int
      BY <1>2, <1>9
    <3>2. g[a] = [h[a] EXCEPT !.references = count[a]]
      BY <2>1
    <3> HIDE DEF g
    <3> QED
      BY <3>1, <3>2 DEF Nodes, SameNode
  <2> QED
    BY <2>1, <2>2
<1> HIDE DEF g
<1>11. DOMAIN g \subseteq DOMAIN h /\ \A a \in DOMAIN h : a \in DOMAIN g <=> count[a] > 0
  BY <1>10 DEF Alive
<1>12. Extends(g, h)
  BY <1>10, <1>11 DEF Extends
<1>13. \A a \in DOMAIN h : AlivePointers(h, count, a) \in Nat /\ f[a] \in Nat /\ One(a, Terminator) \in {0, 1}
  BY <1>1, <1>2, <1>8, AlivePointersNat DEF One
<1>14. \A a \in DOMAIN g : h[a].left \in DOMAIN g /\ h[a].right \in DOMAIN g
  <2> SUFFICES ASSUME NEW a \in DOMAIN g, NEW b \in {h[a].left, h[a].right}
               PROVE  b \in DOMAIN g
    OBVIOUS
  <2>1. b \in DOMAIN h
    BY <1>2, <1>11
  <2>2. AlivePointers(h, count, b) > 0
    <3>1. a \in Alive(h, count) /\ (h[a].left = b \/ h[a].right = b)
      BY <1>10
    <3> QED
      BY <1>1, <3>1, AlivePointersNat
  <2>3. count[b] = AlivePointers(h, count, b) + f[b] + One(b, Terminator)
    BY <1>9, <2>1
  <2> QED
    BY <1>11, <1>13, <2>1, <2>2, <2>3
<1>15. Terminator \in DOMAIN g
  <2>1. One(Terminator, Terminator) = 1
    BY DEF One
  <2>2. count[Terminator] = AlivePointers(h, count, Terminator) + f[Terminator] + One(Terminator, Terminator)
    BY <1>2, <1>9
  <2>3. AlivePointers(h, count, Terminator) \in Nat /\ f[Terminator] \in Nat
    BY <1>2, <1>13
  <2>4. count[Terminator] > 0
    BY <2>1, <2>2, <2>3
  <2> QED
    BY <1>2, <1>11, <2>4
<1>16. Heap(g)
  <2>1. \A a \in DOMAIN g : /\ g[a].left = h[a].left /\ g[a].right = h[a].right
                            /\ g[a].value = h[a].value /\ g[a].height = h[a].height
    BY <1>10 DEF SameNode
  <2>2. DOMAIN g \subseteq Nat /\ IsFiniteSet(DOMAIN g) /\ g \in [DOMAIN g -> Nodes]
    BY <1>2, <1>10, <1>11, FS_Subset
  <2>3. /\ g[Terminator].left = Terminator /\ g[Terminator].right = Terminator
        /\ g[Terminator].height = 0
    BY <1>1, <1>15, <2>1 DEF Heap
  <2>4. ASSUME NEW a \in DOMAIN g \ {Terminator}
        PROVE  /\ g[a].value \in Entries
               /\ g[a].height = Larger(g[g[a].left].height, g[g[a].right].height) + 1
    <3>1. /\ h[a].value \in Entries
          /\ h[a].height = Larger(h[h[a].left].height, h[h[a].right].height) + 1
      BY <1>1, <1>11 DEF Heap
    <3> QED
      BY <1>14, <2>1, <3>1
  <2>5. \A a \in DOMAIN g : g[a].left \in DOMAIN g /\ g[a].right \in DOMAIN g
    BY <1>14, <2>1
  <2> QED
    BY <1>15, <2>2, <2>3, <2>4, <2>5 DEF Heap
<1>17. Owns(g, f)
  <2>1. \A a : Pointers(g, a) = AlivePointers(h, count, a)
    <3>1. \A a : /\ {b \in DOMAIN g : g[b].left = a} = {b \in Alive(h, count) : h[b].left = a}
                 /\ {b \in DOMAIN g : g[b].right = a} = {b \in Alive(h, count) : h[b].right = a}
      BY <1>10 DEF SameNode
    <3> QED
      BY <3>1 DEF Pointers, AlivePointers
  <2>2. \A a \in DOMAIN g : /\ g[a].references > 0
                            /\ g[a].references = Pointers(g, a) + f[a] + One(a, Terminator)
    BY <1>9, <1>10, <1>11, <2>1
  <2>3. ASSUME NEW a \in Nat \ DOMAIN g
        PROVE  f[a] = 0
    <3>1. CASE a \in DOMAIN h
      <4>1. ~ (count[a] > 0) /\ count[a] = AlivePointers(h, count, a) + f[a] + One(a, Terminator)
        BY <1>9, <1>11, <3>1
      <4> QED
        BY <1>13, <3>1, <4>1
    <3>2. CASE a \notin DOMAIN h
      <4>1. e[a] = 0 /\ a # n
        BY <1>1, <3>2 DEF Owns
      <4> QED
        BY <1>8, <4>1 DEF One
    <3> QED
      BY <3>1, <3>2
  <2> QED
    BY <1>8, <2>2, <2>3 DEF Owns
<1>18. Shaped(g)
  BY <1>1, <1>12, <1>16, ShapeSame
<1> QED
  BY <1>7, <1>12, <1>16, <1>17, <1>18 DEF Good, f

LEMMA PlusSwap ==
    ASSUME NEW e \in [Nat -> Nat], NEW a \in Nat, NEW b \in Nat
    PROVE  Plus(Plus(e, a), b) = Plus(Plus(e, b), a)
<1>1. /\ Plus(e, a) \in [Nat -> Nat] /\ \A n \in Nat : Plus(e, a)[n] = e[n] + One(n, a)
      /\ Plus(e, b) \in [Nat -> Nat] /\ \A n \in Nat : Plus(e, b)[n] = e[n] + One(n, b)
  BY PlusMinus
<1> DEFINE ea == Plus(e, a)
           eb == Plus(e, b)
<1> HIDE DEF ea, eb
<1>2. /\ Plus(ea, b) \in [Nat -> Nat] /\ \A n \in Nat : Plus(ea, b)[n] = ea[n] + One(n, b)
      /\ Plus(eb, a) \in [Nat -> Nat] /\ \A n \in Nat : Plus(eb, a)[n] = eb[n] + One(n, a)
  BY <1>1, PlusMinus DEF ea, eb
<1>3. \A n \in Nat : Plus(ea, b)[n] = Plus(eb, a)[n]
  <2> SUFFICES ASSUME NEW n \in Nat PROVE Plus(ea, b)[n] = Plus(eb, a)[n]
    OBVIOUS
  <2>1. /\ Plus(ea, b)[n] = ea[n] + One(n, b) /\ Plus(eb, a)[n] = eb[n] + One(n, a)
        /\ ea[n] = e[n] + One(n, a) /\ eb[n] = e[n] + One(n, b)
    BY <1>1, <1>2 DEF ea, eb
  <2>2. e[n] \in Nat /\ One(n, a) \in Nat /\ One(n, b) \in Nat
    BY DEF One
  <2> QED
    BY <2>1, <2>2
<1>4. Plus(ea, b) = Plus(eb, a)
  <2> DEFINE u == Plus(ea, b)
             v == Plus(eb, a)
  <2> HIDE DEF u, v
  <2>1. u \in [Nat -> Nat] /\ v \in [Nat -> Nat] /\ \A n \in Nat : u[n] = v[n]
    BY <1>2, <1>3 DEF u, v
  <2>2. u = v
    BY <2>1
  <2> QED
    BY <2>2 DEF u, v
<1> QED
  BY <1>4 DEF ea, eb

(* What is owned is there. *)
LEMMA OwnedThere ==
    ASSUME NEW h, NEW e \in [Nat -> Nat], NEW n \in Nat, Good(h, Plus(e, n))
    PROVE  /\ n \in DOMAIN h /\ Plus(e, n)[n] > 0 /\ Minus(Plus(e, n), n) = e
           /\ Plus(e, n) \in [Nat -> Nat]
<1>1. Plus(e, n) \in [Nat -> Nat] /\ \A a \in Nat : Plus(e, n)[a] = e[a] + One(a, n)
  BY PlusMinus
<1> DEFINE p == Plus(e, n)
<1> HIDE DEF p
<1>2. One(n, n) = 1 /\ \A a : One(a, n) \in {0, 1}
  BY DEF One
<1>3. p[n] > 0
  <2>1. p[n] = e[n] + One(n, n) /\ e[n] \in Nat
    BY <1>1 DEF p
  <2> QED
    BY <1>2, <2>1
<1>4. n \in DOMAIN h
  BY <1>3 DEF Good, Owns, p
<1>5. Minus(p, n) \in [Nat -> Nat] /\ \A a \in Nat : Minus(p, n)[a] = p[a] - One(a, n)
  BY <1>1, <1>3, PlusMinus DEF p
<1>6. Minus(p, n) = e
  <2>1. \A a \in Nat : Minus(p, n)[a] = e[a]
    <3> SUFFICES ASSUME NEW a \in Nat PROVE Minus(p, n)[a] = e[a]
      OBVIOUS
    <3>1. Minus(p, n)[a] = p[a] - One(a, n) /\ p[a] = e[a] + One(a, n) /\ e[a] \in Nat
      BY <1>1, <1>5 DEF p
    <3> QED
      BY <1>2, <3>1
  <2> QED
    BY <1>5, <2>1
<1> QED
  BY <1>1, <1>3, <1>4, <1>6 DEF p

LEMMA DecrefOwned ==
    ASSUME NEW h, NEW e \in [Nat -> Nat], NEW n \in Nat, Good(h, Plus(e, n))
    PROVE  Good(decref(h, n), e) /\ Extends(decref(h, n), h)
<1>1. n \in DOMAIN h /\ Plus(e, n)[n] > 0 /\ Minus(Plus(e, n), n) = e
  BY OwnedThere
<1> DEFINE p == Plus(e, n)
<1> HIDE DEF p
<1>2. Good(decref(h, n), Minus(p, n)) /\ Extends(decref(h, n), h)
  BY <1>1, DecrefGood DEF p
<1> QED
  BY <1>1, <1>2 DEF p

LEMMA NewNodeOwned ==
    ASSUME NEW h, NEW e \in [Nat -> Nat], NEW left \in Nat, NEW right \in Nat, NEW entry \in Entries,
           Good(h, Plus(Plus(e, left), right)), Fits(h, left, entry, right)
    PROVE  LET q == NewNode(h, left, right, entry)
           IN  /\ Good(q.heap, Plus(e, q.node))
               /\ Extends(h, q.heap)
               /\ Made(h, left, entry, right, q)
<1> DEFINE el == Plus(e, left)
           er == Plus(e, right)
<1>1. el \in [Nat -> Nat] /\ er \in [Nat -> Nat]
  BY PlusMinus
<1>2. Plus(el, right) = Plus(er, left)
  BY PlusSwap
<1> HIDE DEF el, er
<1>3. /\ right \in DOMAIN h /\ Minus(Plus(el, right), right) = el
      /\ Plus(el, right) \in [Nat -> Nat]
  BY <1>1, OwnedThere DEF el
<1>4. /\ left \in DOMAIN h /\ Plus(er, left)[left] > 0 /\ Minus(Plus(er, left), left) = er
  BY <1>1, <1>2, OwnedThere DEF el
<1>5. er[right] > 0 /\ Minus(er, right) = e
  <2>1. \A a \in Nat : er[a] = e[a] + One(a, right)
    BY PlusMinus DEF er
  <2>2. er[right] = e[right] + One(right, right) /\ e[right] \in Nat /\ One(right, right) = 1
    BY <2>1 DEF One
  <2>3. er[right] > 0
    BY <2>2
  <2>4. Minus(er, right) \in [Nat -> Nat] /\ \A a \in Nat : Minus(er, right)[a] = er[a] - One(a, right)
    BY <1>1, <2>3, PlusMinus
  <2>5. \A a \in Nat : Minus(er, right)[a] = e[a]
    <3> SUFFICES ASSUME NEW a \in Nat PROVE Minus(er, right)[a] = e[a]
      OBVIOUS
    <3>1. Minus(er, right)[a] = er[a] - One(a, right) /\ er[a] = e[a] + One(a, right) /\ e[a] \in Nat
      BY <2>1, <2>4
    <3>2. One(a, right) \in {0, 1}
      BY DEF One
    <3> QED
      BY <3>1, <3>2
  <2>6. Minus(er, right) = e
    BY <2>4, <2>5
  <2> QED
    BY <2>3, <2>6
<1> DEFINE p == Plus(er, left)
<1>6. Good(h, p) /\ p[left] > 0 /\ Minus(p, left) = er
  BY <1>2, <1>4 DEF el
<1> HIDE DEF p
<1>7. Minus(p, left)[right] > 0 /\ Minus(Minus(p, left), right) = e
  BY <1>5, <1>6
<1> DEFINE q == NewNode(h, left, right, entry)
<1>8. /\ Good(q.heap, Plus(Minus(Minus(p, left), right), q.node))
      /\ Extends(h, q.heap)
      /\ Made(h, left, entry, right, q)
  <2> HIDE DEF q
  <2> QED
    BY <1>3, <1>4, <1>6, <1>7, NewNodeGood DEF q
<1> QED
  BY <1>7, <1>8

-----------------------------------------------------------------------------
(* What an operation keeps.                                                *)

(* All that an operation looks at is the same in a heap that extends h. *)
Keeps(h, g) ==
    /\ DOMAIN h \subseteq DOMAIN g
    /\ \A n \in DOMAIN h :
          /\ g[n].left = h[n].left /\ g[n].right = h[n].right
          /\ g[n].value = h[n].value /\ g[n].height = h[n].height
          /\ Content(g, n) = Content(h, n)

LEMMA ExtendsKeeps ==
    ASSUME NEW h, NEW g, Heap(h), Heap(g), Extends(h, g)
    PROVE  Keeps(h, g)
BY ContentSame DEF Keeps, Extends, SameNode

(* A heap that owns what the heap base does, and was made from one that    *)
(* extends base, still has all of base.                                    *)
LEMMA Supported ==
    ASSUME NEW base, NEW e, Good(base, e), NEW h, Extends(base, h),
           NEW g, NEW f, Good(g, f), Extends(g, h), \A n \in Nat : f[n] >= e[n]
    PROVE  Extends(base, g)
<1>1. Heap(base) /\ Owns(base, e) /\ Heap(g) /\ Owns(g, f)
  BY DEF Good
<1> DEFINE X == DOMAIN base \ DOMAIN g
           H == {base[n].height : n \in X}
<1>2. CASE X # {}
  <2>1. IsFiniteSet(X) /\ X \subseteq DOMAIN base
    BY <1>1, FS_Subset DEF Heap
  <2>2. \A n \in DOMAIN base : base[n].height \in Nat
    BY <1>1, HeightsDescend
  <2>3. PICK a \in X : \A b \in X : base[b].height <= base[a].height
    <3>1. [n \in X |-> base[n].height] \in Surjection(X, H)
      BY DEF Surjection
    <3>2. H \in SUBSET Int /\ H # {}
      BY <1>2, <2>1, <2>2
    <3> HIDE DEF X
    <3>3. IsFiniteSet(H)
      <4> HIDE DEF H
      <4> QED
        BY <2>1, <3>1, FS_Surjection
    <3>4. PICK t \in H : \A k \in H : k <= t
      <4> HIDE DEF H
      <4> QED
        BY <3>2, <3>3, FiniteEnds
    <3> QED
      BY <3>4
  <2>4. a \in Nat /\ a # Terminator
    BY <1>1 DEF Heap
  <2>5. e[a] = 0
    <3>1. f[a] = 0 /\ f[a] >= e[a] /\ e[a] \in Nat
      BY <1>1, <2>4 DEF Owns
    <3> QED
      BY <3>1
  <2>6. Pointers(base, a) # 0
    <3>1. base[a].references > 0 /\ base[a].references = Pointers(base, a) + e[a] + One(a, Terminator)
      BY <1>1 DEF Owns
    <3>2. One(a, Terminator) = 0
      BY <2>4 DEF One
    <3>3. Pointers(base, a) \in Nat
      BY <1>1, PointersFinite
    <3> QED
      BY <2>5, <3>1, <3>2, <3>3
  <2>7. PICK b \in DOMAIN base : base[b].left = a \/ base[b].right = a
    <3>1. {b \in DOMAIN base : base[b].left = a} # {} \/ {b \in DOMAIN base : base[b].right = a} # {}
      BY <2>6, FS_EmptySet DEF Pointers
    <3> QED
      BY <3>1
  <2>8. b # Terminator
    BY <1>1, <2>4, <2>7 DEF Heap
  <2>9. base[a].height < base[b].height
    BY <1>1, <2>7, <2>8, HeightsDescend
  <2>10. b \in DOMAIN g
    BY <2>2, <2>3, <2>9
  <2>11. g[b].left = base[b].left /\ g[b].right = base[b].right
    BY <2>10 DEF Extends, SameNode
  <2>12. g[b].left \in DOMAIN g /\ g[b].right \in DOMAIN g
    BY <1>1, <2>10 DEF Heap
  <2> QED
    BY <2>7, <2>11, <2>12
<1>3. X = {} => Extends(base, g)
  BY DEF Extends, SameNode
<1> QED
  BY <1>2, <1>3

LEMMA KeepsTransitive ==
    ASSUME NEW h, NEW g, NEW k, Keeps(h, g), Keeps(g, k)
    PROVE  Keeps(h, k)
BY DEF Keeps

LEMMA IncrefOwned ==
    ASSUME NEW h, NEW e, Good(h, e), NEW n \in DOMAIN h
    PROVE  /\ Good(incref(h, n), Plus(e, n)) /\ Extends(h, incref(h, n)) /\ Keeps(h, incref(h, n))
           /\ n \in Nat /\ e \in [Nat -> Nat] /\ Plus(e, n) \in [Nat -> Nat]
<1>1. Good(incref(h, n), Plus(e, n)) /\ Extends(h, incref(h, n))
  BY IncrefGood
<1>2. Keeps(h, incref(h, n))
  BY <1>1, ExtendsKeeps DEF Good
<1>3. n \in Nat /\ e \in [Nat -> Nat]
  BY DEF Good, Heap, Owns
<1> QED
  BY <1>1, <1>2, <1>3, PlusMinus

(* The node that new makes. *)
New(h, e, left, entry, right, q) ==
    /\ q.node \in Nat /\ q.node \in DOMAIN q.heap
    /\ Good(q.heap, Plus(e, q.node))
    /\ Extends(h, q.heap) /\ Keeps(h, q.heap)
    /\ q.heap[q.node].height = Larger(h[left].height, h[right].height) + 1
    /\ q.heap[q.node].height \in Nat
    /\ Content(q.heap, q.node) = {entry} \cup Content(h, left) \cup Content(h, right)

LEMMA NewNodeNew ==
    ASSUME NEW h, NEW e \in [Nat -> Nat], NEW left \in Nat, NEW right \in Nat, NEW entry \in Entries,
           Good(h, Plus(Plus(e, left), right)), Fits(h, left, entry, right)
    PROVE  New(h, e, left, entry, right, NewNode(h, left, right, entry))
<1> DEFINE q == NewNode(h, left, right, entry)
<1>1. Good(q.heap, Plus(e, q.node)) /\ Extends(h, q.heap) /\ Made(h, left, entry, right, q)
  BY NewNodeOwned
<1> HIDE DEF q
<1>2. Heap(h) /\ Heap(q.heap)
  BY <1>1 DEF Good
<1>3. q.node \in DOMAIN q.heap /\ q.node \in Nat /\ q.heap[q.node].height \in Nat
  BY <1>1, <1>2, HeightsDescend DEF Made, Heap
<1>4. Keeps(h, q.heap)
  BY <1>1, <1>2, ExtendsKeeps
<1>5. New(h, e, left, entry, right, q)
  BY <1>1, <1>3, <1>4 DEF New, Made
<1> QED
  BY <1>5 DEF q

-----------------------------------------------------------------------------
(* balance.                                                                *)

(* What is known of a node that is not the terminator. *)
Inner(h, n) ==
    /\ n \in DOMAIN h \ {Terminator} /\ n \in Nat
    /\ h[n].left \in DOMAIN h /\ h[n].left \in Nat
    /\ h[n].right \in DOMAIN h /\ h[n].right \in Nat
    /\ h[n].value \in Entries /\ h[n].value[1] \in Int
    /\ h[n].height \in Nat /\ h[h[n].left].height \in Nat /\ h[h[n].right].height \in Nat
    /\ h[n].height = Larger(h[h[n].left].height, h[h[n].right].height) + 1
    /\ h[h[n].left].height - h[h[n].right].height \in -2 .. 2
    /\ \A x \in Content(h, h[n].left) : x[1] \in Int /\ x[1] < h[n].value[1]
    /\ \A x \in Content(h, h[n].right) : x[1] \in Int /\ h[n].value[1] < x[1]
    /\ Content(h, n) = {h[n].value} \cup Content(h, h[n].left) \cup Content(h, h[n].right)

LEMMA InnerNode ==
    ASSUME NEW h, NEW e, Good(h, e), NEW n \in DOMAIN h, h[n].height > 0 \/ n # Terminator
    PROVE  Inner(h, n)
<1>1. Heap(h) /\ Shaped(h)
  BY DEF Good
<1>2. n # Terminator
  <2>1. h[Terminator].height = 0
    BY <1>1 DEF Heap
  <2> QED
    BY <2>1
<1>3. /\ h[n].left \in DOMAIN h /\ h[n].right \in DOMAIN h /\ DOMAIN h \subseteq Nat
      /\ h[n].value \in Entries
      /\ h[n].height = Larger(h[h[n].left].height, h[h[n].right].height) + 1
  BY <1>1, <1>2 DEF Heap
<1>4. \A a \in DOMAIN h : h[a].height \in Nat
  BY <1>1, HeightsDescend
<1>5. Fits(h, h[n].left, h[n].value, h[n].right)
  BY <1>1, <1>2 DEF Shaped
<1>6. /\ Content(h, n) = {h[n].value} \cup Content(h, h[n].left) \cup Content(h, h[n].right)
      /\ Content(h, h[n].left) \subseteq Entries /\ Content(h, h[n].right) \subseteq Entries
  BY <1>1, <1>2, <1>3, ContentDef
<1>7. \A x \in Entries : x[1] \in Int
  BY TreeParameters
<1>8. /\ \A x \in Content(h, h[n].left) : x[1] \in Int /\ x[1] < h[n].value[1]
      /\ \A x \in Content(h, h[n].right) : x[1] \in Int /\ h[n].value[1] < x[1]
  BY <1>5, <1>6, <1>7 DEF Fits
<1>9. h[h[n].left].height - h[h[n].right].height \in -2 .. 2
  BY <1>5 DEF Fits
<1> QED
  BY <1>2, <1>3, <1>4, <1>6, <1>7, <1>8, <1>9 DEF Inner

(* What balance may be called with ... *)
Joins(h, e, left, entry, right) ==
    /\ entry \in Entries
    /\ Good(h, Plus(Plus(e, left), right))
    /\ \A x \in Content(h, left) : x[1] < entry[1]
    /\ \A x \in Content(h, right) : entry[1] < x[1]
    /\ h[left].height - h[right].height \in -3 .. 3

(* ... and what it returns. *)
Joined(h, e, left, entry, right, q) ==
    /\ q.node \in Nat
    /\ Good(q.heap, Plus(e, q.node))
    /\ \E k : Extends(h, k) /\ Extends(q.heap, k)
    /\ Content(q.heap, q.node) = {entry} \cup Content(h, left) \cup Content(h, right)
    /\ q.heap[q.node].height - Larger(h[left].height, h[right].height) \in 0 .. 1
    /\ h[left].height - h[right].height \in -2 .. 2 =>
          q.heap[q.node].height = Larger(h[left].height, h[right].height) + 1

(* A rotation ends with the new node, and without the old one. *)
LEMMA DropJoined ==
    ASSUME NEW h, NEW e \in [Nat -> Nat], NEW old \in Nat, NEW g, NEW n \in Nat,
           Good(g, Plus(Plus(e, old), n)), Extends(h, g),
           NEW left, NEW right, NEW entry, 
           Content(g, n) = {entry} \cup Content(h, left) \cup Content(h, right),
           g[n].height - Larger(h[left].height, h[right].height) \in 0 .. 1,
           ~ (h[left].height - h[right].height \in -2 .. 2),
           NEW r, r.heap = g, r.node = n, Drop(r, old).heap = decref(g, old), Drop(r, old).node = n
    PROVE  Joined(h, e, left, entry, right, Drop(r, old))
<1>1. Plus(e, n) \in [Nat -> Nat] /\ Plus(Plus(e, old), n) = Plus(Plus(e, n), old)
  BY PlusMinus, PlusSwap
<1> DEFINE en == Plus(e, n)
           d == decref(g, old)
<1>2. Good(g, Plus(en, old))
  BY <1>1
<1> HIDE DEF en
<1>3. Good(d, en) /\ Extends(d, g)
  BY <1>1, <1>2, DecrefOwned DEF en
<1> HIDE DEF d
<1>4. Keeps(d, g) /\ n \in DOMAIN d
  <2>1. Heap(d) /\ Heap(g)
    BY <1>2, <1>3 DEF Good
  <2> QED
    BY <1>3, <2>1, ExtendsKeeps, OwnedThere DEF en
<1>5. Content(d, n) = Content(g, n) /\ d[n].height = g[n].height
  BY <1>4 DEF Keeps
<1>6. Drop(r, old).heap = d /\ Drop(r, old).node = n
  BY DEF d
<1> QED
  BY <1>3, <1>5, <1>6 DEF Joined, en

LEMMA JoinedByNew ==
    ASSUME NEW h, NEW e \in [Nat -> Nat], NEW left \in Nat, NEW right \in Nat, NEW entry,
           Joins(h, e, left, entry, right), h[left].height - h[right].height \in -2 .. 2
    PROVE  Joined(h, e, left, entry, right, NewNode(h, left, right, entry))
<1> DEFINE q == NewNode(h, left, right, entry)
<1>1. Fits(h, left, entry, right)
  BY DEF Joins, Fits
<1>2. New(h, e, left, entry, right, q)
  BY <1>1, NewNodeNew DEF Joins
<1> HIDE DEF q
<1>3. left \in DOMAIN h /\ right \in DOMAIN h
  <2>1. Plus(Plus(e, left), right) = Plus(Plus(e, right), left)
    BY PlusSwap
  <2>2. Plus(e, left) \in [Nat -> Nat] /\ Plus(e, right) \in [Nat -> Nat]
    BY PlusMinus
  <2> DEFINE el == Plus(e, left)
             er == Plus(e, right)
  <2>3. Good(h, Plus(el, right)) /\ Good(h, Plus(er, left))
    BY <2>1 DEF Joins
  <2> HIDE DEF el, er
  <2> QED
    BY <2>2, <2>3, OwnedThere DEF el, er
<1>4. h[left].height \in Nat /\ h[right].height \in Nat
  BY <1>3, HeightsDescend DEF Joins, Good
<1>5. Larger(h[left].height, h[right].height) \in Nat
  BY <1>4 DEF Larger
<1>6. q.heap[q.node].height - Larger(h[left].height, h[right].height) \in 0 .. 1
  BY <1>2, <1>5 DEF New
<1>7. Extends(h, q.heap) /\ Extends(q.heap, q.heap)
  BY <1>2 DEF New, Extends, SameNode
<1>8. Joined(h, e, left, entry, right, q)
  BY <1>2, <1>6, <1>7 DEF Joined, New
<1> QED
  BY <1>8 DEF q

LEMMA JoinedHere ==
    ASSUME NEW h, NEW e \in [Nat -> Nat], NEW left \in Nat, NEW right \in Nat, NEW entry,
           Joins(h, e, left, entry, right)
    PROVE  /\ left \in DOMAIN h /\ right \in DOMAIN h
           /\ h[left].height \in Nat /\ h[right].height \in Nat
           /\ entry \in Entries /\ entry[1] \in Int
           /\ \A x \in Content(h, left) : x[1] \in Int /\ x[1] < entry[1]
           /\ \A x \in Content(h, right) : x[1] \in Int /\ entry[1] < x[1]
<1>1. Plus(Plus(e, left), right) = Plus(Plus(e, right), left)
  BY PlusSwap
<1>2. Plus(e, left) \in [Nat -> Nat] /\ Plus(e, right) \in [Nat -> Nat]
  BY PlusMinus
<1> DEFINE el == Plus(e, left)
           er == Plus(e, right)
<1>3. Good(h, Plus(el, right)) /\ Good(h, Plus(er, left))
  BY <1>1 DEF Joins
<1> HIDE DEF el, er
<1>4. left \in DOMAIN h /\ right \in DOMAIN h
  BY <1>2, <1>3, OwnedThere DEF el, er
<1>5. Heap(h)
  BY <1>3 DEF Good
<1>6. h[left].height \in Nat /\ h[right].height \in Nat
  BY <1>4, <1>5, HeightsDescend
<1>7. Content(h, left) \subseteq Entries /\ Content(h, right) \subseteq Entries
  BY <1>4, <1>5, ContentDef
<1> QED
  BY <1>4, <1>6, <1>7, TreeParameters DEF Joins

LEMMA RotatesRight ==
    ASSUME NEW h, NEW e \in [Nat -> Nat], NEW left \in Nat, NEW right \in Nat, NEW entry,
           Joins(h, e, left, entry, right), h[left].height > h[right].height + 2,
           h[h[left].left].height >= h[h[left].right].height
    PROVE  Joined(h, e, left, entry, right, balance(h, left, entry, right))
<1> DEFINE ll == h[left].left
           lr == h[left].right
           lv == h[left].value
           el == Plus(e, left)
           elr == Plus(el, right)
           g1 == incref(h, lr)
           nlr == NewNode(g1, lr, right, entry)
           eln == Plus(el, nlr.node)
           g3 == incref(nlr.heap, ll)
           res == NewNode(g3, ll, nlr.node, lv)
<1>1. /\ left \in DOMAIN h /\ right \in DOMAIN h /\ h[left].height \in Nat /\ h[right].height \in Nat
      /\ entry \in Entries /\ entry[1] \in Int
      /\ \A x \in Content(h, left) : x[1] \in Int /\ x[1] < entry[1]
      /\ \A x \in Content(h, right) : x[1] \in Int /\ entry[1] < x[1]
  BY JoinedHere
<1>2. el \in [Nat -> Nat] /\ elr \in [Nat -> Nat] /\ Good(h, elr)
  BY PlusMinus DEF Joins
<1> HIDE DEF elr
<1>3. Inner(h, left)
  <2>1. h[left].height > 0
    BY <1>1
  <2> QED
    BY <1>1, <1>2, <2>1, InnerNode
<1>4. /\ ll \in DOMAIN h /\ ll \in Nat /\ lr \in DOMAIN h /\ lr \in Nat
      /\ lv \in Entries /\ lv[1] \in Int
      /\ h[ll].height \in Nat /\ h[lr].height \in Nat
      /\ h[left].height = Larger(h[ll].height, h[lr].height) + 1
      /\ h[ll].height - h[lr].height \in -2 .. 2
      /\ \A x \in Content(h, ll) : x[1] \in Int /\ x[1] < lv[1]
      /\ \A x \in Content(h, lr) : x[1] \in Int /\ lv[1] < x[1]
      /\ Content(h, left) = {lv} \cup Content(h, ll) \cup Content(h, lr)
  BY <1>3 DEF Inner
<1>5. /\ h[left].height = h[right].height + 3
      /\ h[ll].height = h[right].height + 2
      /\ h[lr].height - h[right].height \in 0 .. 2
      /\ h[ll].height >= h[lr].height
  <2>1. h[left].height - h[right].height \in -3 .. 3
    BY DEF Joins
  <2> HIDE DEF ll, lr
  <2>2. h[ll].height >= h[lr].height
    BY DEF ll, lr
  <2>3. h[left].height = h[right].height + 3
    BY <1>1, <2>1
  <2>4. h[left].height = h[ll].height + 1
    BY <1>4, <2>2 DEF Larger
  <2> QED
    BY <1>1, <1>4, <2>2, <2>3, <2>4
<1>6. balance(h, left, entry, right) = Drop(res, left)
  BY DEF balance
<1>7. Drop(res, left).heap = decref(res.heap, left) /\ Drop(res, left).node = res.node
  BY DEF Drop, NewNode
<1>8. lv[1] < entry[1]
  BY <1>1, <1>4
<1> HIDE DEF ll, lr, lv, el, g1, nlr, eln, g3, res
<1>9. Good(g1, Plus(elr, lr)) /\ Extends(h, g1) /\ Keeps(h, g1)
  BY <1>2, <1>4, IncrefOwned DEF g1
<1>10. Plus(elr, lr) = Plus(Plus(el, lr), right)
  BY <1>2, <1>4, PlusSwap DEF elr
<1>11. New(g1, el, lr, entry, right, nlr)
  <2>1. Fits(g1, lr, entry, right)
    <3>1. /\ Content(g1, lr) = Content(h, lr) /\ Content(g1, right) = Content(h, right)
          /\ g1[lr].height = h[lr].height /\ g1[right].height = h[right].height
      BY <1>1, <1>4, <1>9 DEF Keeps
    <3>2. \A x \in Content(h, lr) : x[1] < entry[1]
      BY <1>1, <1>4
    <3>3. h[lr].height - h[right].height \in -2 .. 2
      BY <1>1, <1>4, <1>5
    <3> QED
      BY <1>1, <3>1, <3>2, <3>3 DEF Fits
  <2> QED
    BY <1>1, <1>2, <1>4, <1>9, <1>10, <2>1, NewNodeNew DEF nlr
<1>12. /\ nlr.node \in Nat /\ nlr.node \in DOMAIN nlr.heap /\ Good(nlr.heap, eln)
       /\ Extends(h, nlr.heap) /\ Keeps(h, nlr.heap)
       /\ nlr.heap[nlr.node].height = h[lr].height + 1
       /\ Content(nlr.heap, nlr.node) = {entry} \cup Content(h, lr) \cup Content(h, right)
  <2>1. Extends(h, nlr.heap) /\ Keeps(h, nlr.heap)
    BY <1>9, <1>11, ExtendsTransitive, KeepsTransitive DEF New
  <2>2. /\ Content(g1, lr) = Content(h, lr) /\ Content(g1, right) = Content(h, right)
        /\ g1[lr].height = h[lr].height /\ g1[right].height = h[right].height
    BY <1>1, <1>4, <1>9 DEF Keeps
  <2>3. Larger(h[lr].height, h[right].height) = h[lr].height
    BY <1>1, <1>4, <1>5 DEF Larger
  <2> QED
    BY <1>11, <2>1, <2>2, <2>3 DEF New, eln
<1>13. ll \in DOMAIN nlr.heap
  BY <1>4, <1>12 DEF Keeps
<1>14. Good(g3, Plus(eln, ll)) /\ Extends(nlr.heap, g3) /\ Keeps(nlr.heap, g3)
  BY <1>12, <1>13, IncrefOwned DEF g3
<1>15. Extends(h, g3) /\ Keeps(h, g3)
  BY <1>12, <1>14, ExtendsTransitive, KeepsTransitive
<1>16. Plus(eln, ll) = Plus(Plus(el, ll), nlr.node)
  BY <1>2, <1>4, <1>12, PlusSwap DEF eln
<1>17. /\ Content(g3, ll) = Content(h, ll) /\ g3[ll].height = h[ll].height
       /\ Content(g3, nlr.node) = {entry} \cup Content(h, lr) \cup Content(h, right)
       /\ g3[nlr.node].height = h[lr].height + 1
  BY <1>4, <1>12, <1>14, <1>15 DEF Keeps
<1>18. New(g3, el, ll, lv, nlr.node, res)
  <2>1. \A x \in Content(h, lr) : lv[1] < x[1]
    BY <1>4
  <2>2. \A x \in Content(h, right) : lv[1] < x[1]
    BY <1>1, <1>4, <1>8
  <2>3. \A x \in Content(g3, nlr.node) : lv[1] < x[1]
    BY <1>8, <1>17, <2>1, <2>2
  <2>4. h[ll].height - (h[lr].height + 1) \in -2 .. 2
    BY <1>1, <1>4, <1>5
  <2>5. \A x \in Content(g3, ll) : x[1] < lv[1]
    BY <1>4, <1>17
  <2>6. Fits(g3, ll, lv, nlr.node)
    BY <1>17, <2>3, <2>4, <2>5 DEF Fits
  <2> QED
    BY <1>2, <1>4, <1>12, <1>14, <1>16, <2>6, NewNodeNew DEF res
<1>19. /\ res.node \in Nat /\ Good(res.heap, Plus(el, res.node)) /\ Extends(h, res.heap)
       /\ res.heap[res.node].height = Larger(h[ll].height, h[lr].height + 1) + 1
       /\ Content(res.heap, res.node) = {entry} \cup Content(h, left) \cup Content(h, right)
  <2>1. Extends(h, res.heap)
    BY <1>15, <1>18, ExtendsTransitive DEF New
  <2>2. Content(res.heap, res.node) = {lv} \cup Content(h, ll) \cup ({entry} \cup Content(h, lr) \cup Content(h, right))
    BY <1>17, <1>18 DEF New
  <2> QED
    BY <1>4, <1>17, <1>18, <2>1, <2>2 DEF New
<1>20. res.heap[res.node].height - Larger(h[left].height, h[right].height) \in 0 .. 1
  BY <1>1, <1>4, <1>5, <1>19 DEF Larger
<1>21. ~ (h[left].height - h[right].height \in -2 .. 2)
  BY <1>1, <1>5
<1> DEFINE g == res.heap
           n == res.node
<1>22. g = res.heap /\ n = res.node
  OBVIOUS
<1> HIDE DEF g, n
<1>23. /\ n \in Nat /\ Good(g, Plus(Plus(e, left), n)) /\ Extends(h, g)
       /\ Content(g, n) = {entry} \cup Content(h, left) \cup Content(h, right)
       /\ g[n].height - Larger(h[left].height, h[right].height) \in 0 .. 1
       /\ Drop(res, left).heap = decref(g, left) /\ Drop(res, left).node = n
  BY <1>7, <1>19, <1>20, <1>22 DEF el
<1>24. Joined(h, e, left, entry, right, Drop(res, left))
  BY <1>21, <1>22, <1>23, DropJoined
<1> QED
  BY <1>6, <1>24

LEMMA RotatesLeft ==
    ASSUME NEW h, NEW e \in [Nat -> Nat], NEW left \in Nat, NEW right \in Nat, NEW entry,
           Joins(h, e, left, entry, right), h[right].height > h[left].height + 2,
           h[h[right].right].height >= h[h[right].left].height
    PROVE  Joined(h, e, left, entry, right, balance(h, left, entry, right))
<1> DEFINE rl == h[right].left
           rr == h[right].right
           rv == h[right].value
           er == Plus(e, right)
           erl == Plus(er, left)
           g1 == incref(h, rl)
           nrl == NewNode(g1, left, rl, entry)
           ern == Plus(er, nrl.node)
           g3 == incref(nrl.heap, rr)
           res == NewNode(g3, nrl.node, rr, rv)
<1>1. /\ left \in DOMAIN h /\ right \in DOMAIN h /\ h[left].height \in Nat /\ h[right].height \in Nat
      /\ entry \in Entries /\ entry[1] \in Int
      /\ \A x \in Content(h, left) : x[1] \in Int /\ x[1] < entry[1]
      /\ \A x \in Content(h, right) : x[1] \in Int /\ entry[1] < x[1]
  BY JoinedHere
<1>2. er \in [Nat -> Nat] /\ erl \in [Nat -> Nat] /\ Good(h, erl)
  <2>1. er \in [Nat -> Nat]
    BY PlusMinus
  <2>2. erl = Plus(Plus(e, left), right)
    BY PlusSwap
  <2>3. Good(h, erl)
    BY <2>2 DEF Joins
  <2> HIDE DEF er
  <2> QED
    BY <2>1, <2>3, PlusMinus
<1> HIDE DEF erl
<1>3. Inner(h, right)
  <2>1. h[right].height > 0
    BY <1>1
  <2> QED
    BY <1>1, <1>2, <2>1, InnerNode
<1>4. /\ rl \in DOMAIN h /\ rl \in Nat /\ rr \in DOMAIN h /\ rr \in Nat
      /\ rv \in Entries /\ rv[1] \in Int
      /\ h[rl].height \in Nat /\ h[rr].height \in Nat
      /\ h[right].height = Larger(h[rl].height, h[rr].height) + 1
      /\ h[rl].height - h[rr].height \in -2 .. 2
      /\ \A x \in Content(h, rl) : x[1] \in Int /\ x[1] < rv[1]
      /\ \A x \in Content(h, rr) : x[1] \in Int /\ rv[1] < x[1]
      /\ Content(h, right) = {rv} \cup Content(h, rl) \cup Content(h, rr)
  BY <1>3 DEF Inner
<1>5. /\ h[right].height = h[left].height + 3
      /\ h[rr].height = h[left].height + 2
      /\ h[rl].height - h[left].height \in 0 .. 2
      /\ h[rr].height >= h[rl].height
  <2>1. h[left].height - h[right].height \in -3 .. 3
    BY DEF Joins
  <2> HIDE DEF rl, rr
  <2>2. h[rr].height >= h[rl].height
    BY DEF rl, rr
  <2>3. h[right].height = h[left].height + 3
    BY <1>1, <2>1
  <2>4. h[right].height = h[rr].height + 1
    BY <1>4, <2>2 DEF Larger
  <2> QED
    BY <1>1, <1>4, <2>2, <2>3, <2>4
<1>6. balance(h, left, entry, right) = Drop(res, right)
  <2>1. ~ (h[left].height > h[right].height + 2)
    BY <1>1
  <2> QED
    BY <2>1 DEF balance
<1>7. Drop(res, right).heap = decref(res.heap, right) /\ Drop(res, right).node = res.node
  BY DEF Drop, NewNode
<1>8. entry[1] < rv[1]
  BY <1>1, <1>4
<1> HIDE DEF rl, rr, rv, er, g1, nrl, ern, g3, res
<1>9. Good(g1, Plus(erl, rl)) /\ Extends(h, g1) /\ Keeps(h, g1)
  BY <1>2, <1>4, IncrefOwned DEF g1
<1>11. New(g1, er, left, entry, rl, nrl)
  <2>1. Fits(g1, left, entry, rl)
    <3>1. /\ Content(g1, rl) = Content(h, rl) /\ Content(g1, left) = Content(h, left)
          /\ g1[rl].height = h[rl].height /\ g1[left].height = h[left].height
      BY <1>1, <1>4, <1>9 DEF Keeps
    <3>2. \A x \in Content(h, rl) : entry[1] < x[1]
      BY <1>1, <1>4
    <3>3. h[left].height - h[rl].height \in -2 .. 2
      BY <1>1, <1>4, <1>5
    <3> QED
      BY <1>1, <3>1, <3>2, <3>3 DEF Fits
  <2>2. Good(g1, Plus(Plus(er, left), rl))
    BY <1>9 DEF erl
  <2> QED
    BY <1>1, <1>2, <1>4, <2>1, <2>2, NewNodeNew DEF nrl
<1>12. /\ nrl.node \in Nat /\ nrl.node \in DOMAIN nrl.heap /\ Good(nrl.heap, ern)
       /\ Extends(h, nrl.heap) /\ Keeps(h, nrl.heap)
       /\ nrl.heap[nrl.node].height = h[rl].height + 1
       /\ Content(nrl.heap, nrl.node) = {entry} \cup Content(h, left) \cup Content(h, rl)
  <2>1. Extends(h, nrl.heap) /\ Keeps(h, nrl.heap)
    BY <1>9, <1>11, ExtendsTransitive, KeepsTransitive DEF New
  <2>2. /\ Content(g1, rl) = Content(h, rl) /\ Content(g1, left) = Content(h, left)
        /\ g1[rl].height = h[rl].height /\ g1[left].height = h[left].height
    BY <1>1, <1>4, <1>9 DEF Keeps
  <2>3. Larger(h[left].height, h[rl].height) = h[rl].height
    BY <1>1, <1>4, <1>5 DEF Larger
  <2> QED
    BY <1>11, <2>1, <2>2, <2>3 DEF New, ern
<1>13. rr \in DOMAIN nrl.heap
  BY <1>4, <1>12 DEF Keeps
<1>14. Good(g3, Plus(ern, rr)) /\ Extends(nrl.heap, g3) /\ Keeps(nrl.heap, g3)
  BY <1>12, <1>13, IncrefOwned DEF g3
<1>15. Extends(h, g3) /\ Keeps(h, g3)
  BY <1>12, <1>14, ExtendsTransitive, KeepsTransitive
<1>17. /\ Content(g3, rr) = Content(h, rr) /\ g3[rr].height = h[rr].height
       /\ Content(g3, nrl.node) = {entry} \cup Content(h, left) \cup Content(h, rl)
       /\ g3[nrl.node].height = h[rl].height + 1
  BY <1>4, <1>12, <1>14, <1>15 DEF Keeps
<1>18. New(g3, er, nrl.node, rv, rr, res)
  <2>1. \A x \in Content(h, rl) : x[1] < rv[1]
    BY <1>4
  <2>2. \A x \in Content(h, left) : x[1] < rv[1]
    BY <1>1, <1>4, <1>8
  <2>3. \A x \in Content(g3, nrl.node) : x[1] < rv[1]
    BY <1>8, <1>17, <2>1, <2>2
  <2>4. (h[rl].height + 1) - h[rr].height \in -2 .. 2
    BY <1>1, <1>4, <1>5
  <2>5. \A x \in Content(g3, rr) : rv[1] < x[1]
    BY <1>4, <1>17
  <2>6. Fits(g3, nrl.node, rv, rr)
    BY <1>17, <2>3, <2>4, <2>5 DEF Fits
  <2>7. Good(g3, Plus(Plus(er, nrl.node), rr))
    BY <1>14 DEF ern
  <2> QED
    BY <1>2, <1>4, <1>12, <2>6, <2>7, NewNodeNew DEF res
<1>19. /\ res.node \in Nat /\ Good(res.heap, Plus(er, res.node)) /\ Extends(h, res.heap)
       /\ res.heap[res.node].height = Larger(h[rl].height + 1, h[rr].height) + 1
       /\ Content(res.heap, res.node) = {entry} \cup Content(h, left) \cup Content(h, right)
  <2>1. Extends(h, res.heap)
    BY <1>15, <1>18, ExtendsTransitive DEF New
  <2>2. Content(res.heap, res.node) = {rv} \cup ({entry} \cup Content(h, left) \cup Content(h, rl)) \cup Content(h, rr)
    BY <1>17, <1>18 DEF New
  <2> QED
    BY <1>4, <1>17, <1>18, <2>1, <2>2 DEF New
<1>20. res.heap[res.node].height - Larger(h[left].height, h[right].height) \in 0 .. 1
  BY <1>1, <1>4, <1>5, <1>19 DEF Larger
<1>21. ~ (h[left].height - h[right].height \in -2 .. 2)
  BY <1>1, <1>5
<1> DEFINE g == res.heap
           n == res.node
<1>22. g = res.heap /\ n = res.node
  OBVIOUS
<1> HIDE DEF g, n
<1>23. /\ n \in Nat /\ Good(g, Plus(Plus(e, right), n)) /\ Extends(h, g)
       /\ Content(g, n) = {entry} \cup Content(h, left) \cup Content(h, right)
       /\ g[n].height - Larger(h[left].height, h[right].height) \in 0 .. 1
       /\ Drop(res, right).heap = decref(g, right) /\ Drop(res, right).node = n
  BY <1>7, <1>19, <1>20, <1>22 DEF er
<1>24. Joined(h, e, left, entry, right, Drop(res, right))
  BY <1>21, <1>22, <1>23, DropJoined
<1> QED
  BY <1>6, <1>24

LEMMA RotatesRightTwice ==
    ASSUME NEW h, NEW e \in [Nat -> Nat], NEW left \in Nat, NEW right \in Nat, NEW entry,
           Joins(h, e, left, entry, right), h[left].height > h[right].height + 2,
           ~ (h[h[left].left].height >= h[h[left].right].height)
    PROVE  Joined(h, e, left, entry, right, balance(h, left, entry, right))
<1> DEFINE ll == h[left].left
           lr == h[left].right
           lv == h[left].value
           a == h[lr].left
           b == h[lr].right
           w == h[lr].value
           el == Plus(e, left)
           elr == Plus(el, right)
           g1 == incref(h, ll)
           g2 == incref(g1, a)
           nll == NewNode(g2, ll, a, lv)
           g3 == incref(nll.heap, b)
           nlr == NewNode(g3, b, right, entry)
           res == NewNode(nlr.heap, nll.node, nlr.node, w)
           eln == Plus(el, nll.node)
           tall == h[right].height
<1>1. /\ left \in DOMAIN h /\ right \in DOMAIN h /\ h[left].height \in Nat /\ h[right].height \in Nat
      /\ entry \in Entries /\ entry[1] \in Int
      /\ \A x \in Content(h, left) : x[1] \in Int /\ x[1] < entry[1]
      /\ \A x \in Content(h, right) : x[1] \in Int /\ entry[1] < x[1]
  BY JoinedHere
<1>2. el \in [Nat -> Nat] /\ elr \in [Nat -> Nat] /\ Good(h, elr)
  BY PlusMinus DEF Joins
<1> HIDE DEF elr
<1>3. Inner(h, left)
  <2>1. h[left].height > 0
    BY <1>1
  <2> QED
    BY <1>1, <1>2, <2>1, InnerNode
<1>4. /\ ll \in DOMAIN h /\ ll \in Nat /\ lr \in DOMAIN h /\ lr \in Nat
      /\ lv \in Entries /\ lv[1] \in Int
      /\ h[ll].height \in Nat /\ h[lr].height \in Nat
      /\ h[left].height = Larger(h[ll].height, h[lr].height) + 1
      /\ h[ll].height - h[lr].height \in -2 .. 2
      /\ \A x \in Content(h, ll) : x[1] \in Int /\ x[1] < lv[1]
      /\ \A x \in Content(h, lr) : x[1] \in Int /\ lv[1] < x[1]
      /\ Content(h, left) = {lv} \cup Content(h, ll) \cup Content(h, lr)
  BY <1>3 DEF Inner
<1> DEFINE A == h[a].height
           B == h[b].height
           L == h[ll].height
           M == h[lr].height
<1>5. M > L
  BY <1>4
<1> HIDE DEF ll, lr
<1>6. Inner(h, lr)
  <2>1. h[lr].height > 0
    BY <1>4, <1>5
  <2> QED
    BY <1>2, <1>4, <2>1, InnerNode
<1>7. /\ a \in DOMAIN h /\ a \in Nat /\ b \in DOMAIN h /\ b \in Nat
      /\ w \in Entries /\ w[1] \in Int
      /\ A \in Nat /\ B \in Nat
      /\ M = Larger(A, B) + 1
      /\ A - B \in -2 .. 2
      /\ \A x \in Content(h, a) : x[1] \in Int /\ x[1] < w[1]
      /\ \A x \in Content(h, b) : x[1] \in Int /\ w[1] < x[1]
      /\ Content(h, lr) = {w} \cup Content(h, a) \cup Content(h, b)
  BY <1>6 DEF Inner
<1>8. /\ tall \in Nat /\ L \in Nat /\ M \in Nat /\ h[left].height = tall + 3
      /\ M = tall + 2 /\ Larger(A, B) = tall + 1
      /\ L - tall \in 0 .. 1
      /\ A - tall \in -1 .. 1 /\ B - tall \in -1 .. 1
      /\ (A = tall + 1 \/ B = tall + 1)
  <2>1. h[left].height - tall \in -3 .. 3 /\ h[left].height > tall + 2
    BY DEF Joins
  <2>2. L \in Nat /\ M \in Nat /\ tall \in Nat /\ L - M \in -2 .. 2 /\ h[left].height = Larger(L, M) + 1
    BY <1>1, <1>4
  <2>3. A \in Nat /\ B \in Nat /\ M = Larger(A, B) + 1 /\ A - B \in -2 .. 2
    BY <1>7
  <2> HIDE DEF A, B, L, M, tall
  <2>4. h[left].height = tall + 3
    BY <1>1, <2>1, <2>2
  <2>5. h[left].height = M + 1
    BY <1>5, <2>2 DEF Larger
  <2>6. M = tall + 2 /\ L - tall \in 0 .. 1 /\ Larger(A, B) = tall + 1
    <3>1. Larger(A, B) \in Nat
      BY <2>3 DEF Larger
    <3>2. M = tall + 2
      BY <2>2, <2>4, <2>5
    <3> QED
      BY <1>5, <2>2, <2>3, <3>1, <3>2
  <2>7. A - tall \in -1 .. 1 /\ B - tall \in -1 .. 1 /\ (A = tall + 1 \/ B = tall + 1)
    BY <2>2, <2>3, <2>6 DEF Larger
  <2> QED
    BY <2>2, <2>4, <2>6, <2>7
<1>9. balance(h, left, entry, right) = Drop(res, left)
  BY DEF balance, ll, lr
<1>10. Drop(res, left).heap = decref(res.heap, left) /\ Drop(res, left).node = res.node
  BY DEF Drop, NewNode
<1>11. lv[1] < w[1] /\ w[1] < entry[1]
  BY <1>1, <1>4, <1>7
<1> HIDE DEF lv, a, b, w, el, g1, g2, nll, g3, nlr, res, eln
<1>12. Good(g1, Plus(elr, ll)) /\ Extends(h, g1) /\ Keeps(h, g1) /\ Plus(elr, ll) \in [Nat -> Nat]
  BY <1>2, <1>4, IncrefOwned DEF g1
<1>13. Good(g2, Plus(Plus(elr, ll), a)) /\ Extends(h, g2) /\ Keeps(h, g2)
  <2>1. a \in DOMAIN g1
    BY <1>7, <1>12 DEF Keeps
  <2>2. Good(g2, Plus(Plus(elr, ll), a)) /\ Extends(g1, g2) /\ Keeps(g1, g2)
    BY <1>12, <2>1, IncrefOwned DEF g2
  <2> QED
    BY <1>12, <2>2, ExtendsTransitive, KeepsTransitive
<1>14. New(g2, elr, ll, lv, a, nll)
  <2>1. /\ Content(g2, ll) = Content(h, ll) /\ Content(g2, a) = Content(h, a)
        /\ g2[ll].height = L /\ g2[a].height = A
    BY <1>4, <1>7, <1>13 DEF Keeps
  <2>2. \A x \in Content(h, a) : lv[1] < x[1]
    BY <1>4, <1>7
  <2>3. L - A \in -2 .. 2
    <3> HIDE DEF A, B, L, M, tall
    <3> QED
      BY <1>7, <1>8
  <2>4. Fits(g2, ll, lv, a)
    BY <1>4, <2>1, <2>2, <2>3 DEF Fits
  <2> QED
    BY <1>2, <1>4, <1>7, <1>13, <2>4, NewNodeNew DEF nll
<1>15. /\ nll.node \in Nat /\ nll.node \in DOMAIN nll.heap /\ Good(nll.heap, Plus(elr, nll.node))
       /\ Extends(h, nll.heap) /\ Keeps(h, nll.heap)
       /\ nll.heap[nll.node].height = Larger(L, A) + 1
       /\ Content(nll.heap, nll.node) = {lv} \cup Content(h, ll) \cup Content(h, a)
  <2>1. Extends(h, nll.heap) /\ Keeps(h, nll.heap)
    BY <1>13, <1>14, ExtendsTransitive, KeepsTransitive DEF New
  <2>2. /\ Content(g2, ll) = Content(h, ll) /\ Content(g2, a) = Content(h, a)
        /\ g2[ll].height = L /\ g2[a].height = A
    BY <1>4, <1>7, <1>13 DEF Keeps
  <2> QED
    BY <1>14, <2>1, <2>2 DEF New
<1>16. eln \in [Nat -> Nat] /\ Plus(elr, nll.node) = Plus(eln, right) /\ Plus(eln, right) \in [Nat -> Nat]
  BY <1>2, <1>15, PlusMinus, PlusSwap DEF elr, eln
<1>17. Good(g3, Plus(Plus(eln, right), b)) /\ Extends(nll.heap, g3) /\ Keeps(nll.heap, g3)
  <2>1. b \in DOMAIN nll.heap
    BY <1>7, <1>15 DEF Keeps
  <2> QED
    BY <1>15, <1>16, <2>1, IncrefOwned DEF g3
<1>18. Extends(h, g3) /\ Keeps(h, g3)
  BY <1>15, <1>17, ExtendsTransitive, KeepsTransitive
<1>19. Plus(Plus(eln, right), b) = Plus(Plus(eln, b), right)
  BY <1>7, <1>16, PlusSwap
<1>20. /\ Content(g3, b) = Content(h, b) /\ Content(g3, right) = Content(h, right)
       /\ g3[b].height = B /\ g3[right].height = tall
  BY <1>1, <1>7, <1>18 DEF Keeps
<1>21. New(g3, eln, b, entry, right, nlr)
  <2>1. \A x \in Content(h, b) : x[1] < entry[1]
    BY <1>1, <1>4, <1>7
  <2>2. B - tall \in -2 .. 2
    <3> HIDE DEF A, B, L, M, tall
    <3> QED
      BY <1>7, <1>8
  <2>3. Fits(g3, b, entry, right)
    BY <1>1, <1>20, <2>1, <2>2 DEF Fits
  <2> QED
    BY <1>1, <1>7, <1>16, <1>17, <1>19, <2>3, NewNodeNew DEF nlr
<1>22. /\ nlr.node \in Nat /\ Good(nlr.heap, Plus(eln, nlr.node))
       /\ Extends(h, nlr.heap)
       /\ nlr.heap[nlr.node].height = Larger(B, tall) + 1
       /\ Content(nlr.heap, nlr.node) = {entry} \cup Content(h, b) \cup Content(h, right)
       /\ nlr.heap[nll.node].height = Larger(L, A) + 1
       /\ Content(nlr.heap, nll.node) = {lv} \cup Content(h, ll) \cup Content(h, a)
  <2>1. Extends(h, nlr.heap)
    BY <1>18, <1>21, ExtendsTransitive DEF New
  <2>2. Keeps(nll.heap, nlr.heap)
    BY <1>17, <1>21, KeepsTransitive DEF New
  <2> QED
    BY <1>15, <1>20, <1>21, <2>1, <2>2 DEF New, Keeps
<1>23. New(nlr.heap, el, nll.node, w, nlr.node, res)
  <2>1. \A x \in {lv} \cup Content(h, ll) \cup Content(h, a) : x[1] < w[1]
    BY <1>4, <1>7, <1>11
  <2>2. \A x \in {entry} \cup Content(h, b) \cup Content(h, right) : w[1] < x[1]
    BY <1>1, <1>7, <1>11
  <2>3. (Larger(L, A) + 1) - (Larger(B, tall) + 1) \in -2 .. 2
    <3> HIDE DEF A, B, L, M, tall
    <3> QED
      BY <1>7, <1>8 DEF Larger
  <2>4. Fits(nlr.heap, nll.node, w, nlr.node)
    BY <1>22, <2>1, <2>2, <2>3 DEF Fits
  <2>5. Good(nlr.heap, Plus(Plus(el, nll.node), nlr.node))
    BY <1>22 DEF eln
  <2> QED
    BY <1>2, <1>7, <1>15, <1>22, <2>4, <2>5, NewNodeNew DEF res
<1>24. /\ res.node \in Nat /\ Good(res.heap, Plus(el, res.node)) /\ Extends(h, res.heap)
       /\ res.heap[res.node].height = Larger(Larger(L, A) + 1, Larger(B, tall) + 1) + 1
       /\ Content(res.heap, res.node) = {entry} \cup Content(h, left) \cup Content(h, right)
  <2>1. Extends(h, res.heap)
    BY <1>22, <1>23, ExtendsTransitive DEF New
  <2>2. Content(res.heap, res.node) =
           {w} \cup ({lv} \cup Content(h, ll) \cup Content(h, a)) \cup ({entry} \cup Content(h, b) \cup Content(h, right))
    BY <1>22, <1>23 DEF New
  <2>3. res.heap[res.node].height = Larger(Larger(L, A) + 1, Larger(B, tall) + 1) + 1
    BY <1>22, <1>23 DEF New
  <2>4. {w} \cup ({lv} \cup Content(h, ll) \cup Content(h, a)) \cup ({entry} \cup Content(h, b) \cup Content(h, right))
          = {entry} \cup Content(h, left) \cup Content(h, right)
    BY <1>4, <1>7
  <2> QED
    BY <1>23, <2>1, <2>2, <2>3, <2>4 DEF New
<1>25. /\ res.heap[res.node].height - Larger(h[left].height, h[right].height) \in 0 .. 1
       /\ ~ (h[left].height - h[right].height \in -2 .. 2)
  <2>1. Larger(h[left].height, h[right].height) = tall + 3
    BY <1>1, <1>8 DEF Larger
  <2>2. \A H : H = Larger(Larger(L, A) + 1, Larger(B, tall) + 1) + 1 => H - (tall + 3) \in 0 .. 1
    <3> HIDE DEF A, B, L, M, tall
    <3> QED
      BY <1>7, <1>8 DEF Larger
  <2>3. ~ (h[left].height - h[right].height \in -2 .. 2)
    BY <1>1, <1>8
  <2>4. res.heap[res.node].height = Larger(Larger(L, A) + 1, Larger(B, tall) + 1) + 1
    BY <1>24
  <2>5. res.heap[res.node].height - (tall + 3) \in 0 .. 1
    <3> HIDE DEF A, B, L, M, tall
    <3> QED
      BY <2>2, <2>4
  <2> HIDE DEF tall
  <2> QED
    BY <2>1, <2>3, <2>5
<1> DEFINE g == res.heap
           n == res.node
<1>26. g = res.heap /\ n = res.node
  OBVIOUS
<1> HIDE DEF g, n
<1>27. /\ n \in Nat /\ Good(g, Plus(Plus(e, left), n)) /\ Extends(h, g)
       /\ Content(g, n) = {entry} \cup Content(h, left) \cup Content(h, right)
       /\ g[n].height - Larger(h[left].height, h[right].height) \in 0 .. 1
       /\ Drop(res, left).heap = decref(g, left) /\ Drop(res, left).node = n
  BY <1>10, <1>24, <1>25, <1>26 DEF el
<1>28. Joined(h, e, left, entry, right, Drop(res, left))
  BY <1>25, <1>26, <1>27, DropJoined
<1> QED
  BY <1>9, <1>28

LEMMA RotatesLeftTwice ==
    ASSUME NEW h, NEW e \in [Nat -> Nat], NEW left \in Nat, NEW right \in Nat, NEW entry,
           Joins(h, e, left, entry, right), h[right].height > h[left].height + 2,
           ~ (h[h[right].right].height >= h[h[right].left].height)
    PROVE  Joined(h, e, left, entry, right, balance(h, left, entry, right))
<1> DEFINE rl == h[right].left
           rr == h[right].right
           rv == h[right].value
           a == h[rl].left
           b == h[rl].right
           w == h[rl].value
           er == Plus(e, right)
           erl == Plus(er, left)
           g1 == incref(h, a)
           nrl == NewNode(g1, left, a, entry)
           g2 == incref(nrl.heap, b)
           g3 == incref(g2, rr)
           nrr == NewNode(g3, b, rr, rv)
           res == NewNode(nrr.heap, nrl.node, nrr.node, w)
           ern == Plus(er, nrl.node)
           tall == h[left].height
<1>1. /\ left \in DOMAIN h /\ right \in DOMAIN h /\ h[left].height \in Nat /\ h[right].height \in Nat
      /\ entry \in Entries /\ entry[1] \in Int
      /\ \A x \in Content(h, left) : x[1] \in Int /\ x[1] < entry[1]
      /\ \A x \in Content(h, right) : x[1] \in Int /\ entry[1] < x[1]
  BY JoinedHere
<1>2. er \in [Nat -> Nat] /\ erl \in [Nat -> Nat] /\ Good(h, erl)
  <2>1. er \in [Nat -> Nat]
    BY PlusMinus
  <2>2. erl = Plus(Plus(e, left), right)
    BY PlusSwap
  <2>3. Good(h, erl)
    BY <2>2 DEF Joins
  <2> HIDE DEF er
  <2> QED
    BY <2>1, <2>3, PlusMinus
<1> HIDE DEF erl
<1>3. Inner(h, right)
  <2>1. h[right].height > 0
    BY <1>1
  <2> QED
    BY <1>1, <1>2, <2>1, InnerNode
<1>4. /\ rl \in DOMAIN h /\ rl \in Nat /\ rr \in DOMAIN h /\ rr \in Nat
      /\ rv \in Entries /\ rv[1] \in Int
      /\ h[rl].height \in Nat /\ h[rr].height \in Nat
      /\ h[right].height = Larger(h[rl].height, h[rr].height) + 1
      /\ h[rl].height - h[rr].height \in -2 .. 2
      /\ \A x \in Content(h, rl) : x[1] \in Int /\ x[1] < rv[1]
      /\ \A x \in Content(h, rr) : x[1] \in Int /\ rv[1] < x[1]
      /\ Content(h, right) = {rv} \cup Content(h, rl) \cup Content(h, rr)
  BY <1>3 DEF Inner
<1> DEFINE A == h[a].height
           B == h[b].height
           L == h[rr].height
           M == h[rl].height
<1>5. M > L
  BY <1>4
<1> HIDE DEF rl, rr
<1>6. Inner(h, rl)
  <2>1. h[rl].height > 0
    BY <1>4, <1>5
  <2> QED
    BY <1>2, <1>4, <2>1, InnerNode
<1>7. /\ a \in DOMAIN h /\ a \in Nat /\ b \in DOMAIN h /\ b \in Nat
      /\ w \in Entries /\ w[1] \in Int
      /\ A \in Nat /\ B \in Nat
      /\ M = Larger(A, B) + 1
      /\ A - B \in -2 .. 2
      /\ \A x \in Content(h, a) : x[1] \in Int /\ x[1] < w[1]
      /\ \A x \in Content(h, b) : x[1] \in Int /\ w[1] < x[1]
      /\ Content(h, rl) = {w} \cup Content(h, a) \cup Content(h, b)
  BY <1>6 DEF Inner
<1>8. /\ tall \in Nat /\ L \in Nat /\ M \in Nat /\ h[right].height = tall + 3
      /\ M = tall + 2 /\ Larger(A, B) = tall + 1
      /\ L - tall \in 0 .. 1
      /\ A - tall \in -1 .. 1 /\ B - tall \in -1 .. 1
      /\ (A = tall + 1 \/ B = tall + 1)
  <2>1. tall - h[right].height \in -3 .. 3 /\ h[right].height > tall + 2
    BY DEF Joins
  <2>2. L \in Nat /\ M \in Nat /\ tall \in Nat /\ M - L \in -2 .. 2 /\ h[right].height = Larger(M, L) + 1
    BY <1>1, <1>4
  <2>3. A \in Nat /\ B \in Nat /\ M = Larger(A, B) + 1 /\ A - B \in -2 .. 2
    BY <1>7
  <2> HIDE DEF A, B, L, M, tall
  <2>4. h[right].height = tall + 3
    BY <1>1, <2>1, <2>2
  <2>5. h[right].height = M + 1
    BY <1>5, <2>2 DEF Larger
  <2>6. M = tall + 2 /\ L - tall \in 0 .. 1 /\ Larger(A, B) = tall + 1
    <3>1. Larger(A, B) \in Nat
      BY <2>3 DEF Larger
    <3>2. M = tall + 2
      BY <2>2, <2>4, <2>5
    <3> QED
      BY <1>5, <2>2, <2>3, <3>1, <3>2
  <2>7. A - tall \in -1 .. 1 /\ B - tall \in -1 .. 1 /\ (A = tall + 1 \/ B = tall + 1)
    BY <2>2, <2>3, <2>6 DEF Larger
  <2> QED
    BY <2>2, <2>4, <2>6, <2>7
<1>9. balance(h, left, entry, right) = Drop(res, right)
  <2>1. ~ (h[left].height > h[right].height + 2)
    BY <1>1
  <2> QED
    BY <2>1 DEF balance, rl, rr
<1>10. Drop(res, right).heap = decref(res.heap, right) /\ Drop(res, right).node = res.node
  BY DEF Drop, NewNode
<1>11. entry[1] < w[1] /\ w[1] < rv[1]
  BY <1>1, <1>4, <1>7
<1> HIDE DEF rv, a, b, w, er, g1, g2, nrl, g3, nrr, res, ern
<1>13. Good(g1, Plus(erl, a)) /\ Extends(h, g1) /\ Keeps(h, g1)
  BY <1>2, <1>7, IncrefOwned DEF g1
<1>14. New(g1, er, left, entry, a, nrl)
  <2>1. /\ Content(g1, left) = Content(h, left) /\ Content(g1, a) = Content(h, a)
        /\ g1[left].height = tall /\ g1[a].height = A
    BY <1>1, <1>7, <1>13 DEF Keeps
  <2>2. \A x \in Content(h, a) : entry[1] < x[1]
    BY <1>1, <1>4, <1>7
  <2>3. tall - A \in -2 .. 2
    <3> HIDE DEF A, B, L, M, tall
    <3> QED
      BY <1>7, <1>8
  <2>4. Fits(g1, left, entry, a)
    BY <1>1, <2>1, <2>2, <2>3 DEF Fits
  <2>5. Good(g1, Plus(Plus(er, left), a))
    BY <1>13 DEF erl
  <2> QED
    BY <1>1, <1>2, <1>7, <2>4, <2>5, NewNodeNew DEF nrl
<1>15. /\ nrl.node \in Nat /\ nrl.node \in DOMAIN nrl.heap /\ Good(nrl.heap, ern)
       /\ ern \in [Nat -> Nat]
       /\ Extends(h, nrl.heap) /\ Keeps(h, nrl.heap)
       /\ nrl.heap[nrl.node].height = Larger(tall, A) + 1
       /\ Content(nrl.heap, nrl.node) = {entry} \cup Content(h, left) \cup Content(h, a)
  <2>1. Extends(h, nrl.heap) /\ Keeps(h, nrl.heap)
    BY <1>13, <1>14, ExtendsTransitive, KeepsTransitive DEF New
  <2>2. /\ Content(g1, left) = Content(h, left) /\ Content(g1, a) = Content(h, a)
        /\ g1[left].height = tall /\ g1[a].height = A
    BY <1>1, <1>7, <1>13 DEF Keeps
  <2>3. nrl.node \in Nat
    BY <1>14 DEF New
  <2>4. ern \in [Nat -> Nat]
    BY <1>2, <2>3, PlusMinus DEF ern
  <2> QED
    BY <1>14, <2>1, <2>2, <2>4 DEF New, ern
<1>16. Good(g2, Plus(ern, b)) /\ Extends(nrl.heap, g2) /\ Keeps(nrl.heap, g2) /\ Plus(ern, b) \in [Nat -> Nat]
  <2>1. b \in DOMAIN nrl.heap
    BY <1>7, <1>15 DEF Keeps
  <2> QED
    BY <1>15, <2>1, IncrefOwned DEF g2
<1>17. Good(g3, Plus(Plus(ern, b), rr)) /\ Extends(nrl.heap, g3) /\ Keeps(nrl.heap, g3)
  <2>1. rr \in DOMAIN g2
    BY <1>4, <1>15, <1>16 DEF Keeps
  <2>2. Good(g3, Plus(Plus(ern, b), rr)) /\ Extends(g2, g3) /\ Keeps(g2, g3)
    BY <1>16, <2>1, IncrefOwned DEF g3
  <2> QED
    BY <1>16, <2>2, ExtendsTransitive, KeepsTransitive
<1>18. Extends(h, g3) /\ Keeps(h, g3)
  BY <1>15, <1>17, ExtendsTransitive, KeepsTransitive
<1>20. /\ Content(g3, b) = Content(h, b) /\ Content(g3, rr) = Content(h, rr)
       /\ g3[b].height = B /\ g3[rr].height = L
  BY <1>4, <1>7, <1>18 DEF Keeps
<1>21. New(g3, ern, b, rv, rr, nrr)
  <2>1. \A x \in Content(h, b) : x[1] < rv[1]
    BY <1>4, <1>7
  <2>2. B - L \in -2 .. 2
    <3> HIDE DEF A, B, L, M, tall
    <3> QED
      BY <1>7, <1>8
  <2>3. Fits(g3, b, rv, rr)
    BY <1>4, <1>20, <2>1, <2>2 DEF Fits
  <2> QED
    BY <1>4, <1>7, <1>15, <1>17, <2>3, NewNodeNew DEF nrr
<1>22. /\ nrr.node \in Nat /\ Good(nrr.heap, Plus(ern, nrr.node))
       /\ Extends(h, nrr.heap)
       /\ nrr.heap[nrr.node].height = Larger(B, L) + 1
       /\ Content(nrr.heap, nrr.node) = {rv} \cup Content(h, b) \cup Content(h, rr)
       /\ nrr.heap[nrl.node].height = Larger(tall, A) + 1
       /\ Content(nrr.heap, nrl.node) = {entry} \cup Content(h, left) \cup Content(h, a)
  <2>1. Extends(h, nrr.heap)
    BY <1>18, <1>21, ExtendsTransitive DEF New
  <2>2. Keeps(nrl.heap, nrr.heap)
    BY <1>17, <1>21, KeepsTransitive DEF New
  <2> QED
    BY <1>15, <1>20, <1>21, <2>1, <2>2 DEF New, Keeps
<1>23. New(nrr.heap, er, nrl.node, w, nrr.node, res)
  <2>1. \A x \in {entry} \cup Content(h, left) \cup Content(h, a) : x[1] < w[1]
    BY <1>1, <1>7, <1>11
  <2>2. \A x \in {rv} \cup Content(h, b) \cup Content(h, rr) : w[1] < x[1]
    BY <1>4, <1>7, <1>11
  <2>3. (Larger(tall, A) + 1) - (Larger(B, L) + 1) \in -2 .. 2
    <3> HIDE DEF A, B, L, M, tall
    <3> QED
      BY <1>7, <1>8 DEF Larger
  <2>4. Fits(nrr.heap, nrl.node, w, nrr.node)
    BY <1>22, <2>1, <2>2, <2>3 DEF Fits
  <2>5. Good(nrr.heap, Plus(Plus(er, nrl.node), nrr.node))
    BY <1>22 DEF ern
  <2> QED
    BY <1>2, <1>7, <1>15, <1>22, <2>4, <2>5, NewNodeNew DEF res
<1>24. /\ res.node \in Nat /\ Good(res.heap, Plus(er, res.node)) /\ Extends(h, res.heap)
       /\ res.heap[res.node].height = Larger(Larger(tall, A) + 1, Larger(B, L) + 1) + 1
       /\ Content(res.heap, res.node) = {entry} \cup Content(h, left) \cup Content(h, right)
  <2>1. Extends(h, res.heap)
    BY <1>22, <1>23, ExtendsTransitive DEF New
  <2>2. Content(res.heap, res.node) =
           {w} \cup ({entry} \cup Content(h, left) \cup Content(h, a)) \cup ({rv} \cup Content(h, b) \cup Content(h, rr))
    BY <1>22, <1>23 DEF New
  <2>3. res.heap[res.node].height = Larger(Larger(tall, A) + 1, Larger(B, L) + 1) + 1
    BY <1>22, <1>23 DEF New
  <2>4. {w} \cup ({entry} \cup Content(h, left) \cup Content(h, a)) \cup ({rv} \cup Content(h, b) \cup Content(h, rr))
          = {entry} \cup Content(h, left) \cup Content(h, right)
    BY <1>4, <1>7
  <2> QED
    BY <1>23, <2>1, <2>2, <2>3, <2>4 DEF New
<1>25. /\ res.heap[res.node].height - Larger(h[left].height, h[right].height) \in 0 .. 1
       /\ ~ (h[left].height - h[right].height \in -2 .. 2)
  <2>1. Larger(h[left].height, h[right].height) = tall + 3
    BY <1>1, <1>8 DEF Larger
  <2>2. \A H : H = Larger(Larger(tall, A) + 1, Larger(B, L) + 1) + 1 => H - (tall + 3) \in 0 .. 1
    <3> HIDE DEF A, B, L, M, tall
    <3> QED
      BY <1>7, <1>8 DEF Larger
  <2>3. ~ (h[left].height - h[right].height \in -2 .. 2)
    BY <1>1, <1>8
  <2>4. res.heap[res.node].height = Larger(Larger(tall, A) + 1, Larger(B, L) + 1) + 1
    BY <1>24
  <2>5. res.heap[res.node].height - (tall + 3) \in 0 .. 1
    <3> HIDE DEF A, B, L, M, tall
    <3> QED
      BY <2>2, <2>4
  <2> HIDE DEF tall
  <2> QED
    BY <2>1, <2>3, <2>5
<1> DEFINE g == res.heap
           n == res.node
<1>26. g = res.heap /\ n = res.node
  OBVIOUS
<1> HIDE DEF g, n
<1>27. /\ n \in Nat /\ Good(g, Plus(Plus(e, right), n)) /\ Extends(h, g)
       /\ Content(g, n) = {entry} \cup Content(h, left) \cup Content(h, right)
       /\ g[n].height - Larger(h[left].height, h[right].height) \in 0 .. 1
       /\ Drop(res, right).heap = decref(g, right) /\ Drop(res, right).node = n
  BY <1>10, <1>24, <1>25, <1>26 DEF er
<1>28. Joined(h, e, left, entry, right, Drop(res, right))
  BY <1>25, <1>26, <1>27, DropJoined
<1> QED
  BY <1>9, <1>28

(* Whichever way it rotates, balance returns a tree with the entries it    *)
(* was given, and no other heights than those that its callers rely on.    *)
LEMMA BalanceJoins ==
    ASSUME NEW h, NEW e \in [Nat -> Nat], NEW left \in Nat, NEW right \in Nat, NEW entry,
           Joins(h, e, left, entry, right)
    PROVE  Joined(h, e, left, entry, right, balance(h, left, entry, right))
<1>1. h[left].height \in Nat /\ h[right].height \in Nat
  BY JoinedHere
<1>2. h[left].height - h[right].height \in -3 .. 3
  BY DEF Joins
<1>3. CASE h[left].height > h[right].height + 2
  BY <1>3, RotatesRight, RotatesRightTwice
<1>4. CASE h[right].height > h[left].height + 2
  BY <1>4, RotatesLeft, RotatesLeftTwice
<1>5. CASE ~ (h[left].height > h[right].height + 2) /\ ~ (h[right].height > h[left].height + 2)
  <2>1. h[left].height - h[right].height \in -2 .. 2
    BY <1>1, <1>5
  <2>2. balance(h, left, entry, right) = NewNode(h, left, right, entry)
    BY <1>5 DEF balance
  <2> QED
    BY <2>1, <2>2, JoinedByNew
<1> QED
  BY <1>3, <1>4, <1>5

-----------------------------------------------------------------------------
(* Operations: what they return.                                           *)

(* What an operation on the tree at n returns: a tree with the entries     *)
(* given, as high as that at n or one more (by = 0) or less (by = -1),     *)
(* and all of the heap it was called on.                                   *)
Result(h, e, n, r, entries, by) ==
    /\ r.node \in Nat
    /\ Good(r.heap, Plus(e, r.node))
    /\ Extends(h, r.heap)
    /\ Content(r.heap, r.node) = entries
    /\ r.heap[r.node].height - (h[n].height + by) \in 0 .. 1

LEMMA JoinedExtends ==
    ASSUME NEW h, NEW e, Good(h, e), NEW g, Extends(h, g), NEW left, NEW entry, NEW right, NEW q,
           Joined(g, e, left, entry, right, q)
    PROVE  Extends(h, q.heap)
<1>1. PICK k : Extends(g, k) /\ Extends(q.heap, k)
  BY DEF Joined
<1>2. Extends(h, k)
  BY <1>1, ExtendsTransitive
<1>3. e \in [Nat -> Nat] /\ q.node \in Nat
  BY DEF Good, Owns, Joined
<1> DEFINE f == Plus(e, q.node)
<1>4. \A n \in Nat : f[n] = e[n] + One(n, q.node)
  BY <1>3, PlusMinus
<1> HIDE DEF f
<1>5. \A n \in Nat : f[n] >= e[n]
  <2> SUFFICES ASSUME NEW n \in Nat PROVE f[n] >= e[n]
    OBVIOUS
  <2>1. f[n] = e[n] + One(n, q.node) /\ e[n] \in Nat /\ One(n, q.node) \in {0, 1}
    BY <1>3, <1>4 DEF One
  <2> QED
    BY <2>1
<1>6. Good(q.heap, f)
  BY DEF Joined, f
<1> QED
  BY <1>1, <1>2, <1>5, <1>6, Supported

LEMMA WithLeftResult ==
    ASSUME NEW h, NEW e, Good(h, e), NEW n \in DOMAIN h \ {Terminator}, NEW by \in {-1, 0},
           NEW r, NEW entries, Result(h, e, h[n].left, r, entries, by),
           \A x \in entries : x[1] < Key(h, n)
    PROVE  Result(h, e, n, WithLeft(r, n),
                  {h[n].value} \cup entries \cup Content(h, h[n].right), by)
<1> DEFINE a == h[n].right
           v == h[n].value
           k == r.heap
           g == incref(k, a)
           q == balance(g, r.node, v, a)
<1>1. Inner(h, n) /\ Heap(h) /\ e \in [Nat -> Nat]
  BY InnerNode DEF Good, Owns
<1>2. /\ r.node \in Nat /\ Good(k, Plus(e, r.node)) /\ Extends(h, k)
      /\ Content(k, r.node) = entries
      /\ k[r.node].height - (h[h[n].left].height + by) \in 0 .. 1
  BY DEF Result
<1>3. /\ a \in DOMAIN h /\ a \in Nat /\ v \in Entries /\ v[1] \in Int
      /\ h[n].height \in Nat /\ h[a].height \in Nat /\ h[h[n].left].height \in Nat
      /\ h[n].height = Larger(h[h[n].left].height, h[h[n].right].height) + 1
      /\ h[h[n].left].height - h[h[n].right].height \in -2 .. 2
      /\ \A x \in Content(h, a) : x[1] \in Int /\ v[1] < x[1]
  BY <1>1 DEF Inner
<1>4. Heap(k) /\ Keeps(h, k)
  BY <1>1, <1>2, ExtendsKeeps DEF Good
<1>5. k[n].right = a /\ k[n].value = v /\ a \in DOMAIN k
  BY <1>3, <1>4 DEF Keeps
<1>6. WithLeft(r, n) = q
  BY <1>5 DEF WithLeft
<1> HIDE DEF a, v, g, q, k
<1>7. /\ Plus(e, r.node) \in [Nat -> Nat] /\ Good(g, Plus(Plus(e, r.node), a))
      /\ Extends(k, g) /\ Keeps(k, g)
  BY <1>2, <1>5, IncrefOwned DEF g
<1>8. r.node \in DOMAIN k /\ k[r.node].height \in Nat /\ entries \subseteq Entries
  <2>1. r.node \in DOMAIN k
    BY <1>1, <1>2, OwnedThere
  <2> QED
    BY <1>2, <1>4, <2>1, HeightsDescend, ContentDef
<1>9. /\ g[r.node].height = k[r.node].height /\ g[a].height = h[a].height
      /\ Content(g, r.node) = entries /\ Content(g, a) = Content(h, a)
  BY <1>2, <1>3, <1>4, <1>5, <1>7, <1>8 DEF Keeps
<1> DEFINE R == k[r.node].height
           S == h[h[n].left].height
           O == h[a].height
<1>10. R \in Nat /\ S \in Nat /\ O \in Nat /\ R - (S + by) \in 0 .. 1 /\ S - O \in -2 .. 2
       /\ h[n].height = Larger(S, O) + 1 /\ h[n].height \in Nat
  <2>1. S - O \in -2 .. 2 /\ h[n].height = Larger(S, O) + 1
    BY <1>3 DEF a, Larger
  <2> QED
    BY <1>2, <1>3, <1>8, <2>1
<1> HIDE DEF R, S, O
<1>11. Joins(g, e, r.node, v, a)
  <2>1. g[r.node].height - g[a].height \in -3 .. 3
    <3>1. R - O \in -3 .. 3
      BY <1>10
    <3> QED
      BY <1>9, <3>1 DEF R, O
  <2>2. Good(g, Plus(Plus(e, r.node), a))
    BY <1>1, <1>2, <1>3, <1>7, PlusSwap
  <2>3. \A x \in entries : x[1] < v[1]
    BY DEF v, Key
  <2> QED
    BY <1>3, <1>9, <2>1, <2>2, <2>3 DEF Joins
<1>12. Joined(g, e, r.node, v, a, q)
  BY <1>1, <1>2, <1>3, <1>11, BalanceJoins DEF q
<1>13. Extends(h, q.heap)
  <2>1. Extends(h, g)
    BY <1>2, <1>7, ExtendsTransitive
  <2> QED
    BY <1>12, <2>1, JoinedExtends
<1>14. q.heap[q.node].height - (h[n].height + by) \in 0 .. 1
  <2> DEFINE Q == q.heap[q.node].height
  <2>1. /\ Q - Larger(R, O) \in 0 .. 1
        /\ R - O \in -2 .. 2 => Q = Larger(R, O) + 1
    BY <1>9, <1>12 DEF Joined, R, O
  <2>2. Q \in Nat
    <3>1. Good(q.heap, Plus(e, q.node)) /\ q.node \in Nat
      BY <1>12 DEF Joined
    <3>2. q.node \in DOMAIN q.heap
      BY <1>1, <3>1, OwnedThere
    <3> QED
      BY <3>1, <3>2, HeightsDescend DEF Good
  <2> HIDE DEF Q
  <2>3. Q - (Larger(S, O) + 1 + by) \in 0 .. 1
    <3>1. CASE by = 0
      BY <1>10, <2>1, <2>2, <3>1 DEF Larger
    <3>2. CASE by = -1
      BY <1>10, <2>1, <2>2, <3>2 DEF Larger
    <3> QED
      BY <3>1, <3>2
  <2>4. h[n].height = Larger(S, O) + 1
    BY <1>10
  <2>5. Q - (h[n].height + by) \in 0 .. 1
    BY <2>3, <2>4
  <2> QED
    BY <2>5 DEF Q
<1>15. Content(q.heap, q.node) = {v} \cup entries \cup Content(h, a)
  BY <1>9, <1>12 DEF Joined
<1> QED
  BY <1>6, <1>12, <1>13, <1>14, <1>15 DEF Joined, Result, a, v

LEMMA WithRightResult ==
    ASSUME NEW h, NEW e, Good(h, e), NEW n \in DOMAIN h \ {Terminator}, NEW by \in {-1, 0},
           NEW r, NEW entries, Result(h, e, h[n].right, r, entries, by),
           \A x \in entries : Key(h, n) < x[1]
    PROVE  Result(h, e, n, WithRight(r, n),
                  {h[n].value} \cup entries \cup Content(h, h[n].left), by)
<1> DEFINE a == h[n].left
           v == h[n].value
           k == r.heap
           g == incref(k, a)
           q == balance(g, a, v, r.node)
<1>1. Inner(h, n) /\ Heap(h) /\ e \in [Nat -> Nat]
  BY InnerNode DEF Good, Owns
<1>2. /\ r.node \in Nat /\ Good(k, Plus(e, r.node)) /\ Extends(h, k)
      /\ Content(k, r.node) = entries
      /\ k[r.node].height - (h[h[n].right].height + by) \in 0 .. 1
  BY DEF Result
<1>3. /\ a \in DOMAIN h /\ a \in Nat /\ v \in Entries /\ v[1] \in Int
      /\ h[n].height \in Nat /\ h[a].height \in Nat /\ h[h[n].right].height \in Nat
      /\ h[n].height = Larger(h[h[n].left].height, h[h[n].right].height) + 1
      /\ h[h[n].left].height - h[h[n].right].height \in -2 .. 2
      /\ \A x \in Content(h, a) : x[1] \in Int /\ x[1] < v[1]
  BY <1>1 DEF Inner
<1>4. Heap(k) /\ Keeps(h, k)
  BY <1>1, <1>2, ExtendsKeeps DEF Good
<1>5. k[n].left = a /\ k[n].value = v /\ a \in DOMAIN k
  BY <1>3, <1>4 DEF Keeps
<1>6. WithRight(r, n) = q
  BY <1>5 DEF WithRight
<1> HIDE DEF a, v, g, q, k
<1>7. /\ Plus(e, r.node) \in [Nat -> Nat] /\ Good(g, Plus(Plus(e, r.node), a))
      /\ Extends(k, g) /\ Keeps(k, g)
  BY <1>2, <1>5, IncrefOwned DEF g
<1>8. r.node \in DOMAIN k /\ k[r.node].height \in Nat /\ entries \subseteq Entries
  <2>1. r.node \in DOMAIN k
    BY <1>1, <1>2, OwnedThere
  <2> QED
    BY <1>2, <1>4, <2>1, HeightsDescend, ContentDef
<1>9. /\ g[r.node].height = k[r.node].height /\ g[a].height = h[a].height
      /\ Content(g, r.node) = entries /\ Content(g, a) = Content(h, a)
  BY <1>2, <1>3, <1>4, <1>5, <1>7, <1>8 DEF Keeps
<1> DEFINE R == k[r.node].height
           S == h[h[n].right].height
           O == h[a].height
<1>10. R \in Nat /\ S \in Nat /\ O \in Nat /\ R - (S + by) \in 0 .. 1 /\ S - O \in -2 .. 2
       /\ h[n].height = Larger(S, O) + 1 /\ h[n].height \in Nat
  <2>1. S - O \in -2 .. 2 /\ h[n].height = Larger(S, O) + 1
    BY <1>3 DEF a, Larger
  <2> QED
    BY <1>2, <1>3, <1>8, <2>1
<1> HIDE DEF R, S, O
<1>11. Joins(g, e, a, v, r.node)
  <2>1. g[a].height - g[r.node].height \in -3 .. 3
    <3>1. O - R \in -3 .. 3
      BY <1>10
    <3> QED
      BY <1>9, <3>1 DEF R, O
  <2>2. Good(g, Plus(Plus(e, a), r.node))
    BY <1>1, <1>2, <1>3, <1>7, PlusSwap
  <2>3. \A x \in entries : v[1] < x[1]
    BY DEF v, Key
  <2> QED
    BY <1>3, <1>9, <2>1, <2>2, <2>3 DEF Joins
<1>12. Joined(g, e, a, v, r.node, q)
  BY <1>1, <1>2, <1>3, <1>11, BalanceJoins DEF q
<1>13. Extends(h, q.heap)
  <2>1. Extends(h, g)
    BY <1>2, <1>7, ExtendsTransitive
  <2> QED
    BY <1>12, <2>1, JoinedExtends
<1>14. q.heap[q.node].height - (h[n].height + by) \in 0 .. 1
  <2> DEFINE Q == q.heap[q.node].height
  <2>1. /\ Q - Larger(O, R) \in 0 .. 1
        /\ O - R \in -2 .. 2 => Q = Larger(O, R) + 1
    BY <1>9, <1>12 DEF Joined, R, O
  <2>2. Q \in Nat
    <3>1. Good(q.heap, Plus(e, q.node)) /\ q.node \in Nat
      BY <1>12 DEF Joined
    <3>2. q.node \in DOMAIN q.heap
      BY <1>1, <3>1, OwnedThere
    <3> QED
      BY <3>1, <3>2, HeightsDescend DEF Good
  <2> HIDE DEF Q
  <2>3. Q - (Larger(S, O) + 1 + by) \in 0 .. 1
    <3>1. CASE by = 0
      BY <1>10, <2>1, <2>2, <3>1 DEF Larger
    <3>2. CASE by = -1
      BY <1>10, <2>1, <2>2, <3>2 DEF Larger
    <3> QED
      BY <3>1, <3>2
  <2>4. h[n].height = Larger(S, O) + 1
    BY <1>10
  <2>5. Q - (h[n].height + by) \in 0 .. 1
    BY <2>3, <2>4
  <2> QED
    BY <2>5 DEF Q
<1>15. Content(q.heap, q.node) = {v} \cup entries \cup Content(h, a)
  BY <1>9, <1>12 DEF Joined
<1> QED
  BY <1>6, <1>12, <1>13, <1>14, <1>15 DEF Joined, Result, a, v

LEMMA LeafResult ==
    ASSUME NEW h, NEW e, Good(h, e), NEW v \in Entries
    PROVE  Result(h, e, Terminator, Leaf(h, v), {v}, 0)
<1> DEFINE g1 == incref(h, Terminator)
           g2 == incref(g1, Terminator)
           q == NewNode(g2, Terminator, Terminator, v)
<1>1. Heap(h) /\ e \in [Nat -> Nat] /\ Terminator \in DOMAIN h /\ h[Terminator].height = 0
      /\ Terminator \in Nat
  BY DEF Good, Owns, Heap, Terminator
<1>2. /\ Good(g1, Plus(e, Terminator)) /\ Extends(h, g1) /\ Keeps(h, g1)
      /\ Plus(e, Terminator) \in [Nat -> Nat]
  BY <1>1, IncrefOwned
<1>3. Leaf(h, v) = q
  BY DEF Leaf
<1> HIDE DEF g1, q
<1>4. Terminator \in DOMAIN g1
  BY <1>1, <1>2 DEF Keeps
<1>5. Good(g2, Plus(Plus(e, Terminator), Terminator)) /\ Extends(g1, g2) /\ Keeps(g1, g2)
  BY <1>2, <1>4, IncrefOwned
<1> HIDE DEF g2
<1>6. Extends(h, g2) /\ Keeps(h, g2)
  BY <1>2, <1>5, ExtendsTransitive, KeepsTransitive
<1>7. Content(g2, Terminator) = {} /\ g2[Terminator].height = 0
  BY <1>1, <1>6, ContentDef DEF Keeps
<1>8. Fits(g2, Terminator, v, Terminator)
  BY <1>7 DEF Fits
<1>9. New(g2, e, Terminator, v, Terminator, q)
  BY <1>1, <1>5, <1>8, NewNodeNew DEF q
<1>10. q.heap[q.node].height = 1
  BY <1>7, <1>9 DEF New, Larger
<1>11. q.heap[q.node].height - (h[Terminator].height + 0) \in 0 .. 1
  BY <1>1, <1>10
<1>12. Extends(h, q.heap) /\ Content(q.heap, q.node) = {v}
  BY <1>6, <1>7, <1>9, ExtendsTransitive DEF New
<1> QED
  BY <1>3, <1>9, <1>11, <1>12 DEF New, Result

(* Another tree is returned as it is. *)
LEMMA SharedResult ==
    ASSUME NEW h, NEW e, Good(h, e), NEW n \in DOMAIN h, NEW by \in {-1, 0}, NEW m \in DOMAIN h,
           h[m].height - (h[n].height + by) \in 0 .. 1
    PROVE  Result(h, e, n, Shared(h, m), Content(h, m), by)
<1> DEFINE g == incref(h, m)
<1>1. Good(g, Plus(e, m)) /\ Extends(h, g) /\ Keeps(h, g) /\ m \in Nat
  BY IncrefOwned
<1>2. Shared(h, m).heap = g /\ Shared(h, m).node = m
  BY DEF Shared
<1> HIDE DEF g
<1>3. Content(g, m) = Content(h, m) /\ g[m].height = h[m].height
  BY <1>1 DEF Keeps
<1> QED
  BY <1>1, <1>2, <1>3 DEF Result

-----------------------------------------------------------------------------
(* Operations exist.                                                       *)

(* Operations are recursive functions.  They exist, because at a node they *)
(* use what they return for the nodes below, if that is a sound result.    *)

Results == [heap : UNION {[S -> Nodes] : S \in SUBSET Nat}, node : Nat]

(* The results at n, with no entries but those below n and those in new. *)
Sound(h, e, new, by) ==
    [n \in DOMAIN h |->
       {r \in Results : \E C \in SUBSET (Content(h, n) \cup new) : Result(h, e, n, r, C, by)}]

IsPair(r) == r = [heap |-> r.heap, node |-> r.node]

LEMMA Pairs ==
    ASSUME NEW h, NEW n, NEW left, NEW entry, NEW right, NEW r, NEW v
    PROVE  /\ IsPair(Shared(h, n)) /\ IsPair(Leaf(h, v)) /\ IsPair(NewNode(h, left, right, entry))
           /\ IsPair(balance(h, left, entry, right))
           /\ IsPair(WithLeft(r, n)) /\ IsPair(WithRight(r, n))
<1>1. \A g, a, b, c : IsPair(NewNode(g, a, b, c))
  BY DEF NewNode, IsPair
<1>2. \A g, a, b, c, m : IsPair(Drop(NewNode(g, a, b, c), m))
  <2> SUFFICES ASSUME NEW g, NEW a, NEW b, NEW c, NEW m
               PROVE  IsPair(Drop(NewNode(g, a, b, c), m))
    OBVIOUS
  <2> DEFINE q == NewNode(g, a, b, c)
  <2>1. q = [heap |-> q.heap, node |-> q.node]
    BY <1>1 DEF IsPair
  <2> HIDE DEF q
  <2>2. IsPair(Drop(q, m))
    BY <2>1 DEF Drop, IsPair
  <2> QED
    BY <2>2 DEF q
<1>3. \A g, a, b, c : IsPair(balance(g, a, b, c))
  BY <1>1, <1>2 DEF balance
<1>4. IsPair(Shared(h, n))
  BY DEF Shared, IsPair
<1> QED
  BY <1>1, <1>3, <1>4 DEF Leaf, WithLeft, WithRight

LEMMA ResultIs ==
    ASSUME NEW h, NEW e, NEW n \in DOMAIN h, NEW r, NEW C, NEW new, NEW by,
           Result(h, e, n, r, C, by), IsPair(r), C \subseteq Content(h, n) \cup new
    PROVE  r \in Sound(h, e, new, by)[n]
<1>1. r.node \in Nat /\ r.heap \in UNION {[S -> Nodes] : S \in SUBSET Nat}
  <2>1. Heap(r.heap) /\ r.node \in Nat
    BY DEF Result, Good
  <2>2. DOMAIN r.heap \in SUBSET Nat /\ r.heap \in [DOMAIN r.heap -> Nodes]
    BY <2>1 DEF Heap
  <2> QED
    BY <2>1, <2>2
<1>2. r \in Results
  BY <1>1 DEF IsPair, Results
<1> QED
  BY <1>2 DEF Sound

LEMMA SoundNonempty ==
    ASSUME NEW h, NEW e, Good(h, e), NEW n \in DOMAIN h, NEW new, NEW by \in {-1, 0}
    PROVE  Sound(h, e, new, by)[n] # {}
<1>1. h[n].height \in Nat
  BY HeightsDescend DEF Good
<1>2. h[n].height - (h[n].height + by) \in 0 .. 1
  BY <1>1
<1>3. Result(h, e, n, Shared(h, n), Content(h, n), by)
  BY <1>2, SharedResult
<1> QED
  BY <1>3, Pairs, ResultIs

LEMMA SoundIs ==
    ASSUME NEW h, NEW e, NEW n \in DOMAIN h, NEW r, NEW new, NEW by,
           r \in Sound(h, e, new, by)[n]
    PROVE  \E C : C \subseteq Content(h, n) \cup new /\ Result(h, e, n, r, C, by)
BY DEF Sound

SoundAt(D, h, e, new, by) == UNION {Sound(h, e, new, by)[n] : n \in D}

(* step computes an operation at the nodes in D from what it returns for   *)
(* those below.                                                            *)
Operates(step, D, h, e, new, by) ==
    LET R == SoundAt(D, h, e, new, by)
    IN  /\ Good(h, e) /\ by \in {-1, 0}
        /\ D # {} /\ D \subseteq DOMAIN h
        /\ \A f, g \in [D -> R], n \in D :
              (\A m \in D \cap {h[n].left, h[n].right} : n # Terminator => f[m] = g[m])
                 => step[f][n] = step[g][n]
        /\ \A f \in [D -> R], n \in D :
              (\A m \in D \cap {h[n].left, h[n].right} :
                   n # Terminator => f[m] \in Sound(h, e, new, by)[m])
                 => step[f][n] \in Sound(h, e, new, by)[n]

Solved(step, D, h, e, new, by) ==
    \E f \in [D -> SoundAt(D, h, e, new, by)] : \A n \in D : step[f][n] = f[n]

LEMMA OperationExists ==
    ASSUME NEW h, NEW e, NEW D, NEW new, NEW by, NEW step, Operates(step, D, h, e, new, by)
    PROVE  Solved(step, D, h, e, new, by)
<1> DEFINE sound == [n \in D |-> Sound(h, e, new, by)[n]]
           rank == [n \in D |-> h[n].height]
           R == UNION {sound[n] : n \in D}
<1>1. Good(h, e) /\ by \in {-1, 0} /\ Heap(h) /\ D # {} /\ D \subseteq DOMAIN h
  BY DEF Good, Operates
<1>2. PICK N \in Nat : \A n \in DOMAIN h : h[n].height < N
  BY <1>1, HeightsBounded
<1>3. rank \in [D -> Nat] /\ \A n \in D : rank[n] < N
  BY <1>1, <1>2, HeightsDescend
<1>4. R = SoundAt(D, h, e, new, by)
  BY DEF SoundAt
<1>5. \A n \in D : sound[n] # {}
  BY <1>1, SoundNonempty
<1>6. \A n \in D \ {Terminator} : \A m \in D \cap {h[n].left, h[n].right} : rank[m] < rank[n]
  BY <1>1, HeightsDescend
<1>7. \A n \in D : sound[n] = Sound(h, e, new, by)[n]
  OBVIOUS
<1> HIDE DEF sound, rank, R
<1>8. ASSUME NEW f \in [D -> R], NEW g \in [D -> R], NEW n \in D,
             \A m \in D : rank[m] < rank[n] => f[m] = g[m]
      PROVE  step[f][n] = step[g][n]
  <2>1. \A m \in D \cap {h[n].left, h[n].right} : n # Terminator => f[m] = g[m]
    BY <1>6, <1>8
  <2> QED
    BY <1>4, <2>1 DEF Operates
<1>9. ASSUME NEW f \in [D -> R], NEW n \in D,
             \A m \in D : rank[m] < rank[n] => f[m] \in sound[m]
      PROVE  step[f][n] \in sound[n]
  <2>1. \A m \in D \cap {h[n].left, h[n].right} : n # Terminator => f[m] \in Sound(h, e, new, by)[m]
    BY <1>6, <1>7, <1>9
  <2>2. step[f][n] \in Sound(h, e, new, by)[n]
    BY <1>4, <2>1 DEF Operates
  <2> QED
    BY <1>7, <2>2
<1>10. DescendsSoundly(step, D, sound, rank, N)
  BY <1>2, <1>3, <1>5, <1>8, <1>9 DEF DescendsSoundly, R
<1>11. \E f \in [D -> UNION {sound[x] : x \in D}] : \A x \in D : step[f][x] = f[x] /\ f[x] \in sound[x]
  BY <1>1, <1>10, SoundRecursionHasSolution
<1> QED
  BY <1>4, <1>11 DEF R, Solved

LEMMA WithLeftSound ==
    ASSUME NEW h, NEW e, Good(h, e), NEW n \in DOMAIN h \ {Terminator}, NEW by \in {-1, 0},
           NEW new, NEW r \in Sound(h, e, new, by)[h[n].left],
           \A x \in new : x[1] < Key(h, n)
    PROVE  WithLeft(r, n) \in Sound(h, e, new, by)[n]
<1>1. Inner(h, n)
  BY InnerNode
<1>2. PICK C : C \subseteq Content(h, h[n].left) \cup new /\ Result(h, e, h[n].left, r, C, by)
  BY <1>1, SoundIs DEF Inner
<1>3. \A x \in C : x[1] < Key(h, n)
  BY <1>1, <1>2 DEF Inner, Key
<1> DEFINE E == {h[n].value} \cup C \cup Content(h, h[n].right)
<1>4. Result(h, e, n, WithLeft(r, n), E, by)
  BY <1>2, <1>3, WithLeftResult
<1>5. E \subseteq Content(h, n) \cup new
  BY <1>1, <1>2 DEF Inner
<1> HIDE DEF E
<1> QED
  BY <1>4, <1>5, Pairs, ResultIs

LEMMA WithRightSound ==
    ASSUME NEW h, NEW e, Good(h, e), NEW n \in DOMAIN h \ {Terminator}, NEW by \in {-1, 0},
           NEW new, NEW r \in Sound(h, e, new, by)[h[n].right],
           \A x \in new : Key(h, n) < x[1]
    PROVE  WithRight(r, n) \in Sound(h, e, new, by)[n]
<1>1. Inner(h, n)
  BY InnerNode
<1>2. PICK C : C \subseteq Content(h, h[n].right) \cup new /\ Result(h, e, h[n].right, r, C, by)
  BY <1>1, SoundIs DEF Inner
<1>3. \A x \in C : Key(h, n) < x[1]
  BY <1>1, <1>2 DEF Inner, Key
<1> DEFINE E == {h[n].value} \cup C \cup Content(h, h[n].left)
<1>4. Result(h, e, n, WithRight(r, n), E, by)
  BY <1>2, <1>3, WithRightResult
<1>5. E \subseteq Content(h, n) \cup new
  BY <1>1, <1>2 DEF Inner
<1> HIDE DEF E
<1> QED
  BY <1>4, <1>5, Pairs, ResultIs

LEMMA SharedSound ==
    ASSUME NEW h, NEW e, Good(h, e), NEW n \in DOMAIN h, NEW by \in {-1, 0}, NEW m \in DOMAIN h,
           NEW new, h[m].height - (h[n].height + by) \in 0 .. 1,
           Content(h, m) \subseteq Content(h, n) \cup new
    PROVE  Shared(h, m) \in Sound(h, e, new, by)[n]
BY SharedResult, Pairs, ResultIs

(* Where replace finds the key. *)
Exchanged(h, n, v) == NewNode(incref(incref(h, h[n].left), h[n].right), h[n].left, h[n].right, v)

LEMMA ExchangedResult ==
    ASSUME NEW h, NEW e, Good(h, e), NEW n \in DOMAIN h \ {Terminator}, NEW v \in Entries,
           v[1] = Key(h, n)
    PROVE  Result(h, e, n, Exchanged(h, n, v), {v} \cup Content(h, h[n].left) \cup Content(h, h[n].right), 0)
<1> DEFINE a == h[n].left
           b == h[n].right
           g1 == incref(h, a)
           g2 == incref(g1, b)
           q == NewNode(g2, a, b, v)
<1>1. Inner(h, n) /\ e \in [Nat -> Nat]
  BY InnerNode DEF Good, Owns
<1>2. Exchanged(h, n, v) = q
  BY DEF Exchanged
<1>3. a \in DOMAIN h /\ b \in DOMAIN h /\ a \in Nat /\ b \in Nat
  BY <1>1 DEF Inner
<1>4. /\ \A x \in Content(h, a) : x[1] < v[1]
      /\ \A x \in Content(h, b) : v[1] < x[1]
      /\ h[a].height - h[b].height \in -2 .. 2
      /\ h[n].height = Larger(h[a].height, h[b].height) + 1 /\ h[n].height \in Nat
  BY <1>1 DEF Inner, Key
<1> HIDE DEF a, b, g1, g2, q
<1>5. Good(g1, Plus(e, a)) /\ Extends(h, g1) /\ Keeps(h, g1) /\ Plus(e, a) \in [Nat -> Nat]
  BY <1>3, IncrefOwned DEF g1
<1>6. Good(g2, Plus(Plus(e, a), b)) /\ Extends(g1, g2) /\ Keeps(g1, g2)
  <2>1. b \in DOMAIN g1
    BY <1>3, <1>5 DEF Keeps
  <2> QED
    BY <1>5, <2>1, IncrefOwned DEF g2
<1>7. Extends(h, g2) /\ Keeps(h, g2)
  BY <1>5, <1>6, ExtendsTransitive, KeepsTransitive
<1>8. /\ Content(g2, a) = Content(h, a) /\ Content(g2, b) = Content(h, b)
      /\ g2[a].height = h[a].height /\ g2[b].height = h[b].height
  BY <1>3, <1>7 DEF Keeps
<1>9. Fits(g2, a, v, b)
  BY <1>4, <1>8 DEF Fits
<1>10. New(g2, e, a, v, b, q)
  BY <1>1, <1>3, <1>6, <1>9, NewNodeNew DEF q
<1>11. q.heap[q.node].height = h[n].height
  BY <1>4, <1>8, <1>10 DEF New
<1>12. q.heap[q.node].height - (h[n].height + 0) \in 0 .. 1
  BY <1>4, <1>11
<1>13. Extends(h, q.heap)
  BY <1>7, <1>10, ExtendsTransitive DEF New
<1>14. Result(h, e, n, q, {v} \cup Content(h, a) \cup Content(h, b), 0)
  BY <1>8, <1>10, <1>12, <1>13 DEF Result, New
<1> QED
  BY <1>2, <1>14 DEF a, b

LEMMA PutDef ==
    ASSUME NEW h, NEW ext, Good(h, ext), NEW e \in Entries, NEW replacing \in BOOLEAN
    PROVE  \A n \in DOMAIN h :
              Put(h, n, e, replacing) =
                 IF isTerminator(n) THEN Leaf(h, e)
                 ELSE IF e[1] < Key(h, n) THEN WithLeft(Put(h, h[n].left, e, replacing), n)
                 ELSE IF Key(h, n) < e[1] THEN WithRight(Put(h, h[n].right, e, replacing), n)
                 ELSE IF replacing
                 THEN NewNode(incref(incref(h, h[n].left), h[n].right), h[n].left, h[n].right, e)
                 ELSE Shared(h, n)
<1> DEFINE Body(f, n) ==
             IF isTerminator(n) THEN Leaf(h, e)
             ELSE IF e[1] < Key(h, n) THEN WithLeft(f[h[n].left], n)
             ELSE IF Key(h, n) < e[1] THEN WithRight(f[h[n].right], n)
             ELSE IF replacing
             THEN NewNode(incref(incref(h, h[n].left), h[n].right), h[n].left, h[n].right, e)
             ELSE Shared(h, n)
           D == DOMAIN h
           R == SoundAt(D, h, ext, {e}, 0)
           step == [f \in [D -> R] |-> [n \in D |-> Body(f, n)]]
           put == CHOOSE f : f = [n \in DOMAIN h |-> Body(f, n)]
<1>1. Heap(h) /\ Terminator \in D /\ \A n \in D : h[n].left \in D /\ h[n].right \in D /\ h[n].height \in Nat
  <2>1. Heap(h)
    BY DEF Good
  <2>2. Terminator \in D /\ \A n \in D : h[n].left \in D /\ h[n].right \in D
    BY <2>1 DEF Heap
  <2> QED
    BY <2>1, <2>2, HeightsDescend
<1>2. \A f \in [D -> R] : step[f] = [n \in D |-> Body(f, n)]
  OBVIOUS
<1>3. ASSUME NEW f \in [D -> R], NEW g \in [D -> R], NEW n \in D,
             \A m \in D \cap {h[n].left, h[n].right} : n # Terminator => f[m] = g[m]
      PROVE  Body(f, n) = Body(g, n)
  BY <1>1, <1>3 DEF isTerminator
<1>4. ASSUME NEW f \in [D -> R], NEW n \in D,
             \A m \in D \cap {h[n].left, h[n].right} :
                 n # Terminator => f[m] \in Sound(h, ext, {e}, 0)[m]
      PROVE  Body(f, n) \in Sound(h, ext, {e}, 0)[n]
  <2>1. CASE n = Terminator
    <3>1. Leaf(h, e) \in Sound(h, ext, {e}, 0)[Terminator]
      BY <1>1, LeafResult, Pairs, ResultIs
    <3> QED
      BY <2>1, <3>1 DEF isTerminator
  <2>2. CASE n # Terminator
    <3>1. f[h[n].left] \in Sound(h, ext, {e}, 0)[h[n].left] /\ f[h[n].right] \in Sound(h, ext, {e}, 0)[h[n].right]
      BY <1>1, <1>4, <2>2
    <3>2. CASE e[1] < Key(h, n)
      <4>1. WithLeft(f[h[n].left], n) \in Sound(h, ext, {e}, 0)[n]
        BY <2>2, <3>1, <3>2, WithLeftSound
      <4> QED
        BY <2>2, <3>2, <4>1 DEF isTerminator
    <3>3. CASE ~ (e[1] < Key(h, n)) /\ Key(h, n) < e[1]
      <4>1. WithRight(f[h[n].right], n) \in Sound(h, ext, {e}, 0)[n]
        BY <2>2, <3>1, <3>3, WithRightSound
      <4> QED
        BY <2>2, <3>3, <4>1 DEF isTerminator
    <3>4. CASE ~ (e[1] < Key(h, n)) /\ ~ (Key(h, n) < e[1])
      <4>1. e[1] = Key(h, n)
        <5>1. Inner(h, n)
          BY <2>2, InnerNode
        <5> QED
          BY <3>4, <5>1, TreeParameters DEF Inner, Key
      <4>2. Exchanged(h, n, e) \in Sound(h, ext, {e}, 0)[n]
        <5>1. IsPair(Exchanged(h, n, e))
          BY Pairs DEF Exchanged
        <5>2. {e} \cup Content(h, h[n].left) \cup Content(h, h[n].right) \subseteq Content(h, n) \cup {e}
          BY <2>2, InnerNode DEF Inner
        <5> QED
          BY <2>2, <4>1, <5>1, <5>2, ExchangedResult, ResultIs
      <4>3. Shared(h, n) \in Sound(h, ext, {e}, 0)[n]
        <5>1. h[n].height \in Nat
          BY <1>1
        <5>2. h[n].height - (h[n].height + 0) \in 0 .. 1 /\ 0 \in {-1, 0}
          BY <5>1
        <5> QED
          BY <5>2, SharedSound
      <4>4. Body(f, n) = IF replacing THEN Exchanged(h, n, e) ELSE Shared(h, n)
        BY <2>2, <3>4 DEF isTerminator, Exchanged
      <4> QED
        BY <4>2, <4>3, <4>4
    <3> QED
      BY <3>2, <3>3, <3>4
  <2> QED
    BY <2>1, <2>2
<1> HIDE DEF Body
<1>5. \A f \in [D -> R], n \in D : step[f][n] = Body(f, n)
  <2> HIDE DEF R, step
  <2> QED
    BY <1>2
<1>6. Operates(step, D, h, ext, {e}, 0)
  <2>1. D # {} /\ D \subseteq DOMAIN h
    BY <1>1
  <2>2. \A f, g \in [D -> R], n \in D :
           (\A m \in D \cap {h[n].left, h[n].right} : n # Terminator => f[m] = g[m])
              => step[f][n] = step[g][n]
    <3> HIDE DEF R, D, step
    <3> QED
      BY <1>3, <1>5
  <2>3. \A f \in [D -> R], n \in D :
           (\A m \in D \cap {h[n].left, h[n].right} :
                n # Terminator => f[m] \in Sound(h, ext, {e}, 0)[m])
              => step[f][n] \in Sound(h, ext, {e}, 0)[n]
    <3> HIDE DEF R, D, step
    <3> QED
      BY <1>4, <1>5
  <2> HIDE DEF step
  <2>4. Good(h, ext) /\ 0 \in {-1, 0}
    OBVIOUS
  <2> QED
    BY <2>1, <2>2, <2>3, <2>4 DEF Operates
<1>7. \E f \in [D -> R] : \A n \in D : step[f][n] = f[n]
  <2> HIDE DEF step
  <2>1. Solved(step, D, h, ext, {e}, 0)
    BY <1>6, OperationExists
  <2> QED
    BY <2>1 DEF Solved
<1>8. \E f : f = [n \in DOMAIN h |-> Body(f, n)]
  <2>1. PICK f \in [D -> R] : \A n \in D : step[f][n] = f[n]
    BY <1>7
  <2>2. f = [n \in DOMAIN h |-> Body(f, n)]
    <3> HIDE DEF R, step
    <3>1. \A n \in D : f[n] = Body(f, n)
      BY <1>5, <2>1
    <3>2. f = [n \in D |-> f[n]]
      OBVIOUS
    <3> QED
      BY <3>1, <3>2
  <2> QED
    BY <2>2
<1>9. put = [n \in DOMAIN h |-> Body(put, n)]
  BY <1>8
<1>10. \A n \in DOMAIN h : put[n] = Body(put, n)
  <2> HIDE DEF put
  <2> QED
    BY <1>9
<1>11. \A n \in DOMAIN h : Put(h, n, e, replacing) = put[n]
  BY DEF Put, Body
<1> HIDE DEF put
<1> QED
  BY <1>1, <1>10, <1>11 DEF Body

-----------------------------------------------------------------------------
(* insert and replace.                                                     *)

Others(C, k) == {x \in C : x[1] # k}

(* The entries after an insert or a replace. *)
WithEntry(C, v, replacing) ==
    IF replacing \/ C = Others(C, v[1]) THEN Others(C, v[1]) \cup {v} ELSE C

LEMMA WithEntryBelow ==
    ASSUME NEW A, NEW B, NEW C, NEW v, NEW replacing, C = A \cup B, \A x \in B : x[1] # v[1]
    PROVE  WithEntry(C, v, replacing) = WithEntry(A, v, replacing) \cup B
<1>1. Others(C, v[1]) = Others(A, v[1]) \cup B
  BY DEF Others
<1>2. C = Others(C, v[1]) <=> A = Others(A, v[1])
  BY DEF Others
<1>3. CASE replacing \/ C = Others(C, v[1])
  BY <1>1, <1>2, <1>3 DEF WithEntry
<1>4. CASE ~ replacing /\ C # Others(C, v[1])
  BY <1>2, <1>4 DEF WithEntry
<1> QED
  BY <1>3, <1>4

LEMMA PutResult ==
    ASSUME NEW h, NEW ext, Good(h, ext), NEW v \in Entries, NEW replacing \in BOOLEAN, NEW top \in DOMAIN h
    PROVE  Result(h, ext, top, Put(h, top, v, replacing), WithEntry(Content(h, top), v, replacing), 0)
<1> DEFINE R(n) == Result(h, ext, n, Put(h, n, v, replacing), WithEntry(Content(h, n), v, replacing), 0)
           T == {n \in DOMAIN h : R(n)}
<1>1. Heap(h) /\ Terminator \in DOMAIN h /\ v[1] \in Int
  BY TreeParameters DEF Good, Heap
<1>2. R(Terminator)
  <2>1. Put(h, Terminator, v, replacing) = Leaf(h, v)
    BY <1>1, PutDef DEF isTerminator
  <2>2. Content(h, Terminator) = {}
    BY <1>1, ContentDef
  <2>3. WithEntry({}, v, replacing) = {v}
    BY DEF WithEntry, Others
  <2> QED
    BY <2>1, <2>2, <2>3, LeafResult
<1>3. ASSUME NEW n \in DOMAIN h \ {Terminator}, R(h[n].left), R(h[n].right)
      PROVE  R(n)
  <2>1. Inner(h, n)
    BY InnerNode
  <2> DEFINE A == Content(h, h[n].left)
             B == Content(h, h[n].right)
             C == Content(h, n)
  <2>2. /\ C = {h[n].value} \cup A \cup B /\ Key(h, n) \in Int /\ h[n].value[1] = Key(h, n)
        /\ \A x \in A : x[1] \in Int /\ x[1] < Key(h, n)
        /\ \A x \in B : x[1] \in Int /\ Key(h, n) < x[1]
        /\ h[n].left \in DOMAIN h /\ h[n].right \in DOMAIN h
        /\ h[n].height \in Nat
    BY <2>1 DEF Inner, Key
  <2>3. Put(h, n, v, replacing) =
                 IF v[1] < Key(h, n) THEN WithLeft(Put(h, h[n].left, v, replacing), n)
                 ELSE IF Key(h, n) < v[1] THEN WithRight(Put(h, h[n].right, v, replacing), n)
                 ELSE IF replacing
                 THEN Exchanged(h, n, v)
                 ELSE Shared(h, n)
    BY PutDef DEF isTerminator, Exchanged
  <2>4. 0 \in {-1, 0}
    OBVIOUS
  <2> HIDE DEF A, B, C
  <2>5. CASE v[1] < Key(h, n)
    <3>1. WithEntry(C, v, replacing) = WithEntry(A, v, replacing) \cup ({h[n].value} \cup B)
      <4>1. \A x \in {h[n].value} \cup B : x[1] # v[1]
        BY <1>1, <2>2, <2>5
      <4>2. C = A \cup ({h[n].value} \cup B)
        BY <2>2
      <4> DEFINE rest == {h[n].value} \cup B
      <4>3. C = A \cup rest /\ \A x \in rest : x[1] # v[1]
        BY <4>1, <4>2
      <4> HIDE DEF rest
      <4>4. WithEntry(C, v, replacing) = WithEntry(A, v, replacing) \cup rest
        BY <4>3, WithEntryBelow
      <4> QED
        BY <4>4 DEF rest
    <3>2. \A x \in WithEntry(A, v, replacing) : x[1] < Key(h, n)
      BY <2>2, <2>5 DEF WithEntry, Others
    <3>3. Result(h, ext, n, WithLeft(Put(h, h[n].left, v, replacing), n),
                 {h[n].value} \cup WithEntry(A, v, replacing) \cup B, 0)
      BY <1>3, <2>4, <3>2, WithLeftResult DEF A, B
    <3>4. {h[n].value} \cup WithEntry(A, v, replacing) \cup B = WithEntry(C, v, replacing)
      BY <3>1
    <3> QED
      BY <2>3, <2>5, <3>3, <3>4 DEF C
  <2>6. CASE Key(h, n) < v[1]
    <3>1. WithEntry(C, v, replacing) = WithEntry(B, v, replacing) \cup ({h[n].value} \cup A)
      <4>1. \A x \in {h[n].value} \cup A : x[1] # v[1]
        BY <1>1, <2>2, <2>6
      <4>2. C = B \cup ({h[n].value} \cup A)
        BY <2>2
      <4> DEFINE rest == {h[n].value} \cup A
      <4>3. C = B \cup rest /\ \A x \in rest : x[1] # v[1]
        BY <4>1, <4>2
      <4> HIDE DEF rest
      <4>4. WithEntry(C, v, replacing) = WithEntry(B, v, replacing) \cup rest
        BY <4>3, WithEntryBelow
      <4> QED
        BY <4>4 DEF rest
    <3>2. \A x \in WithEntry(B, v, replacing) : Key(h, n) < x[1]
      BY <2>2, <2>6 DEF WithEntry, Others
    <3>3. Result(h, ext, n, WithRight(Put(h, h[n].right, v, replacing), n),
                 {h[n].value} \cup WithEntry(B, v, replacing) \cup A, 0)
      BY <1>3, <2>4, <3>2, WithRightResult DEF A, B
    <3>4. {h[n].value} \cup WithEntry(B, v, replacing) \cup A = WithEntry(C, v, replacing)
      BY <3>1
    <3>5. ~ (v[1] < Key(h, n))
      BY <1>1, <2>2, <2>6
    <3> QED
      BY <2>3, <2>6, <3>3, <3>4, <3>5 DEF C
  <2>7. CASE ~ (v[1] < Key(h, n)) /\ ~ (Key(h, n) < v[1])
    <3>1. v[1] = Key(h, n)
      BY <1>1, <2>2, <2>7
    <3>2. Others(C, v[1]) = A \cup B /\ C # Others(C, v[1])
      BY <2>2, <3>1 DEF Others
    <3>3. CASE replacing
      <4>1. Put(h, n, v, replacing) = Exchanged(h, n, v)
        BY <2>3, <2>7, <3>3
      <4>2. WithEntry(C, v, replacing) = {v} \cup A \cup B
        BY <3>2, <3>3 DEF WithEntry
      <4> QED
        BY <3>1, <4>1, <4>2, ExchangedResult DEF A, B, C
    <3>4. CASE ~ replacing
      <4>1. Put(h, n, v, replacing) = Shared(h, n)
        BY <2>3, <2>7, <3>4
      <4>2. WithEntry(C, v, replacing) = C
        BY <3>2, <3>4 DEF WithEntry
      <4>3. h[n].height - (h[n].height + 0) \in 0 .. 1
        BY <2>2
      <4> QED
        BY <2>4, <4>1, <4>2, <4>3, SharedResult DEF C
    <3> QED
      BY <3>3, <3>4
  <2> QED
    BY <1>1, <2>2, <2>5, <2>6, <2>7
<1> HIDE DEF R
<1>4. T = DOMAIN h
  <2>1. T \in SUBSET DOMAIN h /\ Terminator \in T
    BY <1>1, <1>2
  <2>2. \A n \in DOMAIN h \ {Terminator} : h[n].left \in T /\ h[n].right \in T => n \in T
    BY <1>3
  <2> HIDE DEF T
  <2> QED
    BY <1>1, <2>1, <2>2, HeapInduction
<1>5. R(top)
  BY <1>4
<1> QED
  BY <1>5 DEF R

-----------------------------------------------------------------------------
(* remove.                                                                 *)

LEMMA SpineDef ==
    ASSUME NEW h, Heap(h), NEW side \in {"left", "right"}
    PROVE  \A n \in DOMAIN h :
              /\ Spine(h, n, side) = IF n = Terminator THEN << >> ELSE <<n>> \o Spine(h, h[n][side], side)
              /\ Spine(h, n, side) \in Seq(DOMAIN h)
<1> DEFINE Body(f, n) == IF isTerminator(n) THEN << >> ELSE <<n>> \o f[h[n][side]]
           spine == CHOOSE f : f = [n \in DOMAIN h |-> Body(f, n)]
           R == Seq(DOMAIN h)
           step == [f \in [DOMAIN h -> R] |-> [n \in DOMAIN h |-> Body(f, n)]]
<1>1. /\ Terminator \in DOMAIN h
      /\ \A n \in DOMAIN h : h[n].left \in DOMAIN h /\ h[n].right \in DOMAIN h
      /\ \A n \in DOMAIN h : h[n][side] \in DOMAIN h
      /\ \A n : h[n][side] \in {h[n].left, h[n].right}
  BY DEF Heap
<1>2. \A f \in [DOMAIN h -> R] : step[f] = [n \in DOMAIN h |-> Body(f, n)]
  OBVIOUS
<1>3. \A f \in [DOMAIN h -> R], n \in DOMAIN h : Body(f, n) \in R
  <2> SUFFICES ASSUME NEW f \in [DOMAIN h -> R], NEW n \in DOMAIN h
               PROVE  Body(f, n) \in R
    OBVIOUS
  <2>1. h[n][side] \in DOMAIN h
    BY <1>1
  <2>2. f[h[n][side]] \in R
    <3> HIDE DEF R
    <3> QED
      BY <2>1
  <2>3. \A s \in R : <<n>> \o s \in R
    OBVIOUS
  <2>4. << >> \in R
    OBVIOUS
  <2> HIDE DEF R
  <2> QED
    BY <2>2, <2>3, <2>4
<1> HIDE DEF Body
<1>4. step \in [[DOMAIN h -> R] -> [DOMAIN h -> R]]
  <2> HIDE DEF R
  <2> QED
    BY <1>3
<1>5. \A f \in [DOMAIN h -> R], n \in DOMAIN h : step[f][n] = Body(f, n)
  <2> HIDE DEF step, R
  <2> QED
    BY <1>2
<1>6. \E f \in [DOMAIN h -> R] : step[f] = f
  <2>1. \A f, g \in [DOMAIN h -> R] : step[f][Terminator] = step[g][Terminator]
    <3>1. \A f : Body(f, Terminator) = << >>
      BY DEF isTerminator, Body
    <3> HIDE DEF step, R
    <3>2. \A f \in [DOMAIN h -> R] : step[f][Terminator] = Body(f, Terminator)
      BY <1>1, <1>5
    <3> QED
      BY <3>1, <3>2
  <2>2. \A f, g \in [DOMAIN h -> R], n \in DOMAIN h \ {Terminator} :
           f[h[n].left] = g[h[n].left] /\ f[h[n].right] = g[h[n].right] => step[f][n] = step[g][n]
    <3>1. \A f, g, n : f[h[n].left] = g[h[n].left] /\ f[h[n].right] = g[h[n].right] => Body(f, n) = Body(g, n)
      BY DEF Body
    <3> HIDE DEF step, R
    <3> QED
      BY <1>5, <3>1
  <2>3. R # {}
    <3>1. << >> \in R
      OBVIOUS
    <3> QED
      BY <3>1
  <2> HIDE DEF step, R
  <2>4. LooksBelow(step, h, R)
    BY <1>4, <2>1, <2>2, <2>3 DEF LooksBelow
  <2> QED
    BY <2>4, HeapRecursion
<1>7. \E f \in [DOMAIN h -> R] : f = [n \in DOMAIN h |-> Body(f, n)]
  <2> HIDE DEF R, step
  <2> QED
    BY <1>2, <1>6
<1>8. spine = [n \in DOMAIN h |-> Body(spine, n)]
  BY <1>7
<1>9. \A n \in DOMAIN h : Spine(h, n, side) = spine[n]
  BY DEF Spine, Body
<1>10. \A n \in DOMAIN h : spine[n] = Body(spine, n)
  <2> HIDE DEF spine
  <2> QED
    BY <1>8
<1> HIDE DEF spine
<1>11. \A n \in DOMAIN h : Spine(h, n, side) = IF n = Terminator THEN << >> ELSE <<n>> \o Spine(h, h[n][side], side)
  BY <1>1, <1>9, <1>10 DEF isTerminator, Body
<1> DEFINE T == {n \in DOMAIN h : Spine(h, n, side) \in Seq(DOMAIN h)}
<1>12. Terminator \in T
  <2>1. Spine(h, Terminator, side) = << >>
    BY <1>1, <1>11
  <2>2. << >> \in Seq(DOMAIN h)
    OBVIOUS
  <2> QED
    BY <1>1, <2>1, <2>2
<1>13. ASSUME NEW n \in DOMAIN h \ {Terminator}, h[n].left \in T, h[n].right \in T
       PROVE  n \in T
  <2> DEFINE below == Spine(h, h[n][side], side)
  <2>1. below \in Seq(DOMAIN h)
    <3>1. h[n][side] \in T
      BY <1>1, <1>13
    <3> QED
      BY <3>1
  <2>2. Spine(h, n, side) = <<n>> \o below
    BY <1>11
  <2> HIDE DEF below
  <2>3. <<n>> \o below \in Seq(DOMAIN h)
    BY <2>1
  <2> QED
    BY <2>2, <2>3
<1>14. T = DOMAIN h
  <2>1. T \in SUBSET DOMAIN h
    OBVIOUS
  <2>2. \A n \in DOMAIN h \ {Terminator} : h[n].left \in T /\ h[n].right \in T => n \in T
    BY <1>13
  <2> HIDE DEF T
  <2> QED
    BY <1>12, <2>1, <2>2, HeapInduction
<1> QED
  BY <1>11, <1>14

LEMMA LastOfConcat ==
    ASSUME NEW S, NEW s \in Seq(S), NEW n \in S
    PROVE  Last(<<n>> \o s) = IF s = << >> THEN n ELSE Last(s)
<1>1. Len(<<n>> \o s) = 1 + Len(s) /\ Len(s) \in Nat
  OBVIOUS
<1>2. CASE s = << >>
  <2>1. Len(s) = 0 /\ (<<n>> \o s)[1] = n
    BY <1>2
  <2> QED
    BY <1>1, <1>2, <2>1 DEF Last
<1>3. CASE s # << >>
  <2>1. Len(s) > 0
    BY <1>3
  <2>2. (<<n>> \o s)[1 + Len(s)] = s[Len(s)]
    BY <2>1
  <2> QED
    BY <1>1, <1>3, <2>2 DEF Last
<1> QED
  BY <1>2, <1>3

LEMMA LeftmostDef ==
    ASSUME NEW h, Heap(h), NEW n \in DOMAIN h \ {Terminator}
    PROVE  Leftmost(h, n) = IF h[n].left = Terminator THEN n ELSE Leftmost(h, h[n].left)
<1> DEFINE l == h[n].left
           s == Spine(h, l, "left")
<1>1. l \in DOMAIN h
  BY DEF Heap
<1>2. "left" \in {"left", "right"} /\ h[n]["left"] = l
  OBVIOUS
<1>3. Spine(h, n, "left") = <<n>> \o s
  BY <1>2, SpineDef
<1> HIDE DEF l
<1>4. s \in Seq(DOMAIN h) /\ s = IF l = Terminator THEN << >> ELSE <<l>> \o Spine(h, h[l]["left"], "left")
  BY <1>1, <1>2, SpineDef
<1>5. l # Terminator => s # << >>
  <2>1. Spine(h, h[l]["left"], "left") \in Seq(DOMAIN h)
    <3>1. h[l]["left"] \in DOMAIN h
      BY <1>1 DEF Heap
    <3> QED
      BY <3>1, SpineDef
  <2> DEFINE u == Spine(h, h[l]["left"], "left")
  <2> HIDE DEF u
  <2>2. u \in Seq(DOMAIN h) => <<l>> \o u # << >>
    BY <1>1
  <2> QED
    BY <1>4, <2>1, <2>2 DEF u
<1>6. Last(<<n>> \o s) = IF s = << >> THEN n ELSE Last(s)
  <2> HIDE DEF s
  <2> QED
    BY <1>4, LastOfConcat
<1>7. l = Terminator <=> s = << >>
  BY <1>4, <1>5
<1> QED
  BY <1>3, <1>6, <1>7 DEF Leftmost, l

LEMMA PopDef ==
    ASSUME NEW h, NEW ext, Good(h, ext)
    PROVE  \A n \in DOMAIN h \ {Terminator} :
              popMinAt(h, n) = IF isTerminator(h[n].left) THEN Shared(h, h[n].right)
                               ELSE WithLeft(popMinAt(h, h[n].left), n)
<1> DEFINE Body(f, n) == IF isTerminator(h[n].left) THEN Shared(h, h[n].right) ELSE WithLeft(f[h[n].left], n)
           D == DOMAIN h \ {Terminator}
           R == SoundAt(D, h, ext, {}, -1)
           step == [f \in [D -> R] |-> [n \in D |-> Body(f, n)]]
           pop == CHOOSE f : f = [n \in DOMAIN h \ {Terminator} |-> Body(f, n)]
<1>1. \A n \in D : h[n].left \in D \cup {Terminator} /\ h[n].right \in DOMAIN h
  BY DEF Good, Heap
<1>2. \A f \in [D -> R] : step[f] = [n \in D |-> Body(f, n)]
  OBVIOUS
<1>3. ASSUME NEW f \in [D -> R], NEW g \in [D -> R], NEW n \in D,
             \A m \in D \cap {h[n].left, h[n].right} : n # Terminator => f[m] = g[m]
      PROVE  Body(f, n) = Body(g, n)
  BY <1>1, <1>3 DEF isTerminator
<1>4. ASSUME NEW f \in [D -> R], NEW n \in D,
             \A m \in D \cap {h[n].left, h[n].right} :
                 n # Terminator => f[m] \in Sound(h, ext, {}, -1)[m]
      PROVE  Body(f, n) \in Sound(h, ext, {}, -1)[n]
  <2>1. Inner(h, n) /\ -1 \in {-1, 0}
    BY InnerNode
  <2>2. CASE h[n].left = Terminator
    <3>1. Shared(h, h[n].right) \in Sound(h, ext, {}, -1)[n]
      <4>1. h[Terminator].height = 0
        BY DEF Good, Heap
      <4>2. h[h[n].right].height - (h[n].height + -1) \in 0 .. 1
        BY <2>1, <2>2, <4>1 DEF Inner, Larger
      <4>3. Content(h, h[n].right) \subseteq Content(h, n) \cup {}
        BY <2>1 DEF Inner
      <4> QED
        BY <1>1, <2>1, <4>2, <4>3, SharedSound
    <3> QED
      BY <2>2, <3>1 DEF isTerminator
  <2>3. CASE h[n].left # Terminator
    <3>1. f[h[n].left] \in Sound(h, ext, {}, -1)[h[n].left]
      BY <1>1, <1>4, <2>3
    <3>2. WithLeft(f[h[n].left], n) \in Sound(h, ext, {}, -1)[n]
      BY <2>1, <3>1, WithLeftSound
    <3> QED
      BY <2>3, <3>2 DEF isTerminator
  <2> QED
    BY <2>2, <2>3
<1> HIDE DEF Body
<1>5. \A f \in [D -> R], n \in D : step[f][n] = Body(f, n)
  <2> HIDE DEF R, step
  <2> QED
    BY <1>2
<1>6. CASE D # {}
  <2>1. Operates(step, D, h, ext, {}, -1)
    <3>1. D # {} /\ D \subseteq DOMAIN h /\ Good(h, ext) /\ -1 \in {-1, 0}
      BY <1>6
    <3>2. \A f, g \in [D -> R], n \in D :
             (\A m \in D \cap {h[n].left, h[n].right} : n # Terminator => f[m] = g[m])
                => step[f][n] = step[g][n]
      <4> HIDE DEF R, D, step
      <4> QED
        BY <1>3, <1>5
    <3>3. \A f \in [D -> R], n \in D :
             (\A m \in D \cap {h[n].left, h[n].right} :
                  n # Terminator => f[m] \in Sound(h, ext, {}, -1)[m])
                => step[f][n] \in Sound(h, ext, {}, -1)[n]
      <4> HIDE DEF R, D, step
      <4> QED
        BY <1>4, <1>5
    <3> HIDE DEF step
    <3> QED
      BY <3>1, <3>2, <3>3 DEF Operates
  <2>2. \E f \in [D -> R] : \A n \in D : step[f][n] = f[n]
    <3> HIDE DEF step
    <3>1. Solved(step, D, h, ext, {}, -1)
      BY <2>1, OperationExists
    <3> QED
      BY <3>1 DEF Solved
  <2>3. PICK f \in [D -> R] : \A n \in D : step[f][n] = f[n]
    BY <2>2
  <2>4. f = [n \in DOMAIN h \ {Terminator} |-> Body(f, n)]
    <3> HIDE DEF R, step
    <3>1. \A n \in D : f[n] = Body(f, n)
      BY <1>5, <2>3
    <3>2. f = [n \in D |-> f[n]]
      OBVIOUS
    <3> QED
      BY <3>1, <3>2
  <2>5. pop = [n \in DOMAIN h \ {Terminator} |-> Body(pop, n)]
    BY <2>4
  <2>6. \A n \in D : pop[n] = Body(pop, n)
    <3> HIDE DEF pop
    <3> QED
      BY <2>5
  <2>7. \A n : popMinAt(h, n) = pop[n]
    BY DEF popMinAt, Body
  <2> HIDE DEF pop
  <2> QED
    BY <1>1, <2>6, <2>7 DEF Body
<1> QED
  BY <1>6

IsLeast(C, m) == m \in C /\ \A x \in C : x # m => m[1] < x[1]

PopOf(h, e, n) ==
    LET m == h[Leftmost(h, n)].value
    IN  IsLeast(Content(h, n), m) /\ Result(h, e, n, popMinAt(h, n), Content(h, n) \ {m}, -1)

LEMMA PopResult ==
    ASSUME NEW h, NEW e, Good(h, e), NEW top \in DOMAIN h \ {Terminator}
    PROVE  PopOf(h, e, top)
<1> DEFINE T == {n \in DOMAIN h : n # Terminator => PopOf(h, e, n)}
<1>1. Heap(h) /\ h[Terminator].height = 0 /\ Terminator \in DOMAIN h
  BY DEF Good, Heap
<1>2. ASSUME NEW n \in DOMAIN h \ {Terminator}, h[n].left # Terminator => PopOf(h, e, h[n].left)
      PROVE  PopOf(h, e, n)
  <2>1. Inner(h, n) /\ -1 \in {-1, 0}
    BY InnerNode
  <2>2. popMinAt(h, n) = IF isTerminator(h[n].left) THEN Shared(h, h[n].right)
                         ELSE WithLeft(popMinAt(h, h[n].left), n)
    BY PopDef
  <2>3. Leftmost(h, n) = IF h[n].left = Terminator THEN n ELSE Leftmost(h, h[n].left)
    BY <1>1, LeftmostDef
  <2> DEFINE A == Content(h, h[n].left)
             B == Content(h, h[n].right)
             C == Content(h, n)
             v == h[n].value
  <2>4. /\ C = {v} \cup A \cup B /\ v[1] \in Int
        /\ \A x \in A : x[1] \in Int /\ x[1] < v[1]
        /\ \A x \in B : x[1] \in Int /\ v[1] < x[1]
        /\ h[n].left \in DOMAIN h /\ h[n].right \in DOMAIN h
    BY <2>1 DEF Inner
  <2>5. CASE h[n].left = Terminator
    <3>1. A = {}
      BY <1>1, <2>5, ContentDef
    <3>2. Leftmost(h, n) = n
      BY <2>3, <2>5
    <3>3. popMinAt(h, n) = Shared(h, h[n].right)
      BY <2>2, <2>5 DEF isTerminator
    <3>4. h[h[n].right].height - (h[n].height + -1) \in 0 .. 1
      BY <1>1, <2>1, <2>5 DEF Inner, Larger
    <3>5. Result(h, e, n, Shared(h, h[n].right), B, -1)
      BY <2>1, <2>4, <3>4, SharedResult
    <3> HIDE DEF A, B, C, v
    <3>6. C \ {v} = B
      BY <2>4, <3>1
    <3>7. IsLeast(C, v)
      BY <2>4, <3>1 DEF IsLeast
    <3> QED
      BY <3>2, <3>3, <3>5, <3>6, <3>7 DEF PopOf, C, v
  <2>6. CASE h[n].left # Terminator
    <3> DEFINE m == h[Leftmost(h, h[n].left)].value
    <3>1. IsLeast(A, m) /\ Result(h, e, h[n].left, popMinAt(h, h[n].left), A \ {m}, -1)
      BY <1>2, <2>6 DEF PopOf
    <3>2. Leftmost(h, n) = Leftmost(h, h[n].left)
      BY <2>3, <2>6
    <3>3. popMinAt(h, n) = WithLeft(popMinAt(h, h[n].left), n)
      BY <2>2, <2>6 DEF isTerminator
    <3>4. \A x \in A \ {m} : x[1] < Key(h, n)
      BY <2>4 DEF Key
    <3>5. Result(h, e, n, WithLeft(popMinAt(h, h[n].left), n), {v} \cup (A \ {m}) \cup B, -1)
      BY <2>1, <3>1, <3>4, WithLeftResult
    <3> HIDE DEF A, B, C, v, m
    <3>6. m \in A /\ \A x \in C : x # m => m[1] < x[1]
      <4>1. m \in A /\ \A x \in A : x # m => m[1] < x[1]
        BY <3>1 DEF IsLeast
      <4>2. m[1] \in Int /\ m[1] < v[1]
        BY <2>4, <4>1
      <4>3. \A x \in B : m[1] < x[1]
        BY <2>4, <4>2
      <4> QED
        BY <2>4, <4>1, <4>2, <4>3
    <3>7. C \ {m} = {v} \cup (A \ {m}) \cup B
      <4>1. m # v /\ m \notin B
        BY <2>4, <3>6
      <4> QED
        BY <2>4, <4>1
    <3>8. IsLeast(C, m)
      BY <2>4, <3>6 DEF IsLeast
    <3> QED
      BY <3>2, <3>3, <3>5, <3>7, <3>8 DEF PopOf, C, m
  <2> QED
    BY <2>5, <2>6
<1>3. T = DOMAIN h
  <2>1. T \in SUBSET DOMAIN h /\ Terminator \in T
    BY <1>1
  <2>2. \A n \in DOMAIN h \ {Terminator} : h[n].left \in T /\ h[n].right \in T => n \in T
    BY <1>2
  <2> HIDE DEF T
  <2> QED
    BY <1>1, <2>1, <2>2, HeapInduction
<1> QED
  BY <1>3

LEMMA UniteResult ==
    ASSUME NEW h, NEW e, Good(h, e), NEW n \in DOMAIN h \ {Terminator}, h[n].right # Terminator
    PROVE  /\ Result(h, e, n, Unite(h, n), Content(h, h[n].left) \cup Content(h, h[n].right), -1)
           /\ IsPair(Unite(h, n))
<1> DEFINE by == -1
           a == h[n].left
           right == h[n].right
           C == Content(h, right)
           v == h[Leftmost(h, right)].value
           r == popMinAt(h, right)
           entries == C \ {v}
           k == r.heap
           g == incref(k, a)
           q == balance(g, a, v, r.node)
<1>1. Inner(h, n) /\ Heap(h) /\ e \in [Nat -> Nat]
  BY InnerNode DEF Good, Owns
<1>0. right \in DOMAIN h
  BY <1>1 DEF Inner
<1>2. /\ r.node \in Nat /\ Good(k, Plus(e, r.node)) /\ Extends(h, k)
      /\ Content(k, r.node) = entries
      /\ k[r.node].height - (h[right].height + by) \in 0 .. 1
      /\ IsLeast(C, v)
  <2>1. PopOf(h, e, right)
    BY <1>0, PopResult
  <2> QED
    BY <2>1 DEF PopOf, Result
<1>3. /\ a \in DOMAIN h /\ a \in Nat /\ v \in Entries /\ v[1] \in Int
      /\ h[n].height \in Nat /\ h[a].height \in Nat /\ h[h[n].right].height \in Nat
      /\ h[n].height = Larger(h[h[n].left].height, h[h[n].right].height) + 1
      /\ h[h[n].left].height - h[h[n].right].height \in -2 .. 2
      /\ \A x \in Content(h, a) : x[1] \in Int /\ x[1] < v[1]
  <2>1. v \in C /\ C \subseteq Entries /\ v[1] \in Int
    <3>1. v \in C
      BY <1>2 DEF IsLeast
    <3>2. C \subseteq Entries
      BY <1>0, <1>1, ContentDef
    <3> QED
      BY <3>1, <3>2, TreeParameters
  <2>2. h[n].value[1] < v[1]
    BY <1>1, <2>1 DEF Inner
  <2>3. h[n].value[1] \in Int /\ \A x \in Content(h, a) : x[1] \in Int /\ x[1] < h[n].value[1]
    BY <1>1 DEF Inner
  <2>4. \A x \in Content(h, a) : x[1] \in Int /\ x[1] < v[1]
    <3> HIDE DEF a, v
    <3> QED
      BY <2>1, <2>2, <2>3
  <2> QED
    BY <1>1, <2>1, <2>4 DEF Inner
<1>4. Heap(k) /\ Keeps(h, k)
  BY <1>1, <1>2, ExtendsKeeps DEF Good
<1>5. a \in DOMAIN k
  BY <1>3, <1>4 DEF Keeps
<1>6. Unite(h, n) = q
  BY DEF Unite
<1>16. IsPair(q)
  BY Pairs
<1> HIDE DEF a, v, g, q, k, r, C, by
<1>7. /\ Plus(e, r.node) \in [Nat -> Nat] /\ Good(g, Plus(Plus(e, r.node), a))
      /\ Extends(k, g) /\ Keeps(k, g)
  BY <1>2, <1>5, IncrefOwned DEF g
<1>8. r.node \in DOMAIN k /\ k[r.node].height \in Nat /\ entries \subseteq Entries
  <2>1. r.node \in DOMAIN k
    BY <1>1, <1>2, OwnedThere
  <2> QED
    BY <1>2, <1>4, <2>1, HeightsDescend, ContentDef
<1>9. /\ g[r.node].height = k[r.node].height /\ g[a].height = h[a].height
      /\ Content(g, r.node) = entries /\ Content(g, a) = Content(h, a)
  BY <1>2, <1>3, <1>4, <1>5, <1>7, <1>8 DEF Keeps
<1> DEFINE R == k[r.node].height
           S == h[h[n].right].height
           O == h[a].height
<1>10. R \in Nat /\ S \in Nat /\ O \in Nat /\ R - (S + by) \in 0 .. 1 /\ S - O \in -2 .. 2
       /\ h[n].height = Larger(S, O) + 1 /\ h[n].height \in Nat /\ by = -1
  <2>1. S - O \in -2 .. 2 /\ h[n].height = Larger(S, O) + 1
    BY <1>3 DEF a, Larger
  <2> QED
    BY <1>2, <1>3, <1>8, <2>1 DEF by
<1> HIDE DEF R, S, O
<1>11. Joins(g, e, a, v, r.node)
  <2>1. g[a].height - g[r.node].height \in -3 .. 3
    <3>1. O - R \in -3 .. 3
      BY <1>10
    <3> QED
      BY <1>9, <3>1 DEF R, O
  <2>2. Good(g, Plus(Plus(e, a), r.node))
    BY <1>1, <1>2, <1>3, <1>7, PlusSwap
  <2>3. \A x \in entries : v[1] < x[1]
    BY <1>2 DEF IsLeast
  <2> QED
    BY <1>3, <1>9, <2>1, <2>2, <2>3 DEF Joins
<1>12. Joined(g, e, a, v, r.node, q)
  BY <1>1, <1>2, <1>3, <1>11, BalanceJoins DEF q
<1>13. Extends(h, q.heap)
  <2>1. Extends(h, g)
    BY <1>2, <1>7, ExtendsTransitive
  <2> QED
    BY <1>12, <2>1, JoinedExtends
<1>14. q.heap[q.node].height - (h[n].height + by) \in 0 .. 1
  <2> DEFINE Q == q.heap[q.node].height
  <2>1. /\ Q - Larger(O, R) \in 0 .. 1
        /\ O - R \in -2 .. 2 => Q = Larger(O, R) + 1
    BY <1>9, <1>12 DEF Joined, R, O
  <2>2. Q \in Nat
    <3>1. Good(q.heap, Plus(e, q.node)) /\ q.node \in Nat
      BY <1>12 DEF Joined
    <3>2. q.node \in DOMAIN q.heap
      BY <1>1, <3>1, OwnedThere
    <3> QED
      BY <3>1, <3>2, HeightsDescend DEF Good
  <2> HIDE DEF Q
  <2>3. Q - (Larger(S, O) + 1 + by) \in 0 .. 1
    BY <1>10, <2>1, <2>2 DEF Larger
  <2>4. h[n].height = Larger(S, O) + 1
    BY <1>10
  <2>5. Q - (h[n].height + by) \in 0 .. 1
    BY <2>3, <2>4
  <2> QED
    BY <2>5 DEF Q
<1>15. Content(q.heap, q.node) = {v} \cup entries \cup Content(h, a)
  BY <1>9, <1>12 DEF Joined
<1> QED
  <2>1. {v} \cup entries \cup Content(h, a) = Content(h, a) \cup C
    BY <1>2 DEF IsLeast
  <2>2. Result(h, e, n, q, Content(h, a) \cup C, by)
    BY <1>12, <1>13, <1>14, <1>15, <2>1 DEF Joined, Result
  <2> QED
    BY <1>6, <1>16, <2>2 DEF a, C, by

(* A node with one subtree is replaced by it. *)
LEMMA OneSubtree ==
    ASSUME NEW h, NEW e, Good(h, e), NEW n \in DOMAIN h \ {Terminator}
    PROVE  /\ h[n].left = Terminator =>
                 Result(h, e, n, Shared(h, h[n].right), Content(h, h[n].left) \cup Content(h, h[n].right), -1)
           /\ h[n].right = Terminator =>
                 Result(h, e, n, Shared(h, h[n].left), Content(h, h[n].left) \cup Content(h, h[n].right), -1)
<1>1. Inner(h, n) /\ -1 \in {-1, 0}
  BY InnerNode
<1>2. h[Terminator].height = 0 /\ Content(h, Terminator) = {}
  BY ContentDef DEF Good, Heap
<1>3. CASE h[n].left = Terminator
  <2>1. h[h[n].right].height - (h[n].height + -1) \in 0 .. 1
    BY <1>1, <1>2, <1>3 DEF Inner, Larger
  <2>2. Result(h, e, n, Shared(h, h[n].right), Content(h, h[n].right), -1)
    BY <1>1, <2>1, SharedResult DEF Inner
  <2>3. Content(h, h[n].left) \cup Content(h, h[n].right) = Content(h, h[n].right)
    BY <1>2, <1>3
  <2>4. h[n].right = Terminator => h[n].left = h[n].right
    BY <1>3
  <2> QED
    BY <2>2, <2>3, <2>4
<1>4. CASE h[n].left # Terminator /\ h[n].right = Terminator
  <2>1. h[h[n].left].height - (h[n].height + -1) \in 0 .. 1
    BY <1>1, <1>2, <1>4 DEF Inner, Larger
  <2>2. Result(h, e, n, Shared(h, h[n].left), Content(h, h[n].left), -1)
    BY <1>1, <2>1, SharedResult DEF Inner
  <2>3. Content(h, h[n].left) \cup Content(h, h[n].right) = Content(h, h[n].left)
    BY <1>2, <1>4
  <2> QED
    BY <1>4, <2>2, <2>3
<1> QED
  BY <1>3, <1>4

LEMMA RemoveDef ==
    ASSUME NEW h, NEW ext, Good(h, ext), NEW k \in Int
    PROVE  \A n \in DOMAIN h :
              removeAt(h, n, k) =
                 IF isTerminator(n) THEN Shared(h, n)
                 ELSE IF k < Key(h, n) THEN WithLeft(removeAt(h, h[n].left, k), n)
                 ELSE IF Key(h, n) < k THEN WithRight(removeAt(h, h[n].right, k), n)
                 ELSE IF isTerminator(h[n].left) THEN Shared(h, h[n].right)
                 ELSE IF isTerminator(h[n].right) THEN Shared(h, h[n].left)
                 ELSE Unite(h, n)
<1> DEFINE Body(f, n) ==
             IF isTerminator(n) THEN Shared(h, n)
             ELSE IF k < Key(h, n) THEN WithLeft(f[h[n].left], n)
             ELSE IF Key(h, n) < k THEN WithRight(f[h[n].right], n)
             ELSE IF isTerminator(h[n].left) THEN Shared(h, h[n].right)
             ELSE IF isTerminator(h[n].right) THEN Shared(h, h[n].left)
             ELSE Unite(h, n)
           D == DOMAIN h
           R == SoundAt(D, h, ext, {}, -1)
           step == [f \in [D -> R] |-> [n \in D |-> Body(f, n)]]
           removed == CHOOSE f : f = [n \in DOMAIN h |-> Body(f, n)]
<1>1. Heap(h) /\ Terminator \in D /\ \A n \in D : h[n].left \in D /\ h[n].right \in D
  BY DEF Good, Heap
<1>2. \A f \in [D -> R] : step[f] = [n \in D |-> Body(f, n)]
  OBVIOUS
<1>3. ASSUME NEW f \in [D -> R], NEW g \in [D -> R], NEW n \in D,
             \A m \in D \cap {h[n].left, h[n].right} : n # Terminator => f[m] = g[m]
      PROVE  Body(f, n) = Body(g, n)
  BY <1>1, <1>3 DEF isTerminator
<1>4. ASSUME NEW f \in [D -> R], NEW n \in D,
             \A m \in D \cap {h[n].left, h[n].right} :
                 n # Terminator => f[m] \in Sound(h, ext, {}, -1)[m]
      PROVE  Body(f, n) \in Sound(h, ext, {}, -1)[n]
  <2>0. -1 \in {-1, 0} /\ h[Terminator].height = 0
    BY <1>1 DEF Heap
  <2>1. CASE n = Terminator
    <3>1. h[n].height - (h[n].height + -1) \in 0 .. 1
      BY <2>0, <2>1
    <3>2. Shared(h, n) \in Sound(h, ext, {}, -1)[n]
      BY <2>0, <3>1, SharedSound
    <3> QED
      BY <2>1, <3>2 DEF isTerminator
  <2>2. CASE n # Terminator
    <3>1. f[h[n].left] \in Sound(h, ext, {}, -1)[h[n].left] /\ f[h[n].right] \in Sound(h, ext, {}, -1)[h[n].right]
      BY <1>1, <1>4, <2>2
    <3>2. CASE k < Key(h, n)
      <4>1. WithLeft(f[h[n].left], n) \in Sound(h, ext, {}, -1)[n]
        BY <2>0, <2>2, <3>1, WithLeftSound
      <4> QED
        BY <2>2, <3>2, <4>1 DEF isTerminator
    <3>3. CASE ~ (k < Key(h, n)) /\ Key(h, n) < k
      <4>1. WithRight(f[h[n].right], n) \in Sound(h, ext, {}, -1)[n]
        BY <2>0, <2>2, <3>1, WithRightSound
      <4> QED
        BY <2>2, <3>3, <4>1 DEF isTerminator
    <3>4. CASE ~ (k < Key(h, n)) /\ ~ (Key(h, n) < k)
      <4> DEFINE C == Content(h, h[n].left) \cup Content(h, h[n].right)
      <4>1. C \subseteq Content(h, n) \cup {}
        BY <2>2, InnerNode DEF Inner
      <4>2. \A r : Result(h, ext, n, r, C, -1) /\ IsPair(r) => r \in Sound(h, ext, {}, -1)[n]
        <5> HIDE DEF C
        <5> QED
          BY <4>1, ResultIs
      <4>3. h[n].left = Terminator => Shared(h, h[n].right) \in Sound(h, ext, {}, -1)[n]
        BY <2>2, <4>2, OneSubtree, Pairs
      <4>4. h[n].right = Terminator => Shared(h, h[n].left) \in Sound(h, ext, {}, -1)[n]
        BY <2>2, <4>2, OneSubtree, Pairs
      <4>5. h[n].right # Terminator => Unite(h, n) \in Sound(h, ext, {}, -1)[n]
        BY <2>2, <4>2, UniteResult
      <4>6. Body(f, n) = IF isTerminator(h[n].left) THEN Shared(h, h[n].right)
                         ELSE IF isTerminator(h[n].right) THEN Shared(h, h[n].left)
                         ELSE Unite(h, n)
        BY <2>2, <3>4 DEF isTerminator
      <4> HIDE DEF Body
      <4> QED
        BY <4>3, <4>4, <4>5, <4>6 DEF isTerminator
    <3> QED
      BY <3>2, <3>3, <3>4
  <2> QED
    BY <2>1, <2>2
<1> HIDE DEF Body
<1>5. \A f \in [D -> R], n \in D : step[f][n] = Body(f, n)
  <2> HIDE DEF R, step
  <2> QED
    BY <1>2
<1>6. Operates(step, D, h, ext, {}, -1)
  <2>1. D # {} /\ D \subseteq DOMAIN h /\ Good(h, ext) /\ -1 \in {-1, 0}
    BY <1>1
  <2>2. \A f, g \in [D -> R], n \in D :
           (\A m \in D \cap {h[n].left, h[n].right} : n # Terminator => f[m] = g[m])
              => step[f][n] = step[g][n]
    <3> HIDE DEF R, D, step
    <3> QED
      BY <1>3, <1>5
  <2>3. \A f \in [D -> R], n \in D :
           (\A m \in D \cap {h[n].left, h[n].right} :
                n # Terminator => f[m] \in Sound(h, ext, {}, -1)[m])
              => step[f][n] \in Sound(h, ext, {}, -1)[n]
    <3> HIDE DEF R, D, step
    <3> QED
      BY <1>4, <1>5
  <2> HIDE DEF step
  <2> QED
    BY <2>1, <2>2, <2>3 DEF Operates
<1>7. \E f \in [D -> R] : \A n \in D : step[f][n] = f[n]
  <2> HIDE DEF step
  <2>1. Solved(step, D, h, ext, {}, -1)
    BY <1>6, OperationExists
  <2> QED
    BY <2>1 DEF Solved
<1>8. \E f : f = [n \in DOMAIN h |-> Body(f, n)]
  <2>1. PICK f \in [D -> R] : \A n \in D : step[f][n] = f[n]
    BY <1>7
  <2>2. f = [n \in DOMAIN h |-> Body(f, n)]
    <3> HIDE DEF R, step
    <3>1. \A n \in D : f[n] = Body(f, n)
      BY <1>5, <2>1
    <3>2. f = [n \in D |-> f[n]]
      OBVIOUS
    <3> QED
      BY <3>1, <3>2
  <2> QED
    BY <2>2
<1>9. removed = [n \in DOMAIN h |-> Body(removed, n)]
  BY <1>8
<1>10. \A n \in DOMAIN h : removed[n] = Body(removed, n)
  <2> HIDE DEF removed
  <2> QED
    BY <1>9
<1>11. \A n \in DOMAIN h : removeAt(h, n, k) = removed[n]
  BY DEF removeAt, Body
<1> HIDE DEF removed
<1> QED
  BY <1>1, <1>10, <1>11 DEF Body

LEMMA RemoveResult ==
    ASSUME NEW h, NEW ext, Good(h, ext), NEW k \in Int, NEW top \in DOMAIN h
    PROVE  Result(h, ext, top, removeAt(h, top, k), Others(Content(h, top), k), -1)
<1> DEFINE R(n) == Result(h, ext, n, removeAt(h, n, k), Others(Content(h, n), k), -1)
           T == {n \in DOMAIN h : R(n)}
<1>1. Heap(h) /\ Terminator \in DOMAIN h /\ h[Terminator].height = 0 /\ -1 \in {-1, 0}
  BY DEF Good, Heap
<1>2. R(Terminator)
  <2>1. removeAt(h, Terminator, k) = Shared(h, Terminator)
    BY <1>1, RemoveDef DEF isTerminator
  <2>2. Content(h, Terminator) = {}
    BY <1>1, ContentDef
  <2>3. Others({}, k) = {}
    BY DEF Others
  <2>4. h[Terminator].height - (h[Terminator].height + -1) \in 0 .. 1
    BY <1>1
  <2> QED
    BY <1>1, <2>1, <2>2, <2>3, <2>4, SharedResult
<1>3. ASSUME NEW n \in DOMAIN h \ {Terminator}, R(h[n].left), R(h[n].right)
      PROVE  R(n)
  <2>1. Inner(h, n)
    BY InnerNode
  <2> DEFINE A == Content(h, h[n].left)
             B == Content(h, h[n].right)
             C == Content(h, n)
  <2>2. /\ C = {h[n].value} \cup A \cup B /\ Key(h, n) \in Int /\ h[n].value[1] = Key(h, n)
        /\ \A x \in A : x[1] \in Int /\ x[1] < Key(h, n)
        /\ \A x \in B : x[1] \in Int /\ Key(h, n) < x[1]
        /\ h[n].left \in DOMAIN h /\ h[n].right \in DOMAIN h
    BY <2>1 DEF Inner, Key
  <2>3. removeAt(h, n, k) =
                 IF k < Key(h, n) THEN WithLeft(removeAt(h, h[n].left, k), n)
                 ELSE IF Key(h, n) < k THEN WithRight(removeAt(h, h[n].right, k), n)
                 ELSE IF h[n].left = Terminator THEN Shared(h, h[n].right)
                 ELSE IF h[n].right = Terminator THEN Shared(h, h[n].left)
                 ELSE Unite(h, n)
    BY RemoveDef DEF isTerminator
  <2> HIDE DEF A, B, C
  <2>5. CASE k < Key(h, n)
    <3>1. Others(C, k) = {h[n].value} \cup Others(A, k) \cup B
      BY <2>2, <2>5 DEF Others
    <3>2. \A x \in Others(A, k) : x[1] < Key(h, n)
      BY <2>2 DEF Others
    <3>3. Result(h, ext, n, WithLeft(removeAt(h, h[n].left, k), n),
                 {h[n].value} \cup Others(A, k) \cup B, -1)
      BY <1>1, <1>3, <3>2, WithLeftResult DEF A, B
    <3> QED
      BY <2>3, <2>5, <3>1, <3>3 DEF C
  <2>6. CASE Key(h, n) < k
    <3>1. Others(C, k) = {h[n].value} \cup Others(B, k) \cup A
      BY <2>2, <2>6 DEF Others
    <3>2. \A x \in Others(B, k) : Key(h, n) < x[1]
      BY <2>2 DEF Others
    <3>3. Result(h, ext, n, WithRight(removeAt(h, h[n].right, k), n),
                 {h[n].value} \cup Others(B, k) \cup A, -1)
      BY <1>1, <1>3, <3>2, WithRightResult DEF A, B
    <3>4. ~ (k < Key(h, n))
      BY <2>2, <2>6
    <3> QED
      BY <2>3, <2>6, <3>1, <3>3, <3>4 DEF C
  <2>7. CASE ~ (k < Key(h, n)) /\ ~ (Key(h, n) < k)
    <3>1. k = Key(h, n)
      BY <2>2, <2>7
    <3>2. Others(C, k) = A \cup B
      BY <2>2, <3>1 DEF Others
    <3>3. removeAt(h, n, k) = IF h[n].left = Terminator THEN Shared(h, h[n].right)
                              ELSE IF h[n].right = Terminator THEN Shared(h, h[n].left)
                              ELSE Unite(h, n)
      BY <2>3, <2>7
    <3>4. Result(h, ext, n, removeAt(h, n, k), Content(h, h[n].left) \cup Content(h, h[n].right), -1)
      BY <3>3, OneSubtree, UniteResult
    <3> QED
      BY <3>2, <3>4 DEF A, B, C
  <2> QED
    BY <2>2, <2>5, <2>6, <2>7
<1> HIDE DEF R
<1>4. T = DOMAIN h
  <2>1. T \in SUBSET DOMAIN h /\ Terminator \in T
    BY <1>1, <1>2
  <2>2. \A n \in DOMAIN h \ {Terminator} : h[n].left \in T /\ h[n].right \in T => n \in T
    BY <1>3
  <2> HIDE DEF T
  <2> QED
    BY <1>1, <2>1, <2>2, HeapInduction
<1>5. R(top)
  BY <1>4
<1> QED
  BY <1>5 DEF R

-----------------------------------------------------------------------------
(* Paths.                                                                  *)

(* Paths: stacks of nodes from a root downwards. *)
IsPath(h, top, s) ==
    /\ s \in Seq(DOMAIN h \ {Terminator})
    /\ s # << >> => s[1] = top
    /\ \A d \in 1 .. Len(s) - 1 : s[d + 1] = h[s[d]].left \/ s[d + 1] = h[s[d]].right

LEMMA PathPrefix ==
    ASSUME NEW h, NEW top, NEW s, IsPath(h, top, s), NEW j \in 0 .. Len(s)
    PROVE  /\ IsPath(h, top, SubSeq(s, 1, j)) /\ Len(SubSeq(s, 1, j)) = j
           /\ \A d \in 1 .. j : SubSeq(s, 1, j)[d] = s[d]
<1> DEFINE S == DOMAIN h \ {Terminator}
           t == SubSeq(s, 1, j)
<1>1. s \in Seq(S)
  BY DEF IsPath
<1> HIDE DEF S
<1>2. t \in Seq(S) /\ Len(t) = j /\ \A d \in 1 .. j : t[d] = s[d]
  BY <1>1
<1> HIDE DEF t
<1>3. j \in Nat
  BY <1>1
<1>4. t # << >> => t[1] = top
  <2>1. t # << >> => j >= 1 /\ s # << >>
    BY <1>1, <1>2
  <2>2. s # << >> => s[1] = top
    BY DEF IsPath
  <2> QED
    BY <1>2, <1>3, <2>1, <2>2
<1>5. ASSUME NEW d \in 1 .. Len(t) - 1
      PROVE  t[d + 1] = h[t[d]].left \/ t[d + 1] = h[t[d]].right
  <2>1. d \in 1 .. Len(s) - 1 /\ d \in 1 .. j /\ d + 1 \in 1 .. j
    BY <1>1, <1>2, <1>3
  <2>2. s[d + 1] = h[s[d]].left \/ s[d + 1] = h[s[d]].right
    BY <2>1 DEF IsPath
  <2> QED
    BY <1>2, <2>1, <2>2
<1> QED
  BY <1>2, <1>4, <1>5 DEF IsPath, S, t

LEMMA PathAppend ==
    ASSUME NEW h, NEW top, NEW s, IsPath(h, top, s), s # << >>,
           NEW t, t # << >>, NEW next, IsPath(h, next, t),
           next = h[s[Len(s)]].left \/ next = h[s[Len(s)]].right
    PROVE  /\ IsPath(h, top, s \o t) /\ s \o t # << >>
           /\ Last(s \o t) = Last(t) /\ Len(s \o t) = Len(s) + Len(t)
           /\ \A d \in 1 .. Len(s) : (s \o t)[d] = s[d]
           /\ \A d \in 1 .. Len(t) : (s \o t)[Len(s) + d] = t[d]
<1> DEFINE S == DOMAIN h \ {Terminator}
           u == s \o t
<1>1. s \in Seq(S) /\ t \in Seq(S)
  BY DEF IsPath
<1> HIDE DEF S
<1>2. /\ u \in Seq(S) /\ Len(u) = Len(s) + Len(t) /\ Len(s) \in Nat /\ Len(t) \in Nat
      /\ \A d \in 1 .. Len(s) : u[d] = s[d]
      /\ \A d \in 1 .. Len(t) : u[Len(s) + d] = t[d]
  BY <1>1
<1>3. Len(s) >= 1 /\ Len(t) >= 1
  BY <1>1
<1> HIDE DEF u
<1>4. u # << >> /\ u[1] = top
  <2>1. s[1] = top
    BY DEF IsPath
  <2> QED
    BY <1>2, <1>3, <2>1
<1>5. u[Len(u)] = t[Len(t)]
  BY <1>2, <1>3
<1>6. ASSUME NEW d \in 1 .. Len(u) - 1
      PROVE  u[d + 1] = h[u[d]].left \/ u[d + 1] = h[u[d]].right
  <2>1. CASE d < Len(s)
    <3>1. d \in 1 .. Len(s) - 1 /\ d \in 1 .. Len(s) /\ d + 1 \in 1 .. Len(s)
      BY <1>2, <2>1
    <3>2. s[d + 1] = h[s[d]].left \/ s[d + 1] = h[s[d]].right
      BY <3>1 DEF IsPath
    <3> QED
      BY <1>2, <3>1, <3>2
  <2>2. CASE d = Len(s)
    <3>1. u[d] = s[Len(s)] /\ u[d + 1] = t[1]
      BY <1>2, <1>3, <2>2
    <3>2. t[1] = next
      BY DEF IsPath
    <3> QED
      BY <3>1, <3>2
  <2>3. CASE d > Len(s)
    <3> DEFINE c == d - Len(s)
    <3>1. c \in 1 .. Len(t) - 1 /\ c \in 1 .. Len(t) /\ c + 1 \in 1 .. Len(t) /\ d = Len(s) + c /\ d + 1 = Len(s) + (c + 1)
      BY <1>2, <2>3
    <3> HIDE DEF c
    <3>2. t[c + 1] = h[t[c]].left \/ t[c + 1] = h[t[c]].right
      BY <3>1 DEF IsPath
    <3>3. u[d] = t[c] /\ u[d + 1] = t[c + 1]
      BY <1>2, <3>1
    <3> QED
      BY <3>2, <3>3
  <2> QED
    BY <1>2, <2>1, <2>2, <2>3
<1>7. IsPath(h, top, u)
  BY <1>2, <1>4, <1>6 DEF IsPath, S
<1> QED
  BY <1>2, <1>4, <1>5, <1>7 DEF Last, u

LEMMA OnePath ==
    ASSUME NEW h, NEW n \in DOMAIN h \ {Terminator}
    PROVE  IsPath(h, n, <<n>>) /\ <<n>> # << >> /\ <<n>>[Len(<<n>>)] = n /\ Len(<<n>>) = 1
BY DEF IsPath

LEMMA EmptyPath ==
    ASSUME NEW h, NEW n
    PROVE  IsPath(h, n, << >>)
<1>1. << >> \in Seq(DOMAIN h \ {Terminator}) /\ Len(<< >>) = 0
  OBVIOUS
<1> QED
  BY <1>1 DEF IsPath

(* n, and a path from a node below it. *)
LEMMA PathCons ==
    ASSUME NEW h, NEW n \in DOMAIN h \ {Terminator}, NEW next, next = h[n].left \/ next = h[n].right,
           NEW t, IsPath(h, next, t)
    PROVE  /\ IsPath(h, n, <<n>> \o t) /\ <<n>> \o t # << >> /\ (<<n>> \o t)[1] = n
           /\ Len(<<n>> \o t) = 1 + Len(t) /\ Len(t) \in Nat
           /\ \A d \in 1 .. Len(t) : (<<n>> \o t)[1 + d] = t[d]
           /\ Last(<<n>> \o t) = IF t = << >> THEN n ELSE Last(t)
<1>1. t \in Seq(DOMAIN h \ {Terminator})
  BY DEF IsPath
<1>2. Last(<<n>> \o t) = IF t = << >> THEN n ELSE Last(t)
  BY <1>1, LastOfConcat
<1>3. Len(<<n>> \o t) = 1 + Len(t) /\ (<<n>> \o t)[1] = n /\ <<n>> \o t # << >> /\ Len(t) \in Nat
  BY <1>1
<1>4. \A d \in 1 .. Len(t) : (<<n>> \o t)[1 + d] = t[d]
  BY <1>1
<1>5. CASE t = << >>
  <2>1. <<n>> \o t = <<n>>
    BY <1>5
  <2> QED
    BY <1>2, <1>3, <1>4, <2>1, OnePath
<1>6. CASE t # << >>
  <2> DEFINE s == <<n>>
  <2>1. IsPath(h, n, s) /\ s # << >> /\ s[Len(s)] = n
    BY OnePath
  <2> HIDE DEF s
  <2>2. IsPath(h, n, s \o t)
    BY <1>6, <2>1, PathAppend
  <2> QED
    BY <1>2, <1>3, <1>4, <2>2 DEF s
<1> QED
  BY <1>5, <1>6

LEMMA SpinePath ==
    ASSUME NEW h, Heap(h), NEW side \in {"left", "right"}, NEW top \in DOMAIN h
    PROVE  /\ IsPath(h, top, Spine(h, top, side))
           /\ top # Terminator => Spine(h, top, side) # << >>
<1> DEFINE P(n) == IsPath(h, n, Spine(h, n, side)) /\ (n # Terminator => Spine(h, n, side) # << >>)
           T == {n \in DOMAIN h : P(n)}
<1>1. Terminator \in DOMAIN h
  BY DEF Heap
<1>2. P(Terminator)
  BY <1>1, SpineDef, EmptyPath
<1>3. ASSUME NEW n \in DOMAIN h \ {Terminator}, P(h[n].left), P(h[n].right)
      PROVE  P(n)
  <2>1. h[n][side] = h[n].left \/ h[n][side] = h[n].right
    OBVIOUS
  <2> DEFINE next == h[n][side]
             t == Spine(h, next, side)
  <2>2. IsPath(h, next, t)
    BY <1>3, <2>1
  <2>3. Spine(h, n, side) = <<n>> \o t
    BY SpineDef
  <2> HIDE DEF t
  <2>4. IsPath(h, n, <<n>> \o t) /\ <<n>> \o t # << >>
    BY <2>1, <2>2, PathCons
  <2> QED
    BY <2>3, <2>4
<1> HIDE DEF P
<1>4. T = DOMAIN h
  <2>1. T \in SUBSET DOMAIN h /\ Terminator \in T
    BY <1>1, <1>2
  <2>2. \A n \in DOMAIN h \ {Terminator} : h[n].left \in T /\ h[n].right \in T => n \in T
    BY <1>3
  <2> HIDE DEF T
  <2> QED
    BY <2>1, <2>2, HeapInduction
<1>5. P(top)
  BY <1>4
<1> QED
  BY <1>5 DEF P

(* Where Climb stops. *)
Stop(h, s, side) == Max({0} \cup {d \in 1 .. Len(s) - 1 : h[s[d]][side] = s[d + 1]})

LEMMA StopIs ==
    ASSUME NEW h, NEW s, Len(s) \in Nat, NEW side
    PROVE  LET j == Stop(h, s, side)
           IN  /\ j \in Nat /\ (j = 0 \/ j \in 1 .. Len(s) - 1)
               /\ j # 0 => h[s[j]][side] = s[j + 1]
               /\ \A d \in 1 .. Len(s) - 1 : h[s[d]][side] = s[d + 1] => d <= j
               /\ Climb(h, s, side) = SubSeq(s, 1, j)
<1> DEFINE Turns == {0} \cup {d \in 1 .. Len(s) - 1 : h[s[d]][side] = s[d + 1]}
<1>1. Turns \in SUBSET Int /\ IsFiniteSet(Turns) /\ Turns # {}
  <2>1. Turns \in SUBSET (0 .. Len(s))
    OBVIOUS
  <2>2. IsFiniteSet(0 .. Len(s))
    BY FS_Interval
  <2> HIDE DEF Turns
  <2>3. IsFiniteSet(Turns)
    BY <2>1, <2>2, FS_Subset
  <2>4. Turns # {}
    BY DEF Turns
  <2> QED
    BY <2>1, <2>3, <2>4
<1>2. \E j \in Turns : \A d \in Turns : d <= j
  <2> HIDE DEF Turns
  <2> QED
    BY <1>1, FiniteEnds
<1>3. Stop(h, s, side) = Max(Turns) /\ Climb(h, s, side) = SubSeq(s, 1, Max(Turns))
  BY DEF Stop, Climb
<1> DEFINE j == Max(Turns)
<1>4. j \in Turns /\ \A d \in Turns : d <= j
  <2>1. j = CHOOSE x \in Turns : \A y \in Turns : x >= y
    BY DEF Max
  <2> HIDE DEF Turns
  <2>2. \E x \in Turns : \A y \in Turns : x >= y
    BY <1>1, <1>2
  <2>3. j \in Turns /\ \A y \in Turns : j >= y
    BY <2>1, <2>2
  <2> HIDE DEF j
  <2> QED
    BY <1>1, <2>3
<1> HIDE DEF j
<1> QED
  BY <1>3, <1>4 DEF j

LEMMA ClimbPath ==
    ASSUME NEW h, NEW top, NEW s, IsPath(h, top, s), NEW side
    PROVE  IsPath(h, top, Climb(h, s, side))
<1>1. Len(s) \in Nat
  BY DEF IsPath
<1> DEFINE j == Stop(h, s, side)
<1>2. (j = 0 \/ j \in 1 .. Len(s) - 1) /\ Climb(h, s, side) = SubSeq(s, 1, j)
  BY <1>1, StopIs
<1> HIDE DEF j
<1>3. j \in 0 .. Len(s)
  BY <1>1, <1>2
<1> QED
  BY <1>2, <1>3, PathPrefix

(* operator++ and operator-- at once. *)

Sides == {"left", "right"}

Other(side) == IF side = "right" THEN "left" ELSE "right"

Beside(h, s, side) ==
    LET next == h[Last(s)][side]
    IN  IF isTerminator(next) THEN Climb(h, s, Other(side)) ELSE s \o Spine(h, next, Other(side))

LEMMA BesideIs ==
    ASSUME NEW h, NEW top, NEW s
    PROVE  /\ Successor(h, s) = Beside(h, s, "right")
           /\ s # << >> => Predecessor(h, top, s) = Beside(h, s, "left")
BY DEF Successor, Predecessor, Beside, Other

LEMMA BesidePath ==
    ASSUME NEW h, Heap(h), NEW top, NEW s, IsPath(h, top, s), s # << >>, NEW side \in Sides
    PROVE  IsPath(h, top, Beside(h, s, side))
<1>1. s[Len(s)] \in DOMAIN h \ {Terminator}
  BY DEF IsPath
<1> DEFINE next == h[Last(s)][side]
<1>2. next \in DOMAIN h /\ (next = h[s[Len(s)]].left \/ next = h[s[Len(s)]].right)
  BY <1>1 DEF Heap, Last, Sides
<1>3. CASE next = Terminator
  BY <1>3, ClimbPath DEF Beside, isTerminator
<1>4. CASE next # Terminator
  <2> DEFINE t == Spine(h, next, Other(side))
  <2>1. Beside(h, s, side) = s \o t
    BY <1>4 DEF Beside, isTerminator
  <2>2. Other(side) \in {"left", "right"}
    BY DEF Other
  <2> HIDE DEF next
  <2>3. IsPath(h, next, t) /\ t # << >>
    BY <1>2, <1>4, <2>2, SpinePath
  <2> HIDE DEF t
  <2>4. IsPath(h, top, s \o t)
    BY <1>2, <2>3, PathAppend
  <2> QED
    BY <2>1, <2>4
<1> QED
  BY <1>3, <1>4

LEMMA SuccessorPath ==
    ASSUME NEW h, Heap(h), NEW top, NEW s, IsPath(h, top, s), s # << >>
    PROVE  IsPath(h, top, Successor(h, s))
BY BesideIs, BesidePath DEF Sides

(* A path stays one as long as its root is not freed. *)
LEMMA PathKept ==
    ASSUME NEW h, NEW g, NEW k, Heap(g), Extends(h, k), Extends(g, k), NEW top \in DOMAIN g, NEW s,
           IsPath(h, top, s)
    PROVE  IsPath(g, top, s)
<1>1. /\ s \in Seq(DOMAIN h \ {Terminator}) /\ Len(s) \in Nat
      /\ \A d \in 1 .. Len(s) : s[d] \in DOMAIN h \ {Terminator}
      /\ s # << >> => s[1] = top
      /\ \A d \in 1 .. Len(s) - 1 : s[d + 1] = h[s[d]].left \/ s[d + 1] = h[s[d]].right
  BY DEF IsPath
<1>2. \A n \in DOMAIN h \cap DOMAIN g : g[n].left = h[n].left /\ g[n].right = h[n].right
  BY DEF Extends, SameNode
<1>3. \A n \in DOMAIN g : g[n].left \in DOMAIN g /\ g[n].right \in DOMAIN g
  BY DEF Heap
<1> DEFINE D == {m \in Nat : m + 1 \in 1 .. Len(s) => s[m + 1] \in DOMAIN g}
<1>4. 0 \in D
  <2>1. 0 + 1 \in 1 .. Len(s) => s # << >>
    BY <1>1
  <2> QED
    BY <1>1, <2>1
<1>5. ASSUME NEW m \in D
      PROVE  m + 1 \in D
  <2> SUFFICES ASSUME m + 1 + 1 \in 1 .. Len(s)
               PROVE  s[m + 1 + 1] \in DOMAIN g
    OBVIOUS
  <2> DEFINE c == m + 1
  <2>1. c \in 1 .. Len(s) - 1 /\ c \in 1 .. Len(s)
    BY <1>1
  <2>2. s[c] \in DOMAIN g
    BY <2>1
  <2> HIDE DEF c
  <2>3. s[c + 1] = h[s[c]].left \/ s[c + 1] = h[s[c]].right
    BY <1>1, <2>1
  <2>4. s[c] \in DOMAIN h
    BY <1>1, <2>1
  <2>5. s[c + 1] \in DOMAIN g
    BY <1>2, <1>3, <2>2, <2>3, <2>4
  <2> QED
    BY <2>5 DEF c
<1>6. D = Nat
  <2> HIDE DEF D
  <2> QED
    BY <1>4, <1>5, SetInduction DEF D
<1>7. \A d \in 1 .. Len(s) : s[d] \in DOMAIN g \ {Terminator}
  <2> SUFFICES ASSUME NEW d \in 1 .. Len(s) PROVE s[d] \in DOMAIN g \ {Terminator}
    OBVIOUS
  <2> DEFINE c == d - 1
  <2>1. c \in Nat /\ c + 1 = d
    BY <1>1
  <2> HIDE DEF c
  <2>2. s[c + 1] \in DOMAIN g
    BY <1>6, <2>1
  <2>3. s[d] \in DOMAIN g
    BY <2>1, <2>2
  <2> QED
    BY <1>1, <2>3
<1>8. s \in Seq(DOMAIN g \ {Terminator})
  <2>1. s \in [1 .. Len(s) -> DOMAIN h \ {Terminator}]
    BY <1>1
  <2>2. s \in [1 .. Len(s) -> DOMAIN g \ {Terminator}]
    BY <1>7, <2>1
  <2> QED
    BY <1>1, <2>2
<1>9. \A d \in 1 .. Len(s) - 1 : s[d + 1] = g[s[d]].left \/ s[d + 1] = g[s[d]].right
  <2> SUFFICES ASSUME NEW d \in 1 .. Len(s) - 1
               PROVE  s[d + 1] = g[s[d]].left \/ s[d + 1] = g[s[d]].right
    OBVIOUS
  <2>1. d \in 1 .. Len(s)
    BY <1>1
  <2> QED
    BY <1>1, <1>2, <1>7, <2>1
<1> QED
  BY <1>1, <1>8, <1>9 DEF IsPath

-----------------------------------------------------------------------------
(* The state.                                                              *)

(* The pointers of trees and of the iterator. *)

Walked(i, a) == IF i # NoIterator /\ i.root = a THEN 1 ELSE 0

ExternalOf(nd, i) == [a \in Nat |-> Cardinality({m \in Maps : nd[m] = a}) + Walked(i, a)]

Iterators == [root : Nat, stack : Seq(Nat)]

Handles(nd, i) ==
    /\ nd \in [Maps -> Nat \cup {NoTree}]
    /\ i \in Iterators \cup {NoIterator}

LEMMA ExternalType ==
    ASSUME NEW nd, NEW i
    PROVE  ExternalOf(nd, i) \in [Nat -> Nat]
<1>1. ASSUME NEW a \in Nat
      PROVE  Cardinality({m \in Maps : nd[m] = a}) \in Nat /\ Walked(i, a) \in Nat
  <2>1. IsFiniteSet({m \in Maps : nd[m] = a})
    BY TreeParameters, FS_Subset
  <2> QED
    BY <2>1, FS_CardinalityType DEF Walked
<1> QED
  BY <1>1 DEF ExternalOf

(* A tree that takes x owns one pointer more. *)
LEMMA HeldPlus ==
    ASSUME NEW nd, NEW i, Handles(nd, i), NEW m \in Maps, nd[m] = NoTree, NEW x \in Nat
    PROVE  /\ ExternalOf([nd EXCEPT ![m] = x], i) = Plus(ExternalOf(nd, i), x)
           /\ Handles([nd EXCEPT ![m] = x], i)
<1> DEFINE new == [nd EXCEPT ![m] = x]
           e == ExternalOf(nd, i)
           f == ExternalOf(new, i)
<1>1. nd \in [Maps -> Nat \cup {NoTree}] /\ NoTree \notin Nat
  BY TreeParameters DEF Handles
<1>2. new \in [Maps -> Nat \cup {NoTree}] /\ new[m] = x /\ \A n \in Maps \ {m} : new[n] = nd[n]
  BY <1>1
<1> HIDE DEF new
<1>3. e \in [Nat -> Nat] /\ f \in [Nat -> Nat] /\ Plus(e, x) \in [Nat -> Nat]
      /\ \A a \in Nat : Plus(e, x)[a] = e[a] + One(a, x)
  BY ExternalType, PlusMinus
<1>4. ASSUME NEW a \in Nat
      PROVE  f[a] = Plus(e, x)[a]
  <2> DEFINE S == {n \in Maps : nd[n] = a}
  <2>1. IsFiniteSet(S) /\ m \notin S /\ Cardinality(S) \in Nat /\ Walked(i, a) \in Nat
    <3>1. IsFiniteSet(S)
      BY TreeParameters, FS_Subset
    <3> QED
      BY <1>1, <3>1, FS_CardinalityType DEF Walked
  <2>2. f[a] = Cardinality({n \in Maps : new[n] = a}) + Walked(i, a)
    BY DEF ExternalOf
  <2>3. e[a] = Cardinality(S) + Walked(i, a)
    BY DEF ExternalOf
  <2>4. Cardinality({n \in Maps : new[n] = a}) = Cardinality(S) + One(a, x)
    <3>1. CASE a = x
      <4>1. {n \in Maps : new[n] = a} = S \cup {m}
        BY <1>2, <3>1
      <4> HIDE DEF S
      <4>2. Cardinality(S \cup {m}) = Cardinality(S) + 1
        BY <2>1, FS_AddElement
      <4> QED
        BY <3>1, <4>1, <4>2 DEF One
    <3>2. CASE a # x
      <4>1. {n \in Maps : new[n] = a} = S
        BY <1>1, <1>2, <3>2
      <4> HIDE DEF S
      <4> QED
        BY <2>1, <3>2, <4>1 DEF One
    <3> QED
      BY <3>1, <3>2
  <2>5. One(a, x) \in Nat
    BY DEF One
  <2> HIDE DEF S, e, f
  <2> QED
    BY <1>3, <2>1, <2>2, <2>3, <2>4, <2>5
<1>5. f = Plus(e, x)
  <2> DEFINE p == Plus(e, x)
  <2>1. p \in [Nat -> Nat] /\ \A a \in Nat : f[a] = p[a]
    BY <1>3, <1>4
  <2> HIDE DEF p, f
  <2>2. f \in [Nat -> Nat]
    BY <1>3 DEF f
  <2>3. f = p
    BY <2>1, <2>2
  <2> QED
    BY <2>3 DEF p
<1> QED
  BY <1>2, <1>5 DEF Handles, new

(* ... and one that gives it back owned one more. *)
LEMMA HeldMinus ==
    ASSUME NEW nd, NEW i, Handles(nd, i), NEW m \in Maps, nd[m] # NoTree
    PROVE  /\ nd[m] \in Nat
           /\ Handles([nd EXCEPT ![m] = NoTree], i)
           /\ [nd EXCEPT ![m] = NoTree][m] = NoTree
           /\ ExternalOf(nd, i) = Plus(ExternalOf([nd EXCEPT ![m] = NoTree], i), nd[m])
           /\ \A x : [[nd EXCEPT ![m] = NoTree] EXCEPT ![m] = x] = [nd EXCEPT ![m] = x]
<1> DEFINE less == [nd EXCEPT ![m] = NoTree]
<1>1. nd \in [Maps -> Nat \cup {NoTree}] /\ nd[m] \in Nat
  BY DEF Handles
<1>2. less \in [Maps -> Nat \cup {NoTree}] /\ less[m] = NoTree
  BY <1>1
<1>3. [less EXCEPT ![m] = nd[m]] = nd
  BY <1>1
<1>4. \A x : [less EXCEPT ![m] = x] = [nd EXCEPT ![m] = x]
  BY <1>1
<1>5. Handles(less, i)
  BY <1>2 DEF Handles
<1> HIDE DEF less
<1>6. ExternalOf([less EXCEPT ![m] = nd[m]], i) = Plus(ExternalOf(less, i), nd[m])
  BY <1>1, <1>2, <1>5, HeldPlus
<1> QED
  BY <1>1, <1>2, <1>3, <1>4, <1>5, <1>6 DEF less

LEMMA WalkedPlus ==
    ASSUME NEW nd, NEW i \in Iterators
    PROVE  ExternalOf(nd, i) = Plus(ExternalOf(nd, NoIterator), i.root) /\ i # NoIterator
<1>1. i # NoIterator /\ i.root \in Nat
  BY TreeParameters DEF Iterators
<1>2. \A a \in Nat : Walked(i, a) = One(a, i.root) /\ Walked(NoIterator, a) = 0
  BY <1>1 DEF Walked, One
<1> DEFINE e == ExternalOf(nd, NoIterator)
<1>3. \A a \in Nat : Cardinality({m \in Maps : nd[m] = a}) \in Nat
  <2> SUFFICES ASSUME NEW a \in Nat
               PROVE  Cardinality({m \in Maps : nd[m] = a}) \in Nat
    OBVIOUS
  <2>1. IsFiniteSet({m \in Maps : nd[m] = a})
    BY TreeParameters, FS_Subset
  <2> QED
    BY <2>1, FS_CardinalityType
<1>4. \A a \in Nat : e[a] = Cardinality({m \in Maps : nd[m] = a})
  BY <1>2, <1>3 DEF ExternalOf
<1> HIDE DEF e
<1>5. ExternalOf(nd, i) = [a \in Nat |-> e[a] + One(a, i.root)]
  BY <1>2, <1>4 DEF ExternalOf
<1> QED
  BY <1>1, <1>5 DEF Plus, e

(* What a handle refers to is there. *)
LEMMA HandlesThere ==
    ASSUME NEW nd, NEW i, Handles(nd, i), NEW h, Good(h, ExternalOf(nd, i))
    PROVE  /\ \A m \in Maps : nd[m] # NoTree => nd[m] \in DOMAIN h
           /\ i # NoIterator => i.root \in DOMAIN h
<1>1. \A a \in Nat \ DOMAIN h : ExternalOf(nd, i)[a] = 0
  BY DEF Good, Owns
<1>2. ASSUME NEW m \in Maps, nd[m] # NoTree
      PROVE  nd[m] \in DOMAIN h
  <2> DEFINE less == [nd EXCEPT ![m] = NoTree]
             e == ExternalOf(less, i)
  <2>1. nd[m] \in Nat /\ ExternalOf(nd, i) = Plus(e, nd[m])
    BY <1>2, HeldMinus
  <2>2. e \in [Nat -> Nat]
    BY ExternalType
  <2> HIDE DEF e
  <2> QED
    BY <2>1, <2>2, OwnedThere
<1>3. ASSUME i # NoIterator
      PROVE  i.root \in DOMAIN h
  <2> DEFINE e == ExternalOf(nd, NoIterator)
  <2>1. i \in Iterators /\ i.root \in Nat
    BY <1>3 DEF Handles, Iterators
  <2>2. ExternalOf(nd, i) = Plus(e, i.root) /\ e \in [Nat -> Nat]
    BY <2>1, WalkedPlus, ExternalType
  <2> HIDE DEF e
  <2> QED
    BY <2>1, <2>2, OwnedThere
<1> QED
  BY <1>2, <1>3

(* How an action changes the heap: all that is in both is the same. *)
Moves(h, g) == \E k : Heap(k) /\ Extends(h, k) /\ Extends(g, k)

LEMMA MovesByOne ==
    ASSUME NEW h, NEW g, Heap(h), Heap(g), Extends(h, g) \/ Extends(g, h)
    PROVE  Moves(h, g)
BY DEF Moves, Extends, SameNode

LEMMA MovesKeeps ==
    ASSUME NEW h, NEW g, Heap(h), Heap(g), Moves(h, g), NEW n \in DOMAIN h, n \in DOMAIN g
    PROVE  /\ Content(g, n) = Content(h, n)
           /\ g[n].value = h[n].value /\ g[n].left = h[n].left /\ g[n].right = h[n].right
           /\ \A s : IsPath(h, n, s) => IsPath(g, n, s)
<1>1. PICK k : Heap(k) /\ Extends(h, k) /\ Extends(g, k)
  BY DEF Moves
<1>2. Content(g, n) = Content(h, n)
  <2>1. Content(k, n) = Content(h, n) /\ Content(k, n) = Content(g, n)
    BY <1>1, ContentSame
  <2> QED
    BY <2>1
<1>3. g[n].value = h[n].value /\ g[n].left = h[n].left /\ g[n].right = h[n].right
  BY <1>1 DEF Extends, SameNode
<1>4. \A s : IsPath(h, n, s) => IsPath(g, n, s)
  BY <1>1, PathKept
<1> QED
  BY <1>2, <1>3, <1>4

(* What an assignment leaves. *)
LEMMA AssignOwned ==
    ASSUME NEW h, NEW e \in [Nat -> Nat], NEW x \in Nat, Good(h, Plus(e, x)),
           NEW n, NEW r, NEW C, NEW by, Result(h, Plus(e, x), n, r, C, by)
    PROVE  LET g == decref(decref(incref(r.heap, r.node), x), r.node)
           IN  /\ r.node \in Nat /\ r.node \in DOMAIN g
               /\ Good(g, Plus(e, r.node))
               /\ Moves(h, g)
               /\ Content(g, r.node) = C
<1> DEFINE y == r.node
           ex == Plus(e, x)
           ey == Plus(e, y)
           k == r.heap
           k1 == incref(k, y)
           k2 == decref(k1, x)
           g == decref(k2, y)
<1>1. y \in Nat /\ Good(k, Plus(ex, y)) /\ Extends(h, k) /\ Content(k, y) = C
  BY DEF Result
<1>2. ex \in [Nat -> Nat] /\ ey \in [Nat -> Nat]
  BY <1>1, PlusMinus
<1>3. Plus(ex, y) = Plus(ey, x)
  BY <1>1, PlusSwap
<1> HIDE DEF ex, y, k
<1>4. y \in DOMAIN k
  BY <1>1, <1>2, OwnedThere
<1>5. Good(k1, Plus(Plus(ex, y), y)) /\ Extends(k, k1) /\ Extends(k1, k)
  BY <1>1, <1>4, IncrefGood
<1>6. Plus(Plus(ex, y), y) = Plus(Plus(ey, y), x) /\ Plus(ey, y) \in [Nat -> Nat]
  <2>1. Plus(Plus(ey, x), y) = Plus(Plus(ey, y), x)
    BY <1>1, <1>2, PlusSwap
  <2> QED
    BY <1>1, <1>2, <1>3, <2>1, PlusMinus
<1> HIDE DEF ey, k1
<1>7. Good(k2, Plus(ey, y)) /\ Extends(k2, k1)
  BY <1>5, <1>6, DecrefOwned
<1> HIDE DEF k2
<1>8. Good(g, ey) /\ Extends(g, k2)
  BY <1>1, <1>2, <1>7, DecrefOwned
<1> HIDE DEF g
<1>9. Extends(g, k) /\ Heap(k) /\ Heap(g)
  BY <1>1, <1>5, <1>7, <1>8, ExtendsTransitive DEF Good
<1>10. y \in DOMAIN g
  BY <1>1, <1>8, OwnedThere DEF ey
<1>11. Content(g, y) = C
  <2>1. Content(k, y) = Content(g, y)
    BY <1>9, <1>10, ContentSame
  <2> QED
    BY <1>1, <2>1
<1>12. Moves(h, g)
  BY <1>1, <1>9 DEF Moves
<1> QED
  BY <1>1, <1>8, <1>10, <1>11, <1>12 DEF y, ey, k, k1, k2, g

LEMMA SeqSubset ==
    ASSUME NEW S, NEW T, S \in SUBSET T, NEW s \in Seq(S)
    PROVE  s \in Seq(T)
<1>1. s \in [1 .. Len(s) -> S] /\ Len(s) \in Nat
  OBVIOUS
<1>2. s \in [1 .. Len(s) -> T]
  BY <1>1
<1> QED
  BY <1>1, <1>2

External == ExternalOf(node, it)

(* The inductive invariant of trees. *)
TreeInv ==
    /\ Handles(node, it)
    /\ Good(heap, External)
    /\ it # NoIterator => IsPath(heap, it.root, it.stack)

LEMMA TreeInvInit ==
    ASSUME TreeInit
    PROVE  TreeInv
<1> DEFINE h == heap
           T == Terminator
<1>1. Handles(node, it) /\ it = NoIterator /\ \A m \in Maps : node[m] = NoTree
  BY DEF TreeInit, Handles
<1>2. /\ DOMAIN h = {T} /\ T \in Nat
      /\ h[T] = [left |-> T, right |-> T, value |-> << >>, references |-> 3, height |-> 0]
      /\ h = [a \in {T} |-> h[a]]
  BY DEF TreeInit, Terminator
<1>3. Heap(h)
  <2>1. h[T] \in Nodes
    BY <1>2 DEF Nodes
  <2>2. IsFiniteSet({T})
    BY FS_Singleton
  <2> HIDE DEF h, T
  <2>3. h \in [{T} -> Nodes]
    BY <1>2, <2>1
  <2> QED
    BY <1>2, <2>1, <2>2, <2>3 DEF Heap, T
<1>4. External \in [Nat -> Nat] /\ \A a \in Nat : External[a] = 0
  <2>1. ASSUME NEW a \in Nat
        PROVE  External[a] = 0
    <3>1. a # NoTree
      BY TreeParameters
    <3>2. {m \in Maps : node[m] = a} = {}
      BY <1>1, <3>1
    <3>3. Cardinality({m \in Maps : node[m] = a}) = 0
      BY <3>2, FS_EmptySet
    <3> QED
      BY <1>1, <3>3 DEF External, ExternalOf, Walked
  <2> QED
    BY <2>1, ExternalType DEF External
<1>5. Owns(h, External)
  <2>1. Pointers(h, T) = 2
    <3>1. {a \in DOMAIN h : h[a].left = T} = {T} /\ {a \in DOMAIN h : h[a].right = T} = {T}
      BY <1>2
    <3>2. Cardinality({T}) = 1
      BY FS_Singleton
    <3>3. Cardinality({a \in DOMAIN h : h[a].left = T}) = 1 /\ Cardinality({a \in DOMAIN h : h[a].right = T}) = 1
      BY <3>1, <3>2
    <3> QED
      BY <3>3 DEF Pointers
  <2>2. One(T, T) = 1
    BY DEF One
  <2>3. h[T].references = 3
    BY <1>2
  <2> HIDE DEF h, T
  <2> QED
    BY <1>2, <1>4, <2>1, <2>2, <2>3 DEF Owns, T
<1>6. Shaped(h)
  BY <1>2 DEF Shaped
<1> QED
  BY <1>1, <1>3, <1>5, <1>6 DEF TreeInv, Good

(* What a step that leaves the iterator where it is has to show. *)
LEMMA TreeInvKept ==
    ASSUME TreeInv, Handles(node', it'), Good(heap', ExternalOf(node', it')), Moves(heap, heap'),
           it' \in {it, NoIterator}
    PROVE  TreeInv'
<1>1. External' = ExternalOf(node', it')
  BY DEF External, ExternalOf, Walked
<1>2. Handles(node, it)' <=> Handles(node', it')
  BY DEF Handles
<1>3. Good(heap, External)' 
  <2>1. Good(heap', External')
    BY <1>1
  <2> QED
    BY <2>1
<1>4. ASSUME it' # NoIterator
      PROVE  IsPath(heap', it'.root, it'.stack)
  <2>1. it' = it /\ it # NoIterator
    BY <1>4
  <2>2. it.root \in DOMAIN heap
    BY <2>1, HandlesThere DEF TreeInv, External
  <2>3. it'.root \in DOMAIN heap'
    BY <1>4, HandlesThere
  <2>4. IsPath(heap, it.root, it.stack) /\ Heap(heap) /\ Heap(heap')
    BY <2>1 DEF TreeInv, Good
  <2>5. \A s : IsPath(heap, it.root, s) => IsPath(heap', it.root, s)
    BY <2>1, <2>2, <2>3, <2>4, MovesKeeps
  <2> QED
    BY <2>1, <2>4, <2>5
<1> QED
  BY <1>2, <1>3, <1>4 DEF TreeInv

LEMMA AssignStep ==
    ASSUME TreeInv, NEW m \in Maps, node[m] # NoTree, NEW r, NEW C, NEW by,
           Result(heap, External, node[m], r, C, by), Assign(m, r)
    PROVE  TreeInv' /\ Moves(heap, heap') /\ Content(heap', node'[m]) = C
<1> DEFINE less == [node EXCEPT ![m] = NoTree]
           e == ExternalOf(less, it)
           x == node[m]
           new == [node EXCEPT ![m] = r.node]
<1>1. /\ x \in Nat /\ Handles(less, it) /\ less[m] = NoTree
      /\ External = Plus(e, x)
      /\ [less EXCEPT ![m] = r.node] = new
  BY HeldMinus DEF TreeInv, External
<1>2. e \in [Nat -> Nat] /\ Good(heap, Plus(e, x))
  BY <1>1, ExternalType DEF TreeInv
<1>3. Result(heap, Plus(e, x), x, r, C, by)
  BY <1>1
<1>4. heap' = decref(decref(incref(r.heap, r.node), x), r.node) /\ node' = new /\ it' = it
  BY DEF Assign
<1> HIDE DEF e, x
<1>5. r.node \in Nat /\ Good(heap', Plus(e, r.node)) /\ Moves(heap, heap') /\ Content(heap', r.node) = C
  BY <1>1, <1>2, <1>3, <1>4, AssignOwned
<1> HIDE DEF less
<1>6. ExternalOf(new, it) = Plus(e, r.node) /\ Handles(new, it)
  BY <1>1, <1>5, HeldPlus DEF e
<1>7. TreeInv'
  BY <1>4, <1>5, <1>6, TreeInvKept
<1>8. node'[m] = r.node
  BY <1>4 DEF TreeInv, Handles
<1> QED
  BY <1>5, <1>7, <1>8

(* A tree that is made, or copied. *)
LEMMA TakeStep ==
    ASSUME TreeInv, NEW m \in Maps, node[m] = NoTree, NEW n \in DOMAIN heap,
           heap' = incref(heap, n), node' = [node EXCEPT ![m] = n], it' = it
    PROVE  TreeInv' /\ Moves(heap, heap') /\ node'[m] = n /\ n \in DOMAIN heap'
<1>1. Handles(node, it) /\ Good(heap, External)
  BY DEF TreeInv
<1>2. Good(heap', Plus(External, n)) /\ Extends(heap, heap') /\ n \in Nat
  BY <1>1, IncrefOwned
<1>3. ExternalOf(node', it) = Plus(External, n) /\ Handles(node', it)
  BY <1>1, <1>2, HeldPlus DEF External
<1>4. Moves(heap, heap')
  BY <1>1, <1>2, MovesByOne DEF Good
<1>5. TreeInv'
  BY <1>2, <1>3, <1>4, TreeInvKept
<1>6. node'[m] = n
  BY <1>1 DEF Handles
<1>7. n \in DOMAIN heap'
  BY <1>2 DEF Extends
<1> QED
  BY <1>4, <1>5, <1>6, <1>7

LEMMA DestroyStep ==
    ASSUME TreeInv, NEW m \in Maps, destroy(m)
    PROVE  TreeInv' /\ Moves(heap, heap')
<1>1. /\ Handles(node, it) /\ Good(heap, External) /\ node[m] # NoTree
      /\ heap' = decref(heap, node[m]) /\ node' = [node EXCEPT ![m] = NoTree] /\ it' = it
  BY DEF TreeInv, destroy
<1> DEFINE e == ExternalOf(node', it)
<1>2. node[m] \in Nat /\ Handles(node', it) /\ External = Plus(e, node[m])
  BY <1>1, HeldMinus DEF External
<1>3. e \in [Nat -> Nat]
  BY ExternalType
<1> HIDE DEF e
<1>4. Good(heap', e) /\ Extends(heap', heap)
  BY <1>1, <1>2, <1>3, DecrefOwned
<1>5. Moves(heap, heap')
  BY <1>1, <1>4, MovesByOne DEF Good
<1> QED
  BY <1>1, <1>2, <1>4, <1>5, TreeInvKept DEF e

LEMMA BeginStep ==
    ASSUME TreeInv, NEW m \in Maps, begin(m)
    PROVE  TreeInv' /\ Moves(heap, heap')
<1> DEFINE n == node[m]
           s == Spine(heap, n, "left")
<1>1. /\ Handles(node, it) /\ Good(heap, External) /\ n # NoTree /\ it = NoIterator
      /\ heap' = incref(heap, n) /\ node' = node /\ it' = [root |-> n, stack |-> s]
  BY DEF TreeInv, begin
<1>2. n \in DOMAIN heap /\ Heap(heap)
  BY <1>1, HandlesThere DEF External, Good
<1>3. IsPath(heap, n, s)
  BY <1>2, SpinePath
<1>4. Good(heap', Plus(External, n)) /\ Extends(heap, heap') /\ n \in Nat
  BY <1>1, <1>2, IncrefOwned
<1>5. it' \in Iterators
  <2>1. s \in Seq(DOMAIN heap \ {Terminator})
    BY <1>3 DEF IsPath
  <2>2. DOMAIN heap \ {Terminator} \in SUBSET Nat
    BY <1>2 DEF Heap
  <2> HIDE DEF s
  <2>3. s \in Seq(Nat)
    BY <2>1, <2>2, SeqSubset
  <2> HIDE DEF n
  <2> QED
    BY <1>1, <1>4, <2>3 DEF Iterators
<1> HIDE DEF s, n
<1>6. ExternalOf(node', it') = Plus(External, n)
  BY <1>1, <1>5, WalkedPlus DEF External
<1>7. External' = ExternalOf(node', it')
  BY DEF External, ExternalOf, Walked
<1>8. Moves(heap, heap')
  BY <1>1, <1>4, MovesByOne DEF Good
<1>9. IsPath(heap', it'.root, it'.stack)
  <2>1. n \in DOMAIN heap'
    BY <1>2, <1>4 DEF Extends
  <2> QED
    BY <1>1, <1>2, <1>3, <1>4, <1>8, <2>1, MovesKeeps DEF Good
<1>10. Handles(node, it)'
  BY <1>1, <1>5 DEF Handles
<1>11. Good(heap, External)'
  BY <1>4, <1>6, <1>7
<1> QED
  BY <1>8, <1>9, <1>10, <1>11 DEF TreeInv

LEMMA AdvanceStep ==
    ASSUME TreeInv, advance
    PROVE  TreeInv' /\ Moves(heap, heap')
<1> DEFINE s == Successor(heap, it.stack)
<1>1. /\ Handles(node, it) /\ Good(heap, External) /\ it # NoIterator /\ it.stack # << >>
      /\ IsPath(heap, it.root, it.stack)
      /\ it' = [it EXCEPT !.stack = s] /\ heap' = heap /\ node' = node
  BY DEF TreeInv, advance
<1>2. Heap(heap) /\ it \in Iterators
  BY <1>1 DEF Good, Handles
<1>3. IsPath(heap, it.root, s)
  BY <1>1, <1>2, SuccessorPath
<1> HIDE DEF s
<1>4. s \in Seq(Nat)
  <2>1. s \in Seq(DOMAIN heap \ {Terminator}) /\ DOMAIN heap \ {Terminator} \in SUBSET Nat
    BY <1>2, <1>3 DEF Heap, IsPath
  <2> QED
    BY <2>1, SeqSubset
<1>5. it' \in Iterators /\ it'.root = it.root /\ it'.stack = s
  BY <1>1, <1>2, <1>4 DEF Iterators
<1>6. it' # NoIterator
  BY <1>5, TreeParameters DEF Iterators
<1>7. ExternalOf(node', it') = External
  BY <1>1, <1>5, <1>6 DEF External, ExternalOf, Walked
<1>8. External' = External
  BY <1>7 DEF External, ExternalOf, Walked
<1>9. Moves(heap, heap')
  BY <1>1, <1>2, MovesByOne DEF Extends, SameNode
<1>10. Handles(node, it)' /\ Good(heap, External)'
  BY <1>1, <1>5, <1>8 DEF Handles
<1>11. IsPath(heap', it'.root, it'.stack)
  BY <1>1, <1>3, <1>5
<1> QED
  BY <1>9, <1>10, <1>11 DEF TreeInv

LEMMA FinishStep ==
    ASSUME TreeInv, finish
    PROVE  TreeInv' /\ Moves(heap, heap')
<1>1. /\ Handles(node, it) /\ Good(heap, External) /\ it # NoIterator
      /\ heap' = decref(heap, it.root) /\ it' = NoIterator /\ node' = node
  BY DEF TreeInv, finish
<1>2. it \in Iterators /\ it.root \in Nat
  BY <1>1 DEF Handles, Iterators
<1> DEFINE e == ExternalOf(node, NoIterator)
<1>3. External = Plus(e, it.root) /\ e \in [Nat -> Nat]
  BY <1>2, WalkedPlus, ExternalType DEF External
<1> HIDE DEF e
<1>4. Good(heap', e) /\ Extends(heap', heap)
  BY <1>1, <1>2, <1>3, DecrefOwned
<1>5. Moves(heap, heap')
  BY <1>1, <1>4, MovesByOne DEF Good
<1>6. Handles(node', it') /\ Good(heap', ExternalOf(node', it'))
  BY <1>1, <1>4 DEF Handles, e
<1> QED
  BY <1>1, <1>5, <1>6, TreeInvKept

LEMMA TreeStep ==
    ASSUME TreeInv, [TreeNext]_treeVars
    PROVE  TreeInv' /\ Moves(heap, heap')
<1>1. Handles(node, it) /\ Good(heap, External) /\ Heap(heap)
  BY DEF TreeInv, Good
<1>2. \A m \in Maps : node[m] # NoTree => node[m] \in DOMAIN heap
  BY <1>1, HandlesThere DEF External
<1>3. ASSUME NEW m \in Maps, construct(m)
      PROVE  TreeInv' /\ Moves(heap, heap')
  <2>1. Terminator \in DOMAIN heap
    BY <1>1 DEF Heap
  <2> QED
    BY <1>3, <2>1, TakeStep DEF construct
<1>4. ASSUME NEW m \in Maps, NEW n \in Maps, copy(m, n)
      PROVE  TreeInv' /\ Moves(heap, heap')
  <2>1. node[m] = NoTree /\ heap' = incref(heap, node[n]) /\ node' = [node EXCEPT ![m] = node[n]] /\ it' = it
        /\ node[n] \in DOMAIN heap
    BY <1>2, <1>4 DEF copy
  <2> QED
    BY <2>1, TakeStep
<1>5. ASSUME NEW m \in Maps, NEW e \in Entries, NEW replacing \in BOOLEAN, node[m] # NoTree,
             Assign(m, Put(heap, node[m], e, replacing))
      PROVE  TreeInv' /\ Moves(heap, heap')
  BY <1>1, <1>2, <1>5, PutResult, AssignStep
<1>6. ASSUME NEW m \in Maps, NEW k \in SomeKeys, remove(m, k)
      PROVE  TreeInv' /\ Moves(heap, heap')
  <2>1. k \in Int
    BY TreeParameters DEF SomeKeys
  <2> QED
    BY <1>1, <1>2, <1>6, <2>1, RemoveResult, AssignStep DEF remove
<1>7. ASSUME UNCHANGED treeVars
      PROVE  TreeInv' /\ Moves(heap, heap')
  <2>1. heap' = heap /\ node' = node /\ it' = it
    BY <1>7 DEF treeVars
  <2>2. Moves(heap, heap')
    BY <1>1, <2>1, MovesByOne DEF Extends, SameNode
  <2>3. ExternalOf(node', it') = External
    BY <2>1 DEF External
  <2> QED
    BY <1>1, <2>1, <2>2, <2>3, TreeInvKept
<1>8. ASSUME TreeNext
      PROVE  TreeInv' /\ Moves(heap, heap')
  <2>1. ASSUME NEW m \in Maps, NEW e \in Entries, insert(m, e) \/ replace(m, e)
        PROVE  TreeInv' /\ Moves(heap, heap')
    BY <1>5, <2>1 DEF insert, replace, insertAt, replaceAt
  <2> QED
    BY <1>3, <1>4, <1>6, <1>8, <2>1, DestroyStep, BeginStep, AdvanceStep, FinishStep DEF TreeNext
<1> QED
  BY <1>7, <1>8

-----------------------------------------------------------------------------
(* Properties.                                                             *)

LEMMA InvWellFormed ==
    ASSUME TreeInv
    PROVE  WellFormed
<1>1. Heap(heap) /\ Owns(heap, External) /\ Shaped(heap)
  BY DEF TreeInv, Good
<1>2. RefsExact
  <2> SUFFICES ASSUME NEW n \in DOMAIN heap
               PROVE  /\ heap[n].references > 0
                      /\ heap[n].references =
                            Cardinality({a \in DOMAIN heap : heap[a].left = n})
                            + Cardinality({a \in DOMAIN heap : heap[a].right = n})
                            + Cardinality({m \in Maps : node[m] = n})
                            + (IF it # NoIterator /\ it.root = n THEN 1 ELSE 0)
                            + (IF isTerminator(n) THEN 1 ELSE 0)
    BY DEF RefsExact
  <2>1. heap[n].references > 0 /\ heap[n].references = Pointers(heap, n) + External[n] + One(n, Terminator)
    BY <1>1 DEF Owns
  <2> DEFINE L == Cardinality({a \in DOMAIN heap : heap[a].left = n})
             R == Cardinality({a \in DOMAIN heap : heap[a].right = n})
             M == Cardinality({m \in Maps : node[m] = n})
             w == IF it # NoIterator /\ it.root = n THEN 1 ELSE 0
             t == IF isTerminator(n) THEN 1 ELSE 0
  <2>2. Pointers(heap, n) = L + R /\ One(n, Terminator) = t
    BY DEF Pointers, One, isTerminator
  <2>3. External[n] = M + w
    <3>1. n \in Nat
      BY <1>1 DEF Heap
    <3> QED
      BY <3>1 DEF External, ExternalOf, Walked
  <2>4. L \in Nat /\ R \in Nat /\ M \in Nat /\ w \in Nat /\ t \in Nat
    <3>1. L \in Nat /\ R \in Nat
      BY <1>1, PointersFinite, FS_CardinalityType
    <3>2. IsFiniteSet({m \in Maps : node[m] = n})
      BY TreeParameters, FS_Subset
    <3> QED
      BY <3>1, <3>2, FS_CardinalityType
  <2>5. heap[n].references = L + R + M + w + t
    <3> HIDE DEF L, R, M, w, t
    <3> QED
      BY <2>1, <2>2, <2>3, <2>4
  <2> QED
    BY <2>1, <2>5
<1>3. Balanced
  <2> SUFFICES ASSUME NEW n \in DOMAIN heap \ {Terminator}
               PROVE  LET l == heap[n].left
                          r == heap[n].right
                      IN  /\ \A a \in Subtree(heap, l) : Key(heap, a) < Key(heap, n)
                          /\ \A a \in Subtree(heap, r) : Key(heap, n) < Key(heap, a)
                          /\ heap[n].height = Larger(heap[l].height, heap[r].height) + 1
                          /\ heap[l].height - heap[r].height \in -2 .. 2
    BY DEF Balanced
  <2>1. Fits(heap, heap[n].left, heap[n].value, heap[n].right)
    BY <1>1 DEF Shaped
  <2>2. heap[n].height = Larger(heap[heap[n].left].height, heap[heap[n].right].height) + 1
    BY <1>1 DEF Heap
  <2> QED
    BY <2>1, <2>2 DEF Fits, Content, Key
<1> QED
  BY <1>2, <1>3 DEF WellFormed

(* What the steps preserve: every node counts exactly the pointers to it,  *)
(* the trees are sorted and balanced, and the iterator's stack is a path   *)
(* in nodes that its root keeps.                                           *)
THEOREM TreesInductive == TreeSpec => []TreeInv
<1>1. TreeInit => TreeInv
  BY TreeInvInit
<1>2. TreeInv /\ [TreeNext]_treeVars => TreeInv'
  BY TreeStep
<1> QED
  BY <1>1, <1>2, PTL DEF TreeSpec

(* Nothing leaks, nothing in use is freed, and every tree is sorted and    *)
(* balanced, whatever operations share its nodes (ImmutableTree.h).        *)
THEOREM TreesWellFormed == TreeSpec => []WellFormed
<1>1. TreeInv => WellFormed
  BY InvWellFormed
<1> QED
  BY <1>1, TreesInductive, PTL

-----------------------------------------------------------------------------
(* Updates.                                                                *)

LEMMA RootsThere ==
    ASSUME TreeInv, NEW n \in Roots
    PROVE  n \in DOMAIN heap /\ Heap(heap) /\ Good(heap, External)
<1>1. Handles(node, it) /\ Good(heap, External)
  BY DEF TreeInv
<1>2. PICK m \in Maps : n = node[m] /\ node[m] # NoTree
  BY DEF Roots
<1> QED
  BY <1>1, <1>2, HandlesThere DEF External, Good

LEMMA InvUpdatesRight ==
    ASSUME TreeInv
    PROVE  UpdatesRight
<1> SUFFICES ASSUME NEW n \in Roots, NEW e \in Entries
             PROVE  LET entries(r) == Content(r.heap, r.node)
                        others == {x \in Content(heap, n) : x[1] # e[1]}
                    IN  /\ entries(insertAt(heap, n, e)) =
                             IF Content(heap, n) = others THEN others \cup {e} ELSE Content(heap, n)
                        /\ entries(replaceAt(heap, n, e)) = others \cup {e}
                        /\ entries(removeAt(heap, n, e[1])) = others
  BY DEF UpdatesRight
<1> DEFINE C == Content(heap, n)
           others == Others(C, e[1])
<1>1. n \in DOMAIN heap /\ Good(heap, External)
  BY RootsThere
<1>2. e[1] \in Int
  BY TreeParameters
<1>3. ASSUME NEW replacing \in BOOLEAN
      PROVE  LET r == Put(heap, n, e, replacing)
             IN  Content(r.heap, r.node) = WithEntry(C, e, replacing)
  BY <1>1, PutResult DEF Result
<1>4. Content(insertAt(heap, n, e).heap, insertAt(heap, n, e).node) =
        IF C = others THEN others \cup {e} ELSE C
  BY <1>3 DEF insertAt, WithEntry
<1>5. Content(replaceAt(heap, n, e).heap, replaceAt(heap, n, e).node) = others \cup {e}
  BY <1>3 DEF replaceAt, WithEntry
<1>6. Content(removeAt(heap, n, e[1]).heap, removeAt(heap, n, e[1]).node) = others
  BY <1>1, <1>2, RemoveResult DEF Result
<1>7. others = {x \in Content(heap, n) : x[1] # e[1]}
  BY DEF Others
<1> QED
  BY <1>4, <1>5, <1>6, <1>7

(* Every insertion, replacement and removal yields exactly the entries it  *)
(* should.                                                                 *)
THEOREM TreesUpdateRight == TreeSpec => []UpdatesRight
<1>1. TreeInv => UpdatesRight
  BY InvUpdatesRight
<1> QED
  BY <1>1, TreesInductive, PTL

-----------------------------------------------------------------------------
(* Iterators.                                                              *)

(* Keys, and the two directions of a sorted tree at once. *)

Keys(h, n) == {Key(h, a) : a \in Subtree(h, n)}

(* b is on that side of a. *)
Beyond(side, a, b) == IF side = "right" THEN a < b ELSE b < a

(* The first of S from the other side. *)
Nearest(side, S) == {l \in S : \A j \in S : ~ Beyond(side, j, l)}

(* The keys all of a tree with the key here at its root. *)
Sorted(side, all, here, near, far) ==
    /\ here \in Int /\ all \subseteq Int /\ near \subseteq Int /\ far \subseteq Int
    /\ all = {here} \cup near \cup far
    /\ \A j \in near : Beyond(side, here, j)
    /\ \A j \in far : Beyond(side, j, here)

LEMMA KeysSorted ==
    ASSUME NEW h, Heap(h), Shaped(h), NEW n \in DOMAIN h \ {Terminator}, NEW side \in Sides
    PROVE  /\ h[n][side] \in DOMAIN h /\ h[n][Other(side)] \in DOMAIN h
           /\ h[n].left \in DOMAIN h /\ h[n].right \in DOMAIN h
           /\ Sorted(side, Keys(h, n), Key(h, n), Keys(h, h[n][side]), Keys(h, h[n][Other(side)]))
<1> DEFINE l == h[n].left
           r == h[n].right
<1>1. l \in DOMAIN h /\ r \in DOMAIN h /\ h[n].value \in Entries
  BY DEF Heap
<1>2. Key(h, n) \in Int
  BY <1>1, TreeParameters DEF Key
<1>3. \A m \in DOMAIN h : Keys(h, m) \subseteq Int
  <2> SUFFICES ASSUME NEW m \in DOMAIN h, NEW a \in Subtree(h, m) PROVE Key(h, a) \in Int
    BY DEF Keys
  <2>1. a \in DOMAIN h \ {Terminator}
    BY SubtreeInHeap
  <2>2. h[a].value \in Entries
    BY <2>1 DEF Heap
  <2> QED
    BY <2>2, TreeParameters DEF Key
<1>4. Subtree(h, n) = {n} \cup Subtree(h, l) \cup Subtree(h, r)
  BY SubtreeDef
<1>5. Keys(h, n) = {Key(h, n)} \cup Keys(h, l) \cup Keys(h, r)
  BY <1>4 DEF Keys
<1>6. Fits(h, l, h[n].value, r)
  BY DEF Shaped
<1>7. /\ \A j \in Keys(h, l) : j < Key(h, n)
      /\ \A j \in Keys(h, r) : Key(h, n) < j
  BY <1>6 DEF Fits, Keys, Key, Content
<1> HIDE DEF l, r
<1>8. CASE side = "right"
  <2>1. Other(side) = "left" /\ h[n][side] = r /\ h[n][Other(side)] = l
    BY <1>8 DEF Other, l, r
  <2> QED
    BY <1>1, <1>2, <1>3, <1>5, <1>7, <1>8, <2>1 DEF Sorted, Beyond, l, r
<1>9. CASE side = "left"
  <2>1. Other(side) = "right" /\ h[n][side] = l /\ h[n][Other(side)] = r
    BY <1>9 DEF Other, l, r
  <2> QED
    BY <1>1, <1>2, <1>3, <1>5, <1>7, <1>9, <2>1 DEF Sorted, Beyond, l, r
<1> QED
  BY <1>8, <1>9 DEF Sides

LEMMA KeysOfNone ==
    ASSUME NEW h, Heap(h)
    PROVE  Keys(h, Terminator) = {}
<1>1. Terminator \in DOMAIN h
  BY DEF Heap
<1>2. Subtree(h, Terminator) = {}
  BY <1>1, SubtreeDef
<1> QED
  BY <1>2 DEF Keys

LEMMA NearestFirst ==
    ASSUME NEW side \in Sides, NEW all, NEW first, NEW rest, all \subseteq Int, all = first \cup rest,
           first # {}, \A j \in first, i \in rest : Beyond(side, j, i)
    PROVE  Nearest(side, all) = Nearest(side, first)
<1>1. \A a, b \in Int : Beyond(side, a, b) => ~ Beyond(side, b, a)
  BY DEF Beyond
<1>2. ASSUME NEW l \in Nearest(side, all)
      PROVE  l \in Nearest(side, first)
  <2>1. l \in all /\ \A j \in all : ~ Beyond(side, j, l)
    BY <1>2 DEF Nearest
  <2>2. PICK j \in first : TRUE
    OBVIOUS
  <2>3. l \notin rest
    BY <2>1, <2>2
  <2> QED
    BY <2>1, <2>3 DEF Nearest
<1>3. ASSUME NEW l \in Nearest(side, first)
      PROVE  l \in Nearest(side, all)
  <2>1. l \in first /\ \A j \in first : ~ Beyond(side, j, l)
    BY <1>3 DEF Nearest
  <2>2. \A j \in rest : j \in Int /\ l \in Int /\ Beyond(side, l, j)
    BY <2>1
  <2> QED
    BY <1>1, <2>1, <2>2 DEF Nearest
<1> QED
  BY <1>2, <1>3

LEMMA NearestHere ==
    ASSUME NEW side \in Sides, NEW all, NEW here, NEW near, NEW far, Sorted(side, all, here, near, far)
    PROVE  /\ {l \in all : Beyond(side, here, l)} = near
           /\ far = {} => Nearest(side, all) = {here}
           /\ far # {} => Nearest(side, all) = Nearest(side, far)
<1>1. /\ here \in Int /\ all \subseteq Int /\ near \subseteq Int /\ far \subseteq Int
      /\ all = {here} \cup near \cup far
      /\ \A j \in near : Beyond(side, here, j)
      /\ \A j \in far : Beyond(side, j, here)
  BY DEF Sorted
<1>2. \A a, b \in Int : Beyond(side, a, b) => ~ Beyond(side, b, a) /\ a # b
  BY DEF Beyond
<1>3. \A a, b, c \in Int : Beyond(side, a, b) /\ Beyond(side, b, c) => Beyond(side, a, c)
  BY DEF Beyond
<1>4. {l \in all : Beyond(side, here, l)} = near
  BY <1>1, <1>2
<1>5. far = {} => Nearest(side, all) = {here}
  BY <1>1, <1>2 DEF Nearest
<1>6. ASSUME far # {}
      PROVE  Nearest(side, all) = Nearest(side, far)
  <2> DEFINE rest == {here} \cup near
  <2>1. all = far \cup rest /\ \A j \in far, i \in rest : Beyond(side, j, i)
    <3>1. ASSUME NEW j \in far, NEW i \in near
          PROVE  Beyond(side, j, i)
      <4>1. Beyond(side, j, here) /\ Beyond(side, here, i) /\ j \in Int /\ i \in Int
        BY <1>1
      <4> QED
        BY <1>1, <1>3, <4>1
    <3> QED
      BY <1>1, <3>1
  <2> HIDE DEF rest
  <2> QED
    BY <1>1, <1>6, <2>1, NearestFirst
<1> QED
  BY <1>4, <1>5, <1>6

LEMMA NearestNear ==
    ASSUME NEW side \in Sides, NEW all, NEW here, NEW near, NEW far, Sorted(side, all, here, near, far),
           NEW k \in near
    PROVE  {l \in all : Beyond(side, k, l)} = {l \in near : Beyond(side, k, l)}
<1>1. /\ here \in Int /\ all \subseteq Int /\ near \subseteq Int /\ far \subseteq Int /\ k \in Int
      /\ all = {here} \cup near \cup far
      /\ Beyond(side, here, k)
      /\ \A j \in far : Beyond(side, j, here)
  BY DEF Sorted
<1>2. \A a, b \in Int : Beyond(side, a, b) => ~ Beyond(side, b, a) /\ a # b
  BY DEF Beyond
<1>3. \A a, b, c \in Int : Beyond(side, a, b) /\ Beyond(side, b, c) => Beyond(side, a, c)
  BY DEF Beyond
<1> QED
  BY <1>1, <1>2, <1>3

LEMMA NearestFar ==
    ASSUME NEW side \in Sides, NEW all, NEW here, NEW near, NEW far, Sorted(side, all, here, near, far),
           NEW k \in far
    PROVE  LET X == {l \in far : Beyond(side, k, l)}
               Y == {l \in all : Beyond(side, k, l)}
           IN  /\ here \in Y
               /\ X = {} => Nearest(side, Y) = {here}
               /\ X # {} => Nearest(side, Y) = Nearest(side, X)
<1>1. /\ here \in Int /\ all \subseteq Int /\ near \subseteq Int /\ far \subseteq Int /\ k \in Int
      /\ all = {here} \cup near \cup far
      /\ Beyond(side, k, here)
      /\ \A j \in near : Beyond(side, here, j)
      /\ \A j \in far : Beyond(side, j, here)
  BY DEF Sorted
<1>2. \A a, b \in Int : Beyond(side, a, b) => ~ Beyond(side, b, a) /\ a # b
  BY DEF Beyond
<1>3. \A a, b, c \in Int : Beyond(side, a, b) /\ Beyond(side, b, c) => Beyond(side, a, c)
  BY DEF Beyond
<1> DEFINE X == {l \in far : Beyond(side, k, l)}
           Y == {l \in all : Beyond(side, k, l)}
<1>4. Y = X \cup {here} \cup near
  BY <1>1, <1>3
<1>5. X \subseteq far
  OBVIOUS
<1> HIDE DEF X, Y
<1>6. X = {} => Nearest(side, Y) = {here}
  BY <1>1, <1>2, <1>4 DEF Nearest
<1>7. ASSUME X # {}
      PROVE  Nearest(side, Y) = Nearest(side, X)
  <2> DEFINE rest == {here} \cup near
  <2>1. Y = X \cup rest /\ \A j \in X, i \in rest : Beyond(side, j, i)
    <3>1. ASSUME NEW j \in far, NEW i \in near
          PROVE  Beyond(side, j, i)
      <4>1. Beyond(side, j, here) /\ Beyond(side, here, i) /\ j \in Int /\ i \in Int
        BY <1>1
      <4> QED
        BY <1>1, <1>3, <4>1
    <3> QED
      BY <1>1, <1>4, <1>5, <3>1
  <2>2. Y \subseteq Int
    BY <1>1, <1>4, <1>5
  <2> HIDE DEF rest
  <2> QED
    BY <1>7, <2>1, <2>2, NearestFirst
<1> QED
  BY <1>4, <1>6, <1>7 DEF X, Y

At(h, s) == IF s = << >> THEN {} ELSE {Key(h, Last(s))}

(* The outermost node is the first, from the other side. *)
LEMMA SpineNearest ==
    ASSUME NEW h, Heap(h), Shaped(h), NEW side \in Sides, NEW top \in DOMAIN h
    PROVE  /\ At(h, Spine(h, top, Other(side))) = Nearest(side, Keys(h, top))
           /\ Keys(h, top) = {} <=> top = Terminator
           /\ Spine(h, top, Other(side)) = << >> <=> top = Terminator
<1> DEFINE sp(n) == Spine(h, n, Other(side))
           P(n) == /\ At(h, sp(n)) = Nearest(side, Keys(h, n))
                   /\ (Keys(h, n) = {} <=> n = Terminator)
                   /\ (sp(n) = << >> <=> n = Terminator)
           T == {n \in DOMAIN h : P(n)}
<1>1. Terminator \in DOMAIN h /\ Other(side) \in {"left", "right"}
  BY DEF Heap, Other
<1>2. P(Terminator)
  <2>1. sp(Terminator) = << >>
    BY <1>1, SpineDef
  <2> QED
    BY <2>1, KeysOfNone DEF At, Nearest
<1>3. ASSUME NEW n \in DOMAIN h \ {Terminator}, P(h[n].left), P(h[n].right)
      PROVE  P(n)
  <2> DEFINE next == h[n][Other(side)]
  <2>1. next = h[n].left \/ next = h[n].right
    BY DEF Other
  <2>2. P(next)
    BY <1>3, <2>1
  <2>3. next \in DOMAIN h /\ Sorted(side, Keys(h, n), Key(h, n), Keys(h, h[n][side]), Keys(h, next))
    BY KeysSorted
  <2>4. sp(n) = <<n>> \o sp(next) /\ sp(next) \in Seq(DOMAIN h)
    BY <1>1, <2>3, SpineDef
  <2> DEFINE t == sp(next)
  <2>5. Last(sp(n)) = IF t = << >> THEN n ELSE Last(t)
    BY <2>4, LastOfConcat
  <2>6. sp(n) # << >>
    <3> HIDE DEF t
    <3>1. Len(<<n>> \o t) = 1 + Len(t) /\ Len(t) \in Nat
      BY <2>4 DEF t
    <3>2. <<n>> \o t # << >>
      BY <3>1
    <3> QED
      BY <2>4, <3>2 DEF t
  <2>7. Keys(h, n) # {}
    BY <2>3 DEF Sorted
  <2> HIDE DEF sp, next
  <2>8. At(h, sp(n)) = {Key(h, IF t = << >> THEN n ELSE Last(t))}
    BY <2>5, <2>6 DEF At
  <2>9. At(h, sp(n)) = Nearest(side, Keys(h, n))
    <3>1. CASE t = << >>
      <4>1. Keys(h, next) = {}
        BY <2>2, <3>1
      <4>2. Nearest(side, Keys(h, n)) = {Key(h, n)}
        BY <2>3, <4>1, NearestHere
      <4> QED
        BY <2>8, <3>1, <4>2
    <3>2. CASE t # << >>
      <4>1. Keys(h, next) # {} /\ At(h, t) = Nearest(side, Keys(h, next))
        BY <2>2, <3>2
      <4>2. Nearest(side, Keys(h, n)) = Nearest(side, Keys(h, next))
        BY <2>3, <4>1, NearestHere
      <4> QED
        BY <2>8, <3>2, <4>1, <4>2 DEF At
    <3> QED
      BY <3>1, <3>2
  <2> QED
    BY <2>6, <2>7, <2>9
<1> HIDE DEF P
<1>4. T = DOMAIN h
  <2>1. T \in SUBSET DOMAIN h /\ Terminator \in T
    BY <1>1, <1>2
  <2>2. \A n \in DOMAIN h \ {Terminator} : h[n].left \in T /\ h[n].right \in T => n \in T
    BY <1>3
  <2> HIDE DEF T
  <2> QED
    BY <2>1, <2>2, HeapInduction
<1>5. P(top)
  BY <1>4
<1> QED
  BY <1>5 DEF P

(* A path from n, and the path t after its first node. *)
FirstThen(h, n, s, t) ==
    /\ s[1] = n /\ n \in DOMAIN h \ {Terminator} /\ Len(s) \in Nat
    /\ s = <<n>> \o t /\ Len(t) = Len(s) - 1
    /\ \A d \in 1 .. Len(s) - 1 : t[d] = s[d + 1]
    /\ t # << >> => /\ t[1] = s[2]
                    /\ t[1] = h[n].left \/ t[1] = h[n].right
    /\ IsPath(h, t[1], t)

LEMMA PathConsPlain ==
    ASSUME NEW S, NEW n \in S, NEW t \in Seq(S)
    PROVE  LET s == <<n>> \o t
           IN  /\ s \in Seq(S) /\ Len(s) = 1 + Len(t) /\ Len(t) \in Nat /\ Len(s) \in Nat
               /\ t # << >> => Len(t) >= 1
               /\ s # << >>
               /\ s[1] = n /\ \A d \in 1 .. Len(t) : s[d + 1] = t[d]
<1>1. /\ <<n>> \o t \in Seq(S) /\ Len(<<n>> \o t) = 1 + Len(t) /\ Len(t) \in Nat
      /\ t # << >> => Len(t) >= 1
  OBVIOUS
<1>2. (<<n>> \o t)[1] = n /\ \A d \in 1 .. Len(t) : (<<n>> \o t)[d + 1] = t[d]
  OBVIOUS
<1>3. <<n>> \o t # << >>
  BY <1>1
<1> QED
  BY <1>1, <1>2, <1>3

LEMMA PathUncons ==
    ASSUME NEW h, NEW n, NEW s, IsPath(h, n, s), s # << >>
    PROVE  FirstThen(h, n, s, Tail(s))
<1> DEFINE S == DOMAIN h \ {Terminator}
           t == Tail(s)
<1>1. s \in Seq(S) /\ s[1] = n
  BY DEF IsPath
<1> HIDE DEF S
<1>2. t \in Seq(S) /\ Len(t) = Len(s) - 1 /\ Len(s) \in Nat /\ Len(s) >= 1
      /\ \A d \in 1 .. Len(s) - 1 : t[d] = s[d + 1]
  BY <1>1
<1>3. n \in S
  BY <1>1, <1>2
<1>4. s = <<n>> \o t
  <2> DEFINE u == <<n>> \o t
  <2>1. u \in Seq(S) /\ Len(u) = 1 + Len(t) /\ u[1] = n /\ \A d \in 1 .. Len(t) : u[1 + d] = t[d]
    BY <1>2, <1>3
  <2> HIDE DEF u, t
  <2>2. \A d \in 1 .. Len(s) : u[d] = s[d]
    <3> SUFFICES ASSUME NEW d \in 1 .. Len(s) PROVE u[d] = s[d]
      OBVIOUS
    <3>1. CASE d = 1
      BY <1>1, <2>1, <3>1
    <3>2. CASE d # 1
      <4> DEFINE c == d - 1
      <4>1. c \in 1 .. Len(t) /\ c \in 1 .. Len(s) - 1 /\ d = 1 + c /\ d = c + 1
        BY <1>2, <3>2
      <4> HIDE DEF c
      <4> QED
        BY <1>2, <2>1, <4>1
    <3> QED
      BY <3>1, <3>2
  <2>3. u = s
    BY <1>1, <1>2, <2>1, <2>2
  <2> QED
    BY <2>3 DEF u
<1>5. t # << >> => 2 \in 1 .. Len(s) /\ t[1] = s[2]
  BY <1>2
<1>6. \A d \in 1 .. Len(s) - 1 : s[d + 1] = h[s[d]].left \/ s[d + 1] = h[s[d]].right
  BY DEF IsPath
<1>7. t # << >> => t[1] = h[n].left \/ t[1] = h[n].right
  <2> SUFFICES ASSUME t # << >> PROVE t[1] = h[n].left \/ t[1] = h[n].right
    OBVIOUS
  <2>1. 1 \in 1 .. Len(s) - 1 /\ 1 + 1 = 2
    BY <1>2, <1>5
  <2> QED
    BY <1>1, <1>5, <1>6, <2>1
<1>8. IsPath(h, t[1], t)
  <2>1. ASSUME NEW d \in 1 .. Len(t) - 1
        PROVE  t[d + 1] = h[t[d]].left \/ t[d + 1] = h[t[d]].right
    <3> DEFINE c == d + 1
    <3>1. c \in 1 .. Len(s) - 1 /\ d \in 1 .. Len(s) - 1 /\ t[d] = s[c] /\ t[c] = s[c + 1]
      BY <1>2
    <3> HIDE DEF t
    <3>2. s[c + 1] = h[s[c]].left \/ s[c + 1] = h[s[c]].right
      BY <1>6, <3>1
    <3> QED
      BY <3>1, <3>2
  <2> HIDE DEF t
  <2> QED
    BY <1>2, <2>1 DEF IsPath, S
<1> QED
  BY <1>1, <1>2, <1>3, <1>4, <1>5, <1>7, <1>8 DEF S, FirstThen

LEMMA NoPathFromNone ==
    ASSUME NEW h, NEW s, IsPath(h, Terminator, s)
    PROVE  s = << >>
BY PathUncons DEF FirstThen

(* The path s from n, for the path r in the subtree in which t is. *)
FromAbove(h, n, t, side, s, r) ==
    s = IF r # << >> THEN <<n>> \o r ELSE IF h[n][side] = t[1] THEN <<n>> ELSE << >>

(* A climb in a subtree, seen from the node above it. *)
LEMMA ClimbCons ==
    ASSUME NEW h, NEW S, NEW n \in S, NEW t \in Seq(S), t # << >>, NEW side
    PROVE  FromAbove(h, n, t, side, Climb(h, <<n>> \o t, side), Climb(h, t, side))
<1> DEFINE s == <<n>> \o t
           i == Stop(h, s, side)
           j == Stop(h, t, side)
<1>1. s \in Seq(S) /\ Len(s) = 1 + Len(t) /\ Len(t) \in Nat /\ Len(s) \in Nat /\ Len(t) >= 1
      /\ s[1] = n /\ \A d \in 1 .. Len(t) : s[d + 1] = t[d]
  BY PathConsPlain
<1> HIDE DEF s
<1>2. /\ i \in Nat /\ (i = 0 \/ i \in 1 .. Len(s) - 1)
      /\ i # 0 => h[s[i]][side] = s[i + 1]
      /\ \A d \in 1 .. Len(s) - 1 : h[s[d]][side] = s[d + 1] => d <= i
      /\ Climb(h, s, side) = SubSeq(s, 1, i)
  BY <1>1, StopIs
<1>3. /\ j \in Nat /\ (j = 0 \/ j \in 1 .. Len(t) - 1)
      /\ j # 0 => h[t[j]][side] = t[j + 1]
      /\ \A d \in 1 .. Len(t) - 1 : h[t[d]][side] = t[d + 1] => d <= j
      /\ Climb(h, t, side) = SubSeq(t, 1, j)
  BY <1>1, StopIs
<1> HIDE DEF i, j
<1>4. CASE j # 0
  <2> DEFINE c == j + 1
  <2>1. c \in 1 .. Len(s) - 1 /\ s[c] = t[j] /\ s[c + 1] = t[c] /\ c \in 1 .. Len(t)
    BY <1>1, <1>3, <1>4
  <2>2. h[s[c]][side] = s[c + 1]
    BY <1>3, <1>4, <2>1
  <2>3. c <= i
    BY <1>2, <2>1, <2>2
  <2>4. i = c
    <3> SUFFICES ASSUME i > c PROVE FALSE
      BY <1>2, <1>3, <2>3
    <3> DEFINE b == i - 1
    <3>1. b \in 1 .. Len(t) - 1 /\ i = b + 1 /\ b \in 1 .. Len(t) /\ b + 1 \in 1 .. Len(t) /\ b > j
      BY <1>1, <1>2, <1>3
    <3> HIDE DEF b
    <3>2. s[i] = t[b] /\ s[i + 1] = t[b + 1]
      BY <1>1, <3>1
    <3>3. h[t[b]][side] = t[b + 1]
      BY <1>2, <1>3, <3>1, <3>2
    <3> QED
      BY <1>3, <3>1, <3>3
  <2>5. SubSeq(s, 1, i) = <<n>> \o SubSeq(t, 1, j)
    <3> DEFINE u == SubSeq(s, 1, i)
               v == SubSeq(t, 1, j)
               w == <<n>> \o v
    <3>1. u \in Seq(S) /\ Len(u) = i /\ \A d \in 1 .. i : u[d] = s[d]
      BY <1>1, <1>2
    <3>2. v \in Seq(S) /\ Len(v) = j /\ \A d \in 1 .. j : v[d] = t[d]
      BY <1>1, <1>3
    <3>3. w \in Seq(S) /\ Len(w) = 1 + Len(v) /\ w[1] = n /\ \A d \in 1 .. Len(v) : w[d + 1] = v[d]
      BY <3>2, PathConsPlain
    <3> HIDE DEF u, v, w
    <3>4. Len(u) = Len(w) /\ Len(u) = i
      BY <1>3, <2>4, <3>1, <3>2, <3>3
    <3>5. \A d \in 1 .. i : u[d] = w[d]
      <4> SUFFICES ASSUME NEW d \in 1 .. i PROVE u[d] = w[d]
        OBVIOUS
      <4>1. CASE d = 1
        BY <1>1, <3>1, <3>3, <4>1
      <4>2. CASE d # 1
        <5> DEFINE b == d - 1
        <5>1. b \in 1 .. j /\ d = b + 1 /\ b \in 1 .. Len(t)
          BY <1>1, <1>3, <2>4, <4>2
        <5> HIDE DEF b
        <5> QED
          BY <1>1, <3>1, <3>2, <3>3, <5>1
      <4> QED
        BY <4>1, <4>2
    <3>6. u = w
      BY <3>1, <3>3, <3>4, <3>5
    <3> QED
      BY <3>6 DEF u, w, v
  <2>6. SubSeq(t, 1, j) # << >>
    <3> DEFINE v == SubSeq(t, 1, j)
    <3>1. Len(v) = j
      BY <1>1, <1>3
    <3> QED
      BY <1>4, <3>1
  <2> QED
    BY <1>2, <1>3, <2>5, <2>6 DEF s, FromAbove
<1>5. CASE j = 0
  <2>1. SubSeq(t, 1, j) = << >>
    BY <1>1, <1>5
  <2>2. i \in {0, 1}
    <3> SUFFICES ASSUME i > 1 PROVE FALSE
      BY <1>2
    <3> DEFINE b == i - 1
    <3>1. b \in 1 .. Len(t) - 1 /\ i = b + 1 /\ b \in 1 .. Len(t) /\ b + 1 \in 1 .. Len(t)
      BY <1>1, <1>2
    <3> HIDE DEF b
    <3>2. s[i] = t[b] /\ s[i + 1] = t[b + 1]
      BY <1>1, <3>1
    <3>3. h[t[b]][side] = t[b + 1]
      BY <1>2, <3>1, <3>2
    <3> QED
      BY <1>3, <1>5, <3>1, <3>3
  <2>3. 1 \in 1 .. Len(s) - 1 /\ s[1] = n /\ s[1 + 1] = t[1]
    BY <1>1
  <2>4. i = 1 <=> h[n][side] = t[1]
    <3>1. i = 1 => h[n][side] = t[1]
      BY <1>2, <2>3
    <3>2. h[n][side] = t[1] => 1 <= i
      BY <1>2, <2>3
    <3> QED
      BY <2>2, <3>1, <3>2
  <2>5. SubSeq(s, 1, 1) = <<n>> /\ SubSeq(s, 1, 0) = << >>
    <3> DEFINE u == SubSeq(s, 1, 1)
               v == SubSeq(s, 1, 0)
    <3>1. u \in Seq(S) /\ Len(u) = 1 /\ u[1] = s[1] /\ v \in Seq(S) /\ Len(v) = 0
      BY <1>1
    <3> HIDE DEF u, v
    <3>2. u = <<n>>
      BY <1>1, <3>1
    <3>3. v = << >>
      BY <3>1
    <3> QED
      BY <3>2, <3>3 DEF u, v
  <2> QED
    BY <1>2, <1>3, <2>1, <2>2, <2>4, <2>5 DEF s, FromAbove
<1> QED
  BY <1>4, <1>5 DEF FromAbove, s

LEMMA ConcatAssociative ==
    ASSUME NEW S, NEW n \in S, NEW s \in Seq(S), NEW t \in Seq(S)
    PROVE  (<<n>> \o s) \o t = <<n>> \o (s \o t)
<1> DEFINE u == (<<n>> \o s) \o t
           v == <<n>> \o (s \o t)
<1>1. u \in Seq(S) /\ v \in Seq(S) /\ Len(u) = 1 + Len(s) + Len(t) /\ Len(v) = 1 + Len(s) + Len(t)
  OBVIOUS
<1>2. \A d \in 1 .. Len(u) : u[d] = v[d]
  OBVIOUS
<1> HIDE DEF u, v
<1>3. u = v
  BY <1>1, <1>2
<1> QED
  BY <1>3 DEF u, v

(* A step of an iterator in a subtree, seen from the node above it. *)
LEMMA BesideCons ==
    ASSUME NEW h, Heap(h), NEW n \in DOMAIN h \ {Terminator}, NEW t \in Seq(DOMAIN h \ {Terminator}), t # << >>,
           NEW side \in Sides
    PROVE  Beside(h, <<n>> \o t, side) =
             IF Beside(h, t, side) # << >> THEN <<n>> \o Beside(h, t, side)
             ELSE IF h[n][Other(side)] = t[1] THEN <<n>> ELSE << >>
<1> DEFINE S == DOMAIN h \ {Terminator}
           s == <<n>> \o t
           next == h[Last(t)][side]
<1>1. Last(s) = Last(t)
  <2> DEFINE D == DOMAIN h \ {Terminator}
  <2>1. n \in D /\ t \in Seq(D)
    OBVIOUS
  <2> HIDE DEF D
  <2> QED
    BY <2>1, LastOfConcat
<1>2. Last(t) \in S
  <2>1. Len(t) \in 1 .. Len(t)
    OBVIOUS
  <2> QED
    BY <2>1 DEF Last
<1>3. next \in DOMAIN h /\ Other(side) \in {"left", "right"}
  <2>1. h[Last(t)].left \in DOMAIN h /\ h[Last(t)].right \in DOMAIN h
    BY <1>2 DEF Heap
  <2> QED
    BY <2>1 DEF Sides, Other
<1>4. CASE next = Terminator
  <2>1. Beside(h, s, side) = Climb(h, s, Other(side)) /\ Beside(h, t, side) = Climb(h, t, Other(side))
    BY <1>1, <1>4 DEF Beside, isTerminator
  <2>2. n \in S /\ t \in Seq(S)
    OBVIOUS
  <2> HIDE DEF S
  <2>3. FromAbove(h, n, t, Other(side), Climb(h, s, Other(side)), Climb(h, t, Other(side)))
    BY <2>2, ClimbCons
  <2> QED
    BY <2>1, <2>3 DEF FromAbove
<1>5. CASE next # Terminator
  <2> DEFINE sp == Spine(h, next, Other(side))
  <2>1. Beside(h, s, side) = s \o sp /\ Beside(h, t, side) = t \o sp
    BY <1>1, <1>5 DEF Beside, isTerminator
  <2>2. sp \in Seq(S)
    <3> HIDE DEF next
    <3> QED
      BY <1>3, SpinePath DEF IsPath
  <2>3. n \in S /\ t \in Seq(S)
    OBVIOUS
  <2> HIDE DEF S, sp, next
  <2>4. s \o sp = <<n>> \o (t \o sp)
    BY <2>2, <2>3, ConcatAssociative
  <2>5. t \o sp # << >>
    <3>1. Len(t \o sp) = Len(t) + Len(sp) /\ Len(t) \in Nat /\ Len(sp) \in Nat /\ Len(t) > 0
      BY <2>2, <2>3
    <3> QED
      BY <3>1
  <2> QED
    BY <2>1, <2>4, <2>5
<1> QED
  BY <1>4, <1>5

(* What a step of an iterator has to reach, in the tree at n. *)
Steps(h, n, side, s) ==
    LET k == Key(h, Last(s))
        X == {l \in Keys(h, n) : Beyond(side, k, l)}
    IN  /\ k \in Keys(h, n)
        /\ At(h, Beside(h, s, side)) = Nearest(side, X)
        /\ (Beside(h, s, side) = << >> <=> X = {})

LEMMA StepsHere ==
    ASSUME NEW h, Heap(h), Shaped(h), NEW n \in DOMAIN h \ {Terminator}, NEW side \in Sides
    PROVE  Steps(h, n, side, <<n>>)
<1> DEFINE next == h[n][side]
           all == Keys(h, n)
           k == Key(h, n)
           b == Beside(h, <<n>>, side)
<1>1. next \in DOMAIN h /\ Sorted(side, all, k, Keys(h, next), Keys(h, h[n][Other(side)]))
  BY KeysSorted
<1>2. Last(<<n>>) = n
  BY DEF Last
<1>3. k \in all
  BY <1>1 DEF Sorted
<1>4. {l \in all : Beyond(side, k, l)} = Keys(h, next)
  BY <1>1, NearestHere
<1>5. At(h, b) = Nearest(side, Keys(h, next)) /\ (b = << >> <=> Keys(h, next) = {})
  <2>1. CASE next = Terminator
    <3>1. Keys(h, next) = {} /\ Nearest(side, {}) = {}
      BY <2>1, KeysOfNone DEF Nearest
    <3>2. b = Climb(h, <<n>>, Other(side))
      BY <1>2, <2>1 DEF Beside, isTerminator
    <3>3. b = << >>
      <4> DEFINE s == <<n>>
                 j == Stop(h, s, Other(side))
      <4>1. Len(s) = 1 /\ s \in Seq({n})
        OBVIOUS
      <4> HIDE DEF s
      <4>2. (j = 0 \/ j \in 1 .. Len(s) - 1) /\ Climb(h, s, Other(side)) = SubSeq(s, 1, j)
        BY <4>1, StopIs
      <4>3. j = 0
        BY <4>1, <4>2
      <4>4. SubSeq(s, 1, 0) = << >>
        BY <4>1
      <4> QED
        BY <3>2, <4>2, <4>3, <4>4 DEF s
    <3> QED
      BY <3>1, <3>3 DEF At
  <2>2. CASE next # Terminator
    <3> DEFINE sp == Spine(h, next, Other(side))
    <3>1. b = <<n>> \o sp
      BY <1>2, <2>2 DEF Beside, isTerminator
    <3>2. At(h, sp) = Nearest(side, Keys(h, next)) /\ Keys(h, next) # {} /\ sp # << >>
      <4> HIDE DEF next
      <4> QED
        BY <1>1, <2>2, SpineNearest
    <3>3. sp \in Seq(DOMAIN h)
      <4>1. Other(side) \in {"left", "right"}
        BY DEF Other
      <4> HIDE DEF next
      <4> QED
        BY <1>1, <4>1, SpineDef
    <3> HIDE DEF sp
    <3> DEFINE D == DOMAIN h
    <3>4. n \in D /\ sp \in Seq(D)
      BY <3>3
    <3> HIDE DEF D
    <3>5. Last(b) = Last(sp) /\ b # << >>
      <4>1. Last(<<n>> \o sp) = Last(sp)
        BY <3>2, <3>4, LastOfConcat
      <4>2. <<n>> \o sp # << >>
        BY <3>4, PathConsPlain
      <4> QED
        BY <3>1, <4>1, <4>2
    <3> QED
      BY <3>2, <3>5 DEF At
  <2> QED
    BY <2>1, <2>2
<1> HIDE DEF next, b
<1> QED
  BY <1>2, <1>3, <1>4, <1>5 DEF Steps, b

LEMMA StepsBelow ==
    ASSUME NEW h, Heap(h), Shaped(h), NEW n \in DOMAIN h \ {Terminator}, NEW side \in Sides,
           NEW t, t # << >>, IsPath(h, t[1], t), t[1] = h[n].left \/ t[1] = h[n].right,
           Steps(h, t[1], side, t)
    PROVE  Steps(h, n, side, <<n>> \o t)
<1> DEFINE s == <<n>> \o t
           near == h[n][side]
           far == h[n][Other(side)]
           all == Keys(h, n)
           k == Key(h, Last(t))
           b == Beside(h, s, side)
           bt == Beside(h, t, side)
           Xt == {l \in Keys(h, t[1]) : Beyond(side, k, l)}
           X == {l \in all : Beyond(side, k, l)}
<1>1. Sorted(side, all, Key(h, n), Keys(h, near), Keys(h, far))
  BY KeysSorted
<1>2. t \in Seq(DOMAIN h \ {Terminator})
  BY DEF IsPath
<1>3. b = IF bt # << >> THEN <<n>> \o bt ELSE IF far = t[1] THEN <<n>> ELSE << >>
  BY <1>2, BesideCons
<1>4. Last(s) = Last(t)
  <2> DEFINE D == DOMAIN h \ {Terminator}
  <2>1. n \in D /\ t \in Seq(D)
    BY <1>2
  <2> HIDE DEF D
  <2> QED
    BY <2>1, LastOfConcat
<1>5. k \in Keys(h, t[1]) /\ At(h, bt) = Nearest(side, Xt) /\ (bt = << >> <=> Xt = {})
  BY DEF Steps
<1>6. t[1] = near \/ t[1] = far
  BY DEF Other, Sides
<1>7. bt # << >> => At(h, <<n>> \o bt) = At(h, bt) /\ <<n>> \o bt # << >>
  <2> DEFINE D == DOMAIN h \ {Terminator}
  <2>1. bt \in Seq(D) /\ n \in D
    BY BesidePath DEF IsPath
  <2> HIDE DEF bt, D
  <2> QED
    BY <2>1, LastOfConcat, PathConsPlain DEF At
<1>8. At(h, <<n>>) = {Key(h, n)} /\ At(h, << >>) = {} /\ <<n>> # << >>
  BY DEF At, Last
<1>9. k \in all
  BY <1>1, <1>5, <1>6 DEF Sorted
<1>10. CASE t[1] = near
  <2>1. X = Xt
    BY <1>1, <1>5, <1>10, NearestNear
  <2>2. far # t[1]
    <3> SUFFICES ASSUME far = t[1] PROVE FALSE
      OBVIOUS
    <3>1. k \in Keys(h, near) /\ k \in Keys(h, far)
      BY <1>5, <1>10
    <3>2. Beyond(side, Key(h, n), k) /\ Beyond(side, k, Key(h, n)) /\ k \in Int /\ Key(h, n) \in Int
      BY <1>1, <3>1 DEF Sorted
    <3> QED
      BY <3>2 DEF Beyond
  <2>3. Nearest(side, {}) = {}
    BY DEF Nearest
  <2> HIDE DEF b, bt, X, Xt, far
  <2>4. At(h, b) = Nearest(side, X) /\ (b = << >> <=> X = {})
    BY <1>3, <1>5, <1>7, <1>8, <2>1, <2>2, <2>3
  <2> QED
    BY <1>4, <1>9, <2>4 DEF Steps, b, X
<1>11. CASE t[1] = far
  <2>1. /\ Key(h, n) \in X
        /\ Xt = {} => Nearest(side, X) = {Key(h, n)}
        /\ Xt # {} => Nearest(side, X) = Nearest(side, Xt)
    <3>1. k \in Keys(h, far)
      BY <1>5, <1>11
    <3>2. Xt = {l \in Keys(h, far) : Beyond(side, k, l)}
      BY <1>11
    <3> HIDE DEF Xt, k, far, near, all
    <3>3. LET Y == {l \in Keys(h, far) : Beyond(side, k, l)}
              Z == {l \in all : Beyond(side, k, l)}
          IN  /\ Key(h, n) \in Z
              /\ Y = {} => Nearest(side, Z) = {Key(h, n)}
              /\ Y # {} => Nearest(side, Z) = Nearest(side, Y)
      BY <1>1, <3>1, NearestFar
    <3> QED
      BY <3>2, <3>3 DEF k, all
  <2> HIDE DEF b, bt, X, Xt, far
  <2>2. At(h, b) = Nearest(side, X) /\ (b = << >> <=> X = {})
    BY <1>3, <1>5, <1>7, <1>8, <1>11, <2>1
  <2> QED
    BY <1>4, <1>9, <2>2 DEF Steps, b, X
<1> QED
  BY <1>6, <1>10, <1>11

(* From every position of an iterator, its neighbours are the next keys. *)
LEMMA BesideNearest ==
    ASSUME NEW h, Heap(h), Shaped(h), NEW side \in Sides, NEW top \in DOMAIN h,
           NEW s, IsPath(h, top, s), s # << >>
    PROVE  Steps(h, top, side, s)
<1> DEFINE P(n) == \A u : IsPath(h, n, u) /\ u # << >> => Steps(h, n, side, u)
           T == {n \in DOMAIN h : P(n)}
<1>1. Terminator \in DOMAIN h
  BY DEF Heap
<1>2. P(Terminator)
  BY NoPathFromNone
<1>3. ASSUME NEW n \in DOMAIN h \ {Terminator}, P(h[n].left), P(h[n].right)
      PROVE  P(n)
  <2> SUFFICES ASSUME NEW u, IsPath(h, n, u), u # << >> PROVE Steps(h, n, side, u)
    OBVIOUS
  <2> DEFINE t == Tail(u)
  <2>1. /\ u = <<n>> \o t
        /\ t # << >> => t[1] = h[n].left \/ t[1] = h[n].right
        /\ IsPath(h, t[1], t)
    <3>1. FirstThen(h, n, u, t)
      BY PathUncons
    <3> QED
      BY <3>1 DEF FirstThen
  <2> HIDE DEF t
  <2>2. CASE t = << >>
    <3>1. u = <<n>>
      BY <2>1, <2>2
    <3> QED
      BY <3>1, StepsHere
  <2>3. CASE t # << >>
    <3>1. Steps(h, t[1], side, t)
      BY <1>3, <2>1, <2>3
    <3> QED
      BY <2>1, <2>3, <3>1, StepsBelow
  <2> QED
    BY <2>2, <2>3
<1> HIDE DEF P
<1>4. T = DOMAIN h
  <2>1. T \in SUBSET DOMAIN h /\ Terminator \in T
    BY <1>1, <1>2
  <2>2. \A n \in DOMAIN h \ {Terminator} : h[n].left \in T /\ h[n].right \in T => n \in T
    BY <1>3
  <2> HIDE DEF T
  <2> QED
    BY <2>1, <2>2, HeapInduction
<1>5. P(top)
  BY <1>4
<1> QED
  BY <1>5 DEF P

-----------------------------------------------------------------------------
(* The walk to a key.                                                      *)

LEMMA PathToDef ==
    ASSUME NEW h, Heap(h), NEW k
    PROVE  \A n \in DOMAIN h :
              PathTo(h, n, k) = IF n = Terminator THEN << >>
                                ELSE IF k < Key(h, n) THEN <<n>> \o PathTo(h, h[n].left, k)
                                ELSE IF Key(h, n) < k THEN <<n>> \o PathTo(h, h[n].right, k)
                                ELSE <<n>>
<1> DEFINE Body(f, n) == IF isTerminator(n) THEN << >>
                         ELSE IF k < Key(h, n) THEN <<n>> \o f[h[n].left]
                         ELSE IF Key(h, n) < k THEN <<n>> \o f[h[n].right]
                         ELSE <<n>>
           path == CHOOSE f : f = [n \in DOMAIN h |-> Body(f, n)]
           R == Seq(DOMAIN h)
           step == [f \in [DOMAIN h -> R] |-> [n \in DOMAIN h |-> Body(f, n)]]
<1>1. /\ Terminator \in DOMAIN h
      /\ \A n \in DOMAIN h : h[n].left \in DOMAIN h /\ h[n].right \in DOMAIN h
  BY DEF Heap
<1>2. \A f \in [DOMAIN h -> R] : step[f] = [n \in DOMAIN h |-> Body(f, n)]
  OBVIOUS
<1>3. \A f \in [DOMAIN h -> R], n \in DOMAIN h : Body(f, n) \in R
  <2> SUFFICES ASSUME NEW f \in [DOMAIN h -> R], NEW n \in DOMAIN h
               PROVE  Body(f, n) \in R
    OBVIOUS
  <2>1. f[h[n].left] \in R /\ f[h[n].right] \in R
    <3> HIDE DEF R
    <3> QED
      BY <1>1
  <2>2. <<n>> \in R /\ \A s \in R : <<n>> \o s \in R
    OBVIOUS
  <2>3. << >> \in R
    OBVIOUS
  <2> HIDE DEF R
  <2> QED
    BY <2>1, <2>2, <2>3
<1> HIDE DEF Body
<1>4. step \in [[DOMAIN h -> R] -> [DOMAIN h -> R]]
  <2> HIDE DEF R
  <2> QED
    BY <1>3
<1>5. \A f \in [DOMAIN h -> R], n \in DOMAIN h : step[f][n] = Body(f, n)
  <2> HIDE DEF step, R
  <2> QED
    BY <1>2
<1>6. \E f \in [DOMAIN h -> R] : step[f] = f
  <2>1. \A f, g \in [DOMAIN h -> R] : step[f][Terminator] = step[g][Terminator]
    <3>1. \A f : Body(f, Terminator) = << >>
      BY DEF isTerminator, Body
    <3> HIDE DEF step, R
    <3>2. \A f \in [DOMAIN h -> R] : step[f][Terminator] = Body(f, Terminator)
      BY <1>1, <1>5
    <3> QED
      BY <3>1, <3>2
  <2>2. \A f, g \in [DOMAIN h -> R], n \in DOMAIN h \ {Terminator} :
           f[h[n].left] = g[h[n].left] /\ f[h[n].right] = g[h[n].right] => step[f][n] = step[g][n]
    <3>1. \A f, g, n : f[h[n].left] = g[h[n].left] /\ f[h[n].right] = g[h[n].right] => Body(f, n) = Body(g, n)
      BY DEF Body
    <3> HIDE DEF step, R
    <3> QED
      BY <1>5, <3>1
  <2>3. R # {}
    <3>1. << >> \in R
      OBVIOUS
    <3> QED
      BY <3>1
  <2> HIDE DEF step, R
  <2>4. LooksBelow(step, h, R)
    BY <1>4, <2>1, <2>2, <2>3 DEF LooksBelow
  <2> QED
    BY <2>4, HeapRecursion
<1>7. \E f \in [DOMAIN h -> R] : f = [n \in DOMAIN h |-> Body(f, n)]
  <2> HIDE DEF R, step
  <2> QED
    BY <1>2, <1>6
<1>8. path = [n \in DOMAIN h |-> Body(path, n)]
  BY <1>7
<1>9. \A n \in DOMAIN h : PathTo(h, n, k) = path[n]
  BY DEF PathTo, Body
<1>10. \A n \in DOMAIN h : path[n] = Body(path, n)
  <2> HIDE DEF path
  <2> QED
    BY <1>8
<1> HIDE DEF path
<1> QED
  BY <1>1, <1>9, <1>10 DEF isTerminator, Body

(* The part of a path from the node n to k, by the part of it below n. *)
Onwards(h, n, k, p) ==
    \/ Key(h, n) = k /\ p = <<n>>
    \/ \E side \in Sides : \E t :
          /\ Beyond(side, Key(h, n), k)
          /\ t = PathTo(h, h[n][side], k)
          /\ p = <<n>> \o t

LEMMA PathOnwards ==
    ASSUME NEW h, Heap(h), NEW n \in DOMAIN h \ {Terminator}, NEW k \in Int
    PROVE  Onwards(h, n, k, PathTo(h, n, k))
<1>1. Key(h, n) \in Int
  BY TreeParameters DEF Heap, Key
<1>2. PathTo(h, n, k) = IF n = Terminator THEN << >>
                        ELSE IF k < Key(h, n) THEN <<n>> \o PathTo(h, h[n].left, k)
                        ELSE IF Key(h, n) < k THEN <<n>> \o PathTo(h, h[n].right, k)
                        ELSE <<n>>
  BY PathToDef
<1>3. CASE k < Key(h, n)
  <2>1. "left" \in Sides /\ Beyond("left", Key(h, n), k)
    BY <1>3 DEF Sides, Beyond
  <2>2. PathTo(h, n, k) = <<n>> \o PathTo(h, h[n]["left"], k)
    BY <1>2, <1>3
  <2> QED
    BY <2>1, <2>2 DEF Onwards
<1>4. CASE Key(h, n) < k
  <2>1. "right" \in Sides /\ Beyond("right", Key(h, n), k)
    BY <1>4 DEF Sides, Beyond
  <2>2. PathTo(h, n, k) = <<n>> \o PathTo(h, h[n]["right"], k)
    BY <1>1, <1>2, <1>4
  <2> QED
    BY <2>1, <2>2 DEF Onwards
<1>5. CASE Key(h, n) = k
  BY <1>1, <1>2, <1>5 DEF Onwards
<1> QED
  BY <1>1, <1>3, <1>4, <1>5

(* Where the walk to k stops: at k if it is there, and with no key in      *)
(* between otherwise.                                                      *)
Towards(h, n, k, p) ==
    LET l == Key(h, Last(p))
    IN  /\ IsPath(h, n, p)
        /\ p = << >> <=> n = Terminator
        /\ p # << >> =>
              /\ l \in Keys(h, n)
              /\ k \in Keys(h, n) => l = k
              /\ \A j \in Keys(h, n) : ~ (k < j /\ j < l) /\ ~ (l < j /\ j < k)

LEMMA TowardsBelow ==
    ASSUME NEW h, Heap(h), Shaped(h), NEW n \in DOMAIN h \ {Terminator}, NEW k \in Int,
           NEW side \in Sides, Beyond(side, Key(h, n), k),
           NEW t, Towards(h, h[n][side], k, t)
    PROVE  Towards(h, n, k, <<n>> \o t)
<1> DEFINE near == h[n][side]
           here == Key(h, n)
           N == Keys(h, near)
           F == Keys(h, h[n][Other(side)])
           all == Keys(h, n)
           s == <<n>> \o t
<1>1. near \in DOMAIN h /\ Sorted(side, all, here, N, F)
  BY KeysSorted
<1>2. /\ all = {here} \cup N \cup F /\ here \in Int /\ N \subseteq Int /\ F \subseteq Int
      /\ \A j \in N : Beyond(side, here, j)
      /\ \A j \in F : Beyond(side, j, here)
  BY <1>1 DEF Sorted
<1>3. IsPath(h, near, t) /\ (near = h[n].left \/ near = h[n].right)
  BY DEF Towards, Sides
<1> HIDE DEF near, all, here, N, F
<1>4. /\ IsPath(h, n, s) /\ s # << >>
      /\ Last(s) = IF t = << >> THEN n ELSE Last(t)
  BY <1>3, PathCons
<1>5. CASE t = << >>
  <2>1. N = {}
    BY <1>5, KeysOfNone DEF Towards, near, N
  <2>2. Key(h, Last(s)) = here
    BY <1>4, <1>5 DEF here
  <2>3. \A j \in F : Beyond(side, j, here) /\ Beyond(side, here, k)
    BY <1>2 DEF here
  <2>4. k \notin all
    BY <1>2, <2>1, <2>3 DEF Beyond, here
  <2>5. \A j \in all : ~ (k < j /\ j < here) /\ ~ (here < j /\ j < k)
    BY <1>2, <2>1, <2>3 DEF Beyond
  <2>6. here \in all
    BY <1>2
  <2> HIDE DEF s
  <2>7. Towards(h, n, k, s)
    BY <1>4, <2>2, <2>4, <2>5, <2>6 DEF Towards, all
  <2> QED
    BY <2>7 DEF s
<1>6. CASE t # << >>
  <2> DEFINE l == Key(h, Last(t))
  <2>1. /\ l \in N /\ (k \in N => l = k)
        /\ \A j \in N : ~ (k < j /\ j < l) /\ ~ (l < j /\ j < k)
    BY <1>6 DEF Towards, N, near
  <2>2. Key(h, Last(s)) = l
    BY <1>4, <1>6
  <2> HIDE DEF l
  <2>3. l \in Int /\ Beyond(side, here, l) /\ Beyond(side, here, k) /\ l \in all
    BY <1>2, <2>1 DEF here
  <2>4. k \in all => l = k
    BY <1>2, <2>1, <2>3 DEF Beyond
  <2>5. \A j \in all : ~ (k < j /\ j < l) /\ ~ (l < j /\ j < k)
    BY <1>2, <2>1, <2>3 DEF Beyond
  <2> HIDE DEF s
  <2>6. Towards(h, n, k, s)
    BY <1>4, <2>2, <2>3, <2>4, <2>5 DEF Towards, all
  <2> QED
    BY <2>6 DEF s
<1> QED
  BY <1>5, <1>6

LEMMA PathToTowards ==
    ASSUME NEW h, Heap(h), Shaped(h), NEW k \in Int, NEW top \in DOMAIN h
    PROVE  Towards(h, top, k, PathTo(h, top, k))
<1> DEFINE P(n) == Towards(h, n, k, PathTo(h, n, k))
           T == {n \in DOMAIN h : P(n)}
<1>1. Terminator \in DOMAIN h
  BY DEF Heap
<1>2. P(Terminator)
  <2>1. PathTo(h, Terminator, k) = << >>
    BY <1>1, PathToDef
  <2> QED
    BY <2>1, EmptyPath DEF Towards
<1>3. ASSUME NEW n \in DOMAIN h \ {Terminator}, P(h[n].left), P(h[n].right)
      PROVE  P(n)
  <2>1. Onwards(h, n, k, PathTo(h, n, k))
    BY PathOnwards
  <2>2. CASE Key(h, n) = k /\ PathTo(h, n, k) = <<n>>
    <3> DEFINE p == <<n>>
    <3>1. IsPath(h, n, p) /\ p # << >> /\ Last(p) = n
      BY OnePath DEF Last
    <3>2. k \in Keys(h, n)
      BY <2>2, KeysSorted DEF Sorted, Sides
    <3> HIDE DEF p
    <3>3. Towards(h, n, k, p)
      BY <2>2, <3>1, <3>2 DEF Towards
    <3> QED
      BY <2>2, <3>3 DEF p
  <2>3. ASSUME NEW side \in Sides, NEW t, Beyond(side, Key(h, n), k), t = PathTo(h, h[n][side], k),
               PathTo(h, n, k) = <<n>> \o t
        PROVE  P(n)
    <3>1. Towards(h, h[n][side], k, t)
      BY <1>3, <2>3 DEF Sides
    <3>2. Towards(h, n, k, <<n>> \o t)
      BY <2>3, <3>1, TowardsBelow
    <3> QED
      BY <2>3, <3>2
  <2> QED
    BY <2>1, <2>2, <2>3 DEF Onwards
<1> HIDE DEF P
<1>4. T = DOMAIN h
  <2>1. T \in SUBSET DOMAIN h /\ Terminator \in T
    BY <1>1, <1>2
  <2>2. \A n \in DOMAIN h \ {Terminator} : h[n].left \in T /\ h[n].right \in T => n \in T
    BY <1>3
  <2> HIDE DEF T
  <2> QED
    BY <2>1, <2>2, HeapInduction
<1>5. P(top)
  BY <1>4
<1> QED
  BY <1>5 DEF P

(* The nodes on a path that are not after k, and the last of them. *)
NotAfter(h, p, k) == {d \in DOMAIN p : Key(h, p[d]) <= k}

Precedes(h, n, k, p) ==
    /\ NotAfter(h, p, k) = {} => \A j \in Keys(h, n) : k < j
    /\ \A d \in NotAfter(h, p, k) :
          (\A c \in NotAfter(h, p, k) : c <= d) =>
             /\ Key(h, p[d]) \in Keys(h, n)
             /\ \A j \in Keys(h, n) : j <= k => j <= Key(h, p[d])

LEMMA PrecedesBelow ==
    ASSUME NEW h, Heap(h), Shaped(h), NEW n \in DOMAIN h \ {Terminator}, NEW k \in Int,
           NEW side \in Sides, Beyond(side, Key(h, n), k),
           NEW t \in Seq(DOMAIN h), Precedes(h, h[n][side], k, t)
    PROVE  Precedes(h, n, k, <<n>> \o t)
<1> DEFINE near == h[n][side]
           here == Key(h, n)
           N == Keys(h, near)
           F == Keys(h, h[n][Other(side)])
           all == Keys(h, n)
           s == <<n>> \o t
           A == NotAfter(h, s, k)
           B == NotAfter(h, t, k)
<1>1. near \in DOMAIN h /\ Sorted(side, all, here, N, F)
  BY KeysSorted
<1>2. /\ all = {here} \cup N \cup F /\ here \in Int /\ N \subseteq Int /\ F \subseteq Int
      /\ \A j \in N : Beyond(side, here, j)
      /\ \A j \in F : Beyond(side, j, here)
  BY <1>1 DEF Sorted
<1>3. /\ Len(s) = 1 + Len(t) /\ Len(t) \in Nat /\ s[1] = n
      /\ \A d \in 1 .. Len(t) : s[d + 1] = t[d]
      /\ DOMAIN s = 1 .. Len(s) /\ DOMAIN t = 1 .. Len(t)
  <2> DEFINE D == DOMAIN h
  <2>1. n \in D /\ t \in Seq(D)
    OBVIOUS
  <2> HIDE DEF D
  <2>2. s \in Seq(D)
    BY <2>1, PathConsPlain
  <2> QED
    BY <2>1, <2>2, PathConsPlain
<1>4. /\ B = {} => \A j \in N : k < j
      /\ \A d \in B : (\A c \in B : c <= d) =>
            Key(h, t[d]) \in N /\ \A j \in N : j <= k => j <= Key(h, t[d])
  BY DEF Precedes
<1> HIDE DEF s
<1>5. \A d \in 1 .. Len(t) : d \in B <=> d + 1 \in A
  BY <1>3 DEF NotAfter
<1>6. 1 \in A <=> here <= k
  BY <1>3 DEF NotAfter
<1>7. A \subseteq 1 .. 1 + Len(t) /\ B \subseteq 1 .. Len(t)
  BY <1>3 DEF NotAfter
<1>8. Key(h, s[1]) = here /\ \A d \in 1 .. Len(t) : Key(h, s[d + 1]) = Key(h, t[d])
  BY <1>3
<1> HIDE DEF A, B, N, F, all, here
<1>9. ASSUME A = {}
      PROVE  \A j \in all : k < j
  <2>1. B = {}
    BY <1>5, <1>7, <1>9
  <2>2. \A j \in N : k < j
    BY <1>4, <2>1
  <2>3. ~ (here <= k)
    BY <1>6, <1>9
  <2>4. side = "left" /\ \A j \in F : here < j
    BY <1>2, <2>3 DEF Beyond, here, Sides
  <2> QED
    BY <1>2, <2>2, <2>3, <2>4
<1>10. ASSUME NEW d \in A, \A c \in A : c <= d
       PROVE  /\ Key(h, s[d]) \in all
              /\ \A j \in all : j <= k => j <= Key(h, s[d])
  <2>1. CASE d = 1
    <3>1. here <= k /\ Key(h, s[d]) = here
      BY <1>6, <1>8, <1>10, <2>1
    <3>2. B = {}
      BY <1>3, <1>5, <1>7, <1>10, <2>1
    <3>3. \A j \in N : k < j
      BY <1>4, <3>2
    <3>4. side = "right" /\ \A j \in F : j < here
      BY <1>2, <3>1 DEF Beyond, here, Sides
    <3> QED
      BY <1>2, <3>1, <3>3, <3>4
  <2>2. CASE d # 1
    <3> DEFINE b == d - 1
    <3>1. b \in 1 .. Len(t) /\ d = b + 1
      BY <1>3, <1>7, <2>2
    <3> HIDE DEF b
    <3>2. b \in B
      BY <1>5, <3>1
    <3>3. \A c \in B : c <= b
      <4> SUFFICES ASSUME NEW c \in B PROVE c <= b
        OBVIOUS
      <4>1. c \in 1 .. Len(t) /\ c + 1 \in A
        BY <1>5, <1>7
      <4>2. c + 1 <= d
        BY <1>10, <4>1
      <4> QED
        BY <1>3, <3>1, <4>1, <4>2
    <3> DEFINE l == Key(h, t[b])
    <3>4. l \in N /\ \A j \in N : j <= k => j <= l
      BY <1>4, <3>2, <3>3
    <3>5. Key(h, s[d]) = l
      BY <1>8, <3>1
    <3>6. l <= k
      BY <3>2 DEF B, NotAfter
    <3> HIDE DEF l
    <3>7. \A j \in all : j <= k => j <= l
      <4>1. CASE side = "right"
        BY <1>2, <3>4, <4>1 DEF Beyond
      <4>2. CASE side = "left"
        <5>1. k < here /\ \A j \in F : here < j
          BY <1>2, <4>2 DEF Beyond, here
        <5> QED
          BY <1>2, <3>4, <5>1
      <4> QED
        BY <4>1, <4>2 DEF Sides
    <3> QED
      BY <1>2, <3>4, <3>5, <3>7
  <2> QED
    BY <2>1, <2>2
<1>11. Precedes(h, n, k, s)
  BY <1>9, <1>10 DEF Precedes, A, all
<1> QED
  BY <1>11 DEF s

LEMMA PathToPrecedes ==
    ASSUME NEW h, Heap(h), Shaped(h), NEW k \in Int, NEW top \in DOMAIN h
    PROVE  Precedes(h, top, k, PathTo(h, top, k))
<1> DEFINE P(n) == Precedes(h, n, k, PathTo(h, n, k))
           T == {n \in DOMAIN h : P(n)}
<1>1. Terminator \in DOMAIN h
  BY DEF Heap
<1>2. P(Terminator)
  <2>1. PathTo(h, Terminator, k) = << >>
    BY <1>1, PathToDef
  <2>2. NotAfter(h, << >>, k) = {}
    BY DEF NotAfter
  <2> QED
    BY <2>1, <2>2, KeysOfNone DEF Precedes
<1>3. ASSUME NEW n \in DOMAIN h \ {Terminator}, P(h[n].left), P(h[n].right)
      PROVE  P(n)
  <2>1. Onwards(h, n, k, PathTo(h, n, k))
    BY PathOnwards
  <2>2. CASE Key(h, n) = k /\ PathTo(h, n, k) = <<n>>
    <3> DEFINE p == <<n>>
    <3>1. DOMAIN p = {1} /\ p[1] = n
      OBVIOUS
    <3>2. k \in Keys(h, n) /\ Keys(h, n) \subseteq Int
      BY <2>2, KeysSorted DEF Sorted, Sides
    <3> HIDE DEF p
    <3>3. NotAfter(h, p, k) = {1}
      BY <2>2, <3>1 DEF NotAfter
    <3>4. Precedes(h, n, k, p)
      BY <2>2, <3>1, <3>2, <3>3 DEF Precedes
    <3> QED
      BY <2>2, <3>4 DEF p
  <2>3. ASSUME NEW side \in Sides, NEW t, Beyond(side, Key(h, n), k), t = PathTo(h, h[n][side], k),
               PathTo(h, n, k) = <<n>> \o t
        PROVE  P(n)
    <3>1. Precedes(h, h[n][side], k, t) /\ h[n][side] \in DOMAIN h
      BY <1>3, <2>3, KeysSorted DEF Sides
    <3>2. t \in Seq(DOMAIN h)
      <4> DEFINE near == h[n][side]
      <4>1. IsPath(h, near, t)
        BY <2>3, <3>1, PathToTowards DEF Towards
      <4>2. t \in Seq(DOMAIN h \ {Terminator})
        BY <4>1 DEF IsPath
      <4> QED
        BY <4>2, SeqSubset
    <3>3. Precedes(h, n, k, <<n>> \o t)
      BY <2>3, <3>1, <3>2, PrecedesBelow
    <3> QED
      BY <2>3, <3>3
  <2> QED
    BY <2>1, <2>2, <2>3 DEF Onwards
<1> HIDE DEF P
<1>4. T = DOMAIN h
  <2>1. T \in SUBSET DOMAIN h /\ Terminator \in T
    BY <1>1, <1>2
  <2>2. \A n \in DOMAIN h \ {Terminator} : h[n].left \in T /\ h[n].right \in T => n \in T
    BY <1>3
  <2> HIDE DEF T
  <2> QED
    BY <2>1, <2>2, HeapInduction
<1>5. P(top)
  BY <1>4
<1> QED
  BY <1>5 DEF P

(* A path is not longer than its root is high. *)
LEMMA PathFits ==
    ASSUME NEW h, Heap(h), NEW top \in DOMAIN h, NEW s, IsPath(h, top, s)
    PROVE  Len(s) <= h[top].height
<1> DEFINE P(n) == \A u : IsPath(h, n, u) => Len(u) <= h[n].height
           T == {n \in DOMAIN h : P(n)}
<1>1. Terminator \in DOMAIN h /\ h[Terminator].height = 0
  BY DEF Heap
<1>2. P(Terminator)
  <2> SUFFICES ASSUME NEW u, IsPath(h, Terminator, u) PROVE Len(u) <= h[Terminator].height
    OBVIOUS
  <2>1. u = << >>
    BY NoPathFromNone
  <2> QED
    BY <1>1, <2>1
<1>3. ASSUME NEW n \in DOMAIN h \ {Terminator}, P(h[n].left), P(h[n].right)
      PROVE  P(n)
  <2> SUFFICES ASSUME NEW u, IsPath(h, n, u) PROVE Len(u) <= h[n].height
    OBVIOUS
  <2>1. /\ h[n].height \in Nat /\ h[h[n].left].height \in Nat /\ h[h[n].right].height \in Nat
        /\ h[h[n].left].height < h[n].height
        /\ h[h[n].right].height < h[n].height
    BY HeightsDescend DEF Heap
  <2>2. CASE u = << >>
    BY <2>1, <2>2
  <2>3. CASE u # << >>
    <3> DEFINE t == Tail(u)
    <3>1. FirstThen(h, n, u, t)
      BY <2>3, PathUncons
    <3> HIDE DEF t
    <3>2. Len(u) \in Nat /\ Len(t) = Len(u) - 1 /\ IsPath(h, t[1], t)
          /\ (t # << >> => t[1] = h[n].left \/ t[1] = h[n].right)
      BY <3>1 DEF FirstThen
    <3>3. CASE t = << >>
      <4>1. Len(t) = 0
        BY <3>3
      <4>2. Len(u) = 1
        BY <3>2, <4>1
      <4>3. h[n].height >= 1
        BY <2>1
      <4> QED
        BY <2>1, <4>2, <4>3
    <3>4. CASE t # << >>
      <4>1. Len(t) <= h[h[n].left].height \/ Len(t) <= h[h[n].right].height
        BY <1>3, <3>2, <3>4
      <4>2. \A c, d, l, r, x \in Int : (c <= l \/ c <= r) /\ l < x /\ r < x /\ c = d - 1 => d <= x
        OBVIOUS
      <4>3. Len(t) \in Int /\ Len(u) \in Int
        BY <3>2
      <4> QED
        BY <2>1, <3>2, <4>1, <4>2, <4>3
    <3> QED
      BY <3>3, <3>4
  <2> QED
    BY <2>2, <2>3
<1> HIDE DEF P
<1>4. T = DOMAIN h
  <2>1. T \in SUBSET DOMAIN h /\ Terminator \in T
    BY <1>1, <1>2
  <2>2. \A n \in DOMAIN h \ {Terminator} : h[n].left \in T /\ h[n].right \in T => n \in T
    BY <1>3
  <2> HIDE DEF T
  <2> QED
    BY <2>1, <2>2, HeapInduction
<1>5. P(top)
  BY <1>4
<1> QED
  BY <1>5 DEF P

-----------------------------------------------------------------------------
(* Lookups.                                                                *)

First(S) == {l \in S : \A j \in S : l <= j}

Latest(S) == {l \in S : \A j \in S : j <= l}

LEMMA NearestIs ==
    ASSUME NEW S, S \subseteq Int
    PROVE  Nearest("right", S) = First(S) /\ Nearest("left", S) = Latest(S)
<1>1. ASSUME NEW l \in S, NEW j \in S
      PROVE  (~ Beyond("right", j, l) <=> l <= j) /\ (~ Beyond("left", j, l) <=> j <= l)
  BY DEF Beyond
<1> QED
  BY <1>1 DEF Nearest, First, Latest

LEMMA LastNode ==
    ASSUME NEW h, NEW n, NEW s, IsPath(h, n, s), s # << >>
    PROVE  Last(s) \in DOMAIN h \ {Terminator}
<1> DEFINE D == DOMAIN h \ {Terminator}
<1>1. s \in Seq(D)
  BY DEF IsPath
<1> HIDE DEF D
<1>2. Len(s) \in 1 .. Len(s)
  BY <1>1
<1>3. s[Len(s)] \in D
  BY <1>1, <1>2
<1> QED
  BY <1>3 DEF Last, D

LEMMA MaxIs ==
    ASSUME NEW N \in Nat, NEW S \in SUBSET (0 .. N), S # {}
    PROVE  Max(S) \in S /\ \A d \in S : d <= Max(S)
<1>1. IsFiniteSet(S) /\ S \in SUBSET Int
  <2>1. IsFiniteSet(0 .. N)
    BY FS_Interval
  <2>2. IsFiniteSet(S)
    BY <2>1, FS_Subset
  <2> QED
    BY <2>2
<1>2. \E j \in S : \A d \in S : d <= j
  BY <1>1, FiniteEnds
<1> DEFINE j == Max(S)
<1>3. j = CHOOSE x \in S : \A y \in S : x >= y
  BY DEF Max
<1>4. \E x \in S : \A y \in S : x >= y
  BY <1>1, <1>2
<1>5. j \in S /\ \A y \in S : j >= y
  BY <1>3, <1>4
<1> HIDE DEF j
<1>6. \A d \in S : d <= j
  BY <1>1, <1>5
<1> QED
  BY <1>5, <1>6 DEF j

(* The entry at a position is the first of S. *)
Reaches(h, n, s, S) ==
    /\ IsPath(h, n, s)
    /\ At(h, s) = First(S)
    /\ s = << >> <=> S = {}

LEMMA KeysInt ==
    ASSUME NEW h, Heap(h), Shaped(h), NEW n \in DOMAIN h
    PROVE  Keys(h, n) \subseteq Int
<1>1. CASE n = Terminator
  BY <1>1, KeysOfNone
<1>2. CASE n # Terminator
  BY <1>2, KeysSorted DEF Sorted, Sides
<1> QED
  BY <1>1, <1>2

LEMMA SuccessorReaches ==
    ASSUME NEW h, Heap(h), Shaped(h), NEW n \in DOMAIN h, NEW s, IsPath(h, n, s), s # << >>
    PROVE  /\ Reaches(h, n, Successor(h, s), {l \in Keys(h, n) : Key(h, Last(s)) < l})
           /\ Key(h, Last(s)) \in Keys(h, n)
<1> DEFINE k == Key(h, Last(s))
           X == {l \in Keys(h, n) : Beyond("right", k, l)}
           b == Successor(h, s)
<1>1. b = Beside(h, s, "right") /\ "right" \in Sides
  BY BesideIs DEF Sides
<1>2. k \in Keys(h, n) /\ At(h, b) = Nearest("right", X) /\ (b = << >> <=> X = {})
  BY <1>1, BesideNearest DEF Steps
<1>3. X = {l \in Keys(h, n) : k < l}
  BY DEF Beyond
<1>4. X \subseteq Int
  BY KeysInt
<1>5. IsPath(h, n, b)
  BY SuccessorPath
<1> HIDE DEF X, b
<1>6. At(h, b) = First(X)
  BY <1>2, <1>4, NearestIs
<1> QED
  BY <1>2, <1>3, <1>5, <1>6 DEF Reaches, b

LEMMA LowerBoundReaches ==
    ASSUME NEW h, Heap(h), Shaped(h), NEW n \in DOMAIN h, NEW k \in Int
    PROVE  Reaches(h, n, lower_bound(h, n, k), {l \in Keys(h, n) : k <= l})
<1> DEFINE p == PathTo(h, n, k)
           C == Keys(h, n)
           S == {l \in C : k <= l}
           x == Key(h, Last(p))
<1>1. Towards(h, n, k, p) /\ C \subseteq Int
  BY PathToTowards, KeysInt
<1>2. lower_bound(h, n, k) = IF p # << >> /\ x < k THEN Successor(h, p) ELSE p
  BY DEF lower_bound
<1>3. IsPath(h, n, p)
  BY <1>1 DEF Towards
<1>4. CASE p = << >>
  <2>1. C = {}
    BY <1>1, <1>4, KeysOfNone DEF Towards
  <2>2. At(h, p) = {} /\ First(S) = {} /\ S = {}
    BY <1>4, <2>1 DEF At, First
  <2>3. lower_bound(h, n, k) = p
    BY <1>2, <1>4
  <2> HIDE DEF p, S
  <2>4. Reaches(h, n, p, S)
    BY <1>3, <1>4, <2>2 DEF Reaches
  <2> QED
    BY <2>3, <2>4 DEF S
<1>5. CASE p # << >>
  <2>1. x \in C /\ (k \in C => x = k) /\ \A j \in C : ~ (k < j /\ j < x) /\ ~ (x < j /\ j < k)
    BY <1>1, <1>5 DEF Towards
  <2>2. CASE x < k
    <3>1. lower_bound(h, n, k) = Successor(h, p)
      BY <1>2, <1>5, <2>2
    <3>2. Reaches(h, n, Successor(h, p), {l \in C : x < l})
      BY <1>3, <1>5, SuccessorReaches
    <3> HIDE DEF x, C, p
    <3>3. {l \in C : x < l} = S
      <4>1. ASSUME NEW l \in C
            PROVE  x < l <=> k <= l
        <5>1. l \in Int /\ x \in Int
          BY <1>1, <2>1
        <5>2. k \notin C
          BY <2>1, <2>2
        <5> QED
          BY <2>1, <2>2, <5>1, <5>2
      <4> QED
        BY <4>1
    <3> QED
      BY <3>1, <3>2, <3>3 DEF C, p
  <2>3. CASE ~ (x < k)
    <3>1. lower_bound(h, n, k) = p
      BY <1>2, <2>3
    <3>2. At(h, p) = {x}
      BY <1>5 DEF At
    <3> HIDE DEF x, C, p
    <3>3. x \in S
      BY <1>1, <2>1, <2>3
    <3>4. \A j \in S : x <= j /\ j \in Int
      <4> SUFFICES ASSUME NEW j \in S PROVE x <= j /\ j \in Int
        OBVIOUS
      <4>1. j \in C /\ k <= j /\ j \in Int /\ x \in Int
        BY <1>1, <2>1
      <4>2. CASE j = k
        BY <2>1, <2>3, <4>1, <4>2
      <4>3. CASE j # k
        BY <2>1, <4>1, <4>3
      <4> QED
        BY <4>2, <4>3
    <3> HIDE DEF S
    <3>5. First(S) = {x}
      <4>1. \A j \in S : j <= x => j = x
        BY <3>3, <3>4
      <4> QED
        BY <3>3, <3>4, <4>1 DEF First
    <3>6. Reaches(h, n, p, S)
      BY <1>3, <1>5, <3>2, <3>3, <3>5 DEF Reaches
    <3> QED
      BY <3>1, <3>6 DEF S, C
  <2> QED
    BY <2>2, <2>3
<1> QED
  BY <1>4, <1>5

(* What a position that is not the end says of the set it is the first of. *)
LEMMA ReachedFirst ==
    ASSUME NEW h, NEW n, NEW s, NEW S, S \subseteq Int, Reaches(h, n, s, S), s # << >>
    PROVE  /\ Key(h, Last(s)) \in S
           /\ \A j \in S : Key(h, Last(s)) <= j
BY DEF Reaches, At, First

LEMMA UpperBoundReaches ==
    ASSUME NEW h, Heap(h), Shaped(h), NEW n \in DOMAIN h, NEW k \in Int
    PROVE  Reaches(h, n, upper_bound(h, n, k), {l \in Keys(h, n) : k < l})
<1> DEFINE s == lower_bound(h, n, k)
           C == Keys(h, n)
           S == {l \in C : k <= l}
           U == {l \in C : k < l}
           x == Key(h, Last(s))
<1>1. Reaches(h, n, s, S) /\ C \subseteq Int
  BY LowerBoundReaches, KeysInt
<1>2. upper_bound(h, n, k) = IF s # << >> /\ x <= k THEN Successor(h, s) ELSE s
  BY DEF upper_bound
<1>3. IsPath(h, n, s) /\ (s = << >> <=> S = {})
  BY <1>1 DEF Reaches
<1>4. s # << >> => x \in S /\ \A j \in S : x <= j
  <2>1. S \subseteq Int
    BY <1>1
  <2> HIDE DEF s, S
  <2> QED
    BY <1>1, <2>1, ReachedFirst
<1>5. CASE s # << >> /\ x <= k
  <2>1. Reaches(h, n, Successor(h, s), {l \in C : x < l})
    BY <1>3, <1>5, SuccessorReaches
  <2>2. x = k
    <3>1. x \in S
      BY <1>4, <1>5
    <3>2. x \in Int /\ k <= x
      BY <1>1, <3>1
    <3> HIDE DEF x
    <3> QED
      BY <1>5, <3>2
  <2> QED
    BY <1>2, <1>5, <2>1, <2>2
<1>6. CASE ~ (s # << >> /\ x <= k)
  <2>1. S = U
    <3>1. CASE S = {}
      <4>1. \A l \in C : ~ (k <= l) /\ l \in Int
        BY <1>1, <3>1
      <4> HIDE DEF C
      <4>2. \A l \in C : ~ (k < l)
        BY <4>1
      <4> QED
        BY <3>1, <4>2
    <3>2. CASE S # {}
      <4>1. x \in S /\ (\A j \in S : x <= j) /\ ~ (x <= k)
        BY <1>3, <1>4, <1>6, <3>2
      <4>2. x \in Int /\ k <= x
        BY <1>1, <4>1
      <4> HIDE DEF x, C
      <4>3. k \notin S
        BY <4>1
      <4>4. \A l \in C : l \in Int
        BY <1>1
      <4>5. \A l \in C : k <= l => k < l
        BY <4>3, <4>4
      <4>6. \A l \in C : k < l => k <= l
        BY <4>4
      <4> QED
        BY <4>5, <4>6
    <3> QED
      BY <3>1, <3>2
  <2>2. upper_bound(h, n, k) = s
    BY <1>2, <1>6
  <2> QED
    BY <1>1, <2>1, <2>2
<1> QED
  BY <1>5, <1>6

LEMMA FindReaches ==
    ASSUME NEW h, Heap(h), Shaped(h), NEW n \in DOMAIN h, NEW k \in Int
    PROVE  At(h, find(h, n, k)) = Keys(h, n) \cap {k}
<1> DEFINE s == lower_bound(h, n, k)
           C == Keys(h, n)
           S == {l \in C : k <= l}
           x == Key(h, Last(s))
<1>1. Reaches(h, n, s, S) /\ C \subseteq Int
  BY LowerBoundReaches, KeysInt
<1>2. find(h, n, k) = IF s = << >> \/ k < x THEN << >> ELSE s
  BY DEF find
<1>3. s = << >> <=> S = {}
  BY <1>1 DEF Reaches
<1>4. s # << >> => x \in S /\ \A j \in S : x <= j
  <2>1. S \subseteq Int
    BY <1>1
  <2> HIDE DEF s, S
  <2> QED
    BY <1>1, <2>1, ReachedFirst
<1>5. k \in C => k \in S
  OBVIOUS
<1>6. CASE s = << >>
  BY <1>2, <1>3, <1>5, <1>6 DEF At
<1>7. CASE s # << >>
  <2>1. x \in C /\ x \in Int /\ k <= x /\ (k \in C => x <= k)
    BY <1>1, <1>4, <1>5, <1>7
  <2>2. At(h, s) = {x} /\ At(h, << >>) = {}
    BY <1>7 DEF At
  <2> HIDE DEF x, C, s
  <2>3. CASE k < x
    <3>1. k \notin C
      BY <2>1, <2>3
    <3> QED
      BY <1>2, <2>2, <2>3, <3>1 DEF C
  <2>4. CASE ~ (k < x)
    <3>1. x = k
      BY <2>1, <2>4
    <3> QED
      BY <1>2, <1>7, <2>1, <2>2, <2>4, <3>1 DEF C
  <2> QED
    BY <2>3, <2>4
<1> QED
  BY <1>6, <1>7

KeyOf(h, a) == IF isTerminator(a) THEN {} ELSE {Key(h, a)}

LEMMA LookupFinds ==
    ASSUME NEW h, Heap(h), Shaped(h), NEW n \in DOMAIN h, NEW k \in Int
    PROVE  KeyOf(h, lookup(h, n, k)) = Keys(h, n) \cap {k}
<1> DEFINE p == PathTo(h, n, k)
           C == Keys(h, n)
           x == Key(h, Last(p))
<1>1. Towards(h, n, k, p)
  BY PathToTowards
<1>2. lookup(h, n, k) = IF p # << >> /\ x = k THEN Last(p) ELSE Terminator
  BY DEF lookup
<1>3. CASE p = << >>
  <2>1. C = {}
    BY <1>1, <1>3, KeysOfNone DEF Towards
  <2> QED
    BY <1>2, <1>3, <2>1 DEF KeyOf, isTerminator
<1>4. CASE p # << >>
  <2>1. x \in C /\ (k \in C => x = k)
    BY <1>1, <1>4 DEF Towards
  <2>2. Last(p) # Terminator
    BY <1>1, <1>4, LastNode DEF Towards
  <2> HIDE DEF p, C
  <2> QED
    BY <1>2, <1>4, <2>1, <2>2 DEF KeyOf, isTerminator, C
<1> QED
  BY <1>3, <1>4

LEMMA LookupPreviousFinds ==
    ASSUME NEW h, Heap(h), Shaped(h), NEW n \in DOMAIN h, NEW k \in Int
    PROVE  KeyOf(h, lookup_previous(h, n, k)) = Latest({l \in Keys(h, n) : l <= k})
<1> DEFINE p == PathTo(h, n, k)
           C == Keys(h, n)
           S == {l \in C : l <= k}
           B == NotAfter(h, p, k)
           j == Max(B)
           x == Key(h, p[j])
<1>1. Precedes(h, n, k, p) /\ IsPath(h, n, p) /\ C \subseteq Int
  BY PathToPrecedes, PathToTowards, KeysInt DEF Towards
<1>2. lookup_previous(h, n, k) = IF B = {} THEN Terminator ELSE p[j]
  BY DEF lookup_previous, NotAfter
<1>3. CASE B = {}
  <2>1. \A l \in C : k < l /\ l \in Int
    BY <1>1, <1>3 DEF Precedes
  <2> HIDE DEF C
  <2>2. S = {}
    BY <2>1
  <2>3. Latest(S) = {}
    BY <2>2 DEF Latest
  <2> QED
    BY <1>2, <1>3, <2>3 DEF KeyOf, isTerminator, C
<1>4. CASE B # {}
  <2>1. j \in B /\ \A d \in B : d <= j
    <3>1. Len(p) \in Nat /\ DOMAIN p = 1 .. Len(p)
      BY <1>1 DEF IsPath
    <3>2. B \in SUBSET (0 .. Len(p))
      BY <3>1 DEF NotAfter
    <3> HIDE DEF B, p
    <3> QED
      BY <1>4, <3>1, <3>2, MaxIs
  <2> HIDE DEF j
  <2>2. x \in C /\ (\A l \in C : l <= k => l <= x) /\ x <= k
    BY <1>1, <2>1 DEF Precedes, NotAfter
  <2>3. p[j] # Terminator
    <3>1. j \in 1 .. Len(p) /\ p \in Seq(DOMAIN h \ {Terminator})
      BY <1>1, <2>1 DEF NotAfter, IsPath
    <3> DEFINE D == DOMAIN h \ {Terminator}
    <3>2. p \in Seq(D)
      BY <3>1
    <3> HIDE DEF D, p
    <3>3. p[j] \in D
      BY <3>1, <3>2
    <3> QED
      BY <3>3 DEF D
  <2>4. Latest(S) = {x}
    <3> HIDE DEF x, C
    <3>1. x \in S /\ \A l \in S : l <= x /\ l \in Int
      BY <1>1, <2>2
    <3>2. \A l \in S : x <= l => l = x
      BY <1>1, <2>2, <3>1
    <3> HIDE DEF S
    <3> QED
      BY <3>1, <3>2 DEF Latest
  <2> HIDE DEF B, p, S
  <2>5. KeyOf(h, lookup_previous(h, n, k)) = {x}
    BY <1>2, <1>4, <2>3 DEF KeyOf, isTerminator
  <2> QED
    BY <2>4, <2>5 DEF S
<1> QED
  BY <1>3, <1>4

(* What precedes the first position that is not before k is the last that  *)
(* is; the position before the end is the last of all.                     *)
LEMMA PredecessorReaches ==
    ASSUME NEW h, Heap(h), Shaped(h), NEW n \in DOMAIN h, NEW k \in Int
    PROVE  LET b == Predecessor(h, n, lower_bound(h, n, k))
           IN  IsPath(h, n, b) /\ At(h, b) = Latest({l \in Keys(h, n) : l < k})
<1> DEFINE s == lower_bound(h, n, k)
           C == Keys(h, n)
           S == {l \in C : k <= l}
           B == {l \in C : l < k}
           x == Key(h, Last(s))
           b == Predecessor(h, n, s)
<1>1. Reaches(h, n, s, S) /\ C \subseteq Int /\ "left" \in Sides
  BY LowerBoundReaches, KeysInt DEF Sides
<1>2. s = << >> <=> S = {}
  BY <1>1 DEF Reaches
<1>3. B \subseteq Int
  BY <1>1
<1>4. CASE s = << >>
  <2>1. b = Spine(h, n, "right")
    BY <1>4 DEF Predecessor
  <2>2. Other("left") = "right"
    BY DEF Other
  <2>3. At(h, Spine(h, n, "right")) = Nearest("left", C)
    BY <1>1, <2>2, SpineNearest
  <2>4. IsPath(h, n, Spine(h, n, "right"))
    BY SpinePath
  <2>5. B = C
    <3>1. \A l \in C : l \in Int /\ ~ (k <= l)
      BY <1>1, <1>2, <1>4
    <3> HIDE DEF C
    <3>2. \A l \in C : l < k
      BY <3>1
    <3> QED
      BY <3>2
  <2> HIDE DEF B, C, b
  <2>6. Nearest("left", C) = Latest(C)
    BY <1>1, NearestIs
  <2> QED
    BY <2>1, <2>3, <2>4, <2>5, <2>6 DEF B, C, b
<1>5. CASE s # << >>
  <2> DEFINE X == {l \in C : Beyond("left", x, l)}
  <2>1. b = Beside(h, s, "left")
    BY <1>5, BesideIs
  <2>2. IsPath(h, n, s)
    BY <1>1 DEF Reaches
  <2>3. At(h, b) = Nearest("left", X)
    BY <1>1, <1>5, <2>1, <2>2, BesideNearest DEF Steps
  <2>4. IsPath(h, n, b)
    BY <1>1, <1>5, <2>1, <2>2, BesidePath
  <2>5. x \in S /\ \A j \in S : x <= j
    <3>1. S \subseteq Int
      BY <1>1
    <3> HIDE DEF s, S
    <3> QED
      BY <1>1, <1>5, <3>1, ReachedFirst
  <2>6. X = B
    <3>1. ASSUME NEW l \in C
          PROVE  Beyond("left", x, l) <=> l < k
      <4>1. l \in Int /\ x \in Int /\ k <= x /\ (k <= l => x <= l)
        BY <1>1, <2>5
      <4> HIDE DEF x
      <4> QED
        BY <4>1 DEF Beyond
    <3> QED
      BY <3>1
  <2> HIDE DEF X, B, C, b
  <2>7. Nearest("left", B) = Latest(B)
    BY <1>3, NearestIs
  <2> QED
    BY <2>3, <2>4, <2>6, <2>7 DEF B, C, b
<1> QED
  BY <1>4, <1>5

LEMMA LeftmostFirst ==
    ASSUME NEW h, Heap(h), Shaped(h), NEW n \in DOMAIN h, Keys(h, n) # {}
    PROVE  KeyOf(h, Leftmost(h, n)) = First(Keys(h, n))
<1> DEFINE s == Spine(h, n, "left")
           C == Keys(h, n)
<1>1. C \subseteq Int /\ "right" \in Sides /\ Other("right") = "left"
  BY KeysInt DEF Sides, Other
<1>2. At(h, s) = Nearest("right", C) /\ s # << >>
  BY <1>1, SpineNearest
<1>3. IsPath(h, n, s)
  BY SpinePath
<1>4. Leftmost(h, n) = Last(s)
  BY DEF Leftmost
<1> HIDE DEF s, C
<1>5. Nearest("right", C) = First(C)
  BY <1>1, NearestIs
<1>6. Last(s) # Terminator
  BY <1>2, <1>3, LastNode
<1> QED
  BY <1>2, <1>4, <1>5, <1>6 DEF KeyOf, At, isTerminator, C

LEMMA InvLookupsRight ==
    ASSUME TreeInv
    PROVE  LookupsRight
<1> SUFFICES ASSUME NEW n \in Roots, NEW k \in SomeKeys
             PROVE  LET keys == {Key(heap, a) : a \in Subtree(heap, n)}
                        at(stack) == IF stack = << >> THEN {} ELSE {Key(heap, Last(stack))}
                        found(a) == IF isTerminator(a) THEN {} ELSE {Key(heap, a)}
                        first(S) == {l \in S : \A j \in S : l <= j}
                        last(S) == {l \in S : \A j \in S : j <= l}
                        fits(stack) == Len(stack) <= heap[n].height
                    IN  /\ found(lookup(heap, n, k)) = keys \cap {k}
                        /\ found(lookup_previous(heap, n, k)) = last({l \in keys : l <= k})
                        /\ at(lower_bound(heap, n, k)) = first({l \in keys : k <= l})
                        /\ at(upper_bound(heap, n, k)) = first({l \in keys : k < l})
                        /\ at(find(heap, n, k)) = keys \cap {k}
                        /\ at(Predecessor(heap, n, lower_bound(heap, n, k))) = last({l \in keys : l < k})
                        /\ keys # {} => found(Leftmost(heap, n)) = first(keys)
                        /\ \A stack \in {lower_bound(heap, n, k), upper_bound(heap, n, k),
                                           Predecessor(heap, n, lower_bound(heap, n, k))} : fits(stack)
  BY DEF LookupsRight
<1> DEFINE C == Keys(heap, n)
<1>1. n \in DOMAIN heap /\ Heap(heap) /\ Shaped(heap)
  BY RootsThere DEF Good
<1>2. k \in Int
  BY TreeParameters DEF SomeKeys
<1>3. KeyOf(heap, lookup(heap, n, k)) = C \cap {k}
  BY <1>1, <1>2, LookupFinds
<1>4. KeyOf(heap, lookup_previous(heap, n, k)) = Latest({l \in C : l <= k})
  BY <1>1, <1>2, LookupPreviousFinds
<1>5. /\ At(heap, lower_bound(heap, n, k)) = First({l \in C : k <= l})
      /\ IsPath(heap, n, lower_bound(heap, n, k))
  BY <1>1, <1>2, LowerBoundReaches DEF Reaches
<1>6. /\ At(heap, upper_bound(heap, n, k)) = First({l \in C : k < l})
      /\ IsPath(heap, n, upper_bound(heap, n, k))
  BY <1>1, <1>2, UpperBoundReaches DEF Reaches
<1>7. At(heap, find(heap, n, k)) = C \cap {k}
  BY <1>1, <1>2, FindReaches
<1>8. /\ At(heap, Predecessor(heap, n, lower_bound(heap, n, k))) = Latest({l \in C : l < k})
      /\ IsPath(heap, n, Predecessor(heap, n, lower_bound(heap, n, k)))
  BY <1>1, <1>2, PredecessorReaches
<1>9. C # {} => KeyOf(heap, Leftmost(heap, n)) = First(C)
  BY <1>1, LeftmostFirst
<1>10. \A stack \in {lower_bound(heap, n, k), upper_bound(heap, n, k),
                       Predecessor(heap, n, lower_bound(heap, n, k))} : Len(stack) <= heap[n].height
  BY <1>1, <1>5, <1>6, <1>8, PathFits
<1>11. /\ C = {Key(heap, a) : a \in Subtree(heap, n)}
       /\ \A s : At(heap, s) = IF s = << >> THEN {} ELSE {Key(heap, Last(s))}
       /\ \A a : KeyOf(heap, a) = IF isTerminator(a) THEN {} ELSE {Key(heap, a)}
       /\ \A S : First(S) = {l \in S : \A j \in S : l <= j}
       /\ \A S : Latest(S) = {l \in S : \A j \in S : j <= l}
  BY DEF Keys, At, KeyOf, First, Latest
<1> HIDE DEF C
<1> QED
  BY <1>3, <1>4, <1>5, <1>6, <1>7, <1>8, <1>9, <1>10, <1>11

(* So does every lookup and every step of an iterator yield the entry its  *)
(* comment promises (ImmutableMap.h).                                      *)
THEOREM TreesOperateRight == TreeSpec => []OperationsRight
<1>1. TreeInv => OperationsRight
  BY InvLookupsRight, InvUpdatesRight DEF OperationsRight
<1> QED
  BY <1>1, TreesInductive, PTL

-----------------------------------------------------------------------------
(* Refinement.                                                             *)

(* What trees and their iterator are as maps. *)

Contents(h, nd) == [m \in Maps |-> IF nd[m] = NoTree THEN NoTree ELSE Content(h, nd[m])]

From(h, n, s) == IF s = << >> THEN {} ELSE {x \in Content(h, n) : Key(h, Last(s)) <= x[1]}

RestOf(h, i) == IF i = NoIterator THEN NoIterator ELSE From(h, i.root, i.stack)

LEMMA ContentKeys ==
    ASSUME NEW h, NEW n
    PROVE  /\ \A x \in Content(h, n) : x[1] \in Keys(h, n)
           /\ \A l \in Keys(h, n) : \E x \in Content(h, n) : x[1] = l
BY DEF Content, Keys, Key

LEMMA FromFirst ==
    ASSUME NEW h, Heap(h), Shaped(h), NEW n \in DOMAIN h
    PROVE  From(h, n, Spine(h, n, "left")) = Content(h, n)
<1> DEFINE s == Spine(h, n, "left")
           C == Keys(h, n)
<1>1. C \subseteq Int /\ "right" \in Sides /\ Other("right") = "left"
  BY KeysInt DEF Sides, Other
<1>2. At(h, s) = Nearest("right", C) /\ (s = << >> <=> C = {})
  BY <1>1, SpineNearest
<1>3. \A x \in Content(h, n) : x[1] \in C
  BY ContentKeys
<1> HIDE DEF s, C
<1>4. At(h, s) = First(C)
  BY <1>1, <1>2, NearestIs
<1> QED
  BY <1>2, <1>3, <1>4 DEF From, At, First, s

LEMMA FromNext ==
    ASSUME NEW h, Heap(h), Shaped(h), NEW n \in DOMAIN h, NEW s, IsPath(h, n, s), s # << >>
    PROVE  LET k == Key(h, Last(s))
           IN  /\ From(h, n, Successor(h, s)) = {x \in From(h, n, s) : x[1] # k}
               /\ k \in Int
               /\ \E x \in From(h, n, s) : x[1] = k
               /\ \A x \in From(h, n, s) : k <= x[1] /\ x[1] \in Int
<1> DEFINE k == Key(h, Last(s))
           C == Keys(h, n)
           E == Content(h, n)
           b == Successor(h, s)
           X == {l \in C : k < l}
<1>1. Reaches(h, n, b, X) /\ k \in C /\ C \subseteq Int
  BY SuccessorReaches, KeysInt
<1>2. (\A x \in E : x[1] \in C) /\ (\A l \in C : \E x \in E : x[1] = l)
  BY ContentKeys
<1>3. From(h, n, s) = {x \in E : k <= x[1]}
  BY DEF From
<1>4. b # << >> => Key(h, Last(b)) \in X /\ \A j \in X : Key(h, Last(b)) <= j
  <2>1. X \subseteq Int
    BY <1>1
  <2> HIDE DEF X, b
  <2> QED
    BY <1>1, <2>1, ReachedFirst
<1>5. From(h, n, b) = {x \in E : k < x[1]}
  <2>1. CASE b = << >>
    <3>1. X = {}
      BY <1>1, <2>1 DEF Reaches
    <3>2. \A x \in E : ~ (k < x[1])
      BY <1>2, <3>1
    <3> QED
      BY <2>1, <3>2 DEF From
  <2>2. CASE b # << >>
    <3> DEFINE l == Key(h, Last(b))
    <3>1. l \in C /\ k < l /\ \A j \in C : k < j => l <= j
      BY <1>4, <2>2
    <3>2. From(h, n, b) = {x \in E : l <= x[1]}
      BY <2>2 DEF From
    <3> HIDE DEF l, k, C, E, b
    <3>3. ASSUME NEW x \in E
          PROVE  l <= x[1] <=> k < x[1]
      <4>1. x[1] \in C /\ x[1] \in Int /\ l \in Int /\ k \in Int
        BY <1>1, <1>2, <3>1
      <4>2. k < x[1] => l <= x[1]
        BY <3>1, <4>1
      <4>3. l <= x[1] => k < x[1]
        BY <3>1, <4>1
      <4> QED
        BY <4>2, <4>3
    <3> QED
      BY <3>2, <3>3
  <2> QED
    BY <2>1, <2>2
<1> HIDE DEF k, C, E, b
<1>6. ASSUME NEW x \in E
      PROVE  k < x[1] <=> (k <= x[1] /\ x[1] # k)
  <2>1. x[1] \in Int /\ k \in Int
    BY <1>1, <1>2
  <2> QED
    BY <2>1
<1>7. From(h, n, b) = {x \in From(h, n, s) : x[1] # k}
  BY <1>3, <1>5, <1>6
<1>8. \E x \in From(h, n, s) : x[1] = k
  BY <1>1, <1>2, <1>3
<1>9. \A x \in From(h, n, s) : k <= x[1] /\ x[1] \in Int
  BY <1>1, <1>2, <1>3
<1> QED
  BY <1>1, <1>7, <1>8, <1>9 DEF k, b

(* Contents are no constants. *)
LEMMA ContentsAreSets ==
    ASSUME TreeInv
    PROVE  /\ \A m \in Maps : node[m] # NoTree =>
                  /\ Contents(heap, node)[m] = Content(heap, node[m])
                  /\ Contents(heap, node)[m] # NoTree
           /\ \A m \in Maps : node[m] = NoTree => Contents(heap, node)[m] = NoTree
           /\ it # NoIterator => RestOf(heap, it) = From(heap, it.root, it.stack) /\ RestOf(heap, it) # NoIterator
<1>1. Handles(node, it) /\ Good(heap, External) /\ Heap(heap)
  BY DEF TreeInv, Good
<1>2. /\ \A m \in Maps : node[m] # NoTree => node[m] \in DOMAIN heap
      /\ it # NoIterator => it.root \in DOMAIN heap
  BY <1>1, HandlesThere DEF External
<1>3. \A n \in DOMAIN heap : Content(heap, n) \in SUBSET Entries
  BY <1>1, ContentDef
<1>4. \A c \in SUBSET Entries : NoTree # c /\ NoIterator # c
  BY TreeParameters
<1>5. it # NoIterator => From(heap, it.root, it.stack) \in SUBSET Entries
  BY <1>2, <1>3 DEF From
<1> QED
  BY <1>2, <1>3, <1>4, <1>5 DEF Contents, RestOf

(* What no action touches stays what it is. *)
LEMMA Untouched ==
    ASSUME TreeInv, TreeInv', Moves(heap, heap')
    PROVE  /\ \A m \in Maps : node'[m] = node[m] => Contents(heap', node')[m] = Contents(heap, node)[m]
           /\ \A m, n \in Maps : node[m] # NoTree /\ node'[n] = node[m] =>
                 Content(heap', node'[n]) = Content(heap, node[m])
           /\ it' = it => RestOf(heap', it') = RestOf(heap, it)
<1>1. Handles(node, it) /\ Good(heap, External) /\ Heap(heap)
  BY DEF TreeInv, Good
<1>2. /\ \A m \in Maps : node[m] # NoTree => node[m] \in DOMAIN heap
      /\ it # NoIterator => it.root \in DOMAIN heap
  BY <1>1, HandlesThere DEF External
<1>3. External' = ExternalOf(node', it')
  BY DEF External, ExternalOf, Walked
<1>4. Handles(node', it') /\ Good(heap', ExternalOf(node', it')) /\ Heap(heap')
  BY <1>3 DEF TreeInv, Good
<1>5. /\ \A m \in Maps : node'[m] # NoTree => node'[m] \in DOMAIN heap'
      /\ it' # NoIterator => it'.root \in DOMAIN heap'
  BY <1>4, HandlesThere
<1>6. ASSUME NEW m \in Maps, NEW n \in Maps, node[m] # NoTree, node'[n] = node[m]
      PROVE  Content(heap', node'[n]) = Content(heap, node[m])
  BY <1>1, <1>2, <1>4, <1>5, <1>6, MovesKeeps
<1>7. ASSUME NEW m \in Maps, node'[m] = node[m]
      PROVE  Contents(heap', node')[m] = Contents(heap, node)[m]
  <2>1. CASE node[m] = NoTree
    BY <1>7, <2>1 DEF Contents
  <2>2. CASE node[m] # NoTree
    BY <1>6, <1>7, <2>2 DEF Contents
  <2> QED
    BY <2>1, <2>2
<1>8. ASSUME it' = it
      PROVE  RestOf(heap', it') = RestOf(heap, it)
  <2>1. CASE it = NoIterator
    BY <1>8, <2>1 DEF RestOf
  <2>2. CASE it # NoIterator
    <3> DEFINE n == it.root
               s == it.stack
    <3>1. IsPath(heap, n, s) /\ IsPath(heap', n, s)
      BY <1>8, <2>2 DEF TreeInv
    <3>2. n \in DOMAIN heap /\ n \in DOMAIN heap'
      BY <1>2, <1>5, <1>8, <2>2
    <3> HIDE DEF n, s
    <3>3. Content(heap', n) = Content(heap, n)
      BY <1>1, <1>4, <3>2, MovesKeeps
    <3>4. s # << >> => Key(heap', Last(s)) = Key(heap, Last(s))
      <4> SUFFICES ASSUME s # << >> PROVE Key(heap', Last(s)) = Key(heap, Last(s))
        OBVIOUS
      <4>1. Last(s) \in DOMAIN heap /\ Last(s) \in DOMAIN heap'
        BY <3>1, LastNode
      <4>2. heap'[Last(s)].value = heap[Last(s)].value
        BY <1>1, <1>4, <4>1, MovesKeeps
      <4> QED
        BY <4>2 DEF Key
    <3>5. From(heap', n, s) = From(heap, n, s)
      BY <3>3, <3>4 DEF From
    <3> QED
      BY <1>8, <2>2, <3>5 DEF RestOf, n, s
  <2> QED
    BY <2>1, <2>2
<1> QED
  BY <1>6, <1>7, <1>8

(* An action that changes one tree. *)
LEMMA OneChanged ==
    ASSUME TreeInv, TreeInv', Moves(heap, heap'), it' = it,
           NEW m \in Maps, NEW x, node' = [node EXCEPT ![m] = x],
           NEW C, C = Contents(heap', node')[m]
    PROVE  /\ Contents(heap', node') = [Contents(heap, node) EXCEPT ![m] = C]
           /\ RestOf(heap', it') = RestOf(heap, it)
<1>1. \A n \in Maps \ {m} : node'[n] = node[n]
  BY DEF TreeInv, Handles
<1>2. \A n \in Maps \ {m} : Contents(heap', node')[n] = Contents(heap, node)[n]
  BY <1>1, Untouched
<1>3. DOMAIN Contents(heap, node) = Maps /\ DOMAIN Contents(heap', node') = Maps
      /\ Contents(heap, node) = [n \in Maps |-> Contents(heap, node)[n]]
      /\ Contents(heap', node') = [n \in Maps |-> Contents(heap', node')[n]]
  BY DEF Contents
<1>4. RestOf(heap', it') = RestOf(heap, it)
  BY Untouched
<1> DEFINE c == Contents(heap, node)
           d == Contents(heap', node')
<1> HIDE DEF c, d
<1>5. d = [c EXCEPT ![m] = C]
  BY <1>2, <1>3 DEF c, d
<1> QED
  BY <1>4, <1>5 DEF c, d

(* The actions of ImmutableMaps, on the contents of trees. *)
LEMMA MapsActions ==
    ASSUME NEW m \in Maps
    PROVE  LET c == Contents(heap, node)
               d == Contents(heap', node')
               r == RestOf(heap, it)
               q == RestOf(heap', it')
               becomes(C) == d = [c EXCEPT ![m] = C] /\ q = r
           IN  /\ AsMaps!construct(m) <=> c[m] = NoTree /\ becomes({})
               /\ \A n : AsMaps!copy(m, n) <=> c[m] = NoTree /\ c[n] # NoTree /\ becomes(c[n])
               /\ AsMaps!destroy(m) <=> c[m] # NoTree /\ becomes(NoTree)
               /\ \A e : AsMaps!insert(m, e) <=>
                     c[m] # NoTree /\ becomes(IF \E x \in c[m] : x[1] = e[1] THEN c[m] ELSE Others(c[m], e[1]) \cup {e})
               /\ \A e : AsMaps!replace(m, e) <=> c[m] # NoTree /\ becomes(Others(c[m], e[1]) \cup {e})
               /\ \A k : AsMaps!remove(m, k) <=> c[m] # NoTree /\ becomes(Others(c[m], k))
               /\ AsMaps!begin(m) <=> c[m] # NoTree /\ r = NoIterator /\ q = c[m] /\ d = c
BY DEF AsMaps!construct, AsMaps!copy, AsMaps!destroy, AsMaps!insert, AsMaps!replace, AsMaps!remove,
       AsMaps!begin, AsMaps!Assign, AsMaps!NoEntries, AsMaps!With, AsMaps!Without,
       Contents, RestOf, From, Rest, Others

LEMMA MapsIterator ==
    LET c == Contents(heap, node)
        d == Contents(heap', node')
        r == RestOf(heap, it)
        q == RestOf(heap', it')
    IN  /\ AsMaps!advance <=> r \notin {NoIterator, {}} /\ q = Others(r, AsMaps!Least(r)) /\ d = c
        /\ AsMaps!finish <=> r # NoIterator /\ q = NoIterator /\ d = c
BY DEF AsMaps!advance, AsMaps!finish, AsMaps!NoEntries, AsMaps!Without,
       Contents, RestOf, From, Rest, Others

(* Iterators are no constants either. *)
LEMMA PathIterator ==
    ASSUME NEW h, Heap(h), NEW n \in DOMAIN h, NEW s, IsPath(h, n, s)
    PROVE  [root |-> n, stack |-> s] # NoIterator
<1>1. s \in Seq(DOMAIN h \ {Terminator}) /\ DOMAIN h \ {Terminator} \in SUBSET Nat /\ n \in Nat
  BY DEF IsPath, Heap
<1>2. s \in Seq(Nat)
  BY <1>1, SeqSubset
<1> QED
  BY <1>1, <1>2, TreeParameters

LEMMA MapsStep ==
    ASSUME TreeInv, TreeInv', TreeNext, Moves(heap, heap')
    PROVE  AsMaps!Next
<1> DEFINE c == Contents(heap, node)
           d == Contents(heap', node')
<1>1. /\ \A m \in Maps : node[m] # NoTree => c[m] = Content(heap, node[m]) /\ c[m] # NoTree
      /\ \A m \in Maps : node[m] = NoTree => c[m] = NoTree
      /\ it # NoIterator => RestOf(heap, it) = From(heap, it.root, it.stack) /\ RestOf(heap, it) # NoIterator
      /\ it = NoIterator => RestOf(heap, it) = NoIterator
  BY ContentsAreSets DEF RestOf
<1>2. /\ Handles(node, it) /\ Good(heap, External) /\ Heap(heap) /\ Shaped(heap)
      /\ Heap(heap') /\ Shaped(heap')
  BY DEF TreeInv, Good
<1>3. /\ \A m \in Maps : node[m] # NoTree => node[m] \in DOMAIN heap
      /\ it # NoIterator => it.root \in DOMAIN heap
  BY <1>2, HandlesThere DEF External
<1>4. \A m \in Maps : d[m] = IF node'[m] = NoTree THEN NoTree ELSE Content(heap', node'[m])
  BY DEF Contents
<1>5. ASSUME NEW m \in Maps, NEW x, node' = [node EXCEPT ![m] = x]
      PROVE  node'[m] = x
  BY <1>2, <1>5 DEF Handles
<1>6. NoTree \notin Nat
  BY TreeParameters
<1>7. ASSUME NEW m \in Maps, construct(m)
      PROVE  AsMaps!construct(m)
  <2>1. node[m] = NoTree /\ node' = [node EXCEPT ![m] = Terminator] /\ it' = it
    BY <1>7 DEF construct
  <2>2. d[m] = {}
    <3>1. node'[m] = Terminator /\ Terminator # NoTree
      <4>1. node'[m] = Terminator
        BY <1>5, <2>1
      <4>2. Terminator # NoTree
        BY <1>6 DEF Terminator
      <4> QED
        BY <4>1, <4>2
    <3>2. Content(heap', Terminator) = {}
      BY <1>2, ContentDef DEF Heap
    <3> QED
      BY <1>4, <3>1, <3>2
  <2>3. d = [c EXCEPT ![m] = {}] /\ RestOf(heap', it') = RestOf(heap, it)
    BY <2>1, <2>2, OneChanged
  <2> QED
    BY <1>1, <2>1, <2>3, MapsActions
<1>8. ASSUME NEW m \in Maps, NEW n \in Maps, copy(m, n)
      PROVE  AsMaps!copy(m, n)
  <2>1. node[m] = NoTree /\ node[n] # NoTree /\ node' = [node EXCEPT ![m] = node[n]] /\ it' = it
    BY <1>8 DEF copy
  <2>2. d[m] = c[n]
    <3>1. node'[m] = node[n]
      BY <1>5, <2>1
    <3>2. Content(heap', node'[m]) = Content(heap, node[n])
      BY <2>1, <3>1, Untouched
    <3> QED
      BY <1>1, <1>4, <2>1, <3>1, <3>2
  <2>3. d = [c EXCEPT ![m] = c[n]] /\ RestOf(heap', it') = RestOf(heap, it)
    BY <2>1, <2>2, OneChanged
  <2> QED
    BY <1>1, <2>1, <2>3, MapsActions
<1>9. ASSUME NEW m \in Maps, destroy(m)
      PROVE  AsMaps!destroy(m)
  <2>1. node[m] # NoTree /\ node' = [node EXCEPT ![m] = NoTree] /\ it' = it
    BY <1>9 DEF destroy
  <2>2. d[m] = NoTree
    BY <1>4, <1>5, <2>1
  <2>3. d = [c EXCEPT ![m] = NoTree] /\ RestOf(heap', it') = RestOf(heap, it)
    BY <2>1, <2>2, OneChanged
  <2> QED
    BY <1>1, <2>1, <2>3, MapsActions
<1>10. ASSUME NEW m \in Maps, node[m] # NoTree, NEW r, NEW C, NEW by,
              Result(heap, External, node[m], r, C, by), Assign(m, r)
       PROVE  d = [c EXCEPT ![m] = C] /\ RestOf(heap', it') = RestOf(heap, it)
  <2>1. node' = [node EXCEPT ![m] = r.node] /\ it' = it
    BY <1>10 DEF Assign
  <2>2. Content(heap', node'[m]) = C
    BY <1>10, AssignStep
  <2>3. node'[m] # NoTree
    <3>1. node'[m] = r.node /\ r.node \in Nat
      BY <1>5, <1>10, <2>1 DEF Result
    <3> QED
      BY <1>6, <3>1
  <2>4. d[m] = C
    BY <1>4, <2>2, <2>3
  <2> QED
    BY <2>1, <2>4, OneChanged
<1>11. ASSUME NEW m \in Maps, NEW e \in Entries, insert(m, e)
       PROVE  AsMaps!insert(m, e)
  <2> DEFINE C == Content(heap, node[m])
             D == WithEntry(C, e, FALSE)
  <2>1. node[m] # NoTree /\ Assign(m, Put(heap, node[m], e, FALSE))
    BY <1>11 DEF insert, insertAt
  <2>2. Result(heap, External, node[m], Put(heap, node[m], e, FALSE), D, 0)
    BY <1>2, <1>3, <2>1, PutResult
  <2>3. d = [c EXCEPT ![m] = D] /\ RestOf(heap', it') = RestOf(heap, it)
    BY <1>10, <2>1, <2>2
  <2>4. c[m] = C /\ c[m] # NoTree
    BY <1>1, <2>1
  <2>5. D = IF \E x \in C : x[1] = e[1] THEN C ELSE Others(C, e[1]) \cup {e}
    BY DEF WithEntry, Others
  <2> HIDE DEF C, D, c, d
  <2>6. D = IF \E x \in c[m] : x[1] = e[1] THEN c[m] ELSE Others(c[m], e[1]) \cup {e}
    BY <2>4, <2>5
  <2> QED
    BY <2>3, <2>4, <2>6, MapsActions DEF c, d
<1>12. ASSUME NEW m \in Maps, NEW e \in Entries, replace(m, e)
       PROVE  AsMaps!replace(m, e)
  <2> DEFINE C == Content(heap, node[m])
             D == WithEntry(C, e, TRUE)
  <2>1. node[m] # NoTree /\ Assign(m, Put(heap, node[m], e, TRUE))
    BY <1>12 DEF replace, replaceAt
  <2>2. Result(heap, External, node[m], Put(heap, node[m], e, TRUE), D, 0)
    BY <1>2, <1>3, <2>1, PutResult
  <2>3. d = [c EXCEPT ![m] = D] /\ RestOf(heap', it') = RestOf(heap, it)
    BY <1>10, <2>1, <2>2
  <2>4. c[m] = C /\ c[m] # NoTree
    BY <1>1, <2>1
  <2>5. D = Others(C, e[1]) \cup {e}
    BY DEF WithEntry
  <2> HIDE DEF C, D, c, d
  <2>6. D = Others(c[m], e[1]) \cup {e}
    BY <2>4, <2>5
  <2> QED
    BY <2>3, <2>4, <2>6, MapsActions DEF c, d
<1>13. ASSUME NEW m \in Maps, NEW k \in SomeKeys, remove(m, k)
       PROVE  \E e \in Entries : AsMaps!remove(m, e[1])
  <2> DEFINE C == Content(heap, node[m])
             D == Others(C, k)
  <2>1. node[m] # NoTree /\ Assign(m, removeAt(heap, node[m], k))
    BY <1>13 DEF remove
  <2>2. Result(heap, External, node[m], removeAt(heap, node[m], k), D, -1)
    <3>1. k \in Int
      BY TreeParameters DEF SomeKeys
    <3> QED
      BY <1>2, <1>3, <2>1, <3>1, RemoveResult
  <2>3. d = [c EXCEPT ![m] = D] /\ RestOf(heap', it') = RestOf(heap, it)
    BY <1>10, <2>1, <2>2
  <2>4. c[m] = C /\ c[m] # NoTree
    BY <1>1, <2>1
  <2>5. PICK e \in Entries : k = e[1]
    BY DEF SomeKeys
  <2> HIDE DEF C, c, d
  <2>6. AsMaps!remove(m, k)
    BY <2>3, <2>4, MapsActions DEF c, d
  <2> QED
    BY <2>5, <2>6
<1>14. ASSUME node' = node
       PROVE  d = c
  <2>1. \A m \in Maps : d[m] = c[m]
    BY <1>14, Untouched
  <2>2. c = [m \in Maps |-> c[m]] /\ d = [m \in Maps |-> d[m]]
    BY DEF Contents
  <2> HIDE DEF c, d
  <2> QED
    BY <2>1, <2>2
<1>15. ASSUME NEW m \in Maps, begin(m)
       PROVE  AsMaps!begin(m)
  <2> DEFINE n == node[m]
             s == Spine(heap, n, "left")
  <2>1. n # NoTree /\ it = NoIterator /\ node' = node /\ it' = [root |-> n, stack |-> s]
        /\ heap' = incref(heap, n)
    BY <1>15 DEF begin
  <2>2. n \in DOMAIN heap
    BY <1>3, <2>1
  <2>3. From(heap, n, s) = Content(heap, n)
    BY <1>2, <2>2, FromFirst
  <2>4. From(heap', n, s) = From(heap, n, s)
    <3>1. IsPath(heap, n, s)
      BY <1>2, <2>2, SpinePath
    <3>2. n \in DOMAIN heap'
      BY <2>1, <2>2 DEF incref
    <3>3. Content(heap', n) = Content(heap, n)
      BY <1>2, <2>2, <3>2, MovesKeeps
    <3>4. s # << >> => Key(heap', Last(s)) = Key(heap, Last(s))
      <4> SUFFICES ASSUME s # << >> PROVE Key(heap', Last(s)) = Key(heap, Last(s))
        OBVIOUS
      <4>1. Last(s) \in DOMAIN heap
        BY <3>1, LastNode
      <4>2. Last(s) \in DOMAIN heap'
        BY <2>1, <4>1 DEF incref
      <4>3. heap'[Last(s)].value = heap[Last(s)].value
        BY <1>2, <4>1, <4>2, MovesKeeps
      <4> QED
        BY <4>3 DEF Key
    <3> HIDE DEF s, n
    <3> QED
      BY <3>3, <3>4 DEF From
  <2>5. it' # NoIterator
    BY <1>2, <2>1, <2>2, SpinePath, PathIterator
  <2>6. RestOf(heap', it') = c[m]
    <3>1. it'.root = n /\ it'.stack = s
      BY <2>1
    <3>2. c[m] = Content(heap, n)
      BY <1>1, <2>1
    <3> HIDE DEF c, n, s
    <3> QED
      BY <2>3, <2>4, <2>5, <3>1, <3>2 DEF RestOf
  <2>7. c[m] # NoTree /\ RestOf(heap, it) = NoIterator
    BY <1>1, <2>1
  <2> QED
    BY <1>14, <2>1, <2>6, <2>7, MapsActions
<1>16. ASSUME advance
       PROVE  AsMaps!advance
  <2> DEFINE n == it.root
             s == it.stack
             t == Successor(heap, s)
             k == Key(heap, Last(s))
             r == From(heap, n, s)
  <2>1. it # NoIterator /\ s # << >> /\ it' = [it EXCEPT !.stack = t] /\ heap' = heap /\ node' = node
    BY <1>16 DEF advance
  <2>2. IsPath(heap, n, s) /\ n \in DOMAIN heap
    BY <1>3, <2>1 DEF TreeInv
  <2>3. /\ From(heap, n, t) = {x \in r : x[1] # k}
        /\ k \in Int
        /\ \E x \in r : x[1] = k
        /\ \A x \in r : k <= x[1] /\ x[1] \in Int
    <3> HIDE DEF n, s, k, t, r
    <3> QED
      BY <1>2, <2>1, <2>2, FromNext DEF k, t, r
  <2>4. RestOf(heap, it) = r /\ r # NoIterator
    BY <1>1, <2>1
  <2>5. it'.root = n /\ it'.stack = t /\ it' # NoIterator
    <3>1. it \in Iterators
      BY <1>2, <2>1 DEF Handles
    <3>2. it'.root = n /\ it'.stack = t
      BY <2>1, <3>1 DEF Iterators
    <3>3. it' = [root |-> n, stack |-> t]
      BY <2>1, <3>1 DEF Iterators
    <3>4. [root |-> n, stack |-> t] # NoIterator
      BY <1>2, <2>1, <2>2, SuccessorPath, PathIterator
    <3> QED
      BY <3>2, <3>3, <3>4
  <2>6. RestOf(heap', it') = From(heap, n, t)
    BY <2>1, <2>5 DEF RestOf
  <2> HIDE DEF r, k, t, s, n, c, d
  <2>7. AsMaps!Least(r) = k
    <3>1. k \in {x[1] : x \in r} /\ \A x \in r : k <= x[1]
      BY <2>3
    <3>2. \A l \in {x[1] : x \in r} : (\A x \in r : l <= x[1]) => l = k
      BY <2>3, <3>1
    <3> QED
      BY <3>1, <3>2 DEF AsMaps!Least
  <2>8. From(heap, n, t) = Others(r, AsMaps!Least(r))
    BY <2>3, <2>7 DEF Others
  <2>9. r # {}
    BY <2>3
  <2>10. d = c
    BY <1>14, <2>1
  <2> QED
    BY <2>4, <2>6, <2>8, <2>9, <2>10, MapsIterator DEF c, d
<1>17. ASSUME finish
       PROVE  AsMaps!finish
  <2>1. it # NoIterator /\ it' = NoIterator /\ node' = node
    BY <1>17 DEF finish
  <2>2. RestOf(heap, it) # NoIterator /\ RestOf(heap', it') = NoIterator
    BY <1>1, <2>1 DEF RestOf
  <2> QED
    BY <1>14, <2>1, <2>2, MapsIterator
<1> HIDE DEF c, d
<1>18. CASE advance \/ finish
  BY <1>16, <1>17, <1>18 DEF AsMaps!Next
<1>19. ASSUME NEW m \in Maps,
              \/ construct(m) \/ destroy(m) \/ begin(m)
              \/ \E n \in Maps : copy(m, n)
              \/ \E e \in Entries : insert(m, e) \/ replace(m, e)
              \/ \E k \in SomeKeys : remove(m, k)
       PROVE  AsMaps!Next
  <2>1. \/ AsMaps!construct(m) \/ AsMaps!destroy(m) \/ AsMaps!begin(m)
        \/ \E n \in Maps : AsMaps!copy(m, n)
        \/ \E e \in Entries : AsMaps!insert(m, e) \/ AsMaps!replace(m, e) \/ AsMaps!remove(m, e[1])
    BY <1>7, <1>8, <1>9, <1>11, <1>12, <1>13, <1>15, <1>19
  <2> QED
    BY <2>1 DEF AsMaps!Next
<1> QED
  BY <1>18, <1>19 DEF TreeNext

LEMMA MapsInit ==
    ASSUME TreeInit
    PROVE  AsMaps!Init
<1>1. it = NoIterator /\ \A m \in Maps : node[m] = NoTree
  BY DEF TreeInit
<1> QED
  BY <1>1 DEF AsMaps!Init

(* Whatever a program does with its trees, they are maps that are values,  *)
(* and what it iterates over is the map as it was: TreeSpec implements     *)
(* ImmutableMaps.                                                          *)
THEOREM TreesAreMaps == TreeSpec => MapsSpec /\ AsMaps!Spec
<1>1. TreeInit => AsMaps!Init
  BY MapsInit
<1>2. TreeInv /\ TreeInv' /\ [TreeNext]_treeVars => UNCHANGED treeVars \/ AsMaps!Next
  BY TreeStep, MapsStep
<1>3. UNCHANGED treeVars => UNCHANGED AsMaps!vars
  BY DEF treeVars, AsMaps!vars, Rest
<1>4. TreeInv /\ TreeInv' /\ [TreeNext]_treeVars => [UNCHANGED treeVars \/ AsMaps!Next]_(AsMaps!vars)
  BY <1>2
<1>5. TreeInv /\ TreeInv' /\ [TreeNext]_treeVars => [AsMaps!Next]_(AsMaps!vars)
  BY <1>2, <1>3
<1> QED
  BY <1>1, <1>4, <1>5, TreesInductive, PTL DEF TreeSpec, MapsSpec, AsMaps!Spec
=============================================================================
