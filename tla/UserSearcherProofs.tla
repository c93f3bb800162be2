------------------------- MODULE UserSearcherProofs -------------------------
(***************************************************************************)
(* The layers of searchers implement the one searcher of StateScheduler,   *)
(* and hold what they have to, for any number of states, whatever is       *)
(* killed, seeded and halted, and for every combination of the options but *)
(* those named (NeverStale, NeverAlone), for which it is not true.         *)
(*                                                                         *)
(* The state selected is one the searcher holds only if the pointers the   *)
(* layers keep are to states it holds: BatchingSearcher's lastState, which *)
(* has to be in the layer below (LastHeld), and the leaves of the process  *)
(* tree, whose states have to be those that exist (TreeInv) and, since a   *)
(* RandomPathSearcher cannot leave one out, to be in the searcher without  *)
(* exception (WalkHeld), so none may wait in a merge region.               *)
(***************************************************************************)
EXTENDS UserSearcher, StateSchedulerProofs

-----------------------------------------------------------------------------
(* Paths in a binary tree, and their prefixes.                             *)
Turns == {"left", "right"}

Paths == Seq(Turns)

IsPathPrefix(m, n) == Len(m) <= Len(n) /\ \A i \in 1 .. Len(m) : m[i] = n[i]

LEMMA PrefixIs ==
    ASSUME NEW m \in Paths, NEW n \in Paths
    PROVE  ProcessTree!IsPrefix(m, n) <=> IsPathPrefix(m, n)
<1>1. CASE Len(m) <= Len(n)
  <2> DEFINE p == SubSeq(m, 1, Len(m))
             q == SubSeq(n, 1, Len(m))
  <2>1. /\ p \in Seq(Turns) /\ q \in Seq(Turns) /\ Len(p) = Len(m) /\ Len(q) = Len(m)
        /\ \A i \in 1 .. Len(m) : p[i] = m[i] /\ q[i] = n[i]
    BY <1>1 DEF Paths
  <2> HIDE DEF p, q
  <2>2. p = q <=> \A i \in 1 .. Len(m) : m[i] = n[i]
    <3>1. ASSUME \A i \in 1 .. Len(m) : m[i] = n[i] PROVE p = q
      BY <2>1, <3>1, SeqEqual
    <3> QED
      BY <2>1, <3>1
  <2> QED
    BY <1>1, <2>2 DEF ProcessTree!IsPrefix, IsPathPrefix, p, q
<1>2. CASE ~(Len(m) <= Len(n))
  BY <1>2 DEF ProcessTree!IsPrefix, IsPathPrefix
<1> QED
  BY <1>1, <1>2

LEMMA ChildIs ==
    ASSUME NEW n \in Paths, NEW c \in {ProcessTree!Left(n), ProcessTree!Right(n)}
    PROVE  c \in Paths /\ Len(c) = Len(n) + 1 /\ IsPathPrefix(n, c)
  BY DEF ProcessTree!Left, ProcessTree!Right, Paths, Turns, IsPathPrefix

(* The children of two nodes differ, and so do the two of one node. *)
LEMMA ChildrenDiffer ==
    ASSUME NEW m \in Paths, NEW n \in Paths
    PROVE  /\ ProcessTree!Left(m) # ProcessTree!Right(n)
           /\ ProcessTree!Left(m) = ProcessTree!Left(n) => m = n
           /\ ProcessTree!Right(m) = ProcessTree!Right(n) => m = n
<1>1. \A t, u \in Turns : Append(m, t) = Append(n, u) => m = n /\ t = u
  <2> SUFFICES ASSUME NEW t \in Turns, NEW u \in Turns, Append(m, t) = Append(n, u)
               PROVE  m = n /\ t = u
    OBVIOUS
  <2>1. /\ Len(m) \in Nat /\ Len(n) \in Nat
        /\ Len(Append(m, t)) = Len(m) + 1 /\ Len(Append(n, u)) = Len(n) + 1
        /\ Append(m, t)[Len(m) + 1] = t /\ Append(n, u)[Len(n) + 1] = u
        /\ \A i \in 1 .. Len(m) : Append(m, t)[i] = m[i]
        /\ \A i \in 1 .. Len(n) : Append(n, u)[i] = n[i]
    BY DEF Paths
  <2>2. Len(m) = Len(n)
    BY <2>1
  <2>3. \A i \in 1 .. Len(m) : m[i] = n[i]
    BY <2>1, <2>2
  <2>4. m = n
    BY <2>2, <2>3, SeqEqual DEF Paths
  <2> QED
    BY <2>1, <2>2, <2>4
<1>2. "left" \in Turns /\ "right" \in Turns /\ "left" # "right"
  BY DEF Turns
<1> QED
  BY <1>1, <1>2 DEF ProcessTree!Left, ProcessTree!Right

(* A set of nodes with those above them, and the node below m towards k.   *)
Closed(nodes) ==
    /\ nodes \subseteq Paths /\ << >> \in nodes
    /\ \A k \in nodes : \A i \in 0 .. Len(k) : SubSeq(k, 1, i) \in nodes

LEMMA PrefixInside ==
    ASSUME NEW nodes, Closed(nodes), NEW k \in nodes, NEW m \in Paths, IsPathPrefix(m, k)
    PROVE  m \in nodes
<1>1. k \in Paths /\ Len(m) \in 0 .. Len(k)
  BY DEF Closed, IsPathPrefix, Paths
<1> DEFINE p == SubSeq(k, 1, Len(m))
<1>2. p \in nodes
  BY <1>1 DEF Closed
<1>3. p \in Seq(Turns) /\ Len(p) = Len(m) /\ \A i \in 1 .. Len(m) : p[i] = k[i]
  BY <1>1 DEF Paths
<1> HIDE DEF p
<1>4. p = m
  BY <1>3, SeqEqual DEF IsPathPrefix, Paths
<1> QED
  BY <1>2, <1>4

LEMMA Towards ==
    ASSUME NEW nodes, Closed(nodes), NEW k \in nodes, NEW m \in Paths, IsPathPrefix(m, k), m # k
    PROVE  \E c \in {ProcessTree!Left(m), ProcessTree!Right(m)} : c \in nodes /\ IsPathPrefix(c, k)
<1>1. k \in Paths
  BY DEF Closed
<1>2. Len(m) < Len(k)
  <2>1. Len(m) <= Len(k) /\ Len(m) \in Nat /\ Len(k) \in Nat
    BY <1>1 DEF IsPathPrefix, Paths
  <2>2. CASE Len(m) = Len(k)
    BY <1>1, <2>2, SeqEqual DEF IsPathPrefix, Paths
  <2> QED
    BY <2>1, <2>2
<1> DEFINE t == k[Len(m) + 1]
           c == Append(m, t)
<1>3. t \in Turns
  BY <1>1, <1>2 DEF Paths
<1>4. c \in Paths /\ IsPathPrefix(c, k)
  <2>1. c \in Seq(Turns) /\ Len(c) = Len(m) + 1 /\ c[Len(m) + 1] = t
        /\ \A i \in 1 .. Len(m) : c[i] = m[i]
    BY <1>3 DEF Paths
  <2> HIDE DEF c
  <2>2. Len(c) <= Len(k) /\ \A i \in 1 .. Len(c) : c[i] = k[i]
    BY <1>1, <1>2, <2>1 DEF IsPathPrefix, Paths
  <2> QED
    BY <2>1, <2>2 DEF IsPathPrefix, Paths
<1>5. c \in {ProcessTree!Left(m), ProcessTree!Right(m)}
  BY <1>3 DEF Turns, ProcessTree!Left, ProcessTree!Right
<1> HIDE DEF c
<1> QED
  BY <1>4, <1>5, PrefixInside

-----------------------------------------------------------------------------
(* PTree::attach and PTree::remove. *)
Leaves(tr) == {n \in DOMAIN tr : ProcessTree!Children(tr, n) = {}}

(* The states S are at the leaves of tr, state s at node at[s].            *)
Hangs(tr, S, at) ==
    /\ Closed(DOMAIN tr)
    /\ S # {} =>
          /\ Leaves(tr) = {at[s] : s \in S}
          /\ \A s \in S : tr[at[s]] = s
          /\ \A n \in DOMAIN tr \ Leaves(tr) : tr[n] = NoState

(* Below a leaf there is nothing. *)
LEMMA LeafIsLast ==
    ASSUME NEW tr, Closed(DOMAIN tr), NEW n \in Leaves(tr), NEW k \in DOMAIN tr, IsPathPrefix(n, k)
    PROVE  k = n
<1>1. n \in Paths /\ n \in DOMAIN tr
  BY DEF Leaves, Closed
<1>2. CASE n # k
  BY <1>1, <1>2, Towards DEF Leaves, ProcessTree!Children
<1> QED
  BY <1>2

(* A fork: the leaf of s becomes an inner node, with a leaf for each of    *)
(* the two states.                                                         *)
LEMMA AttachHangs ==
    ASSUME NEW tr, NEW S \in SUBSET States, NEW at \in [States -> Paths], Hangs(tr, S, at),
           NEW s \in S, NEW t \in States \ S, NEW l \in {s, t}, NEW r \in {s, t}, l # r,
           NEW at2 \in [States -> Paths],
           at2[l] = ProcessTree!Left(at[s]), at2[r] = ProcessTree!Right(at[s]),
           \A x \in States \ {s, t} : at2[x] = at[x]
    PROVE  Hangs(ProcessTree!attach(tr, at[s], l, r), S \cup {t}, at2)
<1> DEFINE n == at[s]
           L == ProcessTree!Left(n)
           R == ProcessTree!Right(n)
           tr2 == ProcessTree!attach(tr, n, l, r)
<1>1. n \in Leaves(tr) /\ n \in Paths /\ n \in DOMAIN tr /\ DOMAIN tr \subseteq Paths
  BY DEF Hangs, Leaves, Closed
<1>2. /\ L \in Paths /\ R \in Paths /\ L # R /\ L # n /\ R # n
      /\ L \notin DOMAIN tr /\ R \notin DOMAIN tr
  <2>1. L \in Paths /\ R \in Paths /\ L # R
    BY <1>1, ChildIs, ChildrenDiffer
  <2>2. L \notin DOMAIN tr /\ R \notin DOMAIN tr
    BY <1>1 DEF Leaves, ProcessTree!Children
  <2> QED
    BY <2>1, <2>2, <1>1
<1>3. /\ DOMAIN tr2 = DOMAIN tr \cup {L, R}
      /\ tr2[n] = NoState /\ tr2[L] = l /\ tr2[R] = r
      /\ \A m \in DOMAIN tr \ {n} : tr2[m] = tr[m]
  BY <1>1, <1>2 DEF ProcessTree!attach
<1>4. Closed(DOMAIN tr2)
  <2>1. << >> \in DOMAIN tr2 /\ DOMAIN tr2 \subseteq Paths
    BY <1>1, <1>2, <1>3 DEF Hangs, Closed
  <2>2. ASSUME NEW k \in DOMAIN tr2, NEW i \in 0 .. Len(k)
        PROVE  SubSeq(k, 1, i) \in DOMAIN tr2
    <3>1. CASE k \in DOMAIN tr
      BY <1>3, <2>2, <3>1 DEF Hangs, Closed
    <3>2. CASE k \in {L, R}
      <4>1. k \in Paths /\ Len(k) = Len(n) + 1 /\ IsPathPrefix(n, k)
        BY <1>1, <3>2, ChildIs
      <4> DEFINE p == SubSeq(k, 1, i)
      <4>2. CASE i = Len(k)
        <5>1. p \in Seq(Turns) /\ Len(p) = Len(k) /\ \A j \in 1 .. Len(k) : p[j] = k[j]
          BY <4>1, <4>2 DEF Paths
        <5> HIDE DEF p
        <5>2. p = k
          BY <5>1, <4>1, SeqEqual DEF Paths
        <5> QED
          BY <5>2, <2>2 DEF p
      <4>3. CASE i # Len(k)
        <5>1. i \in 0 .. Len(n) /\ Len(n) \in Nat
          BY <1>1, <4>1, <4>3, <2>2 DEF Paths
        <5>2. p \in Seq(Turns) /\ Len(p) = i /\ \A j \in 1 .. i : p[j] = k[j]
          BY <4>1, <5>1 DEF Paths
        <5> HIDE DEF p
        <5>3. IsPathPrefix(p, n) /\ p \in Paths
          <6> HIDE DEF n
          <6>1. i \in Nat /\ i <= Len(n) /\ \A j \in 1 .. i : j \in 1 .. Len(n)
            BY <5>1
          <6>2. \A j \in 1 .. Len(n) : n[j] = k[j]
            BY <4>1 DEF IsPathPrefix
          <6>3. \A j \in 1 .. i : p[j] = n[j]
            BY <5>2, <6>1, <6>2
          <6> QED
            BY <5>2, <6>1, <6>3 DEF IsPathPrefix, Paths
        <5>4. p \in DOMAIN tr
          BY <5>3, <1>1, PrefixInside DEF Hangs
        <5> QED
          BY <5>4, <1>3 DEF p
      <4> QED
        BY <4>2, <4>3
    <3> QED
      BY <3>1, <3>2, <1>3
  <2> QED
    BY <2>1, <2>2 DEF Closed
<1>5. Leaves(tr2) = (Leaves(tr) \ {n}) \cup {L, R}
  <2>1. ASSUME NEW m \in DOMAIN tr, m # n
        PROVE  m \in Leaves(tr2) <=> m \in Leaves(tr)
    <3>1. {ProcessTree!Left(m), ProcessTree!Right(m)} \cap {L, R} = {}
      BY <1>1, <2>1, ChildrenDiffer
    <3> QED
      BY <3>1, <1>3 DEF Leaves, ProcessTree!Children
  <2>2. n \notin Leaves(tr2)
    BY <1>3 DEF Leaves, ProcessTree!Children
  <2>3. ASSUME NEW m \in {L, R}
        PROVE  m \in Leaves(tr2)
    <3>1. m \in Paths /\ Len(m) = Len(n) + 1 /\ m \notin DOMAIN tr
      BY <1>1, <1>2, ChildIs
    <3>2. ASSUME NEW c \in {ProcessTree!Left(m), ProcessTree!Right(m)}
          PROVE  c \notin DOMAIN tr2
      <4>1. c \in Paths /\ Len(c) = Len(m) + 1 /\ IsPathPrefix(m, c)
        BY <3>1, ChildIs
      <4>2. c \notin DOMAIN tr
        BY <3>1, <4>1, PrefixInside DEF Hangs
      <4>3. c \notin {L, R}
        <5>1. Len(L) = Len(n) + 1 /\ Len(R) = Len(n) + 1
          BY <1>1, ChildIs
        <5>2. Len(n) \in Nat
          <6> HIDE DEF n
          <6> QED
            BY <1>1 DEF Paths
        <5> HIDE DEF n, L, R
        <5> QED
          BY <5>1, <5>2, <4>1, <3>1
      <4> QED
        BY <4>2, <4>3, <1>3
    <3>3. m \in DOMAIN tr2
      BY <1>3
    <3> QED
      BY <3>2, <3>3 DEF Leaves, ProcessTree!Children
  <2>4. Leaves(tr2) \subseteq DOMAIN tr \cup {L, R} /\ Leaves(tr) \subseteq DOMAIN tr
    BY <1>3 DEF Leaves
  <2> HIDE DEF L, R, tr2, n
  <2> QED
    BY <2>1, <2>2, <2>3, <2>4
<1>6. at2[l] = L /\ at2[r] = R
  OBVIOUS
<1>7. {l, r} = {s, t}
  OBVIOUS
<1>8. /\ Leaves(tr) = {at[x] : x \in S}
      /\ \A x \in S : tr[at[x]] = x
      /\ \A m \in DOMAIN tr \ Leaves(tr) : tr[m] = NoState
  BY DEF Hangs
<1>9. \A x \in S \ {s} : at[x] # n
  BY <1>8
<1> HIDE DEF n, L, R, tr2
<1>10. Leaves(tr2) = {at2[x] : x \in S \cup {t}}
  <2>1. ASSUME NEW x \in S \cup {t} PROVE at2[x] \in Leaves(tr2)
    BY <2>1, <1>5, <1>6, <1>7, <1>8, <1>9
  <2>2. ASSUME NEW m \in Leaves(tr2) PROVE \E x \in S \cup {t} : m = at2[x]
    <3>1. CASE m \in {L, R}
      BY <3>1, <1>6, <1>7
    <3>2. CASE m \in Leaves(tr) \ {n}
      <4>1. PICK x \in S : m = at[x]
        BY <3>2, <1>8
      <4>2. x # s /\ x # t
        BY <4>1, <3>2 DEF n
      <4> QED
        BY <4>1, <4>2, <1>6
    <3> QED
      BY <3>1, <3>2, <1>5
  <2> QED
    BY <2>1, <2>2
<1>11. \A x \in S \cup {t} : tr2[at2[x]] = x
  <2>1. ASSUME NEW x \in S \ {s} PROVE tr2[at2[x]] = x
    <3>1. at2[x] = at[x] /\ at[x] \in DOMAIN tr \ {n}
      BY <1>6, <1>8, <1>9 DEF Leaves
    <3> QED
      BY <3>1, <1>3, <1>8
  <2> QED
    BY <2>1, <1>3, <1>6, <1>7
<1>12. \A m \in DOMAIN tr2 \ Leaves(tr2) : tr2[m] = NoState
  <2>1. ASSUME NEW m \in DOMAIN tr2 \ Leaves(tr2) PROVE tr2[m] = NoState
    <3>1. m \in DOMAIN tr /\ (m = n \/ m \notin Leaves(tr))
      BY <1>3, <1>5
    <3> QED
      BY <3>1, <1>3, <1>8
  <2> QED
    BY <2>1
<1> QED
  BY <1>4, <1>10, <1>11, <1>12 DEF Hangs, tr2, n

LEMMA PrefixTransitive ==
    ASSUME NEW a \in Paths, NEW b \in Paths, NEW c \in Paths, IsPathPrefix(a, b), IsPathPrefix(b, c)
    PROVE  IsPathPrefix(a, c)
  BY DEF IsPathPrefix, Paths

(* The nodes remove frees: those above n, with n, that only lead to n.     *)
Emptied(tr, n) ==
    {m \in DOMAIN tr \ {<< >>} :
        IsPathPrefix(m, n) /\ \A k \in DOMAIN tr : IsPathPrefix(m, k) => IsPathPrefix(k, n)}

LEMMA RemoveIs ==
    ASSUME NEW tr, DOMAIN tr \subseteq Paths, NEW n \in Paths
    PROVE  LET tr2 == ProcessTree!remove(tr, n)
           IN  /\ DOMAIN tr2 = DOMAIN tr \ Emptied(tr, n)
               /\ \A m \in DOMAIN tr2 : tr2[m] = tr[m]
<1> DEFINE emptied == {m \in DOMAIN tr \ {<< >>} :
                         /\ ProcessTree!IsPrefix(m, n)
                         /\ \A k \in DOMAIN tr :
                               ProcessTree!IsPrefix(m, k) => ProcessTree!IsPrefix(k, n)}
<1>1. emptied = Emptied(tr, n)
  BY PrefixIs DEF Emptied
<1>2. ProcessTree!remove(tr, n) = [m \in DOMAIN tr \ emptied |-> tr[m]]
  BY DEF ProcessTree!remove, ProcessTree!Restrict
<1> HIDE DEF emptied
<1> QED
  BY <1>1, <1>2

(* A state ends: its leaf goes, and the nodes that led only to it, and no  *)
(* other; what is left has a leaf below each of its nodes.                 *)
LEMMA RemoveHangs ==
    ASSUME NEW tr, NEW S \in SUBSET States, NEW at \in [States -> Paths], Hangs(tr, S, at),
           NEW s \in S, NEW at2, at2 = [at EXCEPT ![s] = << >>]
    PROVE  Hangs(ProcessTree!remove(tr, at[s]), S \ {s}, at2) /\ at2 \in [States -> Paths]
<1> DEFINE n == at[s]
           E == Emptied(tr, n)
           tr2 == ProcessTree!remove(tr, n)
<1>1. n \in Leaves(tr) /\ n \in Paths /\ n \in DOMAIN tr /\ DOMAIN tr \subseteq Paths
  BY DEF Hangs, Leaves, Closed
<1>2. DOMAIN tr2 = DOMAIN tr \ E /\ \A m \in DOMAIN tr2 : tr2[m] = tr[m]
  BY <1>1, RemoveIs
<1>3. Closed(DOMAIN tr) /\ << >> \in Paths
  BY DEF Hangs, Closed
<1>4. /\ Leaves(tr) = {at[x] : x \in S}
      /\ \A x \in S : tr[at[x]] = x
      /\ \A m \in DOMAIN tr \ Leaves(tr) : tr[m] = NoState
  BY DEF Hangs
<1> HIDE DEF tr2
<1>5. Closed(DOMAIN tr2)
  <2>1. << >> \in DOMAIN tr2 /\ DOMAIN tr2 \subseteq Paths
    BY <1>1, <1>2, <1>3 DEF Closed, Emptied
  <2>2. ASSUME NEW k \in DOMAIN tr2, NEW i \in 0 .. Len(k), SubSeq(k, 1, i) \notin DOMAIN tr2
        PROVE  FALSE
    <3> DEFINE p == SubSeq(k, 1, i)
    <3>1. k \in DOMAIN tr /\ k \notin E /\ k \in Paths
      BY <1>1, <1>2
    <3>2. p \in Seq(Turns) /\ Len(p) = i /\ \A j \in 1 .. i : p[j] = k[j]
      BY <3>1 DEF Paths
    <3>3. p \in Paths /\ IsPathPrefix(p, k)
      <4> HIDE DEF p
      <4> QED
        BY <2>2, <3>1, <3>2 DEF IsPathPrefix, Paths
    <3>4. p \in E
      <4>1. p \in DOMAIN tr
        BY <3>1, <1>3 DEF Closed
      <4> QED
        BY <4>1, <2>2, <1>2
    <3> HIDE DEF p
    <3>5. /\ p # << >> /\ IsPathPrefix(p, n)
          /\ \A x \in DOMAIN tr : IsPathPrefix(p, x) => IsPathPrefix(x, n)
      BY <3>4 DEF Emptied
    <3>6. k # << >>
      <4>1. CASE k = << >>
        <5>1. Len(p) = 0
          BY <4>1, <3>2, <2>2
        <5>2. p = << >>
          BY <5>1, <3>2
        <5> QED
          BY <5>2, <3>5
      <4> QED
        BY <4>1
    <3>7. IsPathPrefix(k, n)
      BY <3>1, <3>3, <3>5
    <3>8. \A x \in DOMAIN tr : IsPathPrefix(k, x) => IsPathPrefix(x, n)
      BY <3>1, <3>3, <3>5, <1>1, PrefixTransitive
    <3> QED
      BY <3>1, <3>6, <3>7, <3>8 DEF Emptied
  <2> QED
    BY <2>1, <2>2 DEF Closed
<1>6. at2 \in [States -> Paths] /\ \A x \in States \ {s} : at2[x] = at[x]
  BY <1>3
<1>7. ASSUME S \ {s} # {}
      PROVE  Leaves(tr2) = Leaves(tr) \ {n}
  <2>1. \A x \in S \ {s} : at[x] # n
    BY <1>4
  <2>2. PICK o \in Leaves(tr) : o # n /\ o \in DOMAIN tr /\ o \in Paths
    BY <1>1, <1>4, <1>7, <2>1 DEF Leaves
  <2>3. n \in E
    <3>1. n # << >>
      <4>1. CASE n = << >>
        <5>1. IsPathPrefix(n, o)
          BY <4>1, <2>2 DEF IsPathPrefix, Paths
        <5> QED
          BY <5>1, <1>1, <1>3, <2>2, LeafIsLast
      <4> QED
        BY <4>1
    <3>2. IsPathPrefix(n, n)
      BY <1>1 DEF IsPathPrefix, Paths
    <3>3. \A k \in DOMAIN tr : IsPathPrefix(n, k) => k = n
      BY <1>1, <1>3, LeafIsLast
    <3> HIDE DEF n
    <3> QED
      BY <1>1, <3>1, <3>2, <3>3 DEF Emptied
  <2>4. ASSUME NEW m \in Leaves(tr), m # n
        PROVE  m \in Leaves(tr2)
    <3>1. m \in DOMAIN tr /\ ProcessTree!Children(tr, m) = {}
      BY DEF Leaves
    <3>2. m \notin E
      BY <1>1, <1>3, <2>4, LeafIsLast DEF Emptied
    <3>3. m \in DOMAIN tr2 /\ ProcessTree!Children(tr2, m) = {}
      BY <3>1, <3>2, <1>2 DEF ProcessTree!Children
    <3> QED
      BY <3>3 DEF Leaves
  <2>5. ASSUME NEW m \in DOMAIN tr2, m \notin Leaves(tr)
        PROVE  \E c \in {ProcessTree!Left(m), ProcessTree!Right(m)} : c \in DOMAIN tr2
    <3>1. m \in DOMAIN tr /\ m \in Paths /\ m \notin E
      BY <1>1, <1>2
    <3>2. CASE ~IsPathPrefix(m, n)
      <4>1. PICK c \in {ProcessTree!Left(m), ProcessTree!Right(m)} : c \in DOMAIN tr
        BY <3>1, <2>5 DEF Leaves, ProcessTree!Children
      <4>2. c \in Paths /\ IsPathPrefix(m, c)
        BY <3>1, ChildIs
      <4>3. ~IsPathPrefix(c, n)
        BY <4>2, <3>1, <3>2, <1>1, PrefixTransitive
      <4>4. c \notin E
        BY <4>3 DEF Emptied
      <4> QED
        BY <4>1, <4>4, <1>2
    <3>3. CASE IsPathPrefix(m, n)
      <4>1. PICK k \in DOMAIN tr : IsPathPrefix(m, k) /\ ~IsPathPrefix(k, n)
        <5>1. CASE m = << >>
          <6>1. IsPathPrefix(m, o)
            BY <5>1, <2>2 DEF IsPathPrefix, Paths
          <6>2. ~IsPathPrefix(o, n)
            BY <1>1, <1>3, <2>2, LeafIsLast
          <6> QED
            BY <6>1, <6>2, <2>2
        <5>2. CASE m # << >>
          BY <5>2, <3>1, <3>3 DEF Emptied
        <5> QED
          BY <5>1, <5>2
      <4>2. k # m /\ k \in Paths
        BY <4>1, <3>3, <1>1
      <4>3. PICK c \in {ProcessTree!Left(m), ProcessTree!Right(m)} :
                c \in DOMAIN tr /\ IsPathPrefix(c, k)
        BY <4>1, <4>2, <3>1, <1>3, Towards
      <4>4. c \notin E
        BY <4>1, <4>3 DEF Emptied
      <4> QED
        BY <4>3, <4>4, <1>2
    <3> QED
      BY <3>2, <3>3
  <2>6. ASSUME NEW m \in Leaves(tr2)
        PROVE  m \in Leaves(tr) /\ m # n
    <3>1. m \in DOMAIN tr2 /\ ProcessTree!Children(tr2, m) = {}
      BY DEF Leaves
    <3>2. m \in Leaves(tr)
      BY <3>1, <2>5 DEF ProcessTree!Children
    <3> QED
      BY <3>1, <3>2, <2>3, <1>2
  <2> HIDE DEF n
  <2> QED
    BY <2>4, <2>6
<1>8. ASSUME S \ {s} # {}
      PROVE  /\ Leaves(tr2) = {at2[x] : x \in S \ {s}}
             /\ \A x \in S \ {s} : tr2[at2[x]] = x
             /\ \A m \in DOMAIN tr2 \ Leaves(tr2) : tr2[m] = NoState
  <2>1. \A x \in S \ {s} : at2[x] = at[x] /\ at[x] # n /\ at[x] \in Leaves(tr)
    BY <1>4, <1>6
  <2>2. Leaves(tr2) = Leaves(tr) \ {n}
    BY <1>7, <1>8
  <2>3. Leaves(tr2) \subseteq DOMAIN tr2
    BY DEF Leaves
  <2>4. n \notin DOMAIN tr2
    <3>1. PICK x \in S \ {s} : TRUE
      BY <1>8
    <3>2. CASE n \in DOMAIN tr2
      <4>1. ProcessTree!Children(tr2, n) = {}
        BY <1>1, <1>2 DEF Leaves, ProcessTree!Children
      <4>2. n \in Leaves(tr2)
        BY <4>1, <3>2 DEF Leaves
      <4> QED
        BY <4>2, <2>2
    <3> QED
      BY <3>2
  <2>5. Leaves(tr2) = {at2[x] : x \in S \ {s}}
    <3>1. ASSUME NEW m \in Leaves(tr2) PROVE \E x \in S \ {s} : m = at2[x]
      BY <2>1, <2>2, <1>4, <3>1
    <3>2. \A x \in S \ {s} : at2[x] \in Leaves(tr2)
      BY <2>1, <2>2
    <3> QED
      BY <3>1, <3>2
  <2>6. \A x \in S \ {s} : tr2[at2[x]] = x
    BY <2>1, <2>2, <2>3, <1>2, <1>4
  <2>7. ASSUME NEW m \in DOMAIN tr2 \ Leaves(tr2) PROVE tr2[m] = NoState
    <3>1. m # n /\ m \notin Leaves(tr) /\ m \in DOMAIN tr
      BY <2>4, <2>2, <1>2
    <3> QED
      BY <3>1, <1>2, <1>4
  <2> QED
    BY <2>5, <2>6, <2>7
<1> QED
  BY <1>5, <1>6, <1>8 DEF Hangs, tr2, n

-----------------------------------------------------------------------------
(* The invariant. *)

(* Searchers that walk the tree, keep the last state and set others aside: *)
(* IterativeDeepeningTimeSearcher then does not pass on that a state it    *)
(* has set aside is removed, and lastState stays a deleted state.          *)
NeverStale ==
    \A o \in SearchOptions :
        ~({"random-path", "use-batching-search", "use-iterative-deepening-time-search"}
              \subseteq o)

(* Searchers that walk the tree and set states aside: the InterleavedSearcher *)
(* says that it is not empty as long as there are states (Searcher.h:275).    *)
NeverAlone ==
    \A o \in SearchOptions :
        ~({"random-path", "use-iterative-deepening-time-search"} \subseteq o)

(* lastState is in the layer below. *)
LastHeld == lastState \in {NoState} \cup (IF Batching THEN base ELSE {})

NoneAlone == ~(RandomPath /\ Deepening) => (base = {} => deepened = {})

LayersInv == LayersAgree /\ (~Deepening => deepened = {}) /\ LastHeld /\ NoneAlone

TreeInv == Hangs(tree, Existing, ptreeNode) /\ ptreeNode \in [States -> Paths]

(* Where a RandomPathSearcher is used no state is ever in a merge region   *)
(* (constructUserSearcher refuses -use-merge), and the searcher holds all. *)
WalkHeld ==
    /\ \A s \in States : openMergeStack[s] = << >>
    /\ paused = {} /\ continued = {}
    /\ mode = "running" =>
          /\ searcher = states \ Gone
          /\ phase = "delete" => \A s \in States : removed[s] <= 1

OptionsInv == ~useMergingSearcher /\ search \in SearchOptions /\ ~(UseMerge /\ RandomPath)

SearchInv == IInv /\ OptionsInv /\ LayersInv /\ TreeInv /\ (RandomPath => WalkHeld)

-----------------------------------------------------------------------------
(* Refinement: a step of the layers is one of the scheduler. *)

(* Whatever the layers may select is in the searcher, and below            *)
(* BatchingSearcher.                                                       *)
LEMMA ChoicesHeld ==
    ASSUME NeverStale, SearchInv, phase = "select", mode = "running", states # {},
           NEW s \in BatchChoices
    PROVE  s \in searcher /\ (Batching => s \in base)
<1>1. base \subseteq searcher /\ searcher = base \cup deepened
  BY DEF SearchInv, LayersInv, LayersAgree
<1>2. CASE s \in base
  BY <1>1, <1>2
<1>3. CASE Batching /\ s \in {lastState} \ {NoState}
  BY <1>1, <1>3 DEF SearchInv, LayersInv, LastHeld
<1>4. CASE RandomPath /\ s \in {tree[n] : n \in ProcessTree!WalkEnds(tree)}
  <2>1. PICK n \in DOMAIN tree : s = tree[n] /\ tree[n] # NoState
    BY <1>4 DEF ProcessTree!WalkEnds
  <2>2. Existing = states
    BY DEF SearchInv, IInv, Queues, Existing
  <2>3. s \in states
    BY <2>1, <2>2 DEF SearchInv, TreeInv, Hangs
  <2>4. s \in searcher
    BY <1>4, <2>3 DEF SearchInv, WalkHeld, Gone
  <2>5. Batching => deepened = {}
    BY <1>4 DEF NeverStale, SearchInv, OptionsInv, LayersInv, RandomPath, Batching, Deepening
  <2> QED
    BY <2>4, <2>5, <1>1
<1> QED
  BY <1>2, <1>3, <1>4 DEF BatchChoices, BaseChoices

LEMMA SelectImplements ==
    ASSUME NeverStale, SearchInv, selectState
    PROVE  Next
<1>1. PICK s \in BatchChoices : Execute(s)
  BY DEF selectState
<1>2. s \in searcher
  BY <1>1, ChoicesHeld DEF selectState
<1>3. SelectState
  BY <1>1, <1>2 DEF selectState, SelectState, SearchInv, OptionsInv, merging
<1> QED
  BY <1>3 DEF Next, Step, selectState

LEMMA StepImplements ==
    ASSUME NeverStale, SearchInv, [searchNext]_searchVars
    PROVE  [Next]_vars
<1>1. CASE UNCHANGED searchVars
  BY <1>1 DEF searchVars
<1>2. CASE selectState
  BY <1>2, SelectImplements
<1>3. CASE \/ searchBegin \/ searchUpdate \/ searchReschedule \/ searchStop
           \/ \E s, t \in States : searchFork(s, t)
           \/ \E s \in States : searchTerminate(s) \/ searchDelete(s)
           \/ searchOther
  <2>1. UNCHANGED useMergingSearcher
    BY <1>3 DEF searchBegin, searchUpdate, searchReschedule, searchStop, searchFork,
          searchTerminate, searchDelete, searchOther
  <2>2. Step
    BY <1>3 DEF Step, searchBegin, searchUpdate, searchReschedule, searchStop, searchFork,
          searchTerminate, searchDelete, searchOther
  <2> QED
    BY <2>1, <2>2 DEF Next
<1> QED
  BY <1>1, <1>2, <1>3 DEF searchNext

LEMMA OptionsStay ==
    ASSUME OptionsInv, [searchNext]_searchVars
    PROVE  OptionsInv' /\ search' = search /\ useMergingSearcher' = useMergingSearcher
<1>1. search' = search /\ useMergingSearcher' = useMergingSearcher
  BY DEF searchNext, searchVars, vars, selectState, searchBegin, searchUpdate, searchReschedule,
        searchStop, searchFork, searchTerminate, searchDelete, searchOther
<1> QED
  BY <1>1 DEF OptionsInv, UseMerge, RandomPath

-----------------------------------------------------------------------------
(* The layers. *)

(* Searcher::update keeps the layers apart and complete, if the new states *)
(* are ones no layer holds and what ran out of time is one that stays.     *)
LEMMA UpdateLayers ==
    ASSUME LayersInv, search' = search, NEW new, NEW gone, NEW over, update(new, gone, over),
           new \cap searcher = {}, over \subseteq (searcher \cup new) \ gone,
           ~Deepening => over = {}, searcher' = (searcher \cup new) \ gone
    PROVE  LayersInv'
<1> DEFINE held == ((base \cup new) \ (gone \ deepened)) \ over
           aside == (deepened \ gone) \cup over
<1>1. /\ searcher = base \cup deepened /\ base \cap deepened = {}
      /\ ~Deepening => deepened = {}
      /\ Deepening' = Deepening /\ RandomPath' = RandomPath /\ Batching' = Batching
  BY DEF LayersInv, LayersAgree, Deepening, RandomPath, Batching
<1>2. /\ lastState' = IF lastState \in (gone \ deepened) \cup over THEN NoState ELSE lastState
      /\ IF Deepening /\ BaseEmpty(held)
         THEN base' = held \cup aside /\ deepened' = {}
         ELSE base' = held /\ deepened' = aside
  BY DEF update, Batched, Resumed
<1>3. held \cup aside = (searcher \cup new) \ gone /\ held \cap aside = {}
  BY <1>1
<1>4. LayersAgree'
  BY <1>1, <1>2, <1>3 DEF LayersAgree
<1>5. (~Deepening => deepened = {})'
  BY <1>1, <1>2
<1>6. LastHeld'
  <2>1. CASE ~Batching
    BY <1>1, <1>2, <2>1 DEF LayersInv, LastHeld
  <2>2. CASE Batching
    <3>1. lastState = NoState \/ lastState \in base
      BY <2>2 DEF LayersInv, LastHeld
    <3>2. lastState \in base \ ((gone \ deepened) \cup over) => lastState \in held
      OBVIOUS
    <3>3. held \subseteq base'
      BY <1>2
    <3> HIDE DEF held, aside
    <3> QED
      BY <2>2, <3>1, <3>2, <3>3, <1>1, <1>2 DEF LastHeld
  <2> QED
    BY <2>1, <2>2
<1>7. NoneAlone'
  <2>1. CASE Deepening /\ ~RandomPath
    BY <2>1, <1>1, <1>2 DEF NoneAlone, BaseEmpty
  <2>2. CASE ~Deepening
    BY <2>2, <1>1, <1>2 DEF NoneAlone
  <2>3. CASE Deepening /\ RandomPath
    BY <2>3, <1>1 DEF NoneAlone
  <2> QED
    BY <2>1, <2>2, <2>3
<1> QED
  BY <1>4, <1>5, <1>6, <1>7 DEF LayersInv

LEMMA SameLayers ==
    ASSUME LayersInv, search' = search, UNCHANGED <<layers, searcher>>
    PROVE  LayersInv'
  BY DEF LayersInv, LayersAgree, LastHeld, NoneAlone, layers, Batching, Deepening, RandomPath

LEMMA LayersStay ==
    ASSUME NeverStale, SearchInv, [searchNext]_searchVars
    PROVE  LayersInv'
<1>1. LayersInv /\ search' = search
  BY OptionsStay DEF SearchInv
<1>2. CASE selectState
  <2>1. PICK s \in BatchChoices : Execute(s) /\ lastState' = IF Batching THEN s ELSE NoState
    BY <1>2 DEF selectState
  <2>2. Batching => s \in base
    BY <1>2, <2>1, ChoicesHeld DEF selectState
  <2>3. searcher' = searcher /\ base' = base /\ deepened' = deepened
    BY <1>2, <2>1 DEF Execute, selectState
  <2> QED
    BY <1>1, <2>1, <2>2, <2>3
        DEF LayersInv, LayersAgree, LastHeld, NoneAlone, Batching, Deepening, RandomPath
<1>3. CASE searchBegin
  <2>1. searcher' = states /\ base' = states /\ lastState' = NoState /\ deepened' = {}
    BY <1>3 DEF searchBegin, BeginSearch
  <2> QED
    BY <1>1, <2>1 DEF LayersInv, LayersAgree, LastHeld, NoneAlone
<1>4. CASE searchStop
  <2>1. searcher' = {} /\ base' = {} /\ lastState' = NoState /\ deepened' = {}
    BY <1>4 DEF searchStop, Stop
  <2> QED
    BY <1>1, <2>1 DEF LayersInv, LayersAgree, LastHeld, NoneAlone
<1>5. CASE searchUpdate
  <2>1. CASE mode = "running"
    <3>1. PICK over \in Overtime : update(added, Removed, over)
      BY <1>5, <2>1 DEF searchUpdate
    <3>2. CurrentIsHeld /\ searcher' = (searcher \cup added) \ Removed
      BY <1>5, <2>1 DEF searchUpdate, updateSearcher
    <3>3. added \cap searcher = {}
      BY DEF SearchInv, IInv, Lists
    <3>4. over \subseteq (searcher \cup added) \ Removed /\ (~Deepening => over = {})
      BY <3>1, <3>2 DEF Overtime, CurrentIsHeld
    <3> QED
      BY <1>1, <3>1, <3>2, <3>3, <3>4, UpdateLayers
  <2>2. CASE mode # "running"
    BY <1>1, <1>5, <2>2, SameLayers DEF searchUpdate, updateSearcher
  <2> QED
    BY <2>1, <2>2
<1>6. CASE searchReschedule
  <2>1. CASE mode = "running"
    <3>1. update(continued, paused, {}) /\ continued \cap searcher = {}
          /\ searcher' = (searcher \cup continued) \ paused
      BY <1>6, <2>1 DEF searchReschedule, reschedule, Rescheduled
    <3> QED
      BY <1>1, <3>1, UpdateLayers
  <2>2. CASE mode # "running"
    BY <1>1, <1>6, <2>2, SameLayers DEF searchReschedule, reschedule
  <2> QED
    BY <2>1, <2>2
<1>7. CASE UNCHANGED searchVars
  BY <1>1, <1>7, SameLayers DEF searchVars, vars, queues
<1>8. CASE \/ \E s, t \in States : searchFork(s, t)
           \/ \E s \in States : searchTerminate(s) \/ searchDelete(s)
           \/ searchOther
  <2>1. UNCHANGED layers
    BY <1>8 DEF searchFork, searchTerminate, searchDelete, searchOther
  <2>2. searcher' = searcher
    <3>1. CASE \E s, t \in States : searchFork(s, t)
      BY <3>1 DEF searchFork, Fork
    <3>2. CASE \E s \in States : searchTerminate(s) \/ searchDelete(s)
      BY <3>2 DEF searchTerminate, searchDelete, Terminate, deleteRemoved
    <3>3. CASE searchOther
      BY <3>3 DEF searchOther, SelectSeeded, Execute, Executed, processTimers, checkMemoryUsage,
            Done, OpenMerge, CloseMerge, vars, queues
    <3> QED
      BY <1>8, <3>1, <3>2, <3>3
  <2> QED
    BY <1>1, <2>1, <2>2, SameLayers
<1> QED
  BY <1>2, <1>3, <1>4, <1>5, <1>6, <1>7, <1>8 DEF searchNext

-----------------------------------------------------------------------------
(* The process tree. *)

LEMMA TreeStays ==
    ASSUME SearchInv, [searchNext]_searchVars
    PROVE  TreeInv'
<1>1. /\ TreeInv /\ Existing \subseteq States
      /\ born \subseteq States /\ Existing \subseteq born /\ states \cap added = {}
  BY DEF SearchInv, IInv, Lists, Types
<1>2. CASE UNCHANGED forest /\ Existing' = Existing
  BY <1>1, <1>2 DEF TreeInv, forest
<1>3. CASE \E s, t \in States : searchFork(s, t)
  <2>1. PICK s \in States, t \in States : searchFork(s, t)
    BY <1>3
  <2>2. PICK l \in {s, t} : LET r == IF l = s THEN t ELSE s IN
          /\ tree' = ProcessTree!attach(tree, ptreeNode[s], l, r)
          /\ ptreeNode' = [ptreeNode EXCEPT ![l] = ProcessTree!Left(ptreeNode[s]),
                                            ![r] = ProcessTree!Right(ptreeNode[s])]
    BY <2>1 DEF searchFork
  <2> DEFINE r == IF l = s THEN t ELSE s
  <2>3. s \in Existing
    <3>1. s \in {current} \cup added /\ phase = "execute"
      BY <2>1 DEF searchFork, Fork, Executing
    <3> QED
      BY <3>1 DEF SearchInv, IInv, Queues, Existing
  <2>4. t \in States \ Existing /\ Existing' = Existing \cup {t}
    BY <2>1, <1>1 DEF searchFork, Fork, Existing
  <2>5. r \in {s, t} /\ l # r
    BY <2>3, <2>4
  <2>6. /\ tree' = ProcessTree!attach(tree, ptreeNode[s], l, r)
        /\ ptreeNode' = [ptreeNode EXCEPT ![l] = ProcessTree!Left(ptreeNode[s]),
                                          ![r] = ProcessTree!Right(ptreeNode[s])]
    BY <2>2
  <2> HIDE DEF r
  <2>7. Hangs(tree, Existing, ptreeNode) /\ ptreeNode \in [States -> Paths]
    BY <1>1 DEF TreeInv
  <2>8. /\ ptreeNode' \in [States -> Paths]
        /\ ptreeNode'[l] = ProcessTree!Left(ptreeNode[s])
        /\ ptreeNode'[r] = ProcessTree!Right(ptreeNode[s])
        /\ \A x \in States \ {s, t} : ptreeNode'[x] = ptreeNode[x]
    <3>1. ptreeNode[s] \in Paths
      BY <2>7
    <3>2. ProcessTree!Left(ptreeNode[s]) \in Paths /\ ProcessTree!Right(ptreeNode[s]) \in Paths
      BY <3>1, ChildIs
    <3> QED
      BY <2>5, <2>6, <2>7, <3>2
  <2>9. Hangs(ProcessTree!attach(tree, ptreeNode[s], l, r), Existing \cup {t}, ptreeNode')
    BY <1>1, <2>3, <2>4, <2>5, <2>7, <2>8, AttachHangs
  <2> QED
    BY <2>4, <2>6, <2>8, <2>9 DEF TreeInv
<1>4. ASSUME NEW s \in States, removeFromTree(s), s \in Existing, Existing' = Existing \ {s}
      PROVE  TreeInv'
  <2>1. Hangs(tree, Existing, ptreeNode) /\ ptreeNode \in [States -> Paths]
    BY <1>1 DEF TreeInv
  <2>2. /\ tree' = ProcessTree!remove(tree, ptreeNode[s])
        /\ ptreeNode' = [ptreeNode EXCEPT ![s] = << >>]
    BY <1>4 DEF removeFromTree
  <2>3. Hangs(ProcessTree!remove(tree, ptreeNode[s]), Existing \ {s}, ptreeNode')
        /\ ptreeNode' \in [States -> Paths]
    BY <1>1, <1>4, <2>1, <2>2, RemoveHangs
  <2> QED
    BY <1>4, <2>2, <2>3 DEF TreeInv
<1>5. CASE \E s \in States : searchTerminate(s)
  <2>1. PICK s \in States : searchTerminate(s)
    BY <1>5
  <2>2. CASE s \in added
    <3>1. removeFromTree(s) /\ s \in Existing /\ Existing' = Existing \ {s}
      BY <2>1, <2>2, <1>1 DEF searchTerminate, Terminate, Existing
    <3> QED
      BY <3>1, <1>4
  <2>3. CASE s \notin added
    BY <2>1, <2>3, <1>2 DEF searchTerminate, Terminate, Existing
  <2> QED
    BY <2>2, <2>3
<1>6. CASE \E s \in States : searchDelete(s)
  <2>1. PICK s \in States : searchDelete(s)
    BY <1>6
  <2>2. removeFromTree(s) /\ s \in Existing /\ Existing' = Existing \ {s}
    BY <2>1, <1>1 DEF searchDelete, deleteRemoved, Existing
  <2> QED
    BY <2>2, <1>4
<1>7. CASE \/ selectState \/ searchBegin \/ searchUpdate \/ searchReschedule \/ searchStop
           \/ searchOther \/ UNCHANGED searchVars
  <2>1. UNCHANGED forest
    BY <1>7 DEF selectState, searchBegin, searchUpdate, searchReschedule, searchStop, searchOther,
          searchVars
  <2>2. Existing' = Existing
    <3>1. CASE selectState
      BY <3>1 DEF selectState, Execute, Existing
    <3>2. CASE searchBegin \/ searchUpdate \/ searchReschedule \/ searchStop
      BY <3>2 DEF searchBegin, searchUpdate, searchReschedule, searchStop, BeginSearch,
            updateSearcher, reschedule, Stop, Existing, queues
    <3>3. CASE searchOther \/ UNCHANGED searchVars
      BY <3>3 DEF searchOther, SelectSeeded, Execute, Executed, processTimers, checkMemoryUsage,
            Done, OpenMerge, CloseMerge, vars, queues, searchVars, Existing
    <3> QED
      BY <1>7, <3>1, <3>2, <3>3
  <2> QED
    BY <2>1, <2>2, <1>2
<1> QED
  BY <1>3, <1>5, <1>6, <1>7 DEF searchNext

-----------------------------------------------------------------------------
(* A RandomPathSearcher. *)

(* The end of a state that is in no region releases nobody. *)
LEMMA DeleteQuiet ==
    ASSUME WalkHeld, NEW s \in States, openMergeStack \in [States -> Seq(Handlers)], Delete(s)
    PROVE  /\ \A t \in States : openMergeStack'[t] = << >>
           /\ paused' = {} /\ continued' = {}
<1>1. openMergeStack[s] = << >> /\ paused = {} /\ continued = {}
  BY DEF WalkHeld
<1>2. \A others : Destroyed(<< >>, others) = {}
  BY DEF Destroyed, Unreferenced, Contains
<1>3. paused' = {} /\ continued' = {}
  BY <1>1, <1>2 DEF Delete, Unref, continueState
<1>4. openMergeStack' = [openMergeStack EXCEPT ![s] = << >>]
  BY DEF Delete
<1> QED
  BY <1>3, <1>4 DEF WalkHeld

LEMMA WalkStays ==
    ASSUME SearchInv, RandomPath, [searchNext]_searchVars
    PROVE  WalkHeld'
<1>1. /\ WalkHeld /\ ~UseMerge
      /\ openMergeStack \in [States -> Seq(Handlers)] /\ removed \in [States -> Nat]
      /\ born \subseteq States /\ Existing \subseteq born
  BY DEF SearchInv, IInv, Types, Lists, OptionsInv
<1>2. /\ \A s \in States : openMergeStack[s] = << >>
      /\ paused = {} /\ continued = {}
      /\ mode = "running" =>
            /\ searcher = states \ Gone
            /\ phase = "delete" => \A s \in States : removed[s] <= 1
  BY <1>1 DEF WalkHeld
<1>3. CASE UNCHANGED searchVars
  BY <1>2, <1>3 DEF searchVars, vars, loop, queues, merging, WalkHeld, Gone, Removed
<1>4. CASE selectState
  <2>1. UNCHANGED <<openMergeStack, paused, continued, mode, searcher, states>> /\ phase = "select"
        /\ phase' = "execute"
    BY <1>4 DEF selectState, Execute, merging
  <2> QED
    BY <1>2, <2>1 DEF WalkHeld, Gone
<1>5. CASE searchBegin
  <2>1. UNCHANGED <<openMergeStack, paused, continued, phase, states>> /\ phase = "select"
        /\ searcher' = states
    BY <1>5 DEF searchBegin, BeginSearch, queues, merging
  <2> QED
    BY <1>2, <2>1 DEF WalkHeld, Gone
<1>6. CASE searchUpdate
  <2>1. UNCHANGED <<openMergeStack, paused, continued, mode, removed>>
        /\ phase = "update" /\ phase' = "delete" /\ states' = states \cup added
    BY <1>6 DEF searchUpdate, updateSearcher, merging
  <2>2. mode = "running" => searcher' = (searcher \cup added) \ Removed /\ RemovedAreHeld
    BY <1>6 DEF searchUpdate, updateSearcher
  <2>3. mode = "running" => searcher' = states' \ Removed'
    BY <1>2, <2>1, <2>2 DEF Gone, Removed
  <2>4. mode = "running" => \A s \in States : removed[s] <= 1
    <3> SUFFICES ASSUME mode = "running", NEW s \in States PROVE removed[s] <= 1
      OBVIOUS
    <3>1. removed[s] > 0 => removed[s] = 1
      BY <2>2 DEF RemovedAreHeld, Removed
    <3>2. removed[s] \in Nat
      BY <1>1
    <3> QED
      BY <3>1, <3>2
  <2> QED
    BY <1>2, <2>1, <2>3, <2>4 DEF WalkHeld, Gone
<1>7. CASE searchReschedule
  <2>1. UNCHANGED <<openMergeStack, mode, states, removed>> /\ phase = "delete" /\ Removed = {}
        /\ phase' # "delete"
    BY <1>7 DEF searchReschedule, reschedule, merging
  <2>2. IF mode = "running"
        THEN searcher' = (searcher \cup continued) \ paused /\ paused' = {} /\ continued' = {}
        ELSE UNCHANGED <<searcher, paused, continued>>
    BY <1>7 DEF searchReschedule, reschedule, Rescheduled
  <2> QED
    BY <1>2, <2>1, <2>2 DEF WalkHeld, Gone
<1>8. CASE searchStop
  <2>1. UNCHANGED <<openMergeStack, paused, continued>> /\ mode' = "halting"
    BY <1>8 DEF searchStop, Stop, merging
  <2> QED
    BY <1>2, <2>1 DEF WalkHeld
<1>9. CASE \E s, t \in States : searchFork(s, t)
  <2>1. PICK s \in States, t \in States : Fork(s, t)
    BY <1>9 DEF searchFork
  <2>2. UNCHANGED <<paused, continued, mode, phase, searcher, states, removed>>
        /\ openMergeStack' = [openMergeStack EXCEPT ![t] = openMergeStack[s]]
    BY <2>1 DEF Fork, Inherited, loop
  <2> QED
    BY <1>1, <1>2, <2>2 DEF WalkHeld, Gone, Removed
<1>10. CASE \E s \in States : searchTerminate(s)
  <2>1. PICK s \in States : Terminate(s)
    BY <1>10 DEF searchTerminate
  <2>2. UNCHANGED <<mode, phase, searcher, states>> /\ phase = "execute"
    BY <2>1 DEF Terminate, Executing, loop
  <2>3. (\A t \in States : openMergeStack'[t] = << >>) /\ paused' = {} /\ continued' = {}
    <3>1. CASE s \in added
      BY <1>1, <2>1, <3>1, DeleteQuiet DEF Terminate
    <3>2. CASE s \notin added
      BY <1>2, <2>1, <3>2 DEF Terminate, merging
    <3> QED
      BY <3>1, <3>2
  <2> QED
    BY <1>2, <2>2, <2>3 DEF WalkHeld, Gone
<1>11. CASE \E s \in States : searchDelete(s)
  <2>1. PICK s \in States : deleteRemoved(s)
    BY <1>11 DEF searchDelete
  <2>2. /\ UNCHANGED <<mode, phase, searcher>> /\ phase = "delete" /\ s \in Removed
        /\ states' = states \ {s} /\ removed' = [removed EXCEPT ![s] = removed[s] - 1]
    BY <2>1 DEF deleteRemoved, loop
  <2>3. (\A t \in States : openMergeStack'[t] = << >>) /\ paused' = {} /\ continued' = {}
    BY <1>1, <2>1, DeleteQuiet DEF deleteRemoved
  <2>4. ASSUME mode = "running"
        PROVE  searcher' = states' \ Removed' /\ \A t \in States : removed'[t] <= 1
    <3>1. removed[s] = 1
      BY <1>1, <1>2, <2>2, <2>4 DEF Removed
    <3>2. \A t \in States : removed'[t] = IF t = s THEN 0 ELSE removed[t]
      BY <1>1, <2>2, <3>1
    <3>3. Removed' = Removed \ {s}
      BY <3>2, <1>1 DEF Removed
    <3>4. searcher = states \ Removed
      BY <1>2, <2>2, <2>4 DEF Gone
    <3> QED
      BY <1>2, <2>2, <2>4, <3>2, <3>3, <3>4
  <2> QED
    BY <2>2, <2>3, <2>4 DEF WalkHeld, Gone
<1>12. CASE searchOther
  <2>1. CASE \E h \in Handlers : UseMerge /\ OpenMerge(h)
    BY <1>1, <2>1
  <2>2. CASE \E p \in Points : CloseMerge(p)
    <3>1. current \in States /\ openMergeStack[current] # << >>
      <4>1. phase = "execute" /\ openMergeStack[current] # << >>
        BY <2>2 DEF CloseMerge, Executing
      <4>2. current \in states
        BY <4>1 DEF SearchInv, IInv, Queues
      <4> QED
        BY <4>1, <4>2, <1>1 DEF Existing
    <3> QED
      BY <3>1, <1>2
  <2>3. CASE SelectSeeded \/ Executed \/ processTimers \/ checkMemoryUsage
    <3>1. UNCHANGED <<openMergeStack, paused, continued, mode, searcher, states>>
          /\ phase # "delete" /\ phase' # "delete"
      BY <2>3 DEF SelectSeeded, Execute, Executed, processTimers, checkMemoryUsage, queues, merging
    <3> QED
      BY <1>2, <3>1 DEF WalkHeld, Gone
  <2>4. CASE Done
    BY <1>2, <2>4 DEF Done, vars, loop, queues, merging, WalkHeld, Gone, Removed
  <2> QED
    BY <1>12, <2>1, <2>2, <2>3, <2>4 DEF searchOther
<1> QED
  BY <1>3, <1>4, <1>5, <1>6, <1>7, <1>8, <1>9, <1>10, <1>11, <1>12 DEF searchNext

-----------------------------------------------------------------------------
(* Theorems. *)

LEMMA InitSearch == searchInit => SearchInv
<1> SUFFICES ASSUME searchInit PROVE SearchInv
  OBVIOUS
<1>1. IInv
  BY InitHolds DEF searchInit
<1>2. PICK s \in States :
        /\ born = {s} /\ states = {s} /\ added = {} /\ removed = [t \in States |-> 0]
        /\ paused = {} /\ continued = {} /\ phase = "select"
        /\ mode = (IF Seeding THEN "seeding" ELSE "running")
        /\ searcher = (IF Seeding THEN {} ELSE {s})
        /\ openMergeStack = [t \in States |-> << >>]
  BY DEF searchInit, Init
<1>3. OptionsInv
  BY DEF searchInit, OptionsInv
<1>4. LayersInv
  BY DEF searchInit, LayersInv, LayersAgree, LastHeld, NoneAlone
<1>5. TreeInv
  <2>1. Existing = {s} /\ (CHOOSE x \in states : TRUE) = s
    BY <1>2 DEF Existing
  <2>2. DOMAIN tree = {<< >>} /\ tree[<< >>] = s /\ ptreeNode = [x \in States |-> << >>]
    BY <2>1 DEF searchInit, ProcessTree!PTree
  <2>3. << >> \in Paths /\ Len(<< >>) = 0
    BY DEF Paths
  <2>4. Closed(DOMAIN tree)
    <3>1. \A i \in 0 .. 0 : SubSeq(<< >>, 1, i) = << >>
      OBVIOUS
    <3> QED
      BY <2>2, <2>3, <3>1 DEF Closed
  <2>5. Leaves(tree) = {<< >>}
    <3>1. /\ Len(ProcessTree!Left(<< >>)) = 0 + 1 /\ Len(ProcessTree!Right(<< >>)) = 0 + 1
      BY <2>3, ChildIs
    <3>2. ProcessTree!Left(<< >>) # << >> /\ ProcessTree!Right(<< >>) # << >>
      BY <3>1, <2>3
    <3> QED
      BY <2>2, <3>2 DEF Leaves, ProcessTree!Children
  <2> QED
    BY <2>1, <2>2, <2>3, <2>4, <2>5 DEF TreeInv, Hangs
<1>6. WalkHeld
  BY <1>2 DEF WalkHeld, Gone
<1> QED
  BY <1>1, <1>3, <1>4, <1>5, <1>6 DEF SearchInv

LEMMA SearchStays ==
    ASSUME NeverStale, SearchInv, [searchNext]_searchVars
    PROVE  SearchInv'
<1>1. IInv'
  BY StepImplements, NextKeeps DEF SearchInv
<1>2. OptionsInv' /\ RandomPath' = RandomPath
  BY OptionsStay DEF SearchInv, RandomPath
<1> QED
  BY <1>1, <1>2, LayersStay, TreeStays, WalkStays DEF SearchInv

(* The invariant of the layers of searchers.                               *)
THEOREM SearchersInvariant == ASSUME NeverStale PROVE SearchSpec => []SearchInv
  BY InitSearch, SearchStays, PTL DEF SearchSpec

(* The searchers that constructUserSearcher stacks on each other implement *)
(* the one searcher of StateScheduler: whatever pointers they keep, the    *)
(* state selected is one that is held, for any number of states and with   *)
(* every combination of options but the three of NeverStale together.      *)
THEOREM SearchersImplement == ASSUME NeverStale PROVE SearchSpec => ImplementsScheduler
<1>1. searchInit => Init
  BY DEF searchInit
<1>2. SearchInv /\ [searchNext]_searchVars => [Next]_vars
  BY StepImplements
<1> QED
  BY <1>1, <1>2, SearchersInvariant, PTL DEF SearchSpec, ImplementsScheduler

(* Every state the searcher should hold is in one of its layers and only   *)
(* in one, whatever is set aside, removed, paused and continued.           *)
THEOREM LayersAlwaysAgree == ASSUME NeverStale PROVE SearchSpec => []LayersAgree
<1>1. SearchInv => LayersAgree
  BY DEF SearchInv, LayersInv
<1> QED
  BY <1>1, SearchersInvariant, PTL

(* The searcher asked for a state has one as long as any searcher holds    *)
(* one: what IterativeDeepeningTimeSearcher set aside comes back in time.  *)
THEOREM BaseNeverEmpty == ASSUME NeverAlone PROVE SearchSpec => []BaseNotEmpty
<1>1. NeverStale
  BY DEF NeverAlone, NeverStale
<1>2. SearchInv => BaseNotEmpty
  BY DEF NeverAlone, SearchInv, OptionsInv, LayersInv, LayersAgree, NoneAlone, BaseNotEmpty,
        RandomPath, Deepening
<1> QED
  BY <1>1, <1>2, SearchersInvariant, PTL

(* The leaves of the process tree are the states that exist, each at its   *)
(* own node, after any number of forks and removals in any order: the walk *)
(* of RandomPathSearcher ends at one of them wherever it turns, and        *)
(* PTree::remove leaves no branch without a state.                         *)
THEOREM TreeAlwaysMatches == ASSUME NeverStale PROVE SearchSpec => []TreeMatchesStates
<1>1. SearchInv => TreeMatchesStates
  BY DEF SearchInv, TreeInv, Hangs, Leaves, TreeMatchesStates
<1> QED
  BY <1>1, SearchersInvariant, PTL
=============================================================================
