------------------------- MODULE ObjectBytesProofs -------------------------
(***************************************************************************)
(* Proofs about ObjectBytes, for objects of any size and any symbolic      *)
(* input: reads return what was written.                                   *)
(*                                                                         *)
(* The inductive invariant says of each place a byte's value can be in     *)
(* that it is right there when the masks say that it is there.  It rests   *)
(* on three facts about lists of writes: an appended write hides those     *)
(* before it to the same offset only; flushing appends one write for each  *)
(* unflushed byte; and creating the constant array leaves what a list says *)
(* of every byte as it was.                                                *)
(***************************************************************************)
EXTENDS ObjectBytes, FiniteSetTheorems, TLAPS

(* The least-number principle, for sets. *)
LEMMA Least ==
    ASSUME NEW S \in SUBSET Nat, S # {}
    PROVE  \E m \in S : \A n \in S : m <= n
<1>1. PICK m \in S : \A n \in S : ~ <<n, m>> \in OpToRel(<, Nat)
  BY NatLessThanWellFounded, WFMin, Zenon
<1>2. \A n \in S : ~ (n < m)
  BY <1>1, Zenon DEF OpToRel
<1> QED
  BY <1>2

LEMMA MinIsLeast ==
    ASSUME NEW S \in SUBSET Nat, S # {}
    PROVE  Min(S) \in S /\ \A n \in S : Min(S) <= n
BY Least DEF Min

LEMMA MaxIsGreatest ==
    ASSUME NEW n \in Nat, NEW S \in SUBSET (1 .. n), S # {}
    PROVE  Max(S) \in S /\ \A k \in S : Max(S) >= k
<1> DEFINE T == {t \in 0 .. n : n - t \in S}
<1>1. PICK k \in S : TRUE
  OBVIOUS
<1>2. n - k \in T /\ T \in SUBSET Nat
  OBVIOUS
<1>3. PICK t \in T : \A u \in T : t <= u
  BY <1>2, Least
<1>4. \A j \in S : n - t >= j
  <2> SUFFICES ASSUME NEW j \in S PROVE n - t >= j
    OBVIOUS
  <2>1. n - j \in T
    OBVIOUS
  <2> QED
    BY <2>1, <1>3
<1> QED
  BY <1>3, <1>4 DEF Max

(* SetToSeq lists every element of a finite set once. *)
LEMMA SetToSeqLists ==
    ASSUME NEW S, IsFiniteSet(S)
    PROVE  /\ Cardinality(S) \in Nat
           /\ SetToSeq(S) \in [1 .. Cardinality(S) -> S]
           /\ IsInjective(SetToSeq(S))
           /\ \A x \in S : \E k \in 1 .. Cardinality(S) : SetToSeq(S)[k] = x
<1> DEFINE n == Cardinality(S)
           f == SetToSeq(S)
<1>1. n \in Nat /\ ExistsBijection(1 .. n, S)
  BY FS_CardinalityType
<1>2. \E g \in [1 .. n -> S] : IsInjective(g)
  BY <1>1 DEF ExistsBijection, Bijection, Injection
<1>3. f \in [1 .. n -> S] /\ IsInjective(f)
  BY <1>2 DEF SetToSeq
<1>4. f \in Injection(1 .. n, S)
  BY <1>3 DEF Injection
<1>5. Cardinality(1 .. n) = n
  BY <1>1, FS_Interval
<1>6. f \in Surjection(1 .. n, S)
  BY <1>4, <1>5, FS_Injection
<1> QED
  BY <1>1, <1>3, <1>6 DEF Surjection
-----------------------------------------------------------------------------
(* What a list says of byte o on input a: the value of the last write to   *)
(* it (LookupLast), of which there is one if there is any (LastHit), or of *)
(* the root (LookupMiss).                                                  *)
IsHit(u, k, o, a) == k \in DOMAIN u.writes /\ u.writes[k].index[a] = o

IsLastHit(u, k, o, a) == IsHit(u, k, o, a) /\ \A j \in DOMAIN u.writes : IsHit(u, j, o, a) => j <= k

LEMMA LastHit ==
    ASSUME NEW u \in UpdateList, NEW o, NEW a, NEW j, IsHit(u, j, o, a)
    PROVE  \E k \in DOMAIN u.writes : IsLastHit(u, k, o, a)
<1> DEFINE hits == {k \in DOMAIN u.writes : u.writes[k].index[a] = o}
<1>1. Len(u.writes) \in Nat /\ DOMAIN u.writes = 1 .. Len(u.writes)
  BY DEF UpdateList
<1>2. hits # {} /\ hits \in SUBSET (1 .. Len(u.writes))
  BY <1>1 DEF IsHit
<1>3. Max(hits) \in hits /\ \A k \in hits : Max(hits) >= k
  BY <1>1, <1>2, MaxIsGreatest
<1> QED
  BY <1>1, <1>3 DEF IsHit, IsLastHit

LEMMA LookupLast ==
    ASSUME NEW u \in UpdateList, NEW o, NEW a, NEW k, IsLastHit(u, k, o, a)
    PROVE  Lookup(u, o, a) = u.writes[k].value[a]
<1> DEFINE hits == {j \in DOMAIN u.writes : u.writes[j].index[a] = o}
<1>1. Len(u.writes) \in Nat /\ DOMAIN u.writes = 1 .. Len(u.writes)
  BY DEF UpdateList
<1>2. k \in hits /\ hits \in SUBSET (1 .. Len(u.writes))
  BY <1>1 DEF IsHit, IsLastHit
<1>3. Max(hits) \in hits /\ \A j \in hits : Max(hits) >= j
  BY <1>1, <1>2, MaxIsGreatest
<1>4. Max(hits) <= k
  BY <1>3 DEF IsHit, IsLastHit
<1> HIDE DEF hits
<1>5. Max(hits) \in Nat /\ k \in Nat /\ Max(hits) >= k
  <2>1. Max(hits) >= k
    BY <1>2, <1>3
  <2>2. Max(hits) \in 1 .. Len(u.writes) /\ k \in 1 .. Len(u.writes)
    BY <1>2, <1>3
  <2>3. \A j \in 1 .. Len(u.writes) : j \in Nat
    BY <1>1
  <2> QED
    BY <2>1, <2>2, <2>3
<1>6. Lookup(u, o, a) = IF hits = {} THEN Root(u)[a][o] ELSE u.writes[Max(hits)].value[a]
  BY DEF Lookup, hits
<1> QED
  BY <1>2, <1>4, <1>5, <1>6

LEMMA LookupMiss ==
    ASSUME NEW u \in UpdateList, NEW o, NEW a, \A k \in DOMAIN u.writes : ~IsHit(u, k, o, a)
    PROVE  Lookup(u, o, a) = Root(u)[a][o]
BY DEF Lookup, IsHit

LEMMA LookupType ==
    ASSUME NEW u \in UpdateList, NEW o \in Offsets, NEW a \in Inputs
    PROVE  Lookup(u, o, a) \in Bytes
<1>1. Root(u)[a][o] \in Bytes
  BY ObjectParameters DEF Root, UpdateList
<1>2. CASE \E j \in DOMAIN u.writes : IsHit(u, j, o, a)
  <2>1. PICK k \in DOMAIN u.writes : IsLastHit(u, k, o, a)
    BY <1>2, LastHit
  <2>2. u.writes[k] \in UpdateNode
    BY DEF UpdateList
  <2> QED
    BY <2>1, <2>2, LookupLast DEF UpdateNode
<1>3. CASE \A j \in DOMAIN u.writes : ~IsHit(u, j, o, a)
  BY <1>1, <1>3, LookupMiss
<1> QED
  BY <1>2, <1>3

(* Writes at the end of a list hide those before them to the same offset.  *)
LEMMA LookupExtended ==
    ASSUME NEW u \in UpdateList, NEW s \in Seq(UpdateNode), NEW o, NEW a
    PROVE  LET v == extend(u, s)
           IN  /\ v \in UpdateList
               /\ \A k \in DOMAIN s :
                     /\ s[k].index[a] = o
                     /\ \A j \in DOMAIN s : s[j].index[a] = o => j <= k
                     => Lookup(v, o, a) = s[k].value[a]
               /\ (\A k \in DOMAIN s : s[k].index[a] # o) => Lookup(v, o, a) = Lookup(u, o, a)
<1> DEFINE v == extend(u, s)
           m == Len(u.writes)
<1>1. /\ v \in UpdateList /\ v.writes = u.writes \o s /\ v.root = u.root
      /\ m \in Nat /\ Len(s) \in Nat
      /\ DOMAIN u.writes = 1 .. m /\ DOMAIN s = 1 .. Len(s)
      /\ DOMAIN v.writes = 1 .. (m + Len(s))
  <2>1. u.writes \in Seq(UpdateNode) /\ u.root \in {Lazy} \cup [Inputs -> [Offsets -> Bytes]]
    BY DEF UpdateList
  <2>2. /\ u.writes \o s \in Seq(UpdateNode)
        /\ Len(u.writes \o s) = m + Len(s) /\ m \in Nat /\ Len(s) \in Nat
    BY <2>1
  <2> QED
    BY <2>1, <2>2 DEF UpdateList, extend
<1>2. /\ \A k \in 1 .. m : v.writes[k] = u.writes[k]
      /\ \A k \in 1 .. Len(s) : v.writes[m + k] = s[k]
  BY <1>1 DEF UpdateList
<1> HIDE DEF v
<1>3. ASSUME NEW k \in DOMAIN s, s[k].index[a] = o,
             \A j \in DOMAIN s : s[j].index[a] = o => j <= k
      PROVE  Lookup(v, o, a) = s[k].value[a]
  <2>1. IsHit(v, m + k, o, a)
    BY <1>1, <1>2, <1>3 DEF IsHit
  <2>2. ASSUME NEW j \in DOMAIN v.writes, IsHit(v, j, o, a) PROVE j <= m + k
    <3>1. CASE j <= m
      BY <1>1, <3>1
    <3>2. CASE j > m
      <4>1. j - m \in 1 .. Len(s) /\ m + (j - m) = j
        BY <1>1, <3>2
      <4>2. s[j - m].index[a] = o
        BY <1>2, <2>2, <4>1 DEF IsHit
      <4> QED
        BY <1>1, <1>3, <4>1, <4>2
    <3> QED
      BY <1>1, <3>1, <3>2
  <2>3. IsLastHit(v, m + k, o, a)
    BY <2>1, <2>2 DEF IsLastHit
  <2> QED
    BY <1>1, <1>2, <2>3, LookupLast
<1>4. ASSUME \A k \in DOMAIN s : s[k].index[a] # o
      PROVE  Lookup(v, o, a) = Lookup(u, o, a)
  <2>1. ASSUME NEW j \in DOMAIN v.writes, IsHit(v, j, o, a) PROVE j \in 1 .. m
    <3>1. ASSUME j > m PROVE FALSE
      <4>1. j - m \in 1 .. Len(s) /\ m + (j - m) = j
        BY <1>1, <3>1
      <4> QED
        BY <1>1, <1>2, <1>4, <2>1, <4>1 DEF IsHit
    <3> QED
      BY <1>1, <3>1
  <2>2. \A j : IsHit(v, j, o, a) <=> IsHit(u, j, o, a)
    BY <1>1, <1>2, <2>1 DEF IsHit
  <2>3. CASE \E j \in DOMAIN u.writes : IsHit(u, j, o, a)
    <3>1. PICK k \in DOMAIN u.writes : IsLastHit(u, k, o, a)
      BY <2>3, LastHit
    <3>2. IsLastHit(v, k, o, a)
      BY <1>1, <2>2, <3>1 DEF IsLastHit, IsHit
    <3> QED
      BY <1>1, <1>2, <3>1, <3>2, LookupLast
  <2>4. CASE \A j \in DOMAIN u.writes : ~IsHit(u, j, o, a)
    <3>1. \A j \in DOMAIN v.writes : ~IsHit(v, j, o, a)
      BY <2>2, <2>4 DEF IsHit
    <3>2. Root(v) = Root(u)
      BY <1>1 DEF Root
    <3> QED
      BY <1>1, <2>4, <3>1, <3>2, LookupMiss
  <2> QED
    BY <2>3, <2>4
<1> QED
  BY <1>1, <1>3, <1>4 DEF v

LEMMA ConstantType ==
    /\ \A v \in Bytes : Constant(v) \in [Inputs -> Bytes]
    /\ \A o \in Offsets : Constant(o) \in [Inputs -> Offsets]
BY DEF Constant

-----------------------------------------------------------------------------
(* getUpdates changes where a list keeps a byte, not what it says of it.   *)
LEMMA getUpdatesKeeps ==
    ASSUME NEW u \in UpdateList
    PROVE  /\ getUpdates(u) \in UpdateList
           /\ \A o \in Offsets, a \in Inputs : Lookup(getUpdates(u), o, a) = Lookup(u, o, a)
<1>1. CASE u.root # Lazy
  BY <1>1 DEF getUpdates
<1>2. CASE u.root = Lazy
  <2> DEFINE w == u.writes
             symbolic == {k \in DOMAIN w : ~IsConstant(w[k])}
             begin == IF symbolic = {} THEN Len(w) ELSE Min(symbolic) - 1
             any == CHOOSE a \in Inputs : TRUE
             old == [root |-> Lazy, writes |-> SubSeq(w, 1, begin)]
             v == getUpdates(u)
  <2>1. w \in Seq(UpdateNode) /\ Len(w) \in Nat /\ DOMAIN w = 1 .. Len(w)
    BY DEF UpdateList
  <2>2. any \in Inputs
    BY ObjectParameters
  <2>3. begin \in 0 .. Len(w) /\ \A k \in 1 .. begin : IsConstant(w[k])
    <3>1. CASE symbolic = {}
      BY <2>1, <3>1
    <3>2. CASE symbolic # {}
      <4>1. symbolic \in SUBSET Nat
        BY <2>1
      <4>2. Min(symbolic) \in symbolic /\ \A n \in symbolic : Min(symbolic) <= n
        BY <3>2, <4>1, MinIsLeast
      <4>3. Min(symbolic) \in 1 .. Len(w)
        BY <2>1, <4>2
      <4> DEFINE least == Min(symbolic)
      <4> HIDE DEF least
      <4>4. begin = least - 1
        BY <3>2 DEF least
      <4>5. least \in 1 .. Len(w) /\ \A n \in symbolic : least <= n
        BY <4>2, <4>3 DEF least
      <4> HIDE DEF begin
      <4>6. begin \in 0 .. Len(w)
        BY <2>1, <4>4, <4>5
      <4>7. ASSUME NEW k \in 1 .. begin PROVE k \in DOMAIN w /\ k \notin symbolic
        BY <2>1, <4>4, <4>5
      <4> QED
        BY <4>6, <4>7
    <3> QED
      BY <3>1, <3>2
  <2> HIDE DEF begin
  <2>4. /\ SubSeq(w, 1, begin) \in Seq(UpdateNode)
        /\ DOMAIN SubSeq(w, 1, begin) = 1 .. begin
        /\ \A k \in 1 .. begin : SubSeq(w, 1, begin)[k] = w[k]
    BY <2>1, <2>3
  <2>5. /\ SubSeq(w, begin + 1, Len(w)) \in Seq(UpdateNode)
        /\ DOMAIN SubSeq(w, begin + 1, Len(w)) = 1 .. (Len(w) - begin)
        /\ \A k \in 1 .. (Len(w) - begin) : SubSeq(w, begin + 1, Len(w))[k] = w[begin + k]
    BY <2>1, <2>3
  <2>6. old \in UpdateList /\ old.writes = SubSeq(w, 1, begin) /\ old.root = Lazy
    BY <2>4 DEF UpdateList
  <2>7. v = [root |-> ConstantArray(SubSeq(w, 1, begin)), writes |-> SubSeq(w, begin + 1, Len(w))]
    BY <1>2 DEF getUpdates, begin
  <2> HIDE DEF v, old, w, symbolic
  <2>8. ConstantArray(SubSeq(w, 1, begin)) = [a \in Inputs |-> [o \in Offsets |-> Lookup(old, o, any)]]
    BY DEF ConstantArray, old
  <2> HIDE DEF any
  <2>9. ConstantArray(SubSeq(w, 1, begin)) \in [Inputs -> [Offsets -> Bytes]]
    BY <2>2, <2>6, <2>8, LookupType
  <2>10. v \in UpdateList /\ v.writes = SubSeq(w, begin + 1, Len(w)) /\ v.root = ConstantArray(SubSeq(w, 1, begin))
    BY <2>5, <2>7, <2>9 DEF UpdateList
  <2>11. Root(v) = ConstantArray(SubSeq(w, 1, begin))
    BY <2>9, <2>10, ObjectParameters DEF Root
  <2>12. ASSUME NEW o \in Offsets, NEW a \in Inputs
         PROVE  Lookup(v, o, a) = Lookup(u, o, a)
    <3>1. \A k \in 1 .. (Len(w) - begin) : IsHit(v, k, o, a) <=> IsHit(u, begin + k, o, a)
      BY <2>1, <2>3, <2>5, <2>10 DEF IsHit, w
    <3>2. CASE \E k \in DOMAIN v.writes : IsHit(v, k, o, a)
      <4>1. PICK k \in DOMAIN v.writes : IsLastHit(v, k, o, a)
        BY <2>10, <3>2, LastHit
      <4>2. k \in 1 .. (Len(w) - begin) /\ IsHit(u, begin + k, o, a)
        BY <2>5, <2>10, <3>1, <4>1 DEF IsLastHit
      <4>3. ASSUME NEW j \in DOMAIN w, IsHit(u, j, o, a), j > begin + k PROVE FALSE
        <5>1. j - begin \in 1 .. (Len(w) - begin) /\ begin + (j - begin) = j
          BY <2>1, <2>3, <4>2, <4>3
        <5>2. IsHit(v, j - begin, o, a)
          BY <3>1, <4>3, <5>1
        <5>3. j - begin <= k
          BY <2>5, <2>10, <4>1, <5>1, <5>2 DEF IsLastHit
        <5> QED
          BY <2>1, <2>3, <4>2, <4>3, <5>3
      <4>4. \A j \in DOMAIN w : IsHit(u, j, o, a) => j <= begin + k
        BY <2>1, <2>3, <4>2, <4>3
      <4>5. IsLastHit(u, begin + k, o, a)
        BY <4>2, <4>4 DEF IsLastHit, w
      <4>6. Lookup(u, o, a) = w[begin + k].value[a]
        BY <4>5, LookupLast DEF w
      <4>7. Lookup(v, o, a) = v.writes[k].value[a]
        <5>1. v \in UpdateList /\ IsLastHit(v, k, o, a)
          BY <2>10, <4>1
        <5> QED
          BY <5>1, LookupLast
      <4> QED
        BY <2>5, <2>10, <4>2, <4>6, <4>7
    <3>3. CASE \A k \in DOMAIN v.writes : ~IsHit(v, k, o, a)
      <4>1. Lookup(v, o, a) = Lookup(old, o, any)
        <5>1. Lookup(v, o, a) = Root(v)[a][o]
          BY <2>10, <3>3, LookupMiss
        <5> QED
          BY <2>8, <2>11, <5>1
      <4>2. \A k \in 1 .. begin : w[k].index[a] = w[k].index[any] /\ w[k].value[a] = w[k].value[any]
        <5> SUFFICES ASSUME NEW k \in 1 .. begin
                     PROVE  w[k].index[a] = w[k].index[any] /\ w[k].value[a] = w[k].value[any]
          OBVIOUS
        <5>1. IsConstant(w[k])
          BY <2>3
        <5>2. PICK c \in Offsets : w[k].index = Constant(c)
          BY <5>1 DEF IsConstant
        <5>3. PICK b \in Bytes : w[k].value = Constant(b)
          BY <5>1 DEF IsConstant
        <5> QED
          BY <2>2, <5>2, <5>3 DEF Constant
      <4>3. ASSUME NEW j \in DOMAIN w, IsHit(u, j, o, a) PROVE j \in 1 .. begin
        <5>1. ASSUME j > begin PROVE FALSE
          <6>1. j - begin \in 1 .. (Len(w) - begin) /\ begin + (j - begin) = j
            BY <2>1, <2>3, <5>1
          <6> QED
            BY <2>5, <2>10, <3>1, <3>3, <4>3, <6>1
        <5> QED
          BY <2>1, <2>3, <5>1
      <4>4. \A k : IsHit(u, k, o, a) <=> IsHit(old, k, o, any)
        BY <2>1, <2>3, <2>4, <2>6, <4>2, <4>3 DEF IsHit, w
      <4>5. CASE \E k \in DOMAIN w : IsHit(u, k, o, a)
        <5>1. PICK k \in DOMAIN w : IsLastHit(u, k, o, a)
          BY <4>5, LastHit DEF w
        <5>2. k \in 1 .. begin
          BY <4>3, <5>1 DEF IsLastHit
        <5>3. IsLastHit(old, k, o, any)
          BY <2>1, <2>3, <2>4, <2>6, <4>4, <5>1 DEF IsLastHit, IsHit, w
        <5>4. Lookup(u, o, a) = w[k].value[a]
          BY <5>1, LookupLast DEF w
        <5>5. Lookup(old, o, any) = w[k].value[any]
          <6>1. Lookup(old, o, any) = old.writes[k].value[any]
            <7>1. old \in UpdateList
              BY <2>6
            <7> HIDE DEF old
            <7> QED
              BY <5>3, <7>1, LookupLast
          <6>2. old.writes[k] = w[k]
            BY <2>4, <2>6, <5>2
          <6> QED
            BY <6>1, <6>2
        <5> QED
          BY <4>1, <4>2, <5>2, <5>4, <5>5
      <4>6. CASE \A k \in DOMAIN w : ~IsHit(u, k, o, a)
        <5>1. Lookup(u, o, a) = Root(u)[a][o]
          BY <4>6, LookupMiss DEF w
        <5>2. Lookup(old, o, any) = Root(old)[any][o]
          <6>1. \A k : ~IsHit(u, k, o, a)
            BY <4>6 DEF IsHit, w
          <6>2. \A k \in DOMAIN old.writes : ~IsHit(old, k, o, any)
            BY <4>4, <6>1
          <6>3. old \in UpdateList
            BY <2>6
          <6> HIDE DEF old
          <6> QED
            BY <6>2, <6>3, LookupMiss
        <5> QED
          BY <1>2, <2>2, <2>6, <4>1, <5>1, <5>2 DEF Root
      <4> QED
        BY <4>5, <4>6
    <3> QED
      BY <3>2, <3>3
  <2> QED
    BY <2>10, <2>12 DEF v
<1> QED
  BY <1>1, <1>2

-----------------------------------------------------------------------------
(* Flushing appends one write for each unflushed byte, and no other.       *)
LEMMA FlushedSays ==
    ASSUME TypeOK, CacheInvariants
    PROVE  /\ Flushed \in UpdateList
           /\ \A o \in Offsets, a \in Inputs :
                 Lookup(Flushed, o, a) = IF isByteFlushed(o) THEN Lookup(updates, o, a)
                                         ELSE Unflushed(o)[a]
<1> DEFINE S == {o \in Offsets : ~isByteFlushed(o)}
           offsets == SetToSeq(S)
           n == Cardinality(S)
<1>1. IsFiniteSet(S)
  BY ObjectParameters, FS_Subset
<1>2. /\ n \in Nat /\ offsets \in [1 .. n -> S] /\ IsInjective(offsets)
      /\ \A o \in S : \E k \in 1 .. n : offsets[k] = o
  BY <1>1, SetToSeqLists
<1> HIDE DEF offsets, n
<1>3. \A o \in S : Unflushed(o) \in [Inputs -> Bytes]
  <2> SUFFICES ASSUME NEW o \in S PROVE Unflushed(o) \in [Inputs -> Bytes]
    OBVIOUS
  <2>1. CASE isByteConcrete(o)
    BY <2>1, ConstantType DEF Unflushed, TypeOK
  <2>2. CASE ~isByteConcrete(o)
    <3>1. knownSymbolics[o] # Null
      BY <2>2 DEF CacheInvariants, isByteKnownSymbolic
    <3>2. knownSymbolics[o] \in {Null} \cup [Inputs -> Bytes]
      BY DEF TypeOK
    <3> QED
      BY <2>2, <3>1, <3>2 DEF Unflushed
  <2> QED
    BY <2>1, <2>2
<1>4. /\ DOMAIN Flush = 1 .. n
      /\ \A k \in 1 .. n : Flush[k] = Node(Constant(offsets[k]), Unflushed(offsets[k]))
  BY <1>2 DEF Flush, offsets
<1>5. \A k \in 1 .. n : /\ Flush[k].index = Constant(offsets[k])
                        /\ Flush[k].value = Unflushed(offsets[k])
                        /\ Flush[k] \in UpdateNode
  <2> SUFFICES ASSUME NEW k \in 1 .. n
               PROVE  /\ Flush[k].index = Constant(offsets[k])
                      /\ Flush[k].value = Unflushed(offsets[k])
                      /\ Flush[k] \in UpdateNode
    OBVIOUS
  <2>1. offsets[k] \in S
    BY <1>2
  <2>2. Constant(offsets[k]) \in [Inputs -> Offsets] /\ Unflushed(offsets[k]) \in [Inputs -> Bytes]
    BY <1>3, <2>1, ConstantType
  <2> QED
    BY <1>4, <2>2 DEF Node, UpdateNode
<1>6. Flush \in Seq(UpdateNode)
  <2>1. Flush = [k \in 1 .. n |-> Flush[k]]
    BY <1>2 DEF Flush, offsets
  <2>2. Flush \in [1 .. n -> UpdateNode]
    BY <1>5, <2>1
  <2> QED
    BY <1>2, <2>2
<1>7. \A k \in 1 .. n, a \in Inputs : Flush[k].index[a] = offsets[k]
  BY <1>5 DEF Constant
<1>8. updates \in UpdateList
  BY DEF TypeOK
<1>9. ASSUME NEW o \in Offsets, NEW a \in Inputs
      PROVE  Lookup(Flushed, o, a) = IF isByteFlushed(o) THEN Lookup(updates, o, a)
                                     ELSE Unflushed(o)[a]
  <2>1. CASE isByteFlushed(o)
    <3>1. \A k \in DOMAIN Flush : Flush[k].index[a] # o
      BY <1>2, <1>4, <1>7, <2>1
    <3> QED
      BY <1>6, <1>8, <2>1, <3>1, LookupExtended DEF Flushed
  <2>2. CASE ~isByteFlushed(o)
    <3>1. PICK k \in 1 .. n : offsets[k] = o
      BY <1>2, <2>2
    <3>2. \A j \in 1 .. n : Flush[j].index[a] = o => j = k
      BY <1>2, <1>7, <3>1 DEF IsInjective
    <3>3. Flush[k].index[a] = o /\ \A j \in DOMAIN Flush : Flush[j].index[a] = o => j <= k
      BY <1>2, <1>4, <1>7, <3>1, <3>2
    <3>4. \A l \in DOMAIN Flush :
             /\ Flush[l].index[a] = o
             /\ \A j \in DOMAIN Flush : Flush[j].index[a] = o => j <= l
             => Lookup(extend(updates, Flush), o, a) = Flush[l].value[a]
      BY <1>6, <1>8, LookupExtended
    <3>5. Lookup(Flushed, o, a) = Flush[k].value[a]
      BY <1>4, <3>3, <3>4 DEF Flushed
    <3> QED
      BY <1>5, <2>2, <3>1, <3>5
  <2> QED
    BY <2>1, <2>2
<1> QED
  BY <1>6, <1>8, <1>9, LookupExtended DEF Flushed

-----------------------------------------------------------------------------
(* Each place a byte may be in is right when the masks say it is there.    *)
StoreRight ==
    \A o \in Offsets : isByteConcrete(o) =>
        \A a \in Inputs : content[a][o] = concreteStore[o]

KnownRight ==
    \A o \in Offsets : isByteKnownSymbolic(o) =>
        \A a \in Inputs : content[a][o] = knownSymbolics[o][a]

ListRight ==
    \A o \in Offsets \ stale : isByteFlushed(o) =>
        \A a \in Inputs : content[a][o] = Lookup(updates, o, a)

IInv == TypeOK /\ CacheInvariants /\ StoreRight /\ KnownRight /\ ListRight

(* With the unflushed bytes at its end the list is right about every byte. *)
LEMMA FlushedRight ==
    ASSUME IInv
    PROVE  \A o \in Offsets \ stale, a \in Inputs : content[a][o] = Lookup(Flushed, o, a)
<1> SUFFICES ASSUME NEW o \in Offsets \ stale, NEW a \in Inputs
             PROVE  content[a][o] = Lookup(Flushed, o, a)
  OBVIOUS
<1>1. Lookup(Flushed, o, a) = IF isByteFlushed(o) THEN Lookup(updates, o, a) ELSE Unflushed(o)[a]
  BY FlushedSays DEF IInv
<1>2. CASE isByteFlushed(o)
  BY <1>1, <1>2 DEF IInv, ListRight
<1>3. CASE ~isByteFlushed(o) /\ isByteConcrete(o)
  BY <1>1, <1>3 DEF IInv, StoreRight, Unflushed, Constant
<1>4. CASE ~isByteFlushed(o) /\ ~isByteConcrete(o)
  BY <1>1, <1>4 DEF IInv, CacheInvariants, KnownRight, Unflushed
<1> QED
  BY <1>2, <1>3, <1>4

-----------------------------------------------------------------------------
(* The steps. *)

LEMMA InitRight == Init => IInv
<1> SUFFICES ASSUME Init PROVE IInv
  OBVIOUS
<1>1. updates \in UpdateList /\ updates.writes = << >>
  <2>1. PICK root \in {Lazy, ArrayBytes} : updates = [root |-> root, writes |-> << >>]
    BY DEF Init
  <2>2. << >> \in Seq(UpdateNode)
    OBVIOUS
  <2> QED
    BY <2>1, <2>2, ObjectParameters DEF UpdateList
<1>2. \A o \in Offsets, a \in Inputs : Lookup(updates, o, a) = Root(updates)[a][o]
  BY <1>1, LookupMiss DEF IsHit
<1>3. CASE /\ \E v \in {0, Fill} : concreteStore = [o \in Offsets |-> v]
           /\ concreteMask = Null /\ flushMask = Null
           /\ content = [a \in Inputs |-> concreteStore]
  <2>1. TypeOK
    BY <1>1, <1>3, ObjectParameters DEF Init, TypeOK
  <2>2. CacheInvariants /\ StoreRight /\ KnownRight /\ ListRight
    BY <1>3 DEF Init, CacheInvariants, StoreRight, KnownRight, ListRight,
                isByteConcrete, isByteFlushed, isByteKnownSymbolic
  <2> QED
    BY <2>1, <2>2 DEF IInv
<1>4. CASE /\ concreteStore = [o \in Offsets |-> 0]
           /\ concreteMask = {} /\ flushMask = {}
           /\ updates = [root |-> ArrayBytes, writes |-> << >>]
           /\ content = ArrayBytes
  <2>1. TypeOK
    BY <1>1, <1>4, ObjectParameters DEF Init, TypeOK
  <2>2. \A o \in Offsets : ~isByteConcrete(o) /\ ~isByteKnownSymbolic(o) /\ isByteFlushed(o)
    BY <1>4, ObjectParameters DEF Init, isByteConcrete, isByteKnownSymbolic, isByteFlushed
  <2>3. Root(updates) = ArrayBytes
    BY <1>4, ObjectParameters DEF Root
  <2> QED
    BY <1>2, <1>4, <2>1, <2>2, <2>3 DEF IInv, CacheInvariants, StoreRight, KnownRight, ListRight
<1> QED
  BY <1>3, <1>4 DEF Init

(* What a write at a constant offset leaves of the other bytes. *)
LEMMA ConcreteWriteRight ==
    ASSUME IInv, NEW o \in Offsets, NEW v \in Bytes, writeConcrete(o, v)
    PROVE  IInv'
<1> USE DEF isByteConcrete, isByteFlushed, isByteKnownSymbolic
<1>1. /\ concreteStore' = [concreteStore EXCEPT ![o] = v]
      /\ knownSymbolics' = [knownSymbolics EXCEPT ![o] = Null]
      /\ concreteMask' = IF concreteMask = Null THEN Null ELSE concreteMask \cup {o}
      /\ flushMask' = IF flushMask = Null THEN Null ELSE flushMask \cup {o}
      /\ content' = [a \in Inputs |-> [content[a] EXCEPT ![o] = v]]
      /\ stale' = stale \ {o} /\ updates' = updates
  BY DEF writeConcrete, setKnownSymbolic, markByteConcrete, markByteUnflushed, ContentBecomes, Constant
<1>2. TypeOK'
  BY <1>1 DEF IInv, TypeOK
<1>3. /\ isByteConcrete(o)' /\ ~isByteKnownSymbolic(o)' /\ ~isByteFlushed(o)'
      /\ \A p \in Offsets \ {o} : /\ isByteConcrete(p)' <=> isByteConcrete(p)
                                  /\ isByteKnownSymbolic(p)' <=> isByteKnownSymbolic(p)
                                  /\ isByteFlushed(p)' <=> isByteFlushed(p)
  BY <1>1, <1>2, ObjectParameters DEF IInv, TypeOK
<1>4. /\ concreteStore'[o] = v /\ \A a \in Inputs : content'[a][o] = v
      /\ \A p \in Offsets \ {o} : /\ concreteStore'[p] = concreteStore[p]
                                  /\ knownSymbolics'[p] = knownSymbolics[p]
                                  /\ \A a \in Inputs : content'[a][p] = content[a][p]
      /\ \A p, a : Lookup(updates', p, a) = Lookup(updates, p, a)
  BY <1>1 DEF IInv, TypeOK
<1> USE DEF IInv
<1>5. CacheInvariants'
  BY <1>3 DEF CacheInvariants
<1>6. StoreRight'
  BY <1>3, <1>4 DEF StoreRight
<1>7. KnownRight'
  BY <1>3, <1>4 DEF KnownRight
<1>8. ListRight'
  BY <1>1, <1>3, <1>4 DEF ListRight
<1> QED
  BY <1>2, <1>5, <1>6, <1>7, <1>8

LEMMA SymbolicWriteRight ==
    ASSUME IInv, NEW o \in Offsets, NEW e \in Symbols, writeSymbolic(o, e)
    PROVE  IInv'
<1>1. e \in [Inputs -> Bytes] /\ e # Null
  BY ObjectParameters
<1>2. /\ concreteStore' = concreteStore
      /\ knownSymbolics' = [knownSymbolics EXCEPT ![o] = e]
      /\ concreteMask' = (IF concreteMask = Null THEN Offsets ELSE concreteMask) \ {o}
      /\ flushMask' = IF flushMask = Null THEN Null ELSE flushMask \cup {o}
      /\ content' = [a \in Inputs |-> [content[a] EXCEPT ![o] = e[a]]]
      /\ stale' = stale \ {o} /\ updates' = updates
  BY DEF writeSymbolic, setKnownSymbolic, markByteSymbolic, markByteUnflushed, ContentBecomes, Constant
<1>3. TypeOK'
  BY <1>1, <1>2 DEF IInv, TypeOK
<1>4. concreteMask' # Null
  BY <1>2, ObjectParameters DEF IInv, TypeOK
<1>5. /\ ~isByteConcrete(o)' /\ isByteKnownSymbolic(o)' /\ ~isByteFlushed(o)'
      /\ \A p \in Offsets \ {o} : /\ isByteConcrete(p)' <=> isByteConcrete(p)
                                  /\ isByteKnownSymbolic(p)' <=> isByteKnownSymbolic(p)
                                  /\ isByteFlushed(p)' <=> isByteFlushed(p)
  BY <1>1, <1>2, <1>3, <1>4, ObjectParameters DEF IInv, TypeOK, isByteConcrete, isByteFlushed, isByteKnownSymbolic
<1>6. /\ knownSymbolics'[o] = e /\ \A a \in Inputs : content'[a][o] = e[a]
      /\ \A p \in Offsets \ {o} : /\ knownSymbolics'[p] = knownSymbolics[p]
                                  /\ \A a \in Inputs : content'[a][p] = content[a][p]
      /\ \A p, a : Lookup(updates', p, a) = Lookup(updates, p, a)
  BY <1>2 DEF IInv, TypeOK
<1>7. CacheInvariants'
  BY <1>5 DEF IInv, CacheInvariants
<1>8. StoreRight'
  BY <1>2, <1>5, <1>6 DEF IInv, StoreRight
<1>9. KnownRight'
  BY <1>5, <1>6 DEF IInv, KnownRight
<1>10. ListRight'
  BY <1>2, <1>5, <1>6 DEF IInv, ListRight
<1> QED
  BY <1>3, <1>7, <1>8, <1>9, <1>10 DEF IInv

LEMMA ConstantReadRight ==
    ASSUME IInv, NEW o \in Offsets, readAtConstant(o)
    PROVE  IInv'
<1>1. /\ updates' = getUpdates(updates)
      /\ UNCHANGED <<concreteStore, concreteMask, flushMask, knownSymbolics, content, stale>>
  BY DEF readAtConstant
<1>2. /\ updates' \in UpdateList
      /\ \A p \in Offsets, a \in Inputs : Lookup(updates', p, a) = Lookup(updates, p, a)
  BY <1>1, getUpdatesKeeps DEF IInv, TypeOK
<1> QED
  BY <1>1, <1>2 DEF IInv, TypeOK, CacheInvariants, StoreRight, KnownRight, ListRight,
                    isByteConcrete, isByteFlushed, isByteKnownSymbolic

LEMMA SymbolicReadRight ==
    ASSUME IInv, readAtSymbolic
    PROVE  IInv'
<1>1. /\ updates' = getUpdates(Flushed) /\ flushMask' = {}
      /\ UNCHANGED <<concreteStore, concreteMask, knownSymbolics, content, stale>>
  BY DEF readAtSymbolic
<1>2. /\ updates' \in UpdateList
      /\ \A p \in Offsets, a \in Inputs : Lookup(updates', p, a) = Lookup(Flushed, p, a)
  BY <1>1, FlushedSays, getUpdatesKeeps DEF IInv
<1>3. \A p \in Offsets : isByteFlushed(p)'
  BY <1>1, ObjectParameters DEF isByteFlushed
<1>4. ListRight'
  BY <1>1, <1>2, FlushedRight DEF ListRight
<1> QED
  BY <1>1, <1>2, <1>3, <1>4 DEF IInv, TypeOK, CacheInvariants, StoreRight, KnownRight,
                                isByteConcrete, isByteKnownSymbolic

(* A write at a symbolic offset goes to the end of the list; no byte is    *)
(* kept anywhere else.                                                     *)
LEMMA WriteAtSymbolicRight ==
    ASSUME IInv, NEW i \in Indices, NEW e \in Symbols \cup {Constant(v) : v \in Bytes},
           writeAtSymbolic(i, e)
    PROVE  IInv'
<1>1. i \in [Inputs -> Offsets] /\ e \in [Inputs -> Bytes]
  BY ObjectParameters, ConstantType
<1>2. /\ MarkOut /\ flushMask' = {} /\ UNCHANGED <<concreteStore, stale>>
      /\ updates' = extend(Flushed, <<Node(i, e)>>)
      /\ content' = [a \in Inputs |-> [content[a] EXCEPT ![i[a]] = e[a]]]
  BY DEF writeAtSymbolic, ContentBecomes
<1>3. concreteMask' = {} /\ knownSymbolics' = [o \in Offsets |-> Null]
  BY <1>2 DEF MarkOut, IInv, CacheInvariants, isByteKnownSymbolic
<1>4. \A o \in Offsets : ~isByteConcrete(o)' /\ ~isByteKnownSymbolic(o)' /\ isByteFlushed(o)'
  BY <1>2, <1>3, ObjectParameters DEF isByteConcrete, isByteKnownSymbolic, isByteFlushed
<1> DEFINE s == <<Node(i, e)>>
<1>5. /\ s \in Seq(UpdateNode) /\ DOMAIN s = {1}
      /\ s[1].index = i /\ s[1].value = e
  BY <1>1 DEF Node, UpdateNode
<1>6. Flushed \in UpdateList
  BY FlushedSays DEF IInv
<1> HIDE DEF s
<1>7. updates' = extend(Flushed, s)
  BY <1>2 DEF s
<1>8. ASSUME NEW o \in Offsets, NEW a \in Inputs
      PROVE  /\ updates' \in UpdateList
             /\ Lookup(updates', o, a) = IF i[a] = o THEN e[a] ELSE Lookup(Flushed, o, a)
  <2>1. /\ extend(Flushed, s) \in UpdateList
        /\ \A k \in DOMAIN s :
              /\ s[k].index[a] = o
              /\ \A j \in DOMAIN s : s[j].index[a] = o => j <= k
              => Lookup(extend(Flushed, s), o, a) = s[k].value[a]
        /\ (\A k \in DOMAIN s : s[k].index[a] # o) =>
              Lookup(extend(Flushed, s), o, a) = Lookup(Flushed, o, a)
    BY <1>5, <1>6, LookupExtended
  <2>2. CASE i[a] = o
    BY <1>5, <1>7, <2>1, <2>2
  <2>3. CASE i[a] # o
    BY <1>5, <1>7, <2>1, <2>3
  <2> QED
    BY <1>7, <2>1, <2>2, <2>3
<1>9. updates' \in UpdateList
  BY <1>5, <1>6, <1>7, LookupExtended
<1>10. TypeOK'
  <2>1. content' \in [Inputs -> [Offsets -> Bytes]]
    BY <1>1, <1>2 DEF IInv, TypeOK
  <2> QED
    BY <1>2, <1>3, <1>9, <2>1 DEF IInv, TypeOK
<1>11. ListRight'
  <2> SUFFICES ASSUME NEW o \in Offsets \ stale, NEW a \in Inputs
               PROVE  content'[a][o] = Lookup(updates', o, a)
    BY <1>2 DEF ListRight
  <2>1. content[a][o] = Lookup(Flushed, o, a)
    BY FlushedRight
  <2>2. content'[a][o] = IF i[a] = o THEN e[a] ELSE content[a][o]
    BY <1>1, <1>2 DEF IInv, TypeOK
  <2> QED
    BY <1>8, <2>1, <2>2
<1> QED
  BY <1>4, <1>10, <1>11 DEF IInv, CacheInvariants, StoreRight, KnownRight

LEMMA ExternalCallRight ==
    ASSUME IInv, callExternalFunction
    PROVE  IInv'
<1>1. PICK out \in FlushedStores, result \in [Offsets -> Bytes] :
        LET changed == {o \in Offsets : isByteConcrete(o) /\ result[o] # out[o]}
        IN  /\ concreteStore' = result
            /\ content' = [a \in Inputs |->
                             [o \in Offsets |-> IF o \in changed THEN result[o]
                                                ELSE content[a][o]]]
            /\ stale' = stale \cup {o \in changed : isByteFlushed(o)}
            /\ UNCHANGED <<concreteMask, flushMask, knownSymbolics, updates>>
  BY DEF callExternalFunction
<1> DEFINE changed == {o \in Offsets : isByteConcrete(o) /\ result[o] # out[o]}
<1>2. \A o \in Offsets : isByteConcrete(o) => out[o] = concreteStore[o]
  BY DEF FlushedStores, IInv, CacheInvariants
<1>3. \A o \in Offsets : /\ isByteConcrete(o)' <=> isByteConcrete(o)
                         /\ isByteKnownSymbolic(o)' <=> isByteKnownSymbolic(o)
                         /\ isByteFlushed(o)' <=> isByteFlushed(o)
  BY <1>1 DEF isByteConcrete, isByteKnownSymbolic, isByteFlushed
<1>4. \A o \in Offsets, a \in Inputs :
         content'[a][o] = IF o \in changed THEN result[o] ELSE content[a][o]
  BY <1>1
<1>5. TypeOK'
  <2>1. content' \in [Inputs -> [Offsets -> Bytes]]
    BY <1>1 DEF IInv, TypeOK
  <2>2. stale' \subseteq Offsets
    BY <1>1 DEF IInv, TypeOK
  <2> QED
    BY <1>1, <2>1, <2>2 DEF IInv, TypeOK
<1>6. CacheInvariants'
  BY <1>3 DEF IInv, CacheInvariants
<1>7. StoreRight'
  <2> SUFFICES ASSUME NEW o \in Offsets, isByteConcrete(o), NEW a \in Inputs
               PROVE  content'[a][o] = result[o]
    BY <1>1, <1>3 DEF StoreRight
  <2> QED
    BY <1>2, <1>4 DEF IInv, StoreRight
<1>8. KnownRight'
  BY <1>1, <1>3, <1>4 DEF IInv, KnownRight, CacheInvariants
<1>9. ListRight'
  BY <1>1, <1>3, <1>4 DEF IInv, ListRight
<1> QED
  BY <1>5, <1>6, <1>7, <1>8, <1>9 DEF IInv

LEMMA StutterRight ==
    ASSUME IInv, UNCHANGED vars
    PROVE  IInv'
BY DEF IInv, vars, object, TypeOK, CacheInvariants, StoreRight, KnownRight, ListRight,
       isByteConcrete, isByteFlushed, isByteKnownSymbolic

-----------------------------------------------------------------------------
(* The masks say where each byte is, and it is right there: whatever the   *)
(* order of reads, writes, flushes and external calls.                     *)
THEOREM BytesRight == Spec => []IInv
<1>1. Init => IInv
  BY InitRight
<1>2. IInv /\ [Next]_vars => IInv'
  <2> SUFFICES ASSUME IInv, [Next]_vars PROVE IInv'
    OBVIOUS
  <2>1. CASE \E o \in Offsets, v \in Bytes : writeConcrete(o, v)
    BY <2>1, ConcreteWriteRight
  <2>2. CASE \E o \in Offsets, e \in Symbols : writeSymbolic(o, e)
    BY <2>2, SymbolicWriteRight
  <2>3. CASE \E o \in Offsets : readAtConstant(o)
    BY <2>3, ConstantReadRight
  <2>4. CASE readAtSymbolic
    BY <2>4, SymbolicReadRight
  <2>5. CASE \E i \in Indices, e \in Symbols \cup {Constant(v) : v \in Bytes} : writeAtSymbolic(i, e)
    BY <2>5, WriteAtSymbolicRight
  <2>6. CASE callExternalFunction
    BY <2>6, ExternalCallRight
  <2>7. CASE UNCHANGED vars
    BY <2>7, StutterRight
  <2> QED
    BY <2>1, <2>2, <2>3, <2>4, <2>5, <2>6, <2>7 DEF Next
<1> QED
  BY <1>1, <1>2, PTL DEF Spec

(* Every variable stays in its type. *)
THEOREM BytesTyped == Spec => []TypeOK
<1>1. IInv => TypeOK
  BY DEF IInv
<1> QED
  BY <1>1, BytesRight, PTL

(* Memory.cpp's "Cache Invariants": no unflushed byte is ever lost.        *)
THEOREM NoByteLost == Spec => []CacheInvariants
<1>1. IInv => CacheInvariants
  BY DEF IInv
<1> QED
  BY <1>1, BytesRight, PTL

(* read8 at a constant offset returns the latest write to it.              *)
THEOREM ReadsAtConstants == Spec => []ConstantReadsRight
<1>1. IInv => ConstantReadsRight
  <2> SUFFICES ASSUME IInv, NEW o \in Offsets, isByteConcrete(o) \/ o \notin stale, NEW a \in Inputs
               PROVE  read8(o)[a] = content[a][o]
    BY DEF ConstantReadsRight
  <2>1. CASE isByteConcrete(o)
    BY <2>1 DEF IInv, StoreRight, read8, Constant
  <2>2. CASE ~isByteConcrete(o) /\ isByteKnownSymbolic(o)
    BY <2>2 DEF IInv, KnownRight, read8
  <2>3. CASE ~isByteConcrete(o) /\ ~isByteKnownSymbolic(o)
    <3>1. isByteFlushed(o) /\ o \notin stale
      BY <2>3 DEF IInv, CacheInvariants
    <3>2. read8(o)[a] = Lookup(getUpdates(updates), o, a)
      BY <2>3 DEF read8, ReadExpr, Constant
    <3> QED
      BY <3>1, <3>2, getUpdatesKeeps DEF IInv, TypeOK, ListRight
  <2> QED
    BY <2>1, <2>2, <2>3
<1> QED
  BY <1>1, BytesRight, PTL

(* read8 at a symbolic offset returns, on every input, the latest write to *)
(* the byte the offset then is.                                            *)
THEOREM ReadsAtSymbols == Spec => []SymbolicReadsRight
<1>1. IInv => SymbolicReadsRight
  <2> SUFFICES ASSUME IInv, NEW i \in Indices, NEW a \in Inputs, i[a] \notin stale
               PROVE  ReadExpr(getUpdates(Flushed), i)[a] = content[a][i[a]]
    BY DEF SymbolicReadsRight
  <2>1. i[a] \in Offsets
    BY ObjectParameters
  <2>2. ReadExpr(getUpdates(Flushed), i)[a] = Lookup(getUpdates(Flushed), i[a], a)
    BY DEF ReadExpr
  <2>3. Lookup(getUpdates(Flushed), i[a], a) = Lookup(Flushed, i[a], a)
    BY <2>1, FlushedSays, getUpdatesKeeps DEF IInv
  <2> QED
    BY <2>1, <2>2, <2>3, FlushedRight
<1> QED
  BY <1>1, BytesRight, PTL

(* Native code finds values the concrete and the known bytes have.         *)
THEOREM NativeValues == Spec => []NativeFindsValues
<1>1. IInv => NativeFindsValues
  <2> SUFFICES ASSUME IInv, NEW o \in Offsets, isByteConcrete(o) \/ isByteKnownSymbolic(o)
               PROVE  /\ {content[a][o] : a \in Inputs} \subseteq NativeFinds(o)
                      /\ isByteConcrete(o) => NativeFinds(o) = {content[a][o] : a \in Inputs}
                      /\ NativeFinds(o) \subseteq {content[a][o] : a \in Inputs} \cup {concreteStore[o]}
    BY DEF NativeFindsValues
  <2> DEFINE values == {content[a][o] : a \in Inputs}
  <2>1. concreteStore \in FlushedStores
    BY DEF FlushedStores, IInv, TypeOK
  <2>2. CASE isByteConcrete(o)
    <3>1. ~isByteKnownSymbolic(o)
      BY <2>2 DEF IInv, CacheInvariants
    <3>2. NativeFinds(o) = {concreteStore[o]}
      BY <2>1, <3>1 DEF NativeFinds, FlushedStores
    <3>3. values = {concreteStore[o]}
      BY <2>2, ObjectParameters DEF IInv, StoreRight
    <3> QED
      BY <3>2, <3>3
  <2>3. CASE isByteKnownSymbolic(o) /\ ~isByteConcrete(o)
    <3>1. \A a \in Inputs : content[a][o] = knownSymbolics[o][a] /\ knownSymbolics[o][a] \in Bytes
      BY <2>3 DEF IInv, KnownRight, TypeOK, isByteKnownSymbolic
    <3>2. ASSUME NEW a \in Inputs PROVE content[a][o] \in NativeFinds(o)
      <4> DEFINE store == [concreteStore EXCEPT ![o] = knownSymbolics[o][a]]
      <4>1. store \in FlushedStores /\ store[o] = content[a][o]
        BY <2>3, <3>1 DEF IInv, TypeOK, FlushedStores
      <4> QED
        BY <4>1 DEF NativeFinds
    <3>3. ASSUME NEW store \in FlushedStores PROVE store[o] \in values \cup {concreteStore[o]}
      BY <3>1 DEF FlushedStores
    <3> QED
      BY <2>3, <3>2, <3>3 DEF NativeFinds
  <2> QED
    BY <2>2, <2>3
<1> QED
  BY <1>1, BytesRight, PTL
=============================================================================
