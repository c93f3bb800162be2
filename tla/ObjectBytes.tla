----------------------------- MODULE ObjectBytes ----------------------------
(***************************************************************************)
(* The bytes of an ObjectState.                                            *)
(*                                                                         *)
(* A byte may be known as a number in concreteStore, or as an expression   *)
(* in knownSymbolics; an access at a symbolic offset needs all of them in  *)
(* one array instead: a root and the list of the writes to it, updates.    *)
(* Bytes are flushed into that list only when they must be, and stay       *)
(* known after a read, but not after a write: two bit masks say where the  *)
(* value of a byte is.  The native code of an external call knows nothing  *)
(* of all this: it works on concreteStore.                                 *)
(*                                                                         *)
(* An expression is a function from the values of the program's symbolic   *)
(* input to the expression's; a ConstantExpr is a constant function.       *)
(***************************************************************************)
EXTENDS Naturals, Sequences, FiniteSets, SequencesExt, FiniteSetsExt

CONSTANTS
    Offsets,     \* the offsets of the object's bytes
    Bytes,       \* the values of a byte, 0 among them
    Inputs,      \* the values of the symbolic input
    Symbols,     \* expressions of a byte that are not constant
    Indices,     \* expressions of an offset that are not constant
    ArrayBytes,  \* ArrayBytes[a]: the Array of a symbolic object, on input a
    Lazy,        \* a null Array pointer: the constant array does not exist yet
    Null,        \* a null pointer: to a BitArray or an Expr
    Fill,        \* the byte initializeToRandom fills an object with
    MaxWrites    \* bound on the length of the list of writes

Constant(v) == [a \in Inputs |-> v]

ASSUME ObjectParameters ==
    /\ IsFiniteSet(Offsets) /\ {0, Fill} \subseteq Bytes /\ Inputs # {}
    /\ Symbols \subseteq [Inputs -> Bytes] \ {Constant(v) : v \in Bytes}
    /\ Indices \subseteq [Inputs -> Offsets] \ {Constant(o) : o \in Offsets}
    /\ ArrayBytes \in [Inputs -> [Offsets -> Bytes]]
    /\ Lazy \notin [Inputs -> [Offsets -> Bytes]]
    /\ Null \notin [Inputs -> Bytes] /\ \A mask \in SUBSET Offsets : Null # mask
    /\ MaxWrites \in Nat

VARIABLES
    concreteStore,   \* the concrete values
    concreteMask,    \* the offsets of the concrete bytes; Null: of all
    flushMask,       \* the offsets of the unflushed bytes; Null: of all
    knownSymbolics,  \* the expression a byte is known as, or Null
    updates,         \* [root, writes], the oldest write first
    content,         \* history: what the object holds, on every input
    stale            \* history: bytes changed by native code after they
                     \* were flushed

object == <<concreteStore, concreteMask, flushMask, knownSymbolics, updates>>
vars   == <<object, content, stale>>

isByteConcrete(o)      == concreteMask = Null \/ o \in concreteMask
isByteFlushed(o)       == flushMask # Null /\ o \notin flushMask
isByteKnownSymbolic(o) == knownSymbolics[o] # Null

-----------------------------------------------------------------------------
(* Update lists. *)

UpdateNode == [index : [Inputs -> Offsets], value : [Inputs -> Bytes]]

UpdateList == [root : {Lazy} \cup [Inputs -> [Offsets -> Bytes]], writes : Seq(UpdateNode)]

Node(index, value) == [index |-> index, value |-> value]

IsConstant(n) ==
    /\ \E o \in Offsets : n.index = Constant(o)
    /\ \E v \in Bytes : n.value = Constant(v)

Root(u) ==
    IF u.root = Lazy THEN [a \in Inputs |-> [o \in Offsets |-> 0]] ELSE u.root

(* On input a: the value of the latest write to o, or the root's. *)
Lookup(u, o, a) ==
    LET hits == {k \in DOMAIN u.writes : u.writes[k].index[a] = o}
    IN  IF hits = {} THEN Root(u)[a][o] ELSE u.writes[Max(hits)].value[a]

ReadExpr(u, index) == [a \in Inputs |-> Lookup(u, index[a], a)]

(* The constant array of what writes leave in an array of zeros. *)
ConstantArray(writes) ==
    LET any == CHOOSE a \in Inputs : TRUE
    IN  [a \in Inputs |->
           [o \in Offsets |-> Lookup([root |-> Lazy, writes |-> writes], o, any)]]

(* Mutant: concrete writes after the first symbolic one are pulled off too. *)
getUpdatesOutOfOrder(u) ==
    IF u.root # Lazy THEN u
    ELSE [root |-> ConstantArray(SelectSeq(u.writes, IsConstant)),
          writes |-> SelectSeq(u.writes, LAMBDA n : ~IsConstant(n))]

(* The constant array is created of zeros and of the concrete writes       *)
(* before the first that is not.                                           *)
getUpdates(u) ==
    IF u.root # Lazy THEN u
    ELSE LET symbolic == {k \in DOMAIN u.writes : ~IsConstant(u.writes[k])}
             begin == IF symbolic = {} THEN Len(u.writes) ELSE Min(symbolic) - 1
         IN  [root |-> ConstantArray(SubSeq(u.writes, 1, begin)),
              writes |-> SubSeq(u.writes, begin + 1, Len(u.writes))]

(* Mutant: what a byte is known as comes before what it holds. *)
KnownFirst(o) == knownSymbolics[o]

(* What a byte that is not flushed is flushed as. *)
Unflushed(o) == IF isByteConcrete(o) THEN Constant(concreteStore[o]) ELSE knownSymbolics[o]

(* What the list of writes is extended with: the unflushed bytes, in some  *)
(* order, as they are writes to different offsets.                         *)
Flush ==
    LET offsets == SetToSeq({o \in Offsets : ~isByteFlushed(o)})
    IN  [k \in DOMAIN offsets |-> Node(Constant(offsets[k]), Unflushed(offsets[k]))]

extend(u, writes) == [root |-> u.root, writes |-> u.writes \o writes]

Flushed == extend(updates, Flush)

-----------------------------------------------------------------------------
(* The masks. *)

markByteUnflushed(o) ==
    flushMask' = IF flushMask = Null THEN Null ELSE flushMask \cup {o}

markByteConcrete(o) ==
    concreteMask' = IF concreteMask = Null THEN Null ELSE concreteMask \cup {o}

markByteSymbolic(o) ==
    concreteMask' = (IF concreteMask = Null THEN Offsets ELSE concreteMask) \ {o}

(* Mutant: what the byte was known as is kept. *)
StaysKnown(o, value) ==
    knownSymbolics' = IF value = Null THEN knownSymbolics
                      ELSE [knownSymbolics EXCEPT ![o] = value]

setKnownSymbolic(o, value) ==
    knownSymbolics' = [knownSymbolics EXCEPT ![o] = value]

Fits == Len(updates'.writes) <= MaxWrites

(* On input a the byte at where[a] becomes value[a]. *)
ContentBecomes(where, value) ==
    content' = [a \in Inputs |-> [content[a] EXCEPT ![where[a]] = value[a]]]

-----------------------------------------------------------------------------
(* Reads and writes.  One of several bytes is a sequence of these. *)

(* write8 of a number at a constant offset. *)
writeConcrete(o, v) ==
    /\ concreteStore' = [concreteStore EXCEPT ![o] = v]
    /\ setKnownSymbolic(o, Null)
    /\ markByteConcrete(o) /\ markByteUnflushed(o)
    /\ ContentBecomes(Constant(o), Constant(v))
    /\ stale' = stale \ {o}
    /\ UNCHANGED updates

(* write8 of an expression at a constant offset. *)
writeSymbolic(o, e) ==
    /\ setKnownSymbolic(o, e)
    /\ markByteSymbolic(o) /\ markByteUnflushed(o)
    /\ ContentBecomes(Constant(o), e)
    /\ stale' = stale \ {o}
    /\ UNCHANGED <<concreteStore, updates>>

(* flushRangeForRead over all bytes, and read8 at a symbolic offset. *)
readAtSymbolic ==
    /\ flushMask' = {}
    /\ updates' = getUpdates(Flushed) /\ Fits
    /\ UNCHANGED <<concreteStore, concreteMask, knownSymbolics, content, stale>>

(* read8 at a constant offset; the array is created when it is needed. *)
readAtConstant(o) ==
    /\ ~isByteConcrete(o) /\ ~isByteKnownSymbolic(o)
    /\ updates' = getUpdates(updates)
    /\ UNCHANGED <<concreteStore, concreteMask, flushMask, knownSymbolics, content, stale>>

(* Mutant: bytes that were flushed before are not marked out. *)
MarkOnlyUnflushed ==
    /\ concreteMask' = {o \in Offsets : isByteConcrete(o) /\ isByteFlushed(o)}
    /\ knownSymbolics' = [o \in Offsets |-> IF isByteConcrete(o) \/ isByteFlushed(o)
                                            THEN knownSymbolics[o] ELSE Null]

(* No byte is concrete or known any more, flushed or not. *)
MarkOut ==
    /\ concreteMask' = {}
    /\ knownSymbolics' = [o \in Offsets |-> IF isByteConcrete(o) THEN knownSymbolics[o]
                                            ELSE Null]

(* flushRangeForWrite over all bytes, and write8 at a symbolic offset. *)
writeAtSymbolic(i, e) ==
    /\ MarkOut /\ flushMask' = {}
    /\ updates' = extend(Flushed, <<Node(i, e)>>) /\ Fits
    /\ ContentBecomes(i, e)
    /\ UNCHANGED <<concreteStore, stale>>

(* Mutant: a byte that is in the list of writes is not asked for. *)
UnflushedStores ==
    {store \in [Offsets -> Bytes] :
        \A o \in Offsets :
            \/ store[o] = concreteStore[o]
            \/ /\ isByteKnownSymbolic(o) /\ ~isByteFlushed(o)
               /\ \E a \in Inputs : store[o] = knownSymbolics[o][a]}

(* What flushToConcreteStore may leave in the store: a value of each byte  *)
(* known to be symbolic, asked for on its own, unless the solver fails.    *)
FlushedStores ==
    {store \in [Offsets -> Bytes] :
        \A o \in Offsets :
            \/ store[o] = concreteStore[o]
            \/ isByteKnownSymbolic(o) /\ \E a \in Inputs : store[o] = knownSymbolics[o][a]}

(* An external call: the store goes out, with an object that an argument   *)
(* points to flushed before, native code writes any of it, and what has    *)
(* changed comes back in.                                                  *)
callExternalFunction ==
    \E out \in FlushedStores, result \in [Offsets -> Bytes] :
        LET changed == {o \in Offsets : isByteConcrete(o) /\ result[o] # out[o]}
        IN  /\ concreteStore' = result
            /\ content' = [a \in Inputs |->
                             [o \in Offsets |-> IF o \in changed THEN result[o]
                                                ELSE content[a][o]]]
            /\ stale' = stale \cup {o \in changed : isByteFlushed(o)}
            /\ UNCHANGED <<concreteMask, flushMask, knownSymbolics, updates>>

(* Native code finds the bytes it may work with in the store. *)
NativeFinds(o) == {store[o] : store \in FlushedStores}

(* ObjectState(mo), zeroed or filled, whose root is an array of its own     *)
(* unless constant arrays are used; or ObjectState(mo, array).              *)
Init ==
    /\ knownSymbolics = [o \in Offsets |-> Null]
    /\ stale = {}
    /\ \/ /\ \E v \in {0, Fill} : concreteStore = [o \in Offsets |-> v]
          /\ concreteMask = Null /\ flushMask = Null
          /\ \E root \in {Lazy, ArrayBytes} : updates = [root |-> root, writes |-> << >>]
          /\ content = [a \in Inputs |-> concreteStore]
       \/ /\ concreteStore = [o \in Offsets |-> 0]
          /\ concreteMask = {} /\ flushMask = {}
          /\ updates = [root |-> ArrayBytes, writes |-> << >>]
          /\ content = ArrayBytes

Next ==
    \/ \E o \in Offsets :
          \/ \E v \in Bytes : writeConcrete(o, v)
          \/ \E e \in Symbols : writeSymbolic(o, e)
          \/ readAtConstant(o)
    \/ readAtSymbolic
    \/ \E i \in Indices, e \in Symbols \cup {Constant(v) : v \in Bytes} : writeAtSymbolic(i, e)
    \/ callExternalFunction

Spec == Init /\ [][Next]_vars

-----------------------------------------------------------------------------
TypeOK ==
    /\ concreteStore \in [Offsets -> Bytes]
    /\ concreteMask = Null \/ concreteMask \in SUBSET Offsets
    /\ flushMask = Null \/ flushMask \in SUBSET Offsets
    /\ knownSymbolics \in [Offsets -> {Null} \cup [Inputs -> Bytes]]
    /\ updates \in UpdateList
    /\ content \in [Inputs -> [Offsets -> Bytes]] /\ stale \subseteq Offsets

(* Memory.cpp's "Cache Invariants": a byte known to be symbolic is not     *)
(* concrete, and one that is not flushed is concrete or known, so that it  *)
(* is never lost (read8: "unflushed byte without cache value").            *)
CacheInvariants ==
    \A o \in Offsets :
        /\ isByteKnownSymbolic(o) => ~isByteConcrete(o)
        /\ ~isByteFlushed(o) => isByteConcrete(o) \/ isByteKnownSymbolic(o)

(* read8 at a constant offset. *)
read8(o) ==
    IF isByteConcrete(o) THEN Constant(concreteStore[o])
    ELSE IF isByteKnownSymbolic(o) THEN knownSymbolics[o]
    ELSE ReadExpr(getUpdates(updates), Constant(o))

(* A read at a constant offset returns, on every input, the latest write   *)
(* to it, through whatever masks, caches and lists, unless native code has *)
(* changed the byte behind its flushed copy (stale).                       *)
ConstantReadsRight ==
    \A o \in Offsets :
        isByteConcrete(o) \/ o \notin stale => \A a \in Inputs : read8(o)[a] = content[a][o]

(* So does a read at a symbolic offset, which flushes first. *)
SymbolicReadsRight ==
    \A i \in Indices, a \in Inputs :
        i[a] \notin stale => ReadExpr(getUpdates(Flushed), i)[a] = content[a][i[a]]

(* Native code may find in the store whatever a concrete or a known byte   *)
(* holds on some input, and nothing else, but for the old value of a byte  *)
(* that was not flushed or whose value the solver did not find.            *)
NativeFindsValues ==
    \A o \in Offsets :
        LET values == {content[a][o] : a \in Inputs}
        IN  isByteConcrete(o) \/ isByteKnownSymbolic(o) =>
               /\ values \subseteq NativeFinds(o)
               /\ isByteConcrete(o) => NativeFinds(o) = values
               /\ NativeFinds(o) \subseteq values \cup {concreteStore[o]}
=============================================================================
