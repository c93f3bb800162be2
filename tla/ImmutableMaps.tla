--------------------------- MODULE ImmutableMaps ---------------------------
(***************************************************************************)
(* What klee::ImmutableMap promises: a map is a value.  Copies share       *)
(* nothing that can be seen, and an iterator visits, in the order of the   *)
(* keys, the entries the map had when the iterator was made, whatever      *)
(* becomes of the map in the meantime.                                     *)
(***************************************************************************)
EXTENDS Integers

CONSTANTS
    Maps,         \* the variables that may hold a map
    Entries,      \* the pairs of a key and a value a program stores
    NoMap,        \* a map that is not constructed, or was destroyed
    NoIterator

VARIABLES
    content,      \* content[m]: the set of the map's entries, or NoMap
    rest          \* the entries the iterator has not passed, or NoIterator

vars == <<content, rest>>

NoEntries == {}

Without(c, k) == {x \in c : x[1] # k}

With(c, e) == Without(c, e[1]) \cup {e}

Least(c) == CHOOSE k \in {x[1] : x \in c} : \A x \in c : k <= x[1]

-----------------------------------------------------------------------------
Assign(m, c) ==
    /\ content' = [content EXCEPT ![m] = c]
    /\ UNCHANGED rest

construct(m) == content[m] = NoMap /\ Assign(m, NoEntries)

copy(m, n) == content[m] = NoMap /\ content[n] # NoMap /\ Assign(m, content[n])

destroy(m) == content[m] # NoMap /\ Assign(m, NoMap)

insert(m, e) ==
    /\ content[m] # NoMap
    /\ Assign(m, IF \E x \in content[m] : x[1] = e[1] THEN content[m] ELSE With(content[m], e))

replace(m, e) == content[m] # NoMap /\ Assign(m, With(content[m], e))

remove(m, k) == content[m] # NoMap /\ Assign(m, Without(content[m], k))

begin(m) ==
    /\ content[m] # NoMap
    /\ rest = NoIterator
    /\ rest' = content[m]
    /\ UNCHANGED content

advance ==
    /\ rest \notin {NoIterator, NoEntries}
    /\ rest' = Without(rest, Least(rest))
    /\ UNCHANGED content

finish ==
    /\ rest # NoIterator
    /\ rest' = NoIterator
    /\ UNCHANGED content

Init ==
    /\ content = [m \in Maps |-> NoMap]
    /\ rest = NoIterator

Next ==
    \/ \E m \in Maps :
        \/ construct(m) \/ destroy(m) \/ begin(m)
        \/ \E n \in Maps : copy(m, n)
        \/ \E e \in Entries : insert(m, e) \/ replace(m, e) \/ remove(m, e[1])
    \/ advance
    \/ finish

Spec == Init /\ [][Next]_vars
=============================================================================
