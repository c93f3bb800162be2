--------------------------- MODULE MCAddressSpace ---------------------------
(* Instances of AddressSpace for TLC. *)
EXTENDS AddressSpace, TLC

CONSTANTS s1, s2, s3, e1, heap1, stack1, errno, ctype

(* States are interchangeable, and so are the cells of the heap and the    *)
(* values.                                                                 *)
Symmetry == Permutations(States) \cup Permutations(OSs) \cup Permutations(Values)

(* The values that are stored anywhere, or about to be. *)
Stored == {process[mo] : mo \in MOs}
          \cup (IF op.kind = "resolve" THEN {op.use} \cap Values ELSE {})
          \cup UNION {{heap[objects[s][mo]].concreteStore : mo \in Bound(s)} : s \in live}

(* Keeps an instance small: contents differ only as long as the states     *)
(* bind just what they started with, and read-only what was read-only.     *)
FewContents ==
    \/ Cardinality(Stored) = 1
    \/ \A s \in live :
          /\ Bound(s) = Globals
          /\ \A mo \in ReadOnly : heap[objects[s][mo]].readOnly
=============================================================================
