---------------------------- MODULE PrivateMemory ----------------------------
(***************************************************************************)
(* What KLEE's address spaces promise to the states that use them: every   *)
(* execution state has a memory of its own.  A memory maps each memory     *)
(* object the state has bound to its content, a concrete value or a        *)
(* symbolic expression.  Forking a state copies its memory; after that     *)
(* nothing one state does is visible to another.  There is no sharing, no  *)
(* owner and no copy-on-write here: AddressSpace.tla shows that the code's *)
(* shared ObjectStates implement this.                                     *)
(***************************************************************************)
CONSTANTS
    States,     \* names of execution states
    MOs,        \* memory objects
    Values,     \* concrete contents
    Exprs,      \* symbolic contents
    Unbound,    \* a memory object the state has no binding for
    Dead        \* the memory of a state that does not exist

Contents == Values \cup Exprs
Memories == [MOs -> Contents \cup {Unbound}]

VARIABLE mem    \* mem[s]: the memory of state s

TypeOK == mem \in [States -> Memories \cup {Dead}]

Alive(s) == mem[s] # Dead

Init == \E s \in States, m \in Memories :
            mem = [t \in States |-> IF t = s THEN m ELSE Dead]

(* Only state s changes, and its memory becomes m. *)
Becomes(s, m) == mem' = [mem EXCEPT ![s] = m]

Bind(s, mo, c) == Becomes(s, [mem[s] EXCEPT ![mo] = c])

Unbind(s, gone) ==
    Becomes(s, [mo \in MOs |-> IF mo \in gone THEN Unbound ELSE mem[s][mo]])

Write(s, mo, c) == /\ mem[s][mo] # Unbound
                   /\ Becomes(s, [mem[s] EXCEPT ![mo] = c])

(* The content moves from one object to another the state had not bound. *)
Move(s, from, to) ==
    /\ mem[s][from] # Unbound /\ mem[s][to] = Unbound
    /\ Becomes(s, [mem[s] EXCEPT ![to] = mem[s][from], ![from] = Unbound])

(* Native code runs on the state's concrete bytes: it binds and unbinds    *)
(* nothing and cannot reach a symbolic content.                            *)
Call(s, result) ==
    /\ \A mo \in MOs : IF mem[s][mo] \in Values THEN result[mo] \in Values
                       ELSE result[mo] = mem[s][mo]
    /\ Becomes(s, result)

Fork(s, t) == ~Alive(t) /\ Becomes(t, mem[s])

End(s) == Becomes(s, Dead)

(* s absorbs t: both bind the same objects, and s keeps every content the  *)
(* two agree on.                                                           *)
Merge(s, t, result) ==
    /\ s # t /\ Alive(t)
    /\ \A mo \in MOs :
          /\ mem[s][mo] = Unbound <=> mem[t][mo] = Unbound
          /\ IF mem[s][mo] = mem[t][mo] THEN result[mo] = mem[s][mo]
             ELSE result[mo] \in Exprs
    /\ mem' = [mem EXCEPT ![s] = result, ![t] = Dead]

Step(s) ==
    \/ \E mo \in MOs, c \in Contents : Bind(s, mo, c) \/ Write(s, mo, c)
    \/ \E gone \in SUBSET MOs : Unbind(s, gone)
    \/ \E from, to \in MOs : Move(s, from, to)
    \/ \E result \in Memories : Call(s, result)
    \/ \E t \in States : Fork(s, t)
    \/ \E t \in States, result \in Memories : Merge(s, t, result)
    \/ End(s)

Next == \E s \in States : Alive(s) /\ Step(s)

Spec == Init /\ [][Next]_mem
=============================================================================
