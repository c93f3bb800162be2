---------------------------- MODULE AddressSpace ----------------------------
(***************************************************************************)
(* KLEE's copy-on-write address spaces and the Executor operations that    *)
(* use them.                                                               *)
(*                                                                         *)
(* An execution state's AddressSpace maps MemoryObjects to ObjectStates,   *)
(* which hold the content.  Forking copies the map, not the ObjectStates;  *)
(* an address space may modify an ObjectState in place only if it is the   *)
(* one named by copyOnWriteOwner, and otherwise works on a copy.  Owners   *)
(* are numbers drawn from a per-state counter, cowKey, and a parent and    *)
(* its child continue with the SAME number after a fork: nothing but the   *)
(* history of forks keeps two states from owning one ObjectState.          *)
(*                                                                         *)
(* External calls run native code on the process's real memory, which all  *)
(* states share: concrete contents are copied out before the call and back *)
(* in after it.                                                            *)
(*                                                                         *)
(* The content of an ObjectState is one cell: its concreteStore, and the   *)
(* expression that hides it when it is symbolic.                           *)
(***************************************************************************)
EXTENDS Naturals, FiniteSets, Functions

CONSTANTS
    States,         \* names of ExecutionStates
    MOs,            \* MemoryObjects
    OSs,            \* ObjectState heap cells
    Globals,        \* MemoryObjects with isGlobal
    Locals,         \* MemoryObjects with isLocal (allocas)
    ReadOnly,       \* external objects bound with setReadOnly(true)
    Errno,          \* the errno object, the one with isUserSpecified
    Values,         \* concrete contents
    Exprs,          \* symbolic contents
    Concrete,       \* no expression: the concreteStore is the content
    Free,           \* an ObjectState cell that is not allocated
    Unbound,        \* no ObjectState for this MemoryObject
    NoState,        \* a null ExecutionState pointer
    Read,           \* a memory operation that is a load
    MaxKey          \* bound on cowKey (UINT_MAX in the code)

Contents == Values \cup Exprs

ASSUME Names ==
    /\ States # {}
    /\ Globals \subseteq MOs /\ Locals \subseteq MOs
    /\ Globals \cap Locals = {}
    /\ ReadOnly \subseteq Globals
    /\ Errno \in Globals \ ReadOnly
    /\ Values \cap Exprs = {} /\ Concrete \notin Exprs
    /\ Unbound \notin OSs \cup Contents
    /\ NoState \notin States \cup [MOs -> Contents \cup {Unbound}]
    /\ Read \notin Contents
    /\ MaxKey \in Nat \ {0}

ObjectState == [copyOnWriteOwner : 0 .. MaxKey,
                concreteStore    : Values,
                expr             : Exprs \cup {Concrete},
                readOnly         : BOOLEAN]

ASSUME FreeIsNone == Free \notin ObjectState

VARIABLES
    live,       \* states that exist
    cowKey,     \* cowKey[s]
    objects,    \* objects[s][mo]: the ObjectState s maps mo to, or Unbound
    heap,       \* heap[os]: an ObjectState, or Free
    process,    \* process[mo]: the real memory at mo->address
    op          \* the multi-step operation the Executor is in the middle of

vars == <<live, cowKey, objects, heap, process, op>>

Idle == [kind |-> "idle"]

-----------------------------------------------------------------------------
(* Reading the state. *)

Bound(s) == {mo \in MOs : objects[s][mo] # Unbound}

(* ObjectState::read8: the store counts only where no expression hides it. *)
Content(os) == IF os.expr = Concrete THEN os.concreteStore ELSE os.expr

View(s, mo) == IF objects[s][mo] = Unbound THEN Unbound
               ELSE Content(heap[objects[s][mo]])

(* Mutant: a symbolic write replaces the concreteStore too. *)
WrittenInStore(os, c) == [os EXCEPT !.concreteStore = c, !.expr = Concrete]

(* ObjectState::write: a symbolic write leaves the concreteStore alone. *)
Written(os, c) == IF c \in Values
                  THEN [os EXCEPT !.concreteStore = c, !.expr = Concrete]
                  ELSE [os EXCEPT !.expr = c]

(* ObjectHolder: an ObjectState lives while some address space maps it. *)
Mapped(objs, os) == \E s \in States, mo \in MOs : objs[s][mo] = os
Sweep(h, objs) == [os \in OSs |-> IF Mapped(objs, os) THEN h[os] ELSE Free]

-----------------------------------------------------------------------------
(* AddressSpace operations. *)

(* Mutant: every ObjectState is modified in place. *)
WriteableInPlace(s, os) == {os}

(* getWriteable(mo, os): os itself when s owns it, else a new cell. *)
Writeable(s, os) ==
    {n \in OSs : IF heap[os].copyOnWriteOwner = cowKey[s]
                 THEN n = os ELSE heap[n] = Free}

(* Every way to obtain a writeable ObjectState for each object of M, where *)
(* the caller looked up src[mo] for mo.                                    *)
Writeables(s, M, src) ==
    {new \in Injection(M, OSs) : \A mo \in M : new[mo] \in Writeable(s, src[mo])}

(* getWriteable on the objects of DOMAIN new, then content[mo] written to  *)
(* the ObjectState obtained for mo.                                        *)
Redirect(s, new) ==
    [mo \in MOs |-> IF mo \in DOMAIN new THEN new[mo] ELSE objects[s][mo]]

Overwrite(s, new, content) ==
    [os \in OSs |->
        IF \E mo \in DOMAIN new : new[mo] = os
        THEN [content[CHOOSE mo \in DOMAIN new : new[mo] = os]
                EXCEPT !.copyOnWriteOwner = cowKey[s]]
        ELSE heap[os]]

Rewrite(s, new, content) ==
    /\ objects' = [objects EXCEPT ![s] = Redirect(s, new)]
    /\ heap' = Sweep(Overwrite(s, new, content), objects')

unbindObject(s, gone) ==
    /\ objects' = [objects EXCEPT ![s] =
                      [mo \in MOs |-> IF mo \in gone THEN Unbound
                                      ELSE objects[s][mo]]]
    /\ heap' = Sweep(heap, objects')

(* bindObjectInState: mo is bound to a new ObjectState, n, with content c, *)
(* and the objects of gone are then unbound.                               *)
bindObject(s, mo, n, c, gone) ==
    /\ heap[n] = Free
    /\ objects' = [objects EXCEPT ![s] =
                      [m \in MOs |-> IF m = mo THEN n
                                     ELSE IF m \in gone THEN Unbound
                                     ELSE objects[s][m]]]
    /\ heap' = Sweep([heap EXCEPT ![n] = c], objects')

NewObjectState(s, v, e) ==
    [copyOnWriteOwner |-> cowKey[s], concreteStore |-> v, expr |-> e,
     readOnly |-> FALSE]

(* ~ExecutionState: the address space of s lets go of everything. *)
terminateState(s) ==
    /\ live' = live \ {s}
    /\ cowKey' = [cowKey EXCEPT ![s] = 1]
    /\ objects' = [objects EXCEPT ![s] = [mo \in MOs |-> Unbound]]
    /\ heap' = Sweep(heap, objects')
    /\ UNCHANGED process

(* Mutant: the copy constructor starts the child from the key the parent   *)
(* had: cowKey(b.cowKey++).                                                *)
branchPostIncrement(s, t) ==
    /\ t \in States \ live
    /\ cowKey[s] < MaxKey
    /\ live' = live \cup {t}
    /\ cowKey' = [cowKey EXCEPT ![s] = cowKey[s] + 1, ![t] = cowKey[s]]
    /\ objects' = [objects EXCEPT ![t] = objects[s]]
    /\ UNCHANGED <<heap, process>>

(* Mutant: the child starts from key 1, as a new address space does. *)
branchNewKey(s, t) ==
    /\ t \in States \ live
    /\ cowKey[s] < MaxKey
    /\ live' = live \cup {t}
    /\ cowKey' = [cowKey EXCEPT ![s] = cowKey[s] + 1, ![t] = 1]
    /\ objects' = [objects EXCEPT ![t] = objects[s]]
    /\ UNCHANGED <<heap, process>>

(* ExecutionState::branch: t becomes a copy of s.  The copy constructor of *)
(* AddressSpace advances the parent's cowKey and starts the child from it. *)
branch(s, t) ==
    /\ t \in States \ live
    /\ cowKey[s] < MaxKey
    /\ live' = live \cup {t}
    /\ cowKey' = [cowKey EXCEPT ![s] = cowKey[s] + 1, ![t] = cowKey[s] + 1]
    /\ objects' = [objects EXCEPT ![t] = objects[s]]
    /\ UNCHANGED <<heap, process>>

-----------------------------------------------------------------------------
(* Single-step operations of the Executor on a live state s. *)

Fork(s) == \E t \in States : branch(s, t) /\ UNCHANGED op

Terminate(s) == terminateState(s) /\ UNCHANGED op

(* executeAlloc: MemoryManager::allocate returns an object nobody uses;    *)
(* malloc gives its real memory any content.                               *)
Fresh == {mo \in MOs : \A s \in States : objects[s][mo] = Unbound}

Alloc(s) ==
    \E mo \in Fresh, n \in OSs, v, real \in Values :
        /\ bindObject(s, mo, n, NewObjectState(s, v, Concrete), {})
        /\ process' = [process EXCEPT ![mo] = real]
        /\ UNCHANGED <<live, cowKey, op>>

(* ExecutionState::popFrame *)
popFrame(s) ==
    \E gone \in SUBSET (Bound(s) \cap Locals) \ {{}} :
        unbindObject(s, gone) /\ UNCHANGED <<live, cowKey, process, op>>

(* Mutant: the fast path does not look at readOnly. *)
StoreUnchecked(s) ==
    \E mo \in Bound(s), c \in Contents :
        LET os == objects[s][mo] IN
        \E new \in Writeables(s, {mo}, objects[s]) :
            /\ Rewrite(s, new, [m \in {mo} |-> Written(heap[os], c)])
            /\ UNCHANGED <<live, cowKey, process, op>>

(* executeMemoryOperation, fast path: one in-bounds resolution. *)
Store(s) ==
    \E mo \in Bound(s), c \in Contents :
        LET os == objects[s][mo] IN
        IF heap[os].readOnly THEN Terminate(s)
        ELSE \E new \in Writeables(s, {mo}, objects[s]) :
                /\ Rewrite(s, new, [m \in {mo} |-> Written(heap[os], c)])
                /\ UNCHANGED <<live, cowKey, process, op>>

(* ExecutionState::merge(b), after which b is terminated: both must bind   *)
(* the same objects; where they map different ObjectStates the content     *)
(* becomes Select(inA, a, b), which folds when both arms are equal.        *)
Mutated(a, b) == {mo \in MOs : objects[a][mo] # objects[b][mo]}

Merge(a, b) ==
    /\ a # b /\ b \in live /\ Bound(a) = Bound(b)
    /\ \E new \in Writeables(a, Mutated(a, b), objects[a]), sel \in Exprs :
         LET merged(mo) ==
                Written(heap[objects[a][mo]],
                        IF View(a, mo) = View(b, mo) THEN View(a, mo) ELSE sel)
         IN  /\ objects' = [objects EXCEPT ![a] = Redirect(a, new),
                                          ![b] = [mo \in MOs |-> Unbound]]
             /\ heap' = Sweep(Overwrite(a, new, [mo \in DOMAIN new |-> merged(mo)]),
                              objects')
    /\ live' = live \ {b}
    /\ cowKey' = [cowKey EXCEPT ![b] = 1]
    /\ UNCHANGED <<process, op>>

-----------------------------------------------------------------------------
(* A pointer that may lie in several objects.  resolve() lists the         *)
(* candidate (MemoryObject, ObjectState) pairs of the state; the loop then *)
(* forks the state once per candidate, bound to it or not, and keeps using *)
(* the pairs it looked up before the first fork.                           *)
(*                                                                         *)
(* executeMemoryOperation uses a pair as soon as its state is forked off;  *)
(* resolveExact first collects them all, and its caller (free, realloc,    *)
(* klee_make_symbolic) then works through the list.                        *)

Exact == {"free", "realloc", "make_symbolic"}
Uses == Contents \cup {Read} \cup Exact
Deferred(use) == use \in Exact

Resolve(s) ==
    \E use \in Uses, M \in SUBSET Bound(s) \ {{}} :
        /\ op' = [kind    |-> "resolve", use |-> use, unbound |-> s,
                  rl      |-> [mo \in M |-> objects[s][mo]],
                  results |-> << >>]
        /\ UNCHANGED <<live, cowKey, objects, heap, process>>

NextPair == /\ op.kind = "resolve" /\ op.unbound # NoState
            /\ Deferred(op.use) \/ op.results = << >>

Without(f, x) == Restrict(f, DOMAIN f \ {x})

(* One more fork: the state bound takes the pair for mo, and the rest of   *)
(* the list goes on with unbound.                                          *)
Took(mo, bound, unbound) ==
    op' = [kind    |-> "resolve", use |-> op.use, unbound |-> unbound,
           rl      |-> Without(op.rl, mo),
           results |-> [t \in DOMAIN op.results \cup {bound} |->
                          IF t = bound THEN <<mo, op.rl[mo]>> ELSE op.results[t]]]

ForkPair ==
    /\ NextPair
    /\ LET u == op.unbound IN
       \E mo \in DOMAIN op.rl :
          \/ \E t \in States : /\ branch(u, t)
                               /\ Took(mo, u, t) \/ Took(mo, t, u)
          \/ /\ Took(mo, u, NoState)
             /\ UNCHANGED <<live, cowKey, objects, heap, process>>
          \/ /\ op' = [op EXCEPT !.rl = Without(op.rl, mo)]
             /\ UNCHANGED <<live, cowKey, objects, heap, process>>

(* The loop ends with a state bound to no candidate, or fork fails (a      *)
(* solver timeout, MaxDepth): that state is terminated.                    *)
EndUnbound ==
    /\ NextPair
    /\ terminateState(op.unbound)
    /\ op' = IF op.results = << >> THEN Idle ELSE [op EXCEPT !.unbound = NoState]

(* Mutant: the pair stays on the list. *)
NotConsumed(t) == op' = op

(* The rest of the operation once t is done with its pair. *)
Consumed(t) ==
    op' = IF DOMAIN op.results = {t} /\ op.unbound = NoState THEN Idle
          ELSE [op EXCEPT !.results = Without(op.results, t)]

UsePair ==
    /\ op.kind = "resolve"
    /\ Deferred(op.use) => op.unbound = NoState
    /\ \E t \in DOMAIN op.results :
       LET mo == op.results[t][1]
           os == op.results[t][2]
       IN
       \/ /\ op.use \in {Read, "realloc"}     \* allocate fails, or a huge size
          /\ Consumed(t)
          /\ UNCHANGED <<live, cowKey, objects, heap, process>>
       \/ /\ op.use \in Contents /\ heap[os].readOnly
          /\ terminateState(t) /\ Consumed(t)
       \/ /\ op.use \in Contents /\ ~heap[os].readOnly
          /\ \E new \in Writeables(t, {mo}, [m \in {mo} |-> os]) :
                Rewrite(t, new, [m \in {mo} |-> Written(heap[os], op.use)])
          /\ Consumed(t)
          /\ UNCHANGED <<live, cowKey, process>>
       \/ /\ \/ op.use = "free" /\ mo \in Locals \cup Globals
             \/ op.use = "realloc"           \* "concretized symbolic size"
             \/ op.use = "make_symbolic" /\ ~heap[os].readOnly  \* "wrong size"
          /\ terminateState(t) /\ Consumed(t)
       \/ /\ op.use = "free" /\ mo \notin Locals \cup Globals
          /\ unbindObject(t, {mo}) /\ Consumed(t)
          /\ UNCHANGED <<live, cowKey, process>>
       \/ /\ op.use = "realloc"
          /\ \E to \in Fresh, n \in OSs, v, real \in Values :
                /\ heap[os].expr = Concrete => v = heap[os].concreteStore
                /\ bindObject(t, to, n, NewObjectState(t, v, heap[os].expr), {mo})
                /\ process' = [process EXCEPT ![to] = real]
          /\ Consumed(t)
          /\ UNCHANGED <<live, cowKey>>
       \/ /\ op.use = "make_symbolic" /\ heap[os].readOnly
          /\ terminateState(t)
          /\ op' = Idle          \* handleMakeSymbolic returns from its loop
       \/ /\ op.use = "make_symbolic" /\ ~heap[os].readOnly
          /\ \E n \in OSs, v \in Values, e \in Exprs :
                bindObject(t, mo, n, NewObjectState(t, v, e), {})
          /\ Consumed(t)
          /\ UNCHANGED <<live, cowKey, process>>

(* executeAlloc with a symbolic size forks the state that reallocates, and *)
(* goes on with the pair it was given in both.                             *)
ForkSize ==
    /\ op.kind = "resolve" /\ op.use = "realloc" /\ op.unbound = NoState
    /\ \E t \in DOMAIN op.results, x \in States :
          /\ branch(t, x)
          /\ op' = [op EXCEPT !.results =
                       [y \in DOMAIN op.results \cup {x} |->
                          op.results[IF y = x THEN t ELSE y]]]

-----------------------------------------------------------------------------
(* callExternalFunction: flush and copy out, run native code, copy in. *)

(* Mutant: the bytes that were solved become concrete for everybody. *)
FlushedForAll(s, answer) ==
    [os \in OSs |-> IF \E mo \in DOMAIN answer : objects[s][mo] = os
                    THEN [heap[os] EXCEPT !.expr = Concrete, !.concreteStore =
                            answer[CHOOSE mo \in DOMAIN answer : objects[s][mo] = os]]
                    ELSE heap[os]]

(* flushToConcreteStore solves the symbolic bytes of the objects passed to *)
(* the call and leaves the answers in their concreteStore, in place even   *)
(* when the ObjectState is shared.                                         *)
Flushed(s, answer) ==
    [os \in OSs |-> IF \E mo \in DOMAIN answer : objects[s][mo] = os
                    THEN [heap[os] EXCEPT !.concreteStore =
                            answer[CHOOSE mo \in DOMAIN answer : objects[s][mo] = os]]
                    ELSE heap[os]]

(* Mutant: the test of readOnly is inverted. *)
copyOutReadOnly(s, h) ==
    [mo \in MOs |-> IF /\ mo \in Bound(s) \ {Errno}
                      /\ h[objects[s][mo]].readOnly
                    THEN h[objects[s][mo]].concreteStore
                    ELSE process[mo]]

copyOutConcretes(s, h) ==
    [mo \in MOs |-> IF /\ mo \in Bound(s) \ {Errno}
                      /\ ~h[objects[s][mo]].readOnly
                    THEN h[objects[s][mo]].concreteStore
                    ELSE process[mo]]

CallOut(s) ==
    /\ Errno \in Bound(s)
    /\ \E F \in SUBSET {mo \in Bound(s) : heap[objects[s][mo]].expr # Concrete} :
       \E answer \in [F -> Values] :
          /\ heap' = Flushed(s, answer)
          /\ process' = copyOutConcretes(s, heap')
    /\ op' = [kind |-> "call", who |-> s, touched |-> {}]
    /\ UNCHANGED <<live, cowKey, objects>>

(* The native function, external to KLEE: it may write any object the      *)
(* calling state has, or crash.                                            *)
NativeCode ==
    /\ op.kind = "call"
    /\ heap[objects[op.who][Errno]].expr = Concrete
    /\ \E mo \in Bound(op.who) \ ({Errno} \cup op.touched) : \E v \in Values \ {process[mo]} :
          /\ process' = [process EXCEPT ![mo] = v]
          /\ op' = [op EXCEPT !.touched = op.touched \cup {mo}]
    /\ UNCHANGED <<live, cowKey, objects, heap>>

Differs(s) == {mo \in Bound(s) \ {Errno} :
                  process[mo] # heap[objects[s][mo]].concreteStore}

(* errno is symbolic, or the native code crashes. *)
CallCrashes ==
    /\ op.kind = "call"
    /\ terminateState(op.who)
    /\ op' = Idle

(* copyInConcretes meets a read-only object that does not hold what its    *)
(* ObjectState says.                                                       *)
CopyInFails ==
    /\ op.kind = "call"
    /\ \E mo \in Differs(op.who) : heap[objects[op.who][mo]].readOnly
    /\ terminateState(op.who)
    /\ op' = Idle

(* copyInConcretes, then copyInConcrete for errno, whose new value is e. *)
CallReturns ==
    /\ op.kind = "call"
    /\ LET s == op.who
           Os(mo) == heap[objects[s][mo]]
       IN  /\ Os(Errno).expr = Concrete
           /\ \A mo \in Differs(s) : ~Os(mo).readOnly
           /\ \E e \in Values :
              LET In == Differs(s) \cup (IF e = Os(Errno).concreteStore THEN {} ELSE {Errno})
              IN \E new \in Writeables(s, In, objects[s]) :
                    Rewrite(s, new, [mo \in In |->
                      [Os(mo) EXCEPT !.concreteStore =
                          IF mo = Errno THEN e ELSE process[mo]]])
    /\ op' = Idle
    /\ UNCHANGED <<live, cowKey, process>>

-----------------------------------------------------------------------------
(* initializeGlobals: the first state binds every global; errno and the    *)
(* read-only external objects start with what their real memory holds.     *)
Init ==
    \E s \in States, init, real \in [Globals -> Values],
       place \in Injection(Globals, OSs) :
        /\ \A mo \in ReadOnly \cup {Errno} : init[mo] = real[mo]
        /\ live = {s}
        /\ cowKey = [t \in States |-> 1]
        /\ objects = [t \in States |-> [mo \in MOs |->
                        IF t = s /\ mo \in Globals THEN place[mo] ELSE Unbound]]
        /\ heap = [os \in OSs |->
                     IF \E mo \in Globals : place[mo] = os
                     THEN LET mo == CHOOSE m \in Globals : place[m] = os IN
                          [copyOnWriteOwner |-> 1, concreteStore |-> init[mo],
                           expr |-> Concrete, readOnly |-> mo \in ReadOnly]
                     ELSE Free]
        /\ process \in {p \in [MOs -> Values] : \A mo \in Globals : p[mo] = real[mo]}
        /\ op = Idle

Step(s) ==
    \/ Fork(s) \/ Terminate(s)
    \/ Alloc(s) \/ popFrame(s) \/ Store(s)
    \/ \E b \in States : Merge(s, b)
    \/ Resolve(s)
    \/ CallOut(s)

Next ==
    \/ op = Idle /\ \E s \in live : Step(s)
    \/ ForkPair \/ EndUnbound \/ UsePair \/ ForkSize
    \/ NativeCode \/ CallCrashes \/ CopyInFails \/ CallReturns

Spec == Init /\ [][Next]_vars

-----------------------------------------------------------------------------
(* Type invariant. *)

Resolving == [kind    : {"resolve"},
              use     : Uses,
              unbound : States \cup {NoState},
              rl      : UNION {[M -> OSs] : M \in SUBSET MOs},
              results : UNION {[T -> MOs \X OSs] : T \in SUBSET States}]
Calling == [kind : {"call"}, who : States, touched : SUBSET MOs]

TypeOK ==
    /\ live \subseteq States
    /\ cowKey \in [States -> 1 .. MaxKey]
    /\ objects \in [States -> [MOs -> OSs \cup {Unbound}]]
    /\ heap \in [OSs -> ObjectState \cup {Free}]
    /\ process \in [MOs -> Values]
    /\ op \in {Idle} \cup Resolving \cup Calling

-----------------------------------------------------------------------------
(* Safety. *)

(* The invariant AddressSpace.h states for objects: no state maps an       *)
(* ObjectState owned by a key its address space has not reached yet.       *)
OwnersNotInTheFuture ==
    \A s \in live : \A mo \in Bound(s) :
        heap[objects[s][mo]].copyOnWriteOwner \in 1 .. cowKey[s]

(* What makes in-place writes sound although parent and child get the same *)
(* key: an ObjectState that two states map is owned by neither.            *)
SharedIsNotOwned ==
    \A s, t \in live, m, n \in MOs :
        /\ objects[s][m] = objects[t][n]
        /\ objects[s][m] # Unbound
        /\ heap[objects[s][m]].copyOnWriteOwner = cowKey[s]
        => s = t /\ m = n

(* The pairs a resolution looked up before its first fork are still the    *)
(* bindings of the states they will be used in: no fork, write or unbind   *)
(* in between makes a pair stale or leaves it dangling.                    *)
ResolutionFresh ==
    op.kind = "resolve" =>
        /\ op.unbound # NoState =>
              /\ op.unbound \in live \ DOMAIN op.results
              /\ \A mo \in DOMAIN op.rl : objects[op.unbound][mo] = op.rl[mo]
        /\ \A t \in DOMAIN op.results :
              /\ t \in live
              /\ objects[t][op.results[t][1]] = op.results[t][2]

(* No read-only ObjectState is ever copied, so two states that bind a      *)
(* read-only object map the same ObjectState and merge()'s assertion       *)
(* "objects mutated but not writable" cannot fail.                         *)
ReadOnlyNeverCopied ==
    \A s, t \in live, mo \in MOs :
        /\ mo \in Bound(s) \cap Bound(t)
        /\ heap[objects[s][mo]].readOnly
        => objects[t][mo] = objects[s][mo]

(* While native code runs, the only objects whose real memory disagrees    *)
(* with the calling state are those the call itself has written: what      *)
(* other states left in the shared memory does not leak into this one.     *)
(* Restricted to writable objects; FailureIsOwn is the read-only case.     *)
CopyInOnlyTouched ==
    op.kind = "call" =>
        \A mo \in Differs(op.who) :
            ~heap[objects[op.who][mo]].readOnly => mo \in op.touched

(* AddressSpace.h says of copyInConcretes: "retval false The copy failed   *)
(* because a read-only object was modified".  Stated for the call at hand: *)
(* a read-only object that would fail it was written during it.            *)
FailureIsOwn ==
    op.kind = "call" =>
        \A mo \in Differs(op.who) :
            heap[objects[op.who][mo]].readOnly => mo \in op.touched

(* A step changes what at most one surviving state sees; in particular a   *)
(* write, an external call or a merge in one state never shows in another. *)
Isolation ==
    [][\E a \in States : \A s \in (live \cap live') \ {a} :
          \A mo \in MOs : View(s, mo)' = View(s, mo)]_vars

(* klee_make_symbolic makes the object symbolic in every state its pointer *)
(* resolved to, or ends that state.                                        *)
MadeSymbolic ==
    [][op.kind = "resolve" /\ op.use = "make_symbolic" =>
         \A t \in DOMAIN op.results :
            t \in live' /\ (op'.kind = "resolve" => t \notin DOMAIN op'.results)
            => heap'[objects'[t][op.results[t][1]]].expr \in Exprs]_vars

-----------------------------------------------------------------------------
(* The promise: every state has a private memory, which its address space  *)
(* implements.  A step of the implementation is a step of one private      *)
(* memory or changes none.                                                 *)

PrivateMem == [s \in States |-> IF s \in live THEN [mo \in MOs |-> View(s, mo)]
                                ELSE NoState]

Private == INSTANCE PrivateMemory WITH Dead <- NoState, mem <- PrivateMem

PrivateSpec == Private!Spec
=============================================================================
