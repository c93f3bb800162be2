# XSym: models of the symbolic executor

XSym finds inputs for PHP programs in three stages. `php-se` (PHP) walks the control-flow graph
of a PHP script and writes path constraints as text; `Synth.php` turns the text into a C program
linked with the C implementations of PHP's built-in functions (`php-src`, the PHP 3 interpreter);
`klee`, a modified KLEE, executes that program symbolically. The stages run one after the other
and share nothing but files. The state that is hard to keep right, shared between symbolic states,
queued and applied later, forked in the middle of operations, is KLEE's, so that is where most of
these models are.

## Inventory

| Component | State | Operations | Talks to | Hard part | What makes it correct |
|---|---|---|---|---|---|
| `AddressSpace` | `cowKey`, map from MemoryObject to ObjectState | bind, unbind, getWriteable, resolve, copyOut/InConcretes | ExecutionState (copied on fork), Executor | copy-on-write ownership by numbers that parent and child share | no state sees another's writes |
| `ObjectState`, `MemoryObject` | bytes, masks, update list, owner, refcounts | read, write, flush, copy | AddressSpace, solver | lazily synchronised caches, lifetime | reads return what was written |
| Memory operations (`Executor`, `SpecialFunctionHandler`) | resolution lists in progress | alloc, free, realloc, make_symbolic, load, store, external call | all of the above | pairs looked up before a fork and used after it; process memory shared by all states | every pair used is current |
| `ExecutionState` | stack, constraints, merge stack | branch, merge, popFrame | AddressSpace, MergeHandler | copies that must register themselves | forks agree with their registrations |
| Main loop (`Executor::run`, `updateStates`) | `states`, added/removed/paused/continued queues, `seedMap` | select, execute, timers, memory limit, update | Searcher, MergeHandler, PTree | queues filled by different callers, applied later | searcher = states that can run |
| `MergeHandler` | open states, waiting states, mean distance | add/remove open, add closed, release, destroy | Executor queues | released only by the destructor | nobody waits for ever |
| `Searcher`s | their own lists of states | selectState, update | main loop | assertions on lists kept elsewhere | hold what they are told about, no more |
| `PTree` | binary tree of states | attach, remove | RandomPathSearcher | pruning | leaves = states |
| Path splitting (`Executor::fork`, `executeInstruction`) | the constraints of each state | branch, switch, toConstant | solver chain | wrong or failed answers | paths partition the inputs |
| Solver chain | query, counterexample caches | computeTruth, computeValidity, computeValue, computeInitialValues | Executor | reuse of cached answers, failing core solver | answers of an uncached solver |
| `ImmutableTree`, `MapOfSets` | AVL tree, trie | insert, remove, find | AddressSpace, CexCachingSolver | rotation with sharing | behaves as a map |
| POSIX runtime | descriptor table | open, close, dup, dup2, read, write, lseek | executed program | early returns, positions shared by all paths | a descriptor stays what the program made it |
| `php-se` exploration | CFG, slices per path, analyzers per call | ConstructCFG, ExecutionPerNode, DumpConstraints | Synth.php through files | copying of slices, recursion | a sink comes with the constraints of its path |
| `Synth.php` | type sets | inference, printing | compiler | order of inference | types cover all uses |
| `php-src` | allocator cache, hash tables, lists | PHP 3 run time | KLEE executes it | third-party | out of scope, perhaps its allocator |

`PROJECT.json` lists every component with its status, and the hazards of the code by line, with the
properties that are about them.

## Modules

| Module | Models | Used by |
|---|---|---|
| `PrivateMemory` | what address spaces promise: every state has a memory of its own | `AddressSpace` refines it |
| `AddressSpace` | `AddressSpace.cpp`, the ownership part of `Memory.cpp`, and the operations of `Executor` and `SpecialFunctionHandler` that use them | |
| `ObjectBytes` | one `ObjectState` byte by byte | |
| `StateScheduler` | the main loop, the state queues, `MergeHandler` and what searchers hold | |
| `ProcessTree` | `PTree` and the walk of `RandomPathSearcher`, as functions on trees | `UserSearcher` |
| `UserSearcher` | the layers `constructUserSearcher` builds, composed with the main loop and the process tree | refines `StateScheduler` |
| `InputRegions` | what symbolic execution promises of its paths: they partition the inputs | `PathExploration` refines it |
| `SolverChain` | `CachingSolver`, `CexCachingSolver`, `IndependentSolver`, over a core solver that may fail | `PathExploration` |
| `PathExploration` | `fork`, `branch`, switches, `toConstant`, merging and test generation, on the answers of the chain | |
| `ImmutableMaps` | what immutable maps promise: each holds a value of its own | `ImmutableTree` refines it |
| `ImmutableTree` | `ImmutableTree.h`: nodes, reference counts, rotations, iterator | |
| `MapOfSets` | the trie of `CexCachingSolver` | |
| `PhpExploration` | `ConstructCFG.php`, `Execution.php`, the program list of `Synth.php` | |
| `FileDescriptors` | `fd.c`: the descriptor table | |
| `AddressSpaceProofs`, `ObjectBytesProofs`, `StateSchedulerProofs`, `UserSearcherProofs`, `PathExplorationProofs`, `PhpExplorationProofs`, `FileDescriptorsProofs` | the TLAPS proofs about the module of that name; `PathExplorationProofs` also about `SolverChain` | |
| `TreeProofs` | the TLAPS proofs about `ImmutableTree` and `MapOfSets` | |
| `MCAddressSpace`, `MCStateScheduler`, `MCMergingSearcher`, `MCUserSearcher`, `MCPathExploration`, `MCObjectBytes`, `MCPhpExploration`, `MCParts` | instances for TLC | |

Operators named *Mutant* in a comment are variants of the definition that follows them, wrong in a
way the code could be; no specification uses them. Substituting one shows that a property notices.
A failed assertion of the code is a guard, or the value `Aborted`: the run stops there, and a
property or the check for deadlock reports it.

### AddressSpace

| Variable | Code |
|---|---|
| `live` | `Executor::states` and the states the current instruction added |
| `cowKey[s]` | `AddressSpace::cowKey` of s |
| `objects[s]` | `AddressSpace::objects` of s, an immutable map |
| `heap[os]` | an `ObjectState`: owner, `concreteStore`, the expression hiding it, `readOnly`; or unallocated |
| `process[mo]` | the real memory at `mo->address`, which native code uses |
| `op` | the multi-step operation in progress: the resolution list and the states that took a pair, or an external call |

Each action is one operation of the code: `Fork`, `Terminate`, `Alloc`, `popFrame`, `Store` (the
fast path), `Merge`, and the two multi-step ones. `Resolve`, `ForkPair`, `UsePair`, `ForkSize` and `EndUnbound`
are the loops of `executeMemoryOperation` and `resolveExact`: they look up all pairs, then fork once
per pair. A load or store uses its pair at once; free, realloc and klee_make_symbolic collect the
forked states first and work through them afterwards. A realloc may find no memory, or fork on a symbolic
size (`ForkSize`), each of the states going on with the same pair; klee_make_symbolic ends a state for which the size is wrong.
`CallOut`, `NativeCode`, `CallReturns`,
`CopyInFails` and `CallCrashes` are `callExternalFunction`; the native function itself is external
and may write any object that the calling state has bound. Content is one cell per object, so a
partly symbolic object is either symbolic or concrete here; `ObjectBytes` has the bytes. Which
objects a pointer may refer to is nondeterministic. The key is bounded by `MaxKey`; the code's
32-bit counter would wrap after 2^32 forks.

`ReadOnly` are the `ctype` tables bound by `addExternalObject`: they start with the content of their
real memory, and `copyOutConcretes` skips them. `Errno` is the one object `isUserSpecified`; its
value is passed separately (`setLastErrno`, `copyInConcrete`). `klee_define_fixed_object` would add
more user-specified objects and is not modelled.

### ObjectBytes

| Variable | Code |
|---|---|
| `concreteStore`, `concreteMask`, `flushMask`, `knownSymbolics` | members of `ObjectState`; a mask is the set of its bits, or `Null` when there is no BitArray |
| `updates` | the `UpdateList`: its root array, `Lazy` until `getUpdates` makes the constant array, and its writes |
| `content` | history: what the object holds on every input |
| `stale` | history: bytes native code changed after they were flushed to the list |

The actions are reads and writes of a byte at constant and symbolic offsets, `makeSymbolic`,
initialisation, and an external call with its flush. An expression is a function from the program's
symbolic input to a byte, so that equality of expressions is equality of what they mean. The order in which
a flush appends the bytes does not matter to a lookup, which has one write for each. Reads and writes wider than a byte
are sequences of these in the code.

### StateScheduler

| Variable | Code |
|---|---|
| `mode`, `phase`, `current` | where `Executor::run` is, and the state it executes |
| `states`, `added`, `removed`, `paused`, `continued` | the members of `Executor` of those names; `removed` counts entries |
| `searcher` | the states the searcher holds |
| `seeded` | the keys of `seedMap` |
| `steps[s]`, `openMergeStack[s]` | members of `ExecutionState` |
| `mergeGroups`, `inCloseMerge` | members of `Executor` |
| `handler[h]` | the data of a `MergeHandler`; the mean is kept as a sum and a count |
| `useMergingSearcher` | whether the run has `-use-incomplete-merge` |
| `born` | names in use; none is used again |

An iteration is `Select...`; `Fork`, `Terminate`, `OpenMerge`, `CloseMerge`, `Executed`;
`processTimers`; `checkMemoryUsage`; and `updateStates` in three steps, `updateSearcher`,
`deleteRemoved` for each state and `reschedule`. Deleting a state, or popping a region, drops
references to handlers; the last one destroys the handler, which releases what waits in it (`Unref`,
inside the same action). `SelectMerging` is `MergingSearcher::selectState`, with the releases it makes
on the way. Every other heuristic is a choice from what it holds.

Not modelled: klee_open_merge and klee_close_merge called through symbolic function pointers (they
would fork in the same instruction), `-only-seed`, `-only-replay-seeds` and replay.
`doDumpStates` is modelled with `-dump-states-on-halt`, its default.

### UserSearcher and ProcessTree

| Variable | Code |
|---|---|
| `search` | the searcher options of the run |
| `tree`, `ptreeNode[s]` | `Executor::processTree`, `ExecutionState::ptreeNode` |
| `base` | the states of the searcher that has a list of its own |
| `lastState` | `BatchingSearcher::lastState` |
| `deepened` | `IterativeDeepeningTimeSearcher::pausedStates` |

`UserSearcher` extends the main loop: each of its actions is an action of `StateScheduler` together
with what it does to the layers and the tree, `update` being called twice from `updateStates` as in
the code. What a state was selected by, a random walk in the tree or the list of the other searcher,
is a choice, because whose turn it is and how long a state has run are. The property `ImplementsScheduler` says
that the whole is still the scheduler with one set for a searcher. A node of the tree is the path to
it; `attach` and `remove` are those of `PTree.cpp`.

### SolverChain and PathExploration

| Variable | Code |
|---|---|
| `options` | command line options: cex-cache modes, whether forks are inhibited, whether the core solver has a time limit |
| `caches` | `CachingSolver`'s validity cache, `CexCachingSolver`'s cache and its table of assignments |
| `paths` | the constraints of each state |
| `answer`, `status`, `calls` | the last answer of the chain, whether the run goes on, and the number of calls |
| `givenUp` | history: inputs of paths that ended or were narrowed on purpose |

A condition is the set of inputs that satisfy it, with the array elements it reads, on which
`IndependentSolver` decides. The operators of `SolverChain` are the solvers' four entry points, each
a set of outcomes, because the core solver is free in the assignment it returns and may fail. The
actions of `PathExploration` are the callers: a conditional branch, a switch, `toConstant`, `toUnique`, bounds checks, the end
of a path with its test case, and a merge. A bounds check whose query fails ends its path; a failure in `toUnique`
leaves the expression as it is. A list of constraints is a set, so a permuted list is not the cache miss it would
be; this can only make more hits.

### ImmutableMaps, ImmutableTree, MapOfSets

| Variable | Code |
|---|---|
| `heap[a]` | a `Node` at an address, with its reference count and height |
| `node[m]` | `ImmutableTree::node` of variable m |
| `it` | an iterator: its root and stack |
| `nodes`, `value` | the nodes of the trie, each as the set of the elements on the way to it (they increase, so the set tells the way), and the values where sets end |

The operations are the member functions of `Node`: insertion, replacement, removal and balancing build new
nodes on one path, with `decref` freeing what nothing refers to. They are recursive functions from
a heap to a heap and a node, each on the nodes of the heap it is called on. No operation looks at an address; `MCParts` tells states
apart by a `VIEW` in which nodes are numbered from the roots, so that trees that differ only in
their addresses are one state. Every invariant is the same for two such trees, and so is every step.
`ImmutableTree` implements `ImmutableMaps`, where a map is a value and an iterator walks over the
map as it was. `MapOfSets` compares its searches with quantified definitions of a subset and a superset.

### PhpExploration

| Variable | Code |
|---|---|
| `script` | the script under analysis |
| `stack` | the recursive calls of `ExecutionPerNode`, as frames |
| `slices`, `analyzers` | the `Slice` and `Execution` objects those calls refer to |
| `dumped`, `programs` | the files of constraints and sinks of each function, and the programs `Synth.php` makes of them |
| `executed` | history: the statements that were executed |

A PHP object is a reference, so that a slice that is not cloned is shared; that is the point. One
variable stands for all, and knows only whether it is tainted.

A script is a function from names to lists of statements. `Bodies` are all lists of statements there
are, whose statements hold other ones as bodies; `ScriptParameters` says that these nest to a finite
depth (`Nesting`) and that a script has the functions it calls. A statement, and a condition, is known
by its place: the function, and the way down to it. The code constructs the graphs of all bodies
first; here the graph of a body is constructed where the walk enters it, which comes to the same, for
it depends on the body alone.

`Return_`, `Exit_`, `Break_` and `Continue_` are general nodes like any other (`ConstructCFG.php:165`), and so they
are here: the walk goes on to what follows them. What PHP does is defined from the statements, not from the graph: `Runs` are
the events of the runs of a list, the conditions that were found true and the statements that were executed, and how it
ends, by falling off the list or by a jump. An `if` takes the first condition that holds, or its else, or nothing;
a switch falls through from the case that matches until a jump leaves it, a loop goes round once or not at all.
`OnRun` says that some run has found given conditions true, in their order, before it comes to a statement.
`ConstraintsOfState` says that of every statement the walk comes to, and is false of scripts with jumps that skip something: with
`if ($c) { return; } echo $_GET['x'];` the walk comes to the `echo` with `$c` (run `jumps`). `JumpsSkipNothing` is what a script
has to meet for it to hold: a jump is the last statement of its body, and so are the statements around it, out to
the loop or switch that it leaves or the function it returns from. `ProgramsOnRun` demands the constraints in
such scripts only, those without jumps among them; that every sink gets a program, in all scripts.

What is said of programs is about the last dump of a function, since the dumps overwrite each other (`Execution.php:287`), as do the
programs (`Synth.php:220`): a sink that only an earlier analysis of a function found, because its argument was tainted then,
is lost, and the property does not count it. What the runs of a script leave out: `exit` stands for `die` and an
exception nobody catches; `break 2` and `goto`; exceptions that are caught; conditions that call a function or change a
variable; a default that is not the last of its switch; `do` and `for`; second rounds of a loop, and calls that
do not return. Any condition may be true: whether the conditions of a run agree with each other is what
symbolic execution finds out later.

### FileDescriptors

| Variable | Code |
|---|---|
| `fds[d]` | `__exe_env.fds[d]`: `eOpen`, `dfile`, `fd`, `off` |
| `failed` | which of read, write and close have had their injected failure |
| `os` | the system's descriptors that are open |
| `opened` | history: file and offset of each descriptor by the calls the program made |

The system's own file positions are not state: all paths share them, so at each call they are
anywhere, which is why `fd.c` seeks before it reads. The history follows `fd.c` in one thing: a transfer on a standard
stream that is not symbolic moves no offset (`fd.c` 364-373, 422-431), for such a descriptor has none.

## Runs and bounds

| Run | Properties | Instance | Shows |
|---|---|---|---|
| `shared` | `TypeOK`, `OwnersNotInTheFuture`, `SharedIsNotOwned`, `CopyInOnlyTouched`, `Isolation` | 2 states, errno and a stack object, 2 values, keys up to 3 | copy-on-write across chains of forks, merges, frame pops and reused state names; a call copies in only what it wrote |
| `objects` | `ReadOnlyNeverCopied`, `ResolutionFresh`, `PrivateSpec` | 2 states, errno, a heap object and a read-only external one, 2 values and symbolic content, keys up to 2, `FewContents` | pairs stay current across forks, writes and frees; merge's assertion on read-only objects cannot fail; `AddressSpace` implements `PrivateMemory` |
| `merging` | `TypeOK`, `NoStateForgotten`, `OpenStatesAgree`, `PartnersShareStack`, `WaitersAreHeld`, `Finishes`, `WaitersReleased` | 3 states, 2 handlers, 2 call sites, paths of 5 instructions, with and without a MergingSearcher, no symmetry | queues, searcher and handlers agree; every run ends, every wait ends |
| `incomplete` | `OnlyHeldExecuted` | 4 states, 2 handlers, MergingSearcher, paths of 7 instructions | with two regions a state released early is not executed before the searcher has it back; deadlock is checked |
| `limits` | `QueuesDisjoint`, `SeedsHaveStates`, `LayersAgree`, `BaseNotEmpty`, `TreeMatchesStates`, `ImplementsScheduler` | 3 states, 1 handler, paths of 5 instructions, seeding, halting, time and memory limits; random path with batching, and merging with batching and iterative deepening | the queues' documented relation; no layer keeps a pointer to a state that is gone; the leaves of the process tree are the states; the layers implement one searcher |
| `paths` | `TypeOK`, `CachesSound`, `AnswersRight`, `NoCallFails`, `RegionsSpec` | 3 symbolic bits in two arrays, 4 conditions, one switch, 3 calls, three sets of options | every cached answer is true; answers are an ideal solver's; no assertion of the chain fails; paths partition the inputs (`PathExploration` implements `InputRegions`) |
| `parts` | `TypeOK`, `CacheInvariants`, `ConstantReadsRight`, `SymbolicReadsRight`, `NativeFindsValues`; `WellFormed`, `OperationsRight`, `MapsSpec`; `SearchesRight`; `ProgramsOnRun`, `AllExplored`; `DescriptorsRight`, `SystemFilesOpen` | `MCParts`: one of five parts moves in each behaviour (below) | the bytes of an object, the tree, the trie, the PHP walk, the descriptor table |

The parts of `MCParts` share no state, and each behaviour is one of a single part, so nothing is
checked less than in five runs: *bytes* is an object of 2 one-bit bytes over 2 symbolic bits, with up to 3
writes in its list; *tree* has 2 maps over 4 keys and at most 2 holders of a tree;
*sets* has 3 elements, up to 3 sets, 2 values; *php* has scripts of 2 to 4 statements nested 2 deep and a
function, with every kind of branch, and with jumps in branches, loops, cases and functions, at the end and before it; *files* has 3 descriptors, 4 of the system, 1 symbolic file of size 1, offsets to 2 and 1 failure.

Why these suffice. Two states suffice for sharing, since every property relates two, and a name can be reused by a fork
once its state has ended; three keys let a chain of forks give two states the same key by different
routes. Two objects let a pointer be ambiguous. In `objects` the constraint
`FewContents` leaves out states with different values once an object has been allocated, freed or reallocated: who
maps which cell depends on values only where an external call copies back what it changed, which needs no allocation;
`shared` has different values beside allocations, but no read-only object. Cells of the
heap exceed the objects of one state, so that copies exist. In the scheduler two handlers nest or
cross; three states let a region hold two while another state ends, and four are needed before a
MergingSearcher without its guard selects a waiting state (the mutant of `OnlyHeldExecuted` is not seen with three); five
instructions let a state open two regions, fork in them and close both. Three solver calls let an answer be
cached, another derived from it and a third depend on it. Three bits in two arrays make constraints
independent. Two bytes let a symbolic offset be ambiguous, and three writes let one hide another across a flush. Four
keys make every single and double rotation happen, since a tree tolerates a difference of two in
height. The theorems below remove the bounds for what they prove. `MaxSteps` bounds a path, `MaxKey` a chain of forks,
`MaxCalls` a run, `MaxWrites` a list, `MaxHolders` and `MaxSets` a structure, `MaxOff` and `MaxFailures` the file calls;
nothing else is bounded. States, heap cells, values and handlers are
interchangeable, since no operation treats one of them specially; symmetry is used only without
liveness properties.

Deadlock is not checked for `AddressSpace`, where all states may have ended (and the operations of
the code never wait). In `merging` it is subsumed by `Finishes`. In `limits` the program
may really stop: `checkMemoryUsage` can kill a state that the instruction just ended, and the second
removal fails the assertion of `updateStates`. A behaviour of `paths` ends with its calls, and one
of the PHP walk with its script.

### Where the code and its documentation disagree

| Run | Property | What happens |
|---|---|---|
| `readonly` | `FailureIsOwn` | An external call of one state modifies a read-only object in the process's memory. That state ends; the memory is never restored, since `copyOutConcretes` skips read-only objects, and the next call of any other state fails though it modified nothing. |
| `makesymbolic` | `MadeSymbolic` | When one of the resolved objects is read-only, `handleMakeSymbolic` returns from its loop; the states after it continue with a concrete object. |
| `killedwaiting` | `OnlyHeldRemoved` | `checkMemoryUsage` kills a state that waits in a klee_close_merge; the searcher is told to remove what it does not hold. |
| `jumps` | `ConstraintsOfState` | The walk of `php-se` passes over a return, and takes the condition of the branch that returns along to what is executed only if that branch is not. |
| `notheld` | `OnlyHeldExecuted` | `MergingSearcher` prioritizes a state it has just released. It takes three handlers, one of which is destroyed so that an inner region precedes an outer one in `mergeGroups`; `MCMergingSearcher` narrows the behaviours to those and fixes who opens what. |

More consequences of the code that were met while modelling and have no run of their own:

- Scheduler. `checkMemoryUsage` kills a state that is already in `removedStates` (`processTimers`
  avoids exactly this), so an entry is removed twice. The instruction timer may kill the state that
  the same instruction paused, which is then in `pausedStates` and `removedStates` both. Seeding
  executes states that wait in a klee_close_merge, for it takes them from `seedMap`; with a time
  limit, a state deleted while it waits there stays on its handler's list, and a later one may merge
  into it. `addedStates`, documented as a subset of `states`, is disjoint from it until `updateStates`.
- Searchers. `InterleavedSearcher::empty` asks its first searcher only (`Searcher.h:275`); with
  random path that is never empty while states exist, so iterative deepening never brings back what
  it set aside, and the other searcher may be asked to select from nothing. No option check refuses the
  combination, and the run leaves it out. With batching as well, a state that is set aside may be the
  one last selected; when it is removed, `IterativeDeepeningTimeSearcher::update` does not pass that on
  (`Searcher.cpp` 405-420), and BatchingSearcher selects the deleted state: with the three options
  together `limits` finds `ImplementsScheduler` violated. A MergingSearcher may prioritize a state that iterative
  deepening has set aside.
- Switches. When the default has the same target as a possible case, the default's inputs are lost
  (`Executor.cpp` 1891-1896; the comments there promise to keep them). `paths` with
  `Switches <- DefaultSwitch` shows it: `RegionsSpec` is violated.
- Solvers. With `-cex-cache-exp`, `CexCachingSolver::computeTruth` returns false, which is a failure
  of the solver, where it found that the query is not valid (lines 311-315).
- Objects. `copyInConcrete` changes concrete bytes without marking them unflushed, so that a later
  read at a symbolic offset finds the values from before the call (`AddressSpace.cpp` 317; the
  history `stale` excepts them in `SymbolicReadsRight`). `flushToConcreteStore` "looks at all the
  symbolic bytes of this object", but not at those only the update list holds, and asks for each
  byte by itself, so two bytes may get values that no single input gives them.
- PHP. The body of a switch's default is not explored, and a switch without cases ends the walk; try
  is skipped. An `if` without else has no path of its own around its body, after a nested branch the
  outer continuation runs with the slice of the branch, and negations are not recorded. A call
  overwrites what an earlier one of the same function dumped, and drops the caller's constraints
  (`Execution.php:262`). The test for recursion is commented out (line 285). `Synth.php:220` writes every program
  to the same file.
- Files. `has_permission` refuses reading of what O_RDWR may read, O_TRUNC with O_RDONLY cannot be
  recognised (O_RDONLY is 0), an open without O_CREAT still resets the mode, `dup2(fd, fd)` closes
  the descriptor, duplicates have offsets of their own (the code's comment says so), and
  `klee_init_fds` does not allocate what `chmod` and `fchmod` count their failures in.
- Allocas. `popFrame` unbinds every alloca of the frame, also one that has been unbound before.

## Fairness

In `StateScheduler` the one assumption is `WF_vars(Next)`: the
Executor is a single thread, which takes its next step as long as there is one. No fairness of the
search is assumed; a state may be passed over as long as others can run. The liveness properties
hold because paths are finite (`MaxSteps`), the assumption klee_close_merge makes too: if a state in
a region loops for ever, the others wait. Everywhere else only safety is stated: nothing in those
components waits, and whether an operation is called is up to the program under test.

## Proofs

All proofs are for any values of the constants that meet the assumptions stated with them.

**`AddressSpaceProofs`**, for any finite or infinite sets of states, objects and cells, and any
`MaxKey`, from the assumptions `Names` and `FreeIsNone` on the constants:

| Theorem | Statement |
|---|---|
| `Inductive` | `Spec => []IInv` |
| `Typed`, `NoFutureOwner`, `CopyOnWrite`, `PairsStayFresh` | `TypeOK`, `OwnersNotInTheFuture`, `SharedIsNotOwned`, `ResolutionFresh` |
| `Refinement` | `Spec => PrivateSpec` |
| `Isolated` | `Spec => Isolation` |

Neither `SharedIsNotOwned` nor `ResolutionFresh` is inductive by itself. The invariant `IInv` has two
parts. `MInv` is about memory: types (`MTypes`); states that do not exist bind nothing, so a name can
be reused by a fork (`DeadBindNothing`); every mapped cell is allocated and owned by a key its state
has reached (`MappedIsAllocated`), so that advancing the parent's key at a fork makes the shared cells
foreign to both; and two bindings of one cell are of one object, owned by neither state (`Separate`).
`OpInv` is about the operation in progress: its shape, the freshness of its pairs, and that the
calling state of an external call still exists.

The argument goes through one lemma, `UpdateKeeps`: if a step changes the map of one state, and
writes only to cells that state owns or that were free, `MInv` holds afterwards and no other state
sees a difference. Writes, bindings, unbindings and merges are instances of it; forks and flushes
have lemmas of their own. One lemma per action then shows that `IInv` is kept and that the step is
one of `PrivateMemory` or a stutter; `StepHolds` collects them. `Isolated` follows from the
refinement, because a step of `PrivateMemory` changes at most one surviving memory.

Its second part proves `ReadOnlyShared` (`ReadOnlyNeverCopied`) and
`CallsReadTheirOwn` (`CopyInOnlyTouched`) from the invariant `RInv`, which rests on `IInv`. `ReadOnlyNeverCopied` needs one
more fact, `OneReadOnly`: only the objects of `ReadOnly` are ever bound read-only. So errno never is;
for a read-only errno `copyInConcrete` returns false, which `callExternalFunction` ignores, and the
action `CallReturns` has no such case because this cannot happen. The argument goes through `RespectsKeeps`: a step keeps every read-only binding if the one
state it changes replaces only bindings that are read-only in no state, by ones that are not read-only;
one lemma per action shows that it does. `CopyInOnlyTouched` is inductive beside the types.

**`ObjectBytesProofs`**, for objects of any finite size, any bytes, inputs, expressions and
`MaxWrites`, from `ObjectParameters`: `BytesRight` (the inductive invariant), `BytesTyped` (`TypeOK`),
`NoByteLost` (`CacheInvariants`), `ReadsAtConstants`, `ReadsAtSymbols` and `NativeValues`. The
invariant says of each place where the value of a byte can be that it is right if the masks say
that it is there: the concrete store (`StoreRight`), the known expressions (`KnownRight`), the
list of writes (`ListRight`). It rests on lemmas about lists: an appended write hides earlier ones
at its offset only, a flush appends one write per unflushed byte, and making the constant array
changes nothing a lookup finds.

**`StateSchedulerProofs`**, for any states, handlers, points and `MaxSteps`:

| Theorem | Statement | Options |
|---|---|---|
| `IInvAlways`, `QueuesStayDisjoint`, `SeedsStayWithStates` | `IInv`, `QueuesDisjoint`, `SeedsHaveStates` | any |
| `AgreementAlways`, `TypesRight`, `OpenStatesAlwaysAgree` | `Agreement`, `TypeOK`, `OpenStatesAgree` | any |
| `ScheduledAlways`, `NoStateIsForgotten` | `Scheduled`, `NoStateForgotten` | no limits, no seeding |
| `PartnersAlwaysShareStack`, `WaitersAreAlwaysHeld` | `PartnersShareStack`, `WaitersAreHeld` | no limits, no seeding, no halt from outside |
| `OnlyHeldAreExecuted` | `OnlyHeldExecuted` | any but MergingSearcher |
| `UpdatesAlwaysAccepted` | no assertion of `updateStates` or of the searchers fails (`UpdatesAccepted`) | no limits, no seeding, no MergingSearcher |

That `removedStates` is within `states` needs the selected state to exist, hence the searcher to
hold only states that do, hence those that will go back to it, which wait in handlers or are on
`continuedStates`, to exist although limits may kill any state. The invariant `Waits` says why they
do: one that has left the searcher cannot be removed, because the searcher's assertion stops the
run; one that is yet to be paused may be, but then either its pause fails at the searcher or its
release cancels the pause, and it is never handed back. The other parts are that no state waits in
two handlers, and that a state is open only in regions on its `openMergeStack`.

`OpenStatesAgree` says in both directions when a handler lives, and for that the order in which
handlers die has to leave every other one in `mergeGroups`: no handler is in the list twice
(`Listed`), none is twice on a stack, and regions are nested, so that two states inside one region
have the same regions outside it, at the same depth (`Nested`). `GroupsLeftRight` shows by induction
over the dropped handlers that exactly those without references leave the list.

That no state is forgotten is an account of all states (`Holds`): each is in the searcher or about
to go there, unless it waits. That the states never all wait for each other follows from the depth
of their stacks: who waits in a handler has the part of the stack below it that the states inside
have (`WaitersNested`), and the handler lives only as long as some state is inside; so for each
state that waits there is one with a deeper stack, and the one with the deepest cannot wait. This
is also why partners have equal stacks. The assumptions on the options are needed: `killedwaiting` and
`notheld` show what goes wrong with a memory limit and with a MergingSearcher, and a run that is
halted (`MayHalt`) deletes states while others wait for them. `OnlyHeldExecuted` with a MergingSearcher is
only model-checked, for two handlers (`incomplete`); with three it is violated.

**`UserSearcherProofs`**, for any states and sets of options:

| Theorem | Statement | Options |
|---|---|---|
| `SearchersImplement` | `SearchSpec => ImplementsScheduler` | `NeverStale` |
| `LayersAlwaysAgree`, `TreeAlwaysMatches` | `LayersAgree`, `TreeMatchesStates` | `NeverStale` |
| `BaseNeverEmpty` | `BaseNotEmpty` | `NeverAlone` |

`NeverStale` leaves out random path with batching and iterative deepening, `NeverAlone` random path with
iterative deepening; both combinations are accepted by the code and go wrong (see "More
consequences" above). The invariant `SearchInv` contains that of the scheduler, which is kept because every step
of the layers is one of the scheduler (`StepImplements`), which in turn needs the invariant: a state may be selected
because BatchingSearcher still points to it, so it has to be in the layer below (`LastHeld`), or
because the walk of the tree ends at it, so the leaves of the tree have to be the existing states
(`TreeInv`) and all of these in the searcher (`WalkHeld`: no state ever waits when random path is used). The
lemmas about `PTree` are for trees of any size: a fork makes a leaf an inner node with two leaves
(`AttachHangs`), and a removal frees just the nodes that lead to no other leaf (`RemoveHangs`).

**`PathExplorationProofs`**, first part: one lemma for each solver and entry point of the chain: from caches that
are `Sound` every outcome is `Sound` and its answer is right, for any arrays, expressions and options,
and whatever the core solver returns. It assumes of the constants what the code does: `SolverNames`, and
`Markers`, that an answer is never taken for a null pointer or a failure. Expressions are
values whose models depend only on the elements they read (`Expression`), and a path is a finite set
of them. What `Sound` says is stronger than `CachesSound` in nothing but the shape of the caches. Two of
the lemmas are the heart of it:

- `EvaluateRight`, `MustBeTrueRight`, `GetValueRight`: what the constraints a query depends on say of it is what all
  constraints say, provided these can be satisfied (`SliceRight`): two inputs are spliced at the closure's border.
- `InitialValuesRight`: the factors share no element (`FactorsApart`), so that writing the solution of
  one keeps what satisfied the others; one after the other, in any order, they make a solution of all.

**`PathExplorationProofs`**, second part, for any program whose conditions are expressions and whose cases exclude
each other (`ProgramConditions`, `ProgramSwitches`), any options and bound on the calls:

| Theorem | Statement |
|---|---|
| `PathsInvariant` | `Spec => []IInv` |
| `TypesRight`, `CachesStaySound`, `AnswersStayRight`, `CallsSucceed` | `TypeOK`, `CachesSound`, `AnswersRight`, `NoCallFails` |
| `PathsImplementRegions` | `Spec => RegionsSpec`, if `DefaultsApart` |
| `PathsPartitionInputs` | `Spec => []Regions!Partition`, if `DefaultsApart` and there is an input: it makes a set of test cases complete |

None of these is inductive alone. The solvers are right only for constraints some input satisfies:
a validity cache asked about others could say anything, and `computeValidity` asserts it. The
constraints of a path are satisfied by an input only because every earlier answer was right. `IInv` has both, and
that no two paths share an input, on which merging relies. One lemma per action shows that the
paths change as `PathStep` says: one path is shared out among new ones, narrowed, or joined with
another; `StepsImplement` maps these to the steps of `InputRegions`, and these keep a partition of
any set of inputs (`SharingOut`, `Narrowing`, `Joining`). `DefaultsApart` says that no
case of a switch has the target of its default, and only the refinement needs it: without it the inputs of the default are
lost, which is the disagreement with the comments of the code described above.

The lists of factors, cases and preferences, like the dropped handlers of the scheduler, are walked by recursive functions, so that their lemmas go
by induction. `SetInduction` states induction for sets of numbers, which the provers can
instantiate, and is proved from `WFMin`; for each recursive function a lemma shows that its
definition has a solution (`SolveFactorsDef`, `AskedCasesDef`, `AskedPreferencesDef`).

**`FileDescriptorsProofs`**, for tables of any size and any files: `DescriptorsStayRight`
(`DescriptorsRight`), `SystemFilesStayOpen` (`SystemFilesOpen`). Every action stores into one slot a
descriptor that agrees with the history, and closes no descriptor of the system (`StoreKeeps`);
standard input is always open there, which is what a zeroed slot refers to.

**`TreeProofs`**, for any variables and entries that meet `TreeParameters` (finitely many variables, keys that are
integers) and any bound on holders, and for any finite set of elements, any values and number of
sets that meet `TrieParameters`:

| Theorem | Statement |
|---|---|
| `TreesInductive` | `TreeSpec => []TreeInv` |
| `TreesWellFormed` | `WellFormed`: exact reference counts, sorted and balanced trees |
| `TreesUpdateRight`, `TreesOperateRight` | `UpdatesRight`, and with the lookups and iterators `OperationsRight` |
| `TreesAreMaps` | `TreeSpec => MapsSpec /\ AsMaps!Spec`: the trees implement `ImmutableMaps` |
| `TrieSearchesRight` | `SearchesRight` |

`WellFormed` is not inductive, and hardly a statement about an operation at all: between two lines of
`balance` there are references that nothing in the heap and no variable accounts for. `Good(h, e)`
says of a heap that it is closed and its nodes point downwards (`Heap`), that each node counts the pointers
to it in the heap and `e[n]` more (`Owns`), and that it is sorted and balanced (`Shaped`); a lemma
about each function says how it moves pointers between `e` and the heap (`IncrefOwned`,
`NewNodeNew`, `DecrefOwned`). `TreeInv` is then `Good` with the pointers from the
variables and the iterator for `e`, and that the iterator's stack is a path from its root.

- Sharing. What an operation was called on is still there when it ends, although `decref` frees
  whatever reaches zero, because `e` still has the pointers it had: a heap with all the pointers that a
  smaller one had, and made from it, has all of its nodes (`Supported`). So no other tree changes
  and no walk is cut, whatever they share (`Moves`, `PathKept`).
- `decref` is recursive over counts. `DropKeepsExact` shows that what it leaves counts exactly the
  pointers from what stays alive, by induction on heights.
- Balance. Each of the five cases of `balance` returns the entries it was given, and a height that is
  that of the higher side or one more (`BalanceJoins`); with that, `insert` and `replace` return a tree as high as before or
  one higher, `remove` and `popMin` as high or one lower (`PutResult`, `PopResult`, `RemoveResult`),
  which is just what the recursive calls above them need of their arguments to balance.
- Walks. The two directions of an iterator are one, with the sides exchanged (`Beside`,
  `Nearest`): from each position the next one is the nearest key on that side (`BesideNearest`, by induction along the path). The
  walk to a key ends at the key or next to the gap where it would be (`PathToTowards`), so that
  `lower_bound` needs at most one step from there (`LowerBoundReaches`).
- Refinement. Each action changes the contents of the one variable it assigns, to what the action of
  `ImmutableMaps` says, and leaves the rest of the iterator as it is (`MapsStep`). The theorem has
  both the form TLC checks and the specification itself, which differ where an action does nothing.

The trie rests on one invariant, `Trie`: every node on the way to a set is
there, so that the least element a set has beyond a node leads to a child (`ChildOnWay`); therefore a search
that passes over an element or a child passes over no set it could accept (`WithinSplits`, `AboveSplits`). What
the searches compute is shown by induction over the elements that are left (`MergeRight`) and over the depth below a node (`FromRight`).

**`PhpExplorationProofs`**, for any scripts that meet `ScriptParameters`: functions of any length, branches and
loops nested to any depth, jumps anywhere, calls of functions, recursion included.

| Theorem | Statement |
|---|---|
| `GraphMatches` | if the jumps of a body skip nothing (`JumpsAreLast`), each way through its graph (`GraphPaths`) is within one of its `Runs` |
| `GraphHasStatements` | the graph of a body has all its `Statements` |
| `AnalysisInductive` | `AnalysisSpec => []WalkInvariant` |
| `SinksOnRun` | `ProgramsOnRun` |
| `EverythingExplored` | `AllExplored`, if `SwitchesHaveCases` |

The argument has two halves. The first is about the walk and its graph, and holds whatever the jumps: a constraint was on a
path of the graph when it was recorded. `PathsOf` are these paths, in which a jump is passed over as the code passes over
it; they are not runs of PHP. That statement is not inductive, because the walk goes on
with what follows a branch in a call of its own, and back in the caller with the next alternative. `WalkInvariant` says of each call
on the stack that some path of its function has the constraints of its slice in their order
and *then* goes along any way through the nodes the call still has (`Graph`), which is what the three kinds of
step need: a statement is taken off the front (`GraphTail`), an alternative's condition is put behind the
constraints with its body and what follows for the nodes, and the body's end leaves what follows.
Slices are objects that calls refer to: that an alternative's slice is its caller's with one condition more,
for every alternative and not only the first (`Waits`), is what the code has the clone for, and what the mutant
without it breaks. The rest relates the stack to the Execution objects, one for each call that is in a function, and the
constraints to the sinks, of which `Synth.php` pairs the same number in the same order.

The second half is about scripts alone, and needs `JumpsSkipNothing`: each path of the graph is within a run
of PHP (`GraphMatches`), by induction over the nesting of bodies. A body ends by one of the jumps that may end it or falls off; a
jump that ends one of its statements is the last thing in it, so that nothing a path goes on to is cut off, and a loop or switch ends what
leaves it. `SinksOnRun` puts the halves together.

`AllExplored` needs an account of what is still to do: `Left` are the statements a call has yet to execute, those of
the alternatives it has not entered and those that follow. Every statement of a function that was
called is executed or left to some call (`Covered`), and no step loses one (`Kept`); an empty stack has
nothing left. What follows a branch is executed only from an alternative (`Execution.php:31`), so that
it is left to the branch only while the branch has one to enter. This is why the theorem needs a case in every
switch; the scripts of `parts` have one. `WalkInvariant` and `Covered` were checked with TLC on small scripts
before they were proved.

A recursive function has the values its equation gives only if some function meets the equation.
`RecursionHasSolution` shows that one does when the value at an argument depends on arguments of lower rank
only: the height of a node, the number of elements left, how deep a body nests. For the operations on trees that is not enough, because
`balance` makes no sense for what is no tree, so that the values of a function are known to be in any set only if they are
right. `SoundRecursionHasSolution` shows existence and rightness together, and `OperationExists`
applies it to operations on trees.

Every invariant and every other safety property of a passing run is proved. Only model-checked are `OnlyHeldExecuted` with a
MergingSearcher, and `Finishes` and `WaitersReleased`, since liveness under fairness and `ENABLED` are outside of
what the prover handles. The runs that expect a violation have nothing to prove.

## Not modelled

- The core solvers (STP, Z3), Module passes, the driver, statistics and the memory manager:
  external, one-shot or without state that other parts depend on.
- The arithmetic of instructions and the rewriting of expressions: bit-vector algebra, by opcode.
- The PHP 3 interpreter `php-src`, most of the repository's lines: third-party code that is the
  input of the analysis, not part of the analyser. The map covers little of the repository for that reason.
- Directories, permissions, ioctl, fcntl and select of the POSIX runtime; type inference and C
  text in `Synth.php`; classes and arrays in `php-se`.
- The reference counts of `MemoryObject` and the frames of the call stack.

## Plan

1. `ObjectLifetime`: MemoryObject reference counts, the allocas of frames, `markFreed`.
2. The rest of `fd.c`: permissions, unlink and chmod; replay and `-only-seed` in the main loop.
3. The allocator cache and hash table of `php-src`, if they are ever changed for symbolic execution.
