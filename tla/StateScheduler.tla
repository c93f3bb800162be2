--------------------------- MODULE StateScheduler ---------------------------
(***************************************************************************)
(* The main loop of KLEE's Executor, and the merge regions a program opens *)
(* with klee_open_merge and closes with klee_close_merge.                  *)
(*                                                                         *)
(* An iteration of Executor::run selects a state, executes one instruction *)
(* of it, may kill states that take too long or too much memory, and then  *)
(* applies what it queued (updateStates): added states join, removed ones  *)
(* are deleted, the states a close_merge paused leave the searcher and     *)
(* those it released go back.  The queues, the searcher, the stack of      *)
(* merge regions of each state and the lists of the MergeHandlers all name *)
(* the same states, by pointer, and only the order of these calls keeps    *)
(* them in agreement.                                                      *)
(*                                                                         *)
(* A state's program is nondeterministic, at most MaxSteps instructions    *)
(* long.  The searcher is the set of states it may select: every search    *)
(* heuristic picks one of them.  A failed assertion stops the program.     *)
(***************************************************************************)
EXTENDS Naturals, FiniteSets, Sequences, SequencesExt

CONSTANTS
    States,          \* names of ExecutionStates; none is used twice
    NoState,         \* a null ExecutionState pointer
    Handlers,        \* names of MergeHandlers
    Points,          \* klee_close_merge call sites
    MaxSteps,        \* bound on the instructions of a path
    IncompleteMerge, \* values of -use-incomplete-merge to run with
    InstructionTime, \* -max-instruction-time: processTimers may kill current
    MemoryLimit,     \* -max-memory: checkMemoryUsage may kill states
    Seeding,         \* -seed-file: the run starts with a seeding phase
    MayHalt          \* whether something sets haltExecution

ASSUME SchedulerNames ==
    /\ NoState \notin States /\ MaxSteps \in Nat
    /\ {InstructionTime, MemoryLimit, Seeding, MayHalt} \subseteq BOOLEAN
    /\ IncompleteMerge \subseteq BOOLEAN

VARIABLES
    useMergingSearcher, \* whether this run has -use-incomplete-merge
    mode,           \* "seeding", "running" (there is a searcher) or "halting"
    phase,          \* where the iteration is
    current,        \* the state the instruction is executed for
    born,           \* states created so far
    states,         \* Executor::states
    added,          \* addedStates
    removed,        \* removed[s]: how often removedStates lists s
    paused,         \* pausedStates
    continued,      \* continuedStates
    searcher,       \* the states the searcher holds
    seeded,         \* the states in seedMap
    steps,          \* steps[s]: steppedInstructions
    openMergeStack, \* openMergeStack[s]: the regions s is in, innermost last
    mergeGroups,    \* the MergeHandlers that exist
    inCloseMerge,   \* states waiting at a klee_close_merge
    handler         \* handler[h]: the data of a MergeHandler

loop    == <<mode, phase, current>>
queues  == <<added, removed, paused, continued>>
merging == <<openMergeStack, mergeGroups, inCloseMerge, handler>>
vars    == <<useMergingSearcher, loop, queues, merging, born, states, searcher, seeded, steps>>

(* Every ExecutionState that has not been deleted. *)
Existing == states \cup added

Removed == {s \in States : removed[s] > 0}

-----------------------------------------------------------------------------
(* MergeHandler. *)

(* Mutant: the mean starts from the opening instruction, not from 0. *)
MergeHandlerMeanFromStart(s, start) ==
    [openStates |-> s, openInstruction |-> start, closedStateCount |-> 0,
     distances |-> 0 - start, reachedCloseMerge |-> [p \in Points |-> {}]]

MergeHandler(s, start) ==
    [openStates |-> s, openInstruction |-> start, closedStateCount |-> 0,
     distances |-> 0, reachedCloseMerge |-> [p \in Points |-> {}]]

NoHandler == MergeHandler({}, 0)

(* The states that wait in h for the others of their region. *)
Waiting(hs, h) == UNION {hs[h].reachedCloseMerge[p] : p \in Points}

(* getInstructionDistance(s) < 2 * getMean(); the mean is the sum of the   *)
(* closed states' distances over closedStateCount.                         *)
InTime(h, s) ==
    (steps[s] - handler[h].openInstruction) * handler[h].closedStateCount
        < 2 * handler[h].distances

(* Mutant: states that wait in another handler are candidates too. *)
PrioritizedEvenClosed(h, closed) == {s \in handler[h].openStates : InTime(h, s)}

(* What getPrioritizeState may return while closed wait. *)
Prioritized(h, closed) == {s \in handler[h].openStates \ closed : InTime(h, s)}

(* Mutant: the last entry is dropped without taking the place of h. *)
RemoveLast(groups, h) == Front(groups)

(* ~MergeHandler: the last entry of mergeGroups takes the place of h. *)
SwapRemove(groups, h) ==
    [i \in 1 .. Len(groups) - 1 |-> IF groups[i] = h THEN groups[Len(groups)]
                                    ELSE groups[i]]

(* Mutant: a state paused in this iteration stays paused. *)
continueUnpausedState(ps, cs, ws) ==
    /\ paused' = ps
    /\ continued' = cs \cup (ws \ ps)

(* A state to be paused is simply not paused; another is to be continued.  *)
continueState(ps, cs, ws) ==
    /\ paused' = ps \ ws
    /\ continued' = cs \cup (ws \ ps)

(* ref<MergeHandler>: h loses its last reference when a state drops those  *)
(* in dropped, others being the states that stay.                          *)
Unreferenced(h, dropped, others) ==
    Contains(dropped, h) /\ \A t \in others : ~Contains(openMergeStack[t], h)

Destroyed(dropped, others) == {h \in Handlers : Unreferenced(h, dropped, others)}

(* mergeGroups, when they are destroyed in the order they were dropped in. *)
GroupsLeft(dropped, others) ==
    LET left[i \in 0 .. Len(dropped)] ==
          IF i = 0 THEN mergeGroups
          ELSE IF Unreferenced(dropped[i], dropped, others)
               THEN SwapRemove(left[i - 1], dropped[i])
               ELSE left[i - 1]
    IN  left[Len(dropped)]

(* Mutant: the handlers are destroyed, but do not release what waits. *)
UnrefWithoutRelease(hs, dropped, others, closed, ps, cs) ==
    /\ handler' = [h \in Handlers |-> IF h \in Destroyed(dropped, others) THEN NoHandler
                                      ELSE hs[h]]
    /\ mergeGroups' = GroupsLeft(dropped, others)
    /\ inCloseMerge' = closed
    /\ continueState(ps, cs, {})

(* References to the handlers in dropped go away, hs being the data of the *)
(* handlers now: those that are destroyed release what waits in them.      *)
Unref(hs, dropped, others, closed, ps, cs) ==
    LET released == UNION {Waiting(hs, h) : h \in Destroyed(dropped, others)}
    IN  /\ handler' = [h \in Handlers |-> IF h \in Destroyed(dropped, others) THEN NoHandler
                                          ELSE hs[h]]
        /\ mergeGroups' = GroupsLeft(dropped, others)
        /\ inCloseMerge' = closed \ released
        /\ continueState(ps, cs, released)

(* What removeOpenState asserts, for the regions hs of s. *)
IsOpenIn(s, hs) == \A h \in hs : s \in handler[h].openStates

(* Mutant: a deleted state stays on the openStates of its regions. *)
DeleteStaysOpen(s) ==
    /\ openMergeStack' = [openMergeStack EXCEPT ![s] = << >>]
    /\ UNCHANGED <<mergeGroups, inCloseMerge, handler, paused, continued>>

(* delete s: ~ExecutionState takes s off the openStates of its regions. *)
Delete(s) ==
    LET regions == ToSet(openMergeStack[s])
    IN  /\ IsOpenIn(s, regions)
        /\ openMergeStack' = [openMergeStack EXCEPT ![s] = << >>]
        /\ Unref([h \in Handlers |->
                    IF h \in regions
                    THEN [handler[h] EXCEPT !.openStates = handler[h].openStates \ {s}]
                    ELSE handler[h]],
                 openMergeStack[s], Existing \ {s}, inCloseMerge, paused, continued)

-----------------------------------------------------------------------------
(* Selecting a state. *)

Execute(s) ==
    /\ phase' = "execute" /\ current' = s
    /\ steps' = [steps EXCEPT ![s] = steps[s] + 1]
    /\ UNCHANGED <<mode, born, states, added, removed, searcher, seeded>>

SelectSeeded ==
    /\ phase = "select" /\ mode = "seeding"
    /\ \E s \in seeded : Execute(s)
    /\ UNCHANGED <<paused, continued, merging>>

(* The searcher is constructed when no seeds are left or their time is up. *)
BeginSearch ==
    /\ phase = "select" /\ mode = "seeding"
    /\ mode' = "running"
    /\ searcher' = states
    /\ UNCHANGED <<phase, current, queues, merging, born, states, seeded, steps>>

SelectState ==
    /\ phase = "select" /\ mode = "running" /\ ~useMergingSearcher
    /\ \E s \in searcher : Execute(s)
    /\ UNCHANGED <<paused, continued, merging>>

(* MergingSearcher::selectState goes through mergeGroups: it releases what *)
(* waits in a handler without a state to prioritize, up to the first that  *)
(* has one, at i.                                                          *)
SelectMerging ==
    /\ phase = "select" /\ mode = "running" /\ useMergingSearcher
    /\ searcher # {}
    /\ \E i \in 1 .. Len(mergeGroups) + 1 :
       LET passed(j) == {h \in Handlers : \E k \in 1 .. j - 1 : mergeGroups[k] = h}
           released(j) == UNION {Waiting(handler, h) : h \in passed(j)}
           choices(j, h) == IF Waiting(handler, h) = {} THEN {}
                            ELSE Prioritized(h, inCloseMerge \ released(j))
       IN  /\ \A j \in 1 .. i - 1 : choices(j, mergeGroups[j]) = {}
           /\ \/ i > Len(mergeGroups) /\ \E s \in searcher : Execute(s)
              \/ \E h \in Handlers :
                    /\ i <= Len(mergeGroups) /\ mergeGroups[i] = h
                    /\ \E s \in choices(i, h) : Execute(s)
           /\ handler' = [h \in Handlers |-> IF h \in passed(i)
                            THEN [handler[h] EXCEPT !.reachedCloseMerge =
                                                       [p \in Points |-> {}]]
                            ELSE handler[h]]
           /\ inCloseMerge' = inCloseMerge \ released(i)
           /\ continueState(paused, continued, released(i))
    /\ UNCHANGED <<openMergeStack, mergeGroups>>

-----------------------------------------------------------------------------
(* Executing one instruction: the current state and the states forked off  *)
(* it may fork again or end before the instruction is over.                *)

Executing(s) == /\ phase = "execute"
                /\ s \in ({current} \cup added) \ Removed

(* Mutant: a copy of s is only in the innermost region. *)
InheritedInnermost(s) == SelectSeq(openMergeStack[s], LAMBDA h : h = Last(openMergeStack[s]))

(* The regions a copy of s is in. *)
Inherited(s) == openMergeStack[s]

(* fork and branch: a copy of s enters the regions s is in, and each seed  *)
(* of s goes to one of the two.                                            *)
Fork(s, t) ==
    /\ Executing(s) /\ steps[current] < MaxSteps
    /\ t \notin born
    /\ born' = born \cup {t}
    /\ added' = added \cup {t}
    /\ steps' = [steps EXCEPT ![t] = steps[s]]
    /\ openMergeStack' = [openMergeStack EXCEPT ![t] = Inherited(s)]
    /\ handler' = [h \in Handlers |->
                     IF Contains(Inherited(s), h)
                     THEN [handler[h] EXCEPT !.openStates = handler[h].openStates \cup {t}]
                     ELSE handler[h]]
    /\ IF s \in seeded
       THEN \E S \in SUBSET {s, t} \ {{}} : seeded' = (seeded \ {s}) \cup S
       ELSE UNCHANGED seeded
    /\ UNCHANGED <<loop, states, removed, paused, continued, searcher,
                   mergeGroups, inCloseMerge>>

(* Mutant: a state that was just added is queued for removal as well. *)
TerminateQueued(s) ==
    /\ Executing(s)
    /\ removed' = [removed EXCEPT ![s] = removed[s] + 1]
    /\ UNCHANGED <<loop, added, paused, continued, merging, born, states, searcher,
                   seeded, steps>>

(* terminateState: a state the searcher never saw is deleted at once. *)
Terminate(s) ==
    /\ Executing(s)
    /\ IF s \in added
       THEN /\ added' = added \ {s}
            /\ seeded' = seeded \ {s}
            /\ Delete(s)
            /\ UNCHANGED removed
       ELSE /\ removed' = [removed EXCEPT ![s] = removed[s] + 1]
            /\ UNCHANGED <<added, seeded, paused, continued, merging>>
    /\ UNCHANGED <<loop, born, states, searcher, steps>>

(* Any other instruction, or the end of one that forked or ended states. *)
Executed ==
    /\ phase = "execute"
    /\ steps[current] < MaxSteps \/ current \in Removed
    /\ phase' = "timers"
    /\ UNCHANGED <<mode, current, queues, merging, born, states, searcher, seeded, steps>>

(* The instruction is a call of klee_open_merge. *)
OpenMerge(h) ==
    /\ Executing(current) /\ added = {} /\ steps[current] < MaxSteps
    /\ ~Contains(mergeGroups, h)
    /\ mergeGroups' = Append(mergeGroups, h)
    /\ handler' = [handler EXCEPT ![h] = MergeHandler({current}, steps[current])]
    /\ openMergeStack' = [openMergeStack EXCEPT ![current] = Append(openMergeStack[current], h)]
    /\ phase' = "timers"
    /\ UNCHANGED <<mode, current, queues, inCloseMerge, born, states, searcher, seeded, steps>>

(* The instruction is a call of klee_close_merge at p.  The first state to *)
(* arrive there waits; a later one merges with one that waits, and ends,   *)
(* or waits too.  Then the region is popped, which destroys its handler if *)
(* no other state is in it.                                                *)
CloseMerge(p) ==
    /\ Executing(current) /\ added = {} /\ steps[current] < MaxSteps
    /\ openMergeStack[current] # << >>
    /\ current \notin inCloseMerge     \* asserted
    /\ IsOpenIn(current, {Last(openMergeStack[current])})
    /\ LET h == Last(openMergeStack[current])
           closed == [handler[h] EXCEPT
                        !.openStates = handler[h].openStates \ {current},
                        !.closedStateCount = handler[h].closedStateCount + 1,
                        !.distances = handler[h].distances
                                        + (steps[current] - handler[h].openInstruction)]
       IN  \/ /\ Unref([handler EXCEPT ![h] =
                          [closed EXCEPT !.reachedCloseMerge[p] = closed.reachedCloseMerge[p]
                                                                     \cup {current}]],
                       <<h>>, Existing \ {current}, inCloseMerge \cup {current},
                       IF current \in continued THEN paused ELSE paused \cup {current},
                       continued \ {current})
              /\ UNCHANGED removed
           \/ /\ closed.reachedCloseMerge[p] # {}
              /\ Unref([handler EXCEPT ![h] = closed], <<h>>, Existing \ {current},
                       inCloseMerge \ {current}, paused, continued)
              /\ removed' = [removed EXCEPT ![current] = removed[current] + 1]
    /\ openMergeStack' = [openMergeStack EXCEPT ![current] = Front(openMergeStack[current])]
    /\ phase' = "timers"
    /\ UNCHANGED <<mode, current, added, born, states, searcher, seeded, steps>>

-----------------------------------------------------------------------------
(* The rest of the iteration. *)

(* An instruction that took too long ends the state, unless it already did. *)
processTimers ==
    /\ phase = "timers"
    /\ \/ UNCHANGED removed
       \/ /\ InstructionTime /\ current \notin Removed
          /\ removed' = [removed EXCEPT ![current] = 1]
    /\ phase' = IF mode = "running" THEN "memory" ELSE "update"
    /\ UNCHANGED <<mode, current, added, paused, continued, merging, born, states,
                   searcher, seeded, steps>>

(* Over the memory cap, any of the states may be killed. *)
checkMemoryUsage ==
    /\ phase = "memory"
    /\ \E K \in IF MemoryLimit THEN SUBSET states ELSE {{}} :
          removed' = [s \in States |-> removed[s] + (IF s \in K THEN 1 ELSE 0)]
    /\ phase' = "update"
    /\ UNCHANGED <<mode, current, added, paused, continued, merging, born, states,
                   searcher, seeded, steps>>

(* What searcher->update(current, addedStates, removedStates) asserts. *)
CurrentIsHeld == current \notin Removed => current \in searcher
RemovedAreHeld == \A s \in Removed : s \in searcher /\ removed[s] = 1

updateSearcher ==
    /\ phase = "update"
    /\ IF mode = "running"
       THEN /\ CurrentIsHeld /\ RemovedAreHeld
            /\ searcher' = (searcher \cup added) \ Removed
       ELSE UNCHANGED searcher
    /\ states' = states \cup added
    /\ added' = {}
    /\ phase' = "delete"
    /\ UNCHANGED <<mode, current, removed, paused, continued, merging, born, seeded, steps>>

(* Mutant: the seeds of a removed state stay in seedMap. *)
deleteRemovedKeepsSeeds(s) ==
    /\ phase = "delete" /\ s \in Removed /\ s \in states
    /\ states' = states \ {s}
    /\ removed' = [removed EXCEPT ![s] = removed[s] - 1]
    /\ Delete(s)
    /\ UNCHANGED <<loop, added, born, seeded, searcher, steps>>

deleteRemoved(s) ==
    /\ phase = "delete" /\ s \in Removed
    /\ s \in states             \* assert(it2!=states.end())
    /\ states' = states \ {s}
    /\ seeded' = seeded \ {s}
    /\ removed' = [removed EXCEPT ![s] = removed[s] - 1]
    /\ Delete(s)
    /\ UNCHANGED <<loop, added, born, searcher, steps>>

(* What the searcher holds after update(nullptr, continuedStates,          *)
(* pausedStates).                                                          *)
Rescheduled == (searcher \cup continued) \ paused

(* The end of updateStates. *)
reschedule ==
    /\ phase = "delete" /\ Removed = {}
    /\ IF mode = "running"
       THEN /\ continued \cap searcher = {}
            /\ paused \subseteq searcher \cup continued
            /\ searcher' = Rescheduled
            /\ paused' = {} /\ continued' = {}
       ELSE UNCHANGED <<searcher, paused, continued>>
    /\ phase' = IF mode = "halting" THEN "done" ELSE "select"
    /\ current' = NoState
    /\ UNCHANGED <<mode, added, removed, merging, born, states, seeded, steps>>

(* No states are left, or execution is halted: the searcher is destroyed   *)
(* and doDumpStates ends every state there is.                             *)
Stop ==
    /\ phase = "select" /\ mode # "halting"
    /\ MayHalt \/ (mode = "running" /\ states = {})
    /\ mode' = "halting"
    /\ phase' = "delete"
    /\ searcher' = {}
    /\ removed' = [s \in States |-> IF s \in states THEN 1 ELSE 0]
    /\ UNCHANGED <<current, added, paused, continued, merging, born, states, seeded, steps>>

Done == phase = "done" /\ UNCHANGED vars

Init ==
    \E s \in States :
        /\ useMergingSearcher \in IncompleteMerge
        /\ mode = IF Seeding THEN "seeding" ELSE "running"
        /\ phase = "select" /\ current = NoState
        /\ born = {s} /\ states = {s}
        /\ added = {} /\ removed = [t \in States |-> 0]
        /\ paused = {} /\ continued = {}
        /\ searcher = IF Seeding THEN {} ELSE {s}
        /\ seeded = IF Seeding THEN {s} ELSE {}
        /\ steps = [t \in States |-> 0]
        /\ openMergeStack = [t \in States |-> << >>]
        /\ mergeGroups = << >> /\ inCloseMerge = {}
        /\ handler = [h \in Handlers |-> NoHandler]

Step ==
    \/ SelectSeeded \/ BeginSearch \/ SelectState \/ SelectMerging
    \/ \E s, t \in States : Fork(s, t)
    \/ \E s \in States : Terminate(s)
    \/ \E h \in Handlers : OpenMerge(h)
    \/ \E p \in Points : CloseMerge(p)
    \/ Executed \/ processTimers \/ checkMemoryUsage
    \/ updateSearcher \/ \E s \in States : deleteRemoved(s)
    \/ reschedule \/ Stop \/ Done

Next == Step /\ UNCHANGED useMergingSearcher

(* The Executor is one thread, which keeps running. *)
Spec == Init /\ [][Next]_vars /\ WF_vars(Next)

-----------------------------------------------------------------------------
(* Types. *)

TypeOK ==
    /\ mode \in {"seeding", "running", "halting"}
    /\ phase \in {"select", "execute", "timers", "memory", "update", "delete", "done"}
    /\ current \in States \cup {NoState}
    /\ {born, states, added, paused, continued, searcher, seeded, inCloseMerge}
          \subseteq SUBSET States
    /\ removed \in [States -> Nat] /\ steps \in [States -> Nat]
    /\ openMergeStack \in [States -> Seq(Handlers)] /\ mergeGroups \in Seq(Handlers)
    /\ handler \in [Handlers ->
          [openStates : SUBSET States, openInstruction : Nat,
           closedStateCount : Nat, distances : Nat,
           reachedCloseMerge : [Points -> SUBSET States]]]

-----------------------------------------------------------------------------
(* Safety. *)

(* Whenever a state is to be selected, the searcher holds every state but  *)
(* those that wait in a close_merge: no state is lost to the search and    *)
(* none that waits is selected, whatever was added, paused, continued and  *)
(* removed (updateStates, pauseState, continueState).  And the states      *)
(* never all wait for each other (MergingSearcher::selectState's assertion *)
(* "base searcher is empty").                                              *)
NoStateForgotten ==
    phase = "select" /\ mode = "running" =>
        /\ searcher = states \ inCloseMerge
        /\ states # {} => searcher # {}

(* The openStates of a MergeHandler are the states with it on their        *)
(* openMergeStack, and it is in mergeGroups as long as there are any: what *)
(* removeOpenState asserts, and what destroys the handler exactly when the *)
(* last state leaves the region.                                           *)
OpenStatesAgree ==
    \A h \in Handlers :
        LET inside == {s \in Existing : Contains(openMergeStack[s], h)}
        IN  /\ handler[h].openStates = inside
            /\ Contains(mergeGroups, h) <=> inside # {}

(* States that wait in one handler are in the same outer regions, so that  *)
(* a merge, which compares no openMergeStack (ExecutionState::merge), does *)
(* not make one state stand for another that must still close other        *)
(* regions.                                                                *)
PartnersShareStack ==
    \A h \in Handlers : \A s, t \in Waiting(handler, h) :
        openMergeStack[s] = openMergeStack[t]

(* inCloseMerge is the set of the states that wait in some handler, and    *)
(* all of them exist (addClosedState, releaseStates).                      *)
WaitersAreHeld ==
    /\ inCloseMerge = UNION {Waiting(handler, h) : h \in Handlers}
    /\ inCloseMerge \subseteq states

(* The documented invariant of the queues, Executor.h: removedStates is a  *)
(* subset of states, and addedStates is disjoint from removedStates.       *)
QueuesDisjoint == added \cap Removed = {} /\ Removed \subseteq states

(* seedMap names no deleted state: run takes the state to execute from it  *)
(* (fork, branch, terminateState and updateStates move its entries).       *)
SeedsHaveStates == seeded \subseteq Existing

(* Every state the searcher is told to remove is one it holds (the         *)
(* searchers' assertion "invalid state removed").                          *)
OnlyHeldRemoved == phase = "update" /\ mode = "running" => Removed \subseteq searcher

(* The state that was executed is one the searcher holds (BFSSearcher:     *)
(* assert(pos != states.end()); DiscretePDF: "argument(item) not in tree").*)
OnlyHeldExecuted == phase = "update" /\ mode = "running" => CurrentIsHeld

-----------------------------------------------------------------------------
(* Liveness. *)

(* A run of a program whose paths all end comes to its end: no state is    *)
(* left waiting in a close_merge for ever.                                 *)
Finishes == <>(phase = "done")

(* Every state that waits at a close_merge is released or merged into, or  *)
(* ends: the handler is destroyed when the last state leaves the region.   *)
WaitersReleased == \A s \in States : s \in inCloseMerge ~> s \notin inCloseMerge
=============================================================================
