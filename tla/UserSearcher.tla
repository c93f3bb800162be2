---------------------------- MODULE UserSearcher ----------------------------
(***************************************************************************)
(* The searchers constructUserSearcher stacks on each other, driven by the *)
(* Executor of StateScheduler:                                             *)
(*                                                                         *)
(*   IterativeDeepeningTimeSearcher, which sets states aside that ran too  *)
(*   long until no others are left;                                        *)
(*   BatchingSearcher, which stays with a state for a while;               *)
(*   InterleavedSearcher, which takes turns between                        *)
(*   RandomPathSearcher, which holds no states but walks the PTree, and    *)
(*   a searcher with states of its own.                                    *)
(*                                                                         *)
(* Each layer keeps pointers to states, and is told of every change by the *)
(* two calls of update in updateStates.  StateScheduler, whose searcher is *)
(* one set of states, is implemented.  Times are nondeterministic, and so  *)
(* is whose turn it is.                                                    *)
(***************************************************************************)
EXTENDS StateScheduler

CONSTANT SearchOptions   \* the sets of searcher options to run with

VARIABLES
    search,     \* the options of this run
    tree,       \* processTree
    ptreeNode,  \* ptreeNode[s]: the node of s in it
    base,       \* the states of the searcher that has its own
    lastState,  \* BatchingSearcher's
    deepened    \* IterativeDeepeningTimeSearcher's pausedStates

layers     == <<base, lastState, deepened>>
forest     == <<tree, ptreeNode>>
searchVars == <<vars, search, layers, forest>>

ProcessTree == INSTANCE ProcessTree

RandomPath == "random-path" \in search
Batching   == "use-batching-search" \in search
UseMerge   == "use-merge" \in search
Deepening  == "use-iterative-deepening-time-search" \in search

-----------------------------------------------------------------------------
(* Selecting a state. *)

(* The InterleavedSearcher's: of a RandomPathSearcher, or of the other. *)
BaseChoices ==
    base \cup (IF ~RandomPath THEN {}
               ELSE {tree[n] : n \in ProcessTree!WalkEnds(tree)})

(* The state last selected, until its budget is spent. *)
BatchChoices == BaseChoices \cup (IF Batching THEN {lastState} \ {NoState} ELSE {})

selectState ==
    /\ phase = "select" /\ mode = "running" /\ states # {}
    /\ \E s \in BatchChoices :
          /\ Execute(s)
          /\ lastState' = IF Batching THEN s ELSE NoState
    /\ UNCHANGED <<useMergingSearcher, paused, continued, merging, search, base,
                   deepened, forest>>

-----------------------------------------------------------------------------
(* Searcher::update. *)

(* empty() of the InterleavedSearcher asks the first searcher only, and a  *)
(* RandomPathSearcher looks at the states of the Executor.                 *)
BaseEmpty(held) == IF RandomPath THEN states = {} ELSE held = {}

(* Mutant: the state stays the last one though it was removed. *)
KeepsLast(gone) == lastState' = lastState

Batched(gone) == lastState' = IF lastState \in gone THEN NoState ELSE lastState

(* Mutant: what was set aside stays there. *)
SetAsideStays(held, aside) ==
    /\ base' = held
    /\ deepened' = aside

(* When nothing else is left, what was set aside goes back. *)
Resumed(held, aside) ==
    IF Deepening /\ BaseEmpty(held)
    THEN base' = held \cup aside /\ deepened' = {}
    ELSE base' = held /\ deepened' = aside

(* Mutant: a state set aside is not taken off when it is removed. *)
updateForgetsAside(new, gone, over) ==
    LET held == (base \cup new) \ (gone \ deepened)
        aside == deepened
    IN  /\ Batched((gone \ deepened) \cup over)
        /\ Resumed(held \ over, aside \cup over)

(* IterativeDeepeningTimeSearcher::update, and those it calls: new states  *)
(* and gone ones, and over is the current state if it ran out of time.     *)
update(new, gone, over) ==
    LET held == (base \cup new) \ (gone \ deepened)
        aside == deepened \ gone
    IN  /\ Batched((gone \ deepened) \cup over)
        /\ Resumed(held \ over, aside \cup over)

(* The current state, if it still exists and its time has elapsed. *)
Overtime == {{}} \cup (IF Deepening THEN {{current} \ Removed} ELSE {})

-----------------------------------------------------------------------------
(* The Executor's operations, with what they do to the searchers. *)

searchFork(s, t) ==
    /\ Fork(s, t)
    /\ \E l \in {s, t} : LET r == IF l = s THEN t ELSE s IN
          /\ tree' = ProcessTree!attach(tree, ptreeNode[s], l, r)
          /\ ptreeNode' = [ptreeNode EXCEPT
                             ![l] = ProcessTree!Left(ptreeNode[s]),
                             ![r] = ProcessTree!Right(ptreeNode[s])]
    /\ UNCHANGED <<useMergingSearcher, search, layers>>

removeFromTree(s) ==
    /\ tree' = ProcessTree!remove(tree, ptreeNode[s])
    /\ ptreeNode' = [ptreeNode EXCEPT ![s] = << >>]

searchTerminate(s) ==
    /\ Terminate(s)
    /\ IF s \in added THEN removeFromTree(s) ELSE UNCHANGED forest
    /\ UNCHANGED <<useMergingSearcher, search, layers>>

searchDelete(s) ==
    /\ deleteRemoved(s) /\ removeFromTree(s)
    /\ UNCHANGED <<useMergingSearcher, search, layers>>

(* The searcher is constructed and told of all states. *)
searchBegin ==
    /\ BeginSearch
    /\ base' = states /\ lastState' = NoState /\ deepened' = {}
    /\ UNCHANGED <<useMergingSearcher, search, forest>>

searchUpdate ==
    /\ updateSearcher
    /\ IF mode = "running"
       THEN \E over \in Overtime : update(added, Removed, over)
       ELSE UNCHANGED layers
    /\ UNCHANGED <<useMergingSearcher, search, forest>>

searchReschedule ==
    /\ reschedule
    /\ IF mode = "running" THEN update(continued, paused, {}) ELSE UNCHANGED layers
    /\ UNCHANGED <<useMergingSearcher, search, forest>>

(* The searcher is deleted. *)
searchStop ==
    /\ Stop
    /\ base' = {} /\ lastState' = NoState /\ deepened' = {}
    /\ UNCHANGED <<useMergingSearcher, search, forest>>

searchOther ==
    /\ \/ SelectSeeded \/ Executed \/ processTimers \/ checkMemoryUsage \/ Done
       \/ UseMerge /\ \E h \in Handlers : OpenMerge(h)
       \/ \E p \in Points : CloseMerge(p)
    /\ UNCHANGED <<useMergingSearcher, search, layers, forest>>

searchInit ==
    /\ Init /\ ~useMergingSearcher
    /\ search \in SearchOptions
    /\ ~(UseMerge /\ RandomPath)    \* refused by constructUserSearcher
    /\ tree = ProcessTree!PTree(CHOOSE s \in states : TRUE)
    /\ ptreeNode = [s \in States |-> << >>]
    /\ base = searcher /\ lastState = NoState /\ deepened = {}

searchNext ==
    \/ selectState \/ searchBegin \/ searchUpdate \/ searchReschedule \/ searchStop
    \/ \E s, t \in States : searchFork(s, t)
    \/ \E s \in States : searchTerminate(s) \/ searchDelete(s)
    \/ searchOther

SearchSpec == searchInit /\ [][searchNext]_searchVars

-----------------------------------------------------------------------------
(* The searchers implement the one searcher of StateScheduler: the state   *)
(* selected is always one it holds, whatever pointers the layers keep      *)
(* (BatchingSearcher's lastState, the leaves RandomPathSearcher walks to). *)
ImplementsScheduler == Init /\ [][Next]_vars

(* Every state the searcher should hold is in one of its layers, and only  *)
(* in one (IterativeDeepeningTimeSearcher::update takes the states it set  *)
(* aside off the removed ones it passes on).                               *)
LayersAgree == searcher = base \cup deepened /\ base \cap deepened = {}

(* As long as there are states to select the searcher asked for one has    *)
(* some, whoever was set aside, paused or removed (DiscretePDF: "choose()  *)
(* called on empty tree").                                                 *)
BaseNotEmpty == phase = "select" /\ searcher # {} => base # {}

(* The states in the tree are those that exist, each at its own leaf, and  *)
(* the walk from the root ends at one of them wherever it turns: there is  *)
(* no branch without a state (PTree::remove).                              *)
TreeMatchesStates ==
    LET leaves == {n \in DOMAIN tree : ProcessTree!Children(tree, n) = {}}
    IN  Existing # {} =>
          /\ leaves = {ptreeNode[s] : s \in Existing}
          /\ \A s \in Existing : tree[ptreeNode[s]] = s
          /\ \A n \in DOMAIN tree \ leaves : tree[n] = NoState
=============================================================================
