------------------------ MODULE StateSchedulerProofs ------------------------
(***************************************************************************)
(* The queues of the Executor and its seeds name only states that exist,   *)
(* for any states, handlers, points and options, with the MergingSearcher  *)
(* or without.                                                             *)
(*                                                                         *)
(* That removedStates is a subset of states takes a state selected to      *)
(* exist.  The searcher gets states back when a handler releases them, so  *)
(* a waiting state must exist as well, though any state may be killed: one *)
(* that waits is either not in the searcher, and a run that kills it stops *)
(* at the searcher's assertion, or still to be paused, and then a run that *)
(* kills it stops when it is to leave the searcher, unless it is released  *)
(* before: then its pause is cancelled, and it is not continued.  While    *)
(* seeding all waiting states are of the second sort (Waits).              *)
(***************************************************************************)
EXTENDS StateScheduler, SequenceTheorems, FiniteSetTheorems, TLAPS

HandlerData ==
    [openStates : SUBSET States, openInstruction : Int, closedStateCount : Int,
     distances : Int, reachedCloseMerge : [Points -> SUBSET States]]

Types ==
    /\ born \subseteq States
    /\ removed \in [States -> Nat] /\ steps \in [States -> Int]
    /\ openMergeStack \in [States -> Seq(Handlers)]
    /\ handler \in [Handlers -> HandlerData]

(* Names are used once. *)
Lists ==
    /\ Existing \cup paused \cup continued \cup searcher \cup inCloseMerge \subseteq born
    /\ states \cap added = {}
    /\ added \cap (paused \cup continued \cup searcher \cup inCloseMerge) = {}

(* What the queues hold in each phase; only checkMemoryUsage removes twice. *)
Queues ==
    /\ QueuesDisjoint
    /\ phase \in {"select", "done"} => added = {} /\ Removed = {}
    /\ phase = "delete" => added = {}
    /\ phase \in {"execute", "timers", "memory", "update"} => current \in states
    /\ phase = "memory" => mode = "running"
    /\ \/ phase = "update" /\ mode = "running"
       \/ \A s \in States : removed[s] <= 1

(* The states that wait in some handler of hs; none waits in two. *)
AllWaiting(hs) == UNION {Waiting(hs, h) : h \in Handlers}

Apart(hs) ==
    \A g, h \in Handlers : g # h => Waiting(hs, g) \cap Waiting(hs, h) = {}

(* A state is open only in regions it is inside. *)
OpenInside ==
    \A h \in Handlers : \A s \in handler[h].openStates :
        s \in Existing /\ Contains(openMergeStack[s], h)

Regions ==
    /\ OpenInside
    /\ Apart(handler)
    /\ AllWaiting(handler) \subseteq inCloseMerge
    /\ continued \cap inCloseMerge = {}

(* States that have left the searcher, and may come back to it. *)
Away(hs, ps, cs) == cs \cup (AllWaiting(hs) \ ps)

Waits ==
    LET away == Away(handler, paused, continued)
    IN  /\ mode = "seeding" => away = {} /\ searcher = {}
        /\ mode = "running" =>
              /\ searcher \subseteq states
              /\ away \subseteq states \ searcher
              /\ phase = "delete" => Removed \cap (searcher \cup away) = {}

IInv == Types /\ Lists /\ Queues /\ Regions /\ Waits /\ SeedsHaveStates

-----------------------------------------------------------------------------
(* Handlers. *)

LEMMA WithOpenStates ==
    ASSUME NEW r \in HandlerData, NEW S \in SUBSET States
    PROVE  /\ [r EXCEPT !.openStates = S] \in HandlerData
           /\ [r EXCEPT !.openStates = S].openStates = S
           /\ [r EXCEPT !.openStates = S].reachedCloseMerge = r.reachedCloseMerge
BY DEF HandlerData

LEMMA NewHandler ==
    ASSUME NEW S \in SUBSET States, NEW n \in Int
    PROVE  /\ MergeHandler(S, n) \in HandlerData
           /\ MergeHandler(S, n).openStates = S
           /\ \A p \in Points : MergeHandler(S, n).reachedCloseMerge[p] = {}
BY DEF MergeHandler, HandlerData

LEMMA NoHandlerEmpty ==
    /\ NoHandler \in HandlerData /\ NoHandler.openStates = {}
    /\ \A p \in Points : NoHandler.reachedCloseMerge[p] = {}
BY NewHandler DEF NoHandler

(* Whatever handlers release: a state leaves the lists it waits on, and is *)
(* away afterwards only if it was before.                                  *)
Released(hs, closed, ps, cs) ==
    /\ Apart(handler')
    /\ AllWaiting(handler') \subseteq inCloseMerge'
    /\ continued' \cap inCloseMerge' = {}
    /\ Away(handler', paused', continued') \subseteq Away(hs, ps, cs)
    /\ paused' \subseteq ps /\ inCloseMerge' \subseteq closed
    /\ continued' \subseteq cs \cup closed

LEMMA Releases ==
    ASSUME NEW hs, NEW G \in SUBSET Handlers, NEW closed, NEW ps, NEW cs,
           Apart(hs), AllWaiting(hs) \subseteq closed, cs \cap closed = {},
           \A h \in Handlers : Waiting(handler', h) = IF h \in G THEN {} ELSE Waiting(hs, h),
           inCloseMerge' = closed \ UNION {Waiting(hs, h) : h \in G},
           continueState(ps, cs, UNION {Waiting(hs, h) : h \in G})
    PROVE  Released(hs, closed, ps, cs)
<1> DEFINE ws == UNION {Waiting(hs, h) : h \in G}
<1>1. \A x : x \in ws <=> \E h \in G : x \in Waiting(hs, h)
  OBVIOUS
<1>2. paused' = ps \ ws /\ continued' = cs \cup (ws \ ps) /\ inCloseMerge' = closed \ ws
  BY DEF continueState
<1> HIDE DEF ws
<1>3. \A x : x \in AllWaiting(hs) <=> \E h \in Handlers : x \in Waiting(hs, h)
  BY DEF AllWaiting
<1>4. \A x : x \in AllWaiting(handler') <=> \E h \in Handlers \ G : x \in Waiting(hs, h)
  <2>1. \A x : x \in AllWaiting(handler') <=> \E h \in Handlers : x \in Waiting(handler', h)
    BY DEF AllWaiting
  <2> QED
    BY <2>1
<1>5. \A x : x \in AllWaiting(handler') => x \in AllWaiting(hs) /\ x \notin ws
  BY <1>1, <1>3, <1>4 DEF Apart
<1>6. Apart(handler')
  BY DEF Apart
<1>7. AllWaiting(handler') \subseteq inCloseMerge'
  BY <1>2, <1>5
<1>8. ws \subseteq AllWaiting(hs)
  BY <1>1, <1>3
<1>9. continued' \cap inCloseMerge' = {}
  BY <1>2
<1>10. Away(handler', paused', continued') \subseteq Away(hs, ps, cs)
  BY <1>2, <1>5, <1>8 DEF Away
<1> QED
  BY <1>2, <1>6, <1>7, <1>8, <1>9, <1>10 DEF Released

(* Unref, whichever handlers it destroys. *)
LEMMA UnrefReleases ==
    ASSUME NEW hs \in [Handlers -> HandlerData], NEW dropped, NEW others,
           NEW closed, NEW ps, NEW cs, Unref(hs, dropped, others, closed, ps, cs),
           Apart(hs), AllWaiting(hs) \subseteq closed, cs \cap closed = {}
    PROVE  /\ handler' \in [Handlers -> HandlerData]
           /\ \A h \in Handlers : handler'[h].openStates \subseteq hs[h].openStates
           /\ Released(hs, closed, ps, cs)
<1> DEFINE G == Destroyed(dropped, others)
<1>1. G \in SUBSET Handlers
  BY DEF Destroyed
<1>2. /\ handler' = [h \in Handlers |-> IF h \in G THEN NoHandler ELSE hs[h]]
      /\ inCloseMerge' = closed \ UNION {Waiting(hs, h) : h \in G}
      /\ continueState(ps, cs, UNION {Waiting(hs, h) : h \in G})
  BY DEF Unref
<1> HIDE DEF G
<1>3. \A h \in Handlers : handler'[h] = IF h \in G THEN NoHandler ELSE hs[h]
  BY <1>2
<1>4. \A h \in Handlers : Waiting(handler', h) = IF h \in G THEN {} ELSE Waiting(hs, h)
  BY <1>3, NoHandlerEmpty DEF Waiting
<1>5. Released(hs, closed, ps, cs)
  BY <1>1, <1>2, <1>4, Releases
<1> QED
  BY <1>2, <1>3, <1>5, NoHandlerEmpty

(* delete s: nothing is open for s afterwards, and who waited may be back. *)
LEMMA DeleteReleases ==
    ASSUME Types, Regions, NEW s \in States, Delete(s)
    PROVE  /\ openMergeStack' = [openMergeStack EXCEPT ![s] = << >>]
           /\ handler' \in [Handlers -> HandlerData]
           /\ \A h \in Handlers : handler'[h].openStates \subseteq handler[h].openStates \ {s}
           /\ Released(handler, inCloseMerge, paused, continued)
<1> DEFINE regions == ToSet(openMergeStack[s])
           hs == [h \in Handlers |->
                    IF h \in regions
                    THEN [handler[h] EXCEPT !.openStates = handler[h].openStates \ {s}]
                    ELSE handler[h]]
<1>1. /\ openMergeStack' = [openMergeStack EXCEPT ![s] = << >>]
      /\ Unref(hs, openMergeStack[s], Existing \ {s}, inCloseMerge, paused, continued)
  BY DEF Delete
<1>2. \A h \in Handlers :
        /\ hs[h] \in HandlerData
        /\ hs[h].openStates \subseteq handler[h].openStates
        /\ h \in regions => s \notin hs[h].openStates
        /\ hs[h].reachedCloseMerge = handler[h].reachedCloseMerge
  <2> SUFFICES ASSUME NEW h \in Handlers
               PROVE  /\ hs[h] \in HandlerData
                      /\ hs[h].openStates \subseteq handler[h].openStates
                      /\ h \in regions => s \notin hs[h].openStates
                      /\ hs[h].reachedCloseMerge = handler[h].reachedCloseMerge
    OBVIOUS
  <2>1. handler[h] \in HandlerData
    BY DEF Types
  <2>2. handler[h].openStates \ {s} \in SUBSET States
    BY <2>1 DEF HandlerData
  <2>3. CASE h \in regions
    <3> DEFINE q == [handler[h] EXCEPT !.openStates = handler[h].openStates \ {s}]
    <3>1. /\ q \in HandlerData
          /\ q.openStates = handler[h].openStates \ {s}
          /\ q.reachedCloseMerge = handler[h].reachedCloseMerge
      BY <2>1, <2>2, WithOpenStates
    <3>2. hs[h] = q
      BY <2>3
    <3> HIDE DEF q, hs
    <3> QED
      BY <3>1, <3>2
  <2>4. CASE h \notin regions
    BY <2>1, <2>4
  <2> QED
    BY <2>3, <2>4
<1>3. \A h \in Handlers : s \in handler[h].openStates => h \in regions
  BY DEF Regions, OpenInside, Types, Contains, ToSet
<1>4. \A h \in Handlers : hs[h].openStates \subseteq handler[h].openStates \ {s}
  BY <1>2, <1>3
<1>5. hs \in [Handlers -> HandlerData]
  BY <1>2
<1> HIDE DEF hs, regions
<1>6. \A h \in Handlers : Waiting(hs, h) = Waiting(handler, h)
  BY <1>2 DEF Waiting
<1>7. Apart(hs) /\ AllWaiting(hs) = AllWaiting(handler)
  BY <1>6 DEF Regions, Apart, AllWaiting
<1>8. Away(hs, paused, continued) = Away(handler, paused, continued)
  BY <1>7 DEF Away
<1>9. /\ handler' \in [Handlers -> HandlerData]
      /\ \A h \in Handlers : handler'[h].openStates \subseteq hs[h].openStates
      /\ Released(hs, inCloseMerge, paused, continued)
  BY <1>1, <1>5, <1>7, UnrefReleases DEF Regions
<1>10. Released(handler, inCloseMerge, paused, continued)
  BY <1>8, <1>9 DEF Released
<1> QED
  BY <1>1, <1>4, <1>9, <1>10

-----------------------------------------------------------------------------
(* What most steps leave alone. *)

LEMMA RegionsStay ==
    ASSUME Regions, UNCHANGED <<handler, openMergeStack, continued, inCloseMerge>>,
           Existing \subseteq Existing'
    PROVE  Regions'
BY DEF Regions, OpenInside, Apart, AllWaiting, Waiting

LEMMA InitHolds == Init => IInv
<1> SUFFICES ASSUME Init PROVE IInv
  OBVIOUS
<1> USE DEF Init
<1>1. PICK s \in States :
        /\ mode = IF Seeding THEN "seeding" ELSE "running"
        /\ phase = "select" /\ born = {s} /\ states = {s}
        /\ added = {} /\ removed = [t \in States |-> 0]
        /\ paused = {} /\ continued = {}
        /\ searcher = IF Seeding THEN {} ELSE {s}
        /\ seeded = IF Seeding THEN {s} ELSE {}
        /\ steps = [t \in States |-> 0]
        /\ openMergeStack = [t \in States |-> << >>]
        /\ inCloseMerge = {}
        /\ handler = [h \in Handlers |-> NoHandler]
  OBVIOUS
<1>2. Removed = {}
  BY <1>1 DEF Removed
<1>3. \A h \in Handlers : handler[h] \in HandlerData /\ handler[h].openStates = {}
                         /\ Waiting(handler, h) = {}
  BY <1>1, NoHandlerEmpty DEF Waiting
<1>4. AllWaiting(handler) = {}
  BY <1>3 DEF AllWaiting
<1>5. Types
  BY <1>1, <1>3 DEF Types
<1>6. Lists /\ SeedsHaveStates
  BY <1>1 DEF Lists, SeedsHaveStates, Existing
<1>7. Queues
  BY <1>1, <1>2 DEF Queues, QueuesDisjoint
<1>8. Regions
  BY <1>1, <1>3, <1>4 DEF Regions, OpenInside, Apart
<1>9. Waits
  BY <1>1, <1>2, <1>4 DEF Waits, Away
<1> QED
  BY <1>5, <1>6, <1>7, <1>8, <1>9 DEF IInv

(* An iteration begins with a state that exists. *)
LEMMA ExecuteKeeps ==
    ASSUME IInv, phase = "select", NEW s \in states, Execute(s),
           UNCHANGED <<paused, continued, merging>>
    PROVE  IInv'
<1>1. /\ phase' = "execute" /\ current' = s
      /\ steps' = [steps EXCEPT ![s] = steps[s] + 1]
      /\ UNCHANGED <<mode, born, states, added, removed, searcher, seeded, paused, continued>>
      /\ UNCHANGED <<openMergeStack, handler, inCloseMerge>>
  BY DEF Execute, merging
<1>2. Removed' = Removed /\ Existing' = Existing
  BY <1>1 DEF Removed, Existing
<1>3. Types'
  <2>1. s \in States
    BY DEF IInv, Types, Lists, Existing
  <2> QED
    BY <1>1, <2>1 DEF IInv, Types
<1>4. Lists' /\ SeedsHaveStates'
  BY <1>1, <1>2 DEF IInv, Lists, SeedsHaveStates
<1>5. Queues'
  BY <1>1, <1>2 DEF IInv, Queues, QueuesDisjoint
<1>6. Regions'
  BY <1>1, <1>2, RegionsStay DEF IInv
<1>7. Waits'
  BY <1>1, <1>2 DEF IInv, Waits, Away, AllWaiting, Waiting
<1> QED
  BY <1>3, <1>4, <1>5, <1>6, <1>7 DEF IInv

LEMMA SelectSeededKeeps == ASSUME IInv, SelectSeeded PROVE IInv'
<1>1. PICK s \in seeded : Execute(s)
  BY DEF SelectSeeded
<1>2. s \in states
  BY DEF SelectSeeded, IInv, SeedsHaveStates, Queues, Existing
<1> QED
  BY <1>1, <1>2, ExecuteKeeps DEF SelectSeeded

LEMMA SelectStateKeeps == ASSUME IInv, SelectState PROVE IInv'
<1>1. PICK s \in searcher : Execute(s)
  BY DEF SelectState
<1>2. s \in states
  BY DEF SelectState, IInv, Waits
<1> QED
  BY <1>1, <1>2, ExecuteKeeps DEF SelectState

LEMMA BeginSearchKeeps == ASSUME IInv, BeginSearch PROVE IInv'
<1>1. /\ phase = "select" /\ mode = "seeding" /\ mode' = "running" /\ searcher' = states
      /\ UNCHANGED <<phase, current, born, states, added, removed, steps, seeded, paused, continued>>
      /\ UNCHANGED <<openMergeStack, handler, inCloseMerge>>
  BY DEF BeginSearch, merging, queues
<1>2. Removed' = Removed /\ Existing' = Existing
  BY <1>1 DEF Removed, Existing
<1>3. Types'
  BY <1>1 DEF IInv, Types
<1>4. Lists' /\ SeedsHaveStates'
  BY <1>1, <1>2 DEF IInv, Lists, SeedsHaveStates, Queues, Existing
<1>5. Queues'
  BY <1>1, <1>2 DEF IInv, Queues, QueuesDisjoint
<1>6. Regions'
  BY <1>1, <1>2, RegionsStay DEF IInv
<1>7. Waits'
  BY <1>1, <1>2 DEF IInv, Waits, Away, AllWaiting, Waiting
<1> QED
  BY <1>3, <1>4, <1>5, <1>6, <1>7 DEF IInv

(***************************************************************************)
(* MergingSearcher::selectState, the same with releases.                   *)
(***************************************************************************)
LEMMA SelectMergingKeeps == ASSUME IInv, SelectMerging PROVE IInv'
<1>1. PICK i \in 1 .. Len(mergeGroups) + 1, G \in SUBSET Handlers :
        /\ \/ \E s \in searcher : Execute(s)
           \/ \E h \in Handlers : \E s \in handler[h].openStates : Execute(s)
        /\ handler' = [h \in Handlers |-> IF h \in G
                         THEN [handler[h] EXCEPT !.reachedCloseMerge = [p \in Points |-> {}]]
                         ELSE handler[h]]
        /\ inCloseMerge' = inCloseMerge \ UNION {Waiting(handler, h) : h \in G}
        /\ continueState(paused, continued, UNION {Waiting(handler, h) : h \in G})
  BY DEF SelectMerging, Prioritized
<1>2. phase = "select" /\ mode = "running" /\ UNCHANGED openMergeStack
  BY DEF SelectMerging
<1>3. added = {} /\ Removed = {}
  BY <1>2 DEF IInv, Queues
<1>4. PICK s \in states : Execute(s)
  BY <1>1, <1>2, <1>3 DEF IInv, Waits, Regions, OpenInside, Existing
<1>5. /\ phase' = "execute" /\ current' = s
      /\ steps' = [steps EXCEPT ![s] = steps[s] + 1]
      /\ UNCHANGED <<mode, born, states, added, removed, searcher, seeded>>
  BY <1>4 DEF Execute
<1>6. \A h \in Handlers :
        /\ handler'[h] \in HandlerData /\ handler'[h].openStates = handler[h].openStates
        /\ Waiting(handler', h) = IF h \in G THEN {} ELSE Waiting(handler, h)
  <2> SUFFICES ASSUME NEW h \in Handlers
               PROVE  /\ handler'[h] \in HandlerData
                      /\ handler'[h].openStates = handler[h].openStates
                      /\ Waiting(handler', h) = IF h \in G THEN {} ELSE Waiting(handler, h)
    OBVIOUS
  <2>1. handler[h] \in HandlerData
    BY DEF IInv, Types
  <2>2. CASE h \in G
    <3> DEFINE q == [handler[h] EXCEPT !.reachedCloseMerge = [p \in Points |-> {}]]
    <3>1. /\ q \in HandlerData /\ q.openStates = handler[h].openStates
          /\ q.reachedCloseMerge = [p \in Points |-> {}]
      BY <2>1 DEF HandlerData
    <3>2. handler'[h] = q
      BY <1>1, <2>2
    <3> HIDE DEF q
    <3>3. Waiting(handler', h) = {}
      BY <3>1, <3>2 DEF Waiting
    <3> QED
      BY <2>2, <3>1, <3>2, <3>3
  <2>3. CASE h \notin G
    <3>1. handler'[h] = handler[h]
      BY <1>1, <2>3
    <3> QED
      BY <2>1, <2>3, <3>1 DEF Waiting
  <2> QED
    BY <2>2, <2>3
<1>7. Released(handler, inCloseMerge, paused, continued)
  BY <1>1, <1>6, Releases DEF IInv, Regions
<1>8. Removed' = Removed /\ Existing' = Existing
  BY <1>5 DEF Removed, Existing
<1>9. Types'
  <2>1. s \in States
    BY DEF IInv, Types, Lists, Existing
  <2>2. handler' \in [Handlers -> HandlerData]
    BY <1>1, <1>6
  <2> QED
    BY <1>2, <1>5, <2>1, <2>2 DEF IInv, Types
<1>10. Lists' /\ SeedsHaveStates'
  BY <1>3, <1>5, <1>7, <1>8 DEF IInv, Lists, SeedsHaveStates, Released
<1>11. Queues'
  BY <1>2, <1>3, <1>5, <1>8 DEF IInv, Queues, QueuesDisjoint
<1>12. Regions'
  <2>1. OpenInside'
    BY <1>2, <1>6, <1>8 DEF IInv, Regions, OpenInside
  <2> QED
    BY <1>7, <2>1 DEF Regions, Released
<1>13. Waits'
  BY <1>2, <1>5, <1>7 DEF IInv, Waits, Released
<1> QED
  BY <1>9, <1>10, <1>11, <1>12, <1>13 DEF IInv

-----------------------------------------------------------------------------
(* The instruction. *)

LEMMA ForkKeeps ==
    ASSUME IInv, NEW s \in States, NEW t \in States, Fork(s, t)
    PROVE  IInv'
<1>1. /\ phase = "execute" /\ t \notin born
      /\ born' = born \cup {t} /\ added' = added \cup {t}
      /\ steps' = [steps EXCEPT ![t] = steps[s]]
      /\ openMergeStack' = [openMergeStack EXCEPT ![t] = openMergeStack[s]]
      /\ UNCHANGED <<phase, mode, current, states, removed, paused, continued, searcher, inCloseMerge>>
  BY DEF Fork, Executing, Inherited, loop
<1>2. \A h \in Handlers : handler'[h] =
        IF Contains(openMergeStack[s], h)
        THEN [handler[h] EXCEPT !.openStates = handler[h].openStates \cup {t}]
        ELSE handler[h]
  BY DEF Fork, Inherited
<1>3. \A h \in Handlers :
        /\ handler'[h] \in HandlerData
        /\ handler'[h].openStates = handler[h].openStates
                                      \cup IF Contains(openMergeStack[s], h) THEN {t} ELSE {}
        /\ handler'[h].reachedCloseMerge = handler[h].reachedCloseMerge
  <2> SUFFICES ASSUME NEW h \in Handlers
               PROVE  /\ handler'[h] \in HandlerData
                      /\ handler'[h].openStates = handler[h].openStates
                                \cup IF Contains(openMergeStack[s], h) THEN {t} ELSE {}
                      /\ handler'[h].reachedCloseMerge = handler[h].reachedCloseMerge
    OBVIOUS
  <2>1. handler[h] \in HandlerData
    BY DEF IInv, Types
  <2> DEFINE S == handler[h].openStates \cup {t}
             q == [handler[h] EXCEPT !.openStates = S]
  <2>2. S \in SUBSET States
    BY <2>1 DEF HandlerData
  <2>3. q \in HandlerData /\ q.openStates = S /\ q.reachedCloseMerge = handler[h].reachedCloseMerge
    BY <2>1, <2>2, WithOpenStates
  <2>4. handler'[h] = IF Contains(openMergeStack[s], h) THEN q ELSE handler[h]
    BY <1>2
  <2> HIDE DEF q
  <2> QED
    BY <2>1, <2>3, <2>4
<1>4. \A h \in Handlers : Waiting(handler', h) = Waiting(handler, h)
  BY <1>3 DEF Waiting
<1>5. Apart(handler') /\ AllWaiting(handler') = AllWaiting(handler)
  BY <1>4 DEF IInv, Regions, Apart, AllWaiting
<1>6. Removed' = Removed /\ Existing' = Existing \cup {t}
  BY <1>1 DEF Removed, Existing
<1>7. Types'
  <2>1. handler' \in [Handlers -> HandlerData]
    BY <1>3 DEF Fork
  <2> QED
    BY <1>1, <2>1 DEF IInv, Types
<1>8. Lists'
  BY <1>1, <1>6 DEF IInv, Lists, Existing
<1>9. SeedsHaveStates'
  BY <1>6 DEF IInv, SeedsHaveStates, Fork
<1>10. Queues'
  <2>1. t \notin Removed
    BY <1>1 DEF IInv, Queues, QueuesDisjoint, Lists, Existing
  <2> QED
    BY <1>1, <1>6, <2>1 DEF IInv, Queues, QueuesDisjoint
<1>11. Regions'
  <2>1. OpenInside'
    <3>1. ASSUME NEW h \in Handlers, NEW x \in handler'[h].openStates
          PROVE  x \in Existing' /\ Contains(openMergeStack'[x], h)
      <4>1. CASE x = t /\ Contains(openMergeStack[s], h)
        BY <1>1, <1>6, <4>1 DEF IInv, Types
      <4>2. CASE x \in handler[h].openStates
        <5>1. x \in Existing /\ Contains(openMergeStack[x], h) /\ x # t
          BY <1>1, <4>2 DEF IInv, Regions, OpenInside, Lists
        <5> QED
          BY <1>1, <1>6, <5>1 DEF IInv, Types
      <4> QED
        BY <1>3, <3>1, <4>1, <4>2
    <3> QED
      BY <3>1 DEF OpenInside
  <2> QED
    BY <1>1, <1>5, <2>1 DEF IInv, Regions
<1>12. Waits'
  BY <1>1, <1>5, <1>6 DEF IInv, Waits, Away
<1> QED
  BY <1>7, <1>8, <1>9, <1>10, <1>11, <1>12 DEF IInv

(* A state is deleted: from added by terminateState, or from states by     *)
(* updateStates.                                                           *)
LEMMA DeleteKeepsRegions ==
    ASSUME IInv, NEW s \in States, Delete(s), Existing' = Existing \ {s}
    PROVE  /\ Regions'
           /\ Released(handler, inCloseMerge, paused, continued)
           /\ openMergeStack' \in [States -> Seq(Handlers)]
           /\ handler' \in [Handlers -> HandlerData]
<1>1. /\ openMergeStack' = [openMergeStack EXCEPT ![s] = << >>]
      /\ handler' \in [Handlers -> HandlerData]
      /\ \A h \in Handlers : handler'[h].openStates \subseteq handler[h].openStates \ {s}
      /\ Released(handler, inCloseMerge, paused, continued)
  BY DeleteReleases DEF IInv
<1>2. openMergeStack' \in [States -> Seq(Handlers)]
  BY <1>1 DEF IInv, Types
<1>3. OpenInside'
  <2>1. ASSUME NEW h \in Handlers, NEW x \in handler'[h].openStates
        PROVE  x \in Existing' /\ Contains(openMergeStack'[x], h)
    <3>1. x # s /\ x \in Existing /\ Contains(openMergeStack[x], h)
      BY <1>1, <2>1 DEF IInv, Regions, OpenInside
    <3>2. x \in States
      BY <3>1 DEF IInv, Lists, Types
    <3> QED
      BY <1>1, <3>1, <3>2 DEF IInv, Types
  <2> QED
    BY <2>1 DEF OpenInside
<1> QED
  BY <1>1, <1>2, <1>3 DEF Regions, Released

LEMMA TerminateKeeps == ASSUME IInv, NEW s \in States, Terminate(s) PROVE IInv'
<1>1. /\ phase = "execute" /\ s \notin Removed /\ s \in {current} \cup added
      /\ UNCHANGED <<phase, mode, current, born, states, searcher, steps>>
  BY DEF Terminate, Executing, loop
<1>2. CASE s \in added
  <2>1. /\ added' = added \ {s} /\ seeded' = seeded \ {s} /\ removed' = removed
        /\ Delete(s)
    BY <1>2 DEF Terminate
  <2>2. Removed' = Removed /\ Existing' = Existing \ {s}
    BY <1>1, <1>2, <2>1 DEF IInv, Lists, Removed, Existing
  <2>3. /\ Regions'
        /\ Released(handler, inCloseMerge, paused, continued)
        /\ openMergeStack' \in [States -> Seq(Handlers)]
        /\ handler' \in [Handlers -> HandlerData]
    BY <2>1, <2>2, DeleteKeepsRegions
  <2>4. Types'
    BY <1>1, <2>1, <2>3 DEF IInv, Types
  <2>5. Lists' /\ SeedsHaveStates'
    BY <1>1, <2>1, <2>2, <2>3 DEF IInv, Lists, SeedsHaveStates, Released
  <2>6. Queues'
    BY <1>1, <2>1, <2>2 DEF IInv, Queues, QueuesDisjoint
  <2>7. Waits'
    BY <1>1, <2>2, <2>3 DEF IInv, Waits, Released
  <2> QED
    BY <2>3, <2>4, <2>5, <2>6, <2>7 DEF IInv
<1>3. CASE s \notin added
  <2>1. /\ removed' = [removed EXCEPT ![s] = removed[s] + 1]
        /\ UNCHANGED <<added, seeded, paused, continued>>
        /\ UNCHANGED <<openMergeStack, handler, inCloseMerge>>
    BY <1>3 DEF Terminate, merging
  <2>2. removed[s] = 0 /\ Removed' = Removed \cup {s} /\ Existing' = Existing
    BY <1>1, <2>1 DEF IInv, Types, Removed, Existing
  <2>3. Types'
    BY <1>1, <2>1 DEF IInv, Types
  <2>4. Lists' /\ SeedsHaveStates'
    BY <1>1, <2>1, <2>2 DEF IInv, Lists, SeedsHaveStates
  <2>5. Queues'
    <3>1. s \in states
      BY <1>1, <1>3 DEF IInv, Queues
    <3>2. \A x \in States : removed'[x] <= 1
      BY <1>1, <2>1, <2>2 DEF IInv, Queues, Types
    <3> QED
      BY <1>1, <1>3, <2>1, <2>2, <3>1, <3>2 DEF IInv, Queues, QueuesDisjoint
  <2>6. Regions'
    BY <2>1, <2>2, RegionsStay DEF IInv
  <2>7. Waits'
    BY <1>1, <2>1, <2>2 DEF IInv, Waits, Away, AllWaiting, Waiting
  <2> QED
    BY <2>3, <2>4, <2>5, <2>6, <2>7 DEF IInv
<1> QED
  BY <1>2, <1>3

LEMMA deleteRemovedKeeps == ASSUME IInv, NEW s \in States, deleteRemoved(s) PROVE IInv'
<1>1. /\ phase = "delete" /\ s \in Removed /\ s \in states
      /\ states' = states \ {s} /\ seeded' = seeded \ {s}
      /\ removed' = [removed EXCEPT ![s] = removed[s] - 1]
      /\ Delete(s)
      /\ UNCHANGED <<phase, mode, current, added, born, searcher, steps>>
  BY DEF deleteRemoved, loop
<1>2. removed[s] = 1 /\ added = {}
  BY <1>1 DEF IInv, Queues, Types, Removed
<1>3. Removed' = Removed \ {s} /\ Existing' = Existing \ {s}
  BY <1>1, <1>2 DEF IInv, Types, Removed, Existing
<1>4. /\ Regions'
      /\ Released(handler, inCloseMerge, paused, continued)
      /\ openMergeStack' \in [States -> Seq(Handlers)]
      /\ handler' \in [Handlers -> HandlerData]
  BY <1>1, <1>3, DeleteKeepsRegions
<1>5. Types'
  <2>1. removed' = [removed EXCEPT ![s] = 0]
    BY <1>1, <1>2
  <2>2. removed' \in [States -> Nat]
    BY <2>1 DEF IInv, Types
  <2> QED
    BY <1>1, <1>4, <2>2 DEF IInv, Types
<1>6. Lists' /\ SeedsHaveStates'
  BY <1>1, <1>3, <1>4 DEF IInv, Lists, SeedsHaveStates, Released
<1>7. Queues'
  <2>1. \A x \in States : removed'[x] <= 1
    BY <1>1, <1>2 DEF IInv, Queues, Types
  <2> QED
    BY <1>1, <1>2, <1>3, <2>1 DEF IInv, Queues, QueuesDisjoint
<1>8. Waits'
  BY <1>1, <1>3, <1>4 DEF IInv, Waits, Released
<1> QED
  BY <1>4, <1>5, <1>6, <1>7, <1>8 DEF IInv

LEMMA InAppend ==
    ASSUME NEW q \in Seq(Handlers), NEW h \in Handlers
    PROVE  /\ Append(q, h) \in Seq(Handlers)
           /\ Contains(Append(q, h), h)
           /\ \A g : Contains(q, g) => Contains(Append(q, h), g)
BY DEF Contains

LEMMA InFront ==
    ASSUME NEW q \in Seq(Handlers), q # << >>
    PROVE  /\ Front(q) \in Seq(Handlers) /\ Last(q) \in Handlers
           /\ Len(q) \in Nat \ {0} /\ Last(q) = q[Len(q)]
           /\ Len(Front(q)) = Len(q) - 1
           /\ \A i \in 1 .. Len(q) - 1 : Front(q)[i] = q[i]
           /\ \A g : Contains(q, g) /\ g # Last(q) => Contains(Front(q), g)
<1>1. Len(q) \in Nat \ {0}
  OBVIOUS
<1>2. /\ Front(q) \in Seq(Handlers) /\ Len(Front(q)) = Len(q) - 1
      /\ \A i \in 1 .. Len(q) - 1 : Front(q)[i] = q[i]
  <2>1. 1 \in Int /\ Len(q) - 1 \in Int /\ \A i \in 1 .. Len(q) - 1 : q[i] \in Handlers
    BY <1>1
  <2>2. /\ SubSeq(q, 1, Len(q) - 1) \in Seq(Handlers)
        /\ Len(SubSeq(q, 1, Len(q) - 1))
              = IF 1 <= Len(q) - 1 THEN Len(q) - 1 - 1 + 1 ELSE 0
        /\ \A i \in 1 .. Len(q) - 1 - 1 + 1 :
              SubSeq(q, 1, Len(q) - 1)[i] = q[1 + i - 1]
    BY <2>1, SubSeqProperties
  <2> DEFINE f == SubSeq(q, 1, Len(q) - 1)
  <2>3. f \in Seq(Handlers) /\ Len(f) = Len(q) - 1
    <3>1. f \in Seq(Handlers)
      BY <2>2
    <3>2. Len(f) = IF 1 <= Len(q) - 1 THEN Len(q) - 1 - 1 + 1 ELSE 0
      BY <2>2
    <3> DEFINE n == Len(q)
               k == Len(f)
    <3>3. n \in Nat \ {0} /\ k = IF 1 <= n - 1 THEN n - 1 - 1 + 1 ELSE 0
      BY <1>1, <3>2
    <3> HIDE DEF n, k
    <3>4. k = n - 1
      BY <3>3
    <3> QED
      BY <3>1, <3>4 DEF n, k
  <2>4. \A i \in 1 .. Len(q) - 1 : f[i] = q[i]
    BY <1>1, <2>2
  <2> QED
    BY <2>3, <2>4 DEF Front
<1>3. Last(q) \in Handlers
  BY <1>1 DEF Last
<1>4. ASSUME NEW g, Contains(q, g), g # Last(q) PROVE Contains(Front(q), g)
  <2>1. PICK i \in 1 .. Len(q) : q[i] = g
    BY <1>4 DEF Contains
  <2>2. i \in 1 .. Len(q) - 1
    BY <1>1, <1>4, <2>1 DEF Last
  <2> QED
    BY <1>2, <2>1, <2>2 DEF Contains
<1> QED
  BY <1>1, <1>2, <1>3, <1>4 DEF Last

LEMMA OpenMergeKeeps == ASSUME IInv, NEW h \in Handlers, OpenMerge(h) PROVE IInv'
<1>1. /\ phase = "execute" /\ phase' = "timers" /\ added = {}
      /\ handler' = [handler EXCEPT ![h] = MergeHandler({current}, steps[current])]
      /\ openMergeStack' = [openMergeStack EXCEPT ![current] = Append(openMergeStack[current], h)]
      /\ UNCHANGED <<mode, current, added, removed, paused, continued>>
      /\ UNCHANGED <<inCloseMerge, born, states, searcher, seeded, steps>>
  BY DEF OpenMerge, Executing, queues
<1>2. current \in states /\ current \in States
  BY <1>1 DEF IInv, Queues, Lists, Existing, Types
<1>3. /\ handler'[h] \in HandlerData /\ handler'[h].openStates = {current}
      /\ Waiting(handler', h) = {}
  <2>1. handler'[h] = MergeHandler({current}, steps[current])
    BY <1>1 DEF IInv, Types
  <2>2. steps[current] \in Int /\ {current} \in SUBSET States
    BY <1>2 DEF IInv, Types
  <2> DEFINE r == MergeHandler({current}, steps[current])
  <2>3. /\ r \in HandlerData /\ r.openStates = {current}
        /\ \A p \in Points : r.reachedCloseMerge[p] = {}
    BY <2>2, NewHandler
  <2>4. handler'[h] = r
    BY <2>1
  <2> HIDE DEF r
  <2> QED
    BY <2>3, <2>4 DEF Waiting
<1>4. \A g \in Handlers \ {h} :
        handler'[g] = handler[g] /\ Waiting(handler', g) = Waiting(handler, g)
  BY <1>1 DEF IInv, Types, Waiting
<1>5. Apart(handler') /\ AllWaiting(handler') \subseteq AllWaiting(handler)
  BY <1>3, <1>4 DEF IInv, Regions, Apart, AllWaiting
<1>6. Removed' = Removed /\ Existing' = Existing
  BY <1>1 DEF Removed, Existing
<1>7. /\ openMergeStack[current] \in Seq(Handlers)
      /\ openMergeStack' \in [States -> Seq(Handlers)]
      /\ openMergeStack'[current] = Append(openMergeStack[current], h)
      /\ \A x \in States \ {current} : openMergeStack'[x] = openMergeStack[x]
  BY <1>1, <1>2, InAppend DEF IInv, Types
<1>8. Types'
  <2>1. handler' \in [Handlers -> HandlerData]
    BY <1>1, <1>3, <1>4 DEF IInv, Types
  <2> QED
    BY <1>1, <1>7, <2>1 DEF IInv, Types
<1>9. Lists' /\ SeedsHaveStates'
  BY <1>1, <1>6 DEF IInv, Lists, SeedsHaveStates
<1>10. Queues'
  BY <1>1, <1>6 DEF IInv, Queues, QueuesDisjoint
<1>11. Regions'
  <2>1. ASSUME NEW g \in Handlers, NEW x \in handler'[g].openStates
        PROVE  x \in Existing' /\ Contains(openMergeStack'[x], g)
    <3>1. CASE g = h
      BY <1>2, <1>3, <1>6, <1>7, <2>1, <3>1, InAppend DEF Existing
    <3>2. CASE g # h
      <4>1. x \in Existing /\ Contains(openMergeStack[x], g)
        BY <1>4, <2>1, <3>2 DEF IInv, Regions, OpenInside
      <4>2. x \in States
        BY <4>1 DEF IInv, Lists, Types
      <4> QED
        BY <1>6, <1>7, <4>1, <4>2, InAppend
    <3> QED
      BY <3>1, <3>2
  <2>2. OpenInside'
    BY <2>1 DEF OpenInside
  <2> QED
    BY <1>1, <1>5, <2>2 DEF IInv, Regions
<1>12. Waits'
  BY <1>1, <1>5, <1>6 DEF IInv, Waits, Away
<1> QED
  BY <1>8, <1>9, <1>10, <1>11, <1>12 DEF IInv

(* klee_close_merge.  hs are the handlers after the current state closed   *)
(* region h, before references are dropped.                                *)
LEMMA CloseKeeps ==
    ASSUME IInv, NEW h \in Handlers, NEW hs \in [Handlers -> HandlerData],
           NEW closed, NEW ps, NEW cs,
           phase = "execute", added = {}, current \notin Removed,
           openMergeStack[current] # << >>, h = Last(openMergeStack[current]),
           hs[h].openStates = handler[h].openStates \ {current},
           \A g \in Handlers \ {h} : hs[g] = handler[g],
           Apart(hs), AllWaiting(hs) \subseteq closed, cs \cap closed = {},
           Away(hs, ps, cs) \subseteq Away(handler, paused, continued),
           ps \cup cs \cup closed
              \subseteq paused \cup continued \cup inCloseMerge \cup {current},
           Unref(hs, <<h>>, Existing \ {current}, closed, ps, cs),
           openMergeStack' = [openMergeStack EXCEPT ![current] = Front(openMergeStack[current])],
           phase' = "timers",
           UNCHANGED <<mode, current, added, born, states, searcher, seeded, steps>>,
           \/ removed' = removed
           \/ removed' = [removed EXCEPT ![current] = removed[current] + 1]
    PROVE  IInv'
<1>1. current \in states /\ current \in States /\ current \in born
  BY DEF IInv, Queues, Lists, Existing, Types
<1>2. /\ handler' \in [Handlers -> HandlerData]
      /\ \A g \in Handlers : handler'[g].openStates \subseteq hs[g].openStates
      /\ Released(hs, closed, ps, cs)
  BY UnrefReleases
<1>3. Existing' = Existing
  BY DEF Existing
<1>4. /\ removed[current] = 0
      /\ Removed' \subseteq Removed \cup {current}
      /\ removed' \in [States -> Nat] /\ \A x \in States : removed'[x] <= 1
  <2>1. removed[current] = 0 /\ removed \in [States -> Nat]
    BY <1>1 DEF Removed, IInv, Types
  <2>2. CASE removed' = removed
    BY <2>1, <2>2 DEF Removed, IInv, Queues
  <2>3. CASE removed' = [removed EXCEPT ![current] = removed[current] + 1]
    <3>1. removed' = [removed EXCEPT ![current] = 1]
      BY <2>1, <2>3
    <3> QED
      BY <1>1, <2>1, <3>1 DEF Removed, IInv, Queues
  <2> QED
    BY <2>1, <2>2, <2>3
<1>5. /\ openMergeStack[current] \in Seq(Handlers)
      /\ openMergeStack' \in [States -> Seq(Handlers)]
      /\ openMergeStack'[current] = Front(openMergeStack[current])
      /\ \A x \in States \ {current} : openMergeStack'[x] = openMergeStack[x]
  <2>1. openMergeStack \in [States -> Seq(Handlers)]
    BY DEF IInv, Types
  <2>2. openMergeStack[current] \in Seq(Handlers)
    BY <1>1, <2>1
  <2>3. Front(openMergeStack[current]) \in Seq(Handlers)
    BY <2>2, InFront
  <2> QED
    BY <1>1, <2>1, <2>2, <2>3
<1>6. Types'
  BY <1>2, <1>4, <1>5 DEF IInv, Types
<1>7. Lists' /\ SeedsHaveStates'
  BY <1>1, <1>2, <1>3 DEF IInv, Lists, SeedsHaveStates, Released
<1>8. Queues'
  BY <1>1, <1>4 DEF IInv, Queues, QueuesDisjoint
<1>9. OpenInside'
  <2>1. ASSUME NEW g \in Handlers, NEW x \in handler'[g].openStates
        PROVE  x \in Existing' /\ Contains(openMergeStack'[x], g)
    <3>1. x \in handler[g].openStates /\ (g = h => x # current)
      BY <1>2, <2>1
    <3>2. x \in Existing /\ Contains(openMergeStack[x], g)
      BY <3>1 DEF IInv, Regions, OpenInside
    <3>3. x \in States
      BY <3>2 DEF IInv, Lists, Types
    <3>4. CASE x = current
      <4>1. Contains(Front(openMergeStack[current]), g)
        BY <1>5, <3>1, <3>2, <3>4, InFront
      <4> QED
        BY <1>3, <1>5, <3>2, <3>4, <4>1
    <3>5. CASE x # current
      BY <1>3, <1>5, <3>2, <3>3, <3>5
    <3> QED
      BY <3>4, <3>5
  <2> QED
    BY <2>1 DEF OpenInside
<1>10. Regions'
  BY <1>2, <1>9 DEF Regions, Released
<1>11. Waits'
  BY <1>2 DEF IInv, Waits, Released
<1> QED
  BY <1>6, <1>7, <1>8, <1>10, <1>11 DEF IInv

LEMMA CloseMergeKeeps == ASSUME IInv, NEW p \in Points, CloseMerge(p) PROVE IInv'
<1> DEFINE h == Last(openMergeStack[current])
           closed == [handler[h] EXCEPT
                        !.openStates = handler[h].openStates \ {current},
                        !.closedStateCount = handler[h].closedStateCount + 1,
                        !.distances = handler[h].distances
                                        + (steps[current] - handler[h].openInstruction)]
           waits == [closed EXCEPT !.reachedCloseMerge[p] = closed.reachedCloseMerge[p]
                                                             \cup {current}]
           ps == IF current \in continued THEN paused ELSE paused \cup {current}
           cs == continued \ {current}
<1>1. /\ phase = "execute" /\ added = {} /\ current \notin Removed
      /\ openMergeStack[current] # << >> /\ current \notin inCloseMerge
      /\ openMergeStack' = [openMergeStack EXCEPT ![current] = Front(openMergeStack[current])]
      /\ phase' = "timers"
      /\ UNCHANGED <<mode, current, added, born, states, searcher, seeded, steps>>
  BY DEF CloseMerge, Executing
<1>2. \/ /\ Unref([handler EXCEPT ![h] = waits], <<h>>, Existing \ {current},
                  inCloseMerge \cup {current}, ps, cs)
         /\ removed' = removed
      \/ /\ Unref([handler EXCEPT ![h] = closed], <<h>>, Existing \ {current},
                  inCloseMerge \ {current}, paused, continued)
         /\ removed' = [removed EXCEPT ![current] = removed[current] + 1]
  BY DEF CloseMerge
<1>3. current \in States
  BY <1>1 DEF IInv, Queues, Lists, Existing, Types
<1>4. h \in Handlers
  BY <1>1, <1>3, InFront DEF IInv, Types
<1> HIDE DEF h
<1>5. /\ handler[h] \in HandlerData
      /\ handler[h].openStates \ {current} \in SUBSET States
      /\ handler[h].closedStateCount + 1 \in Int
      /\ handler[h].distances + (steps[current] - handler[h].openInstruction) \in Int
  <2>1. handler[h] \in HandlerData /\ steps[current] \in Int
    BY <1>3, <1>4 DEF IInv, Types
  <2> DEFINE r == handler[h]
  <2>2. r \in HandlerData
    BY <2>1
  <2> HIDE DEF r
  <2>3. /\ r.openStates \ {current} \in SUBSET States
        /\ r.closedStateCount + 1 \in Int
        /\ r.distances + (steps[current] - r.openInstruction) \in Int
    BY <2>1, <2>2 DEF HandlerData
  <2> QED
    BY <2>1, <2>3 DEF r
<1>6. /\ closed \in HandlerData /\ closed.openStates = handler[h].openStates \ {current}
      /\ closed.reachedCloseMerge = handler[h].reachedCloseMerge
  <2> DEFINE r == handler[h]
             S == handler[h].openStates \ {current}
             n == handler[h].closedStateCount + 1
             d == handler[h].distances + (steps[current] - handler[h].openInstruction)
  <2>1. r \in HandlerData /\ S \in SUBSET States /\ n \in Int /\ d \in Int
    BY <1>5
  <2>2. closed = [r EXCEPT !.openStates = S, !.closedStateCount = n, !.distances = d]
    OBVIOUS
  <2> HIDE DEF r, S, n, d, closed
  <2>3. closed \in HandlerData /\ closed.openStates = S
        /\ closed.reachedCloseMerge = r.reachedCloseMerge
    BY <2>1, <2>2 DEF HandlerData
  <2> QED
    BY <2>3 DEF r, S
<1> HIDE DEF closed
<1>7. /\ waits \in HandlerData /\ waits.openStates = handler[h].openStates \ {current}
      /\ UNION {waits.reachedCloseMerge[x] : x \in Points} = Waiting(handler, h) \cup {current}
  <2> DEFINE f == [closed.reachedCloseMerge EXCEPT
                     ![p] = closed.reachedCloseMerge[p] \cup {current}]
             c == closed
  <2>1. waits = [c EXCEPT !.reachedCloseMerge = f]
    OBVIOUS
  <2>2. /\ f \in [Points -> SUBSET States]
        /\ f[p] = closed.reachedCloseMerge[p] \cup {current}
        /\ \A x \in Points \ {p} : f[x] = closed.reachedCloseMerge[x]
    BY <1>3, <1>6 DEF HandlerData
  <2>3. c \in HandlerData
    BY <1>6
  <2> HIDE DEF f, c, waits
  <2>4. waits \in HandlerData /\ waits.openStates = c.openStates /\ waits.reachedCloseMerge = f
    BY <2>1, <2>2, <2>3 DEF HandlerData
  <2>5. \A y : y \in UNION {f[x] : x \in Points}
                 <=> y \in Waiting(handler, h) \/ y = current
    BY <1>6, <2>2 DEF Waiting
  <2> QED
    BY <1>6, <2>4, <2>5 DEF c
<1> HIDE DEF waits
<1>8. handler \in [Handlers -> HandlerData] /\ AllWaiting(handler) \subseteq inCloseMerge
      /\ Apart(handler) /\ continued \cap inCloseMerge = {}
  BY DEF IInv, Types, Regions
<1>9. CASE /\ Unref([handler EXCEPT ![h] = waits], <<h>>, Existing \ {current},
                  inCloseMerge \cup {current}, ps, cs)
           /\ removed' = removed
  <2> DEFINE hs == [handler EXCEPT ![h] = waits]
  <2>1. /\ hs \in [Handlers -> HandlerData] /\ hs[h] = waits
        /\ \A g \in Handlers \ {h} : hs[g] = handler[g]
    BY <1>4, <1>7, <1>8
  <2> HIDE DEF hs
  <2>2. /\ Waiting(hs, h) = Waiting(handler, h) \cup {current}
        /\ \A g \in Handlers \ {h} : Waiting(hs, g) = Waiting(handler, g)
    BY <1>7, <2>1 DEF Waiting
  <2>3. AllWaiting(hs) = AllWaiting(handler) \cup {current}
    BY <1>4, <2>2 DEF AllWaiting
  <2>4. Apart(hs)
    BY <1>1, <1>4, <1>8, <2>2 DEF Apart, AllWaiting
  <2>5. AllWaiting(hs) \subseteq inCloseMerge \cup {current} /\ cs \cap (inCloseMerge \cup {current}) = {}
    BY <1>8, <2>3
  <2>6. Away(hs, ps, cs) \subseteq Away(handler, paused, continued)
    BY <1>8, <2>3 DEF Away
  <2>7. ps \cup cs \cup (inCloseMerge \cup {current})
           \subseteq paused \cup continued \cup inCloseMerge \cup {current}
    OBVIOUS
  <2>8. Unref(hs, <<h>>, Existing \ {current}, inCloseMerge \cup {current}, ps, cs)
    BY <1>9 DEF hs
  <2>9. hs[h].openStates = handler[h].openStates \ {current}
    BY <1>7, <2>1
  <2> HIDE DEF ps, cs
  <2> QED
    BY <1>1, <1>4, <1>9, <2>1, <2>4, <2>5, <2>6, <2>7, <2>8, <2>9, CloseKeeps DEF h
<1>10. CASE /\ Unref([handler EXCEPT ![h] = closed], <<h>>, Existing \ {current},
                   inCloseMerge \ {current}, paused, continued)
            /\ removed' = [removed EXCEPT ![current] = removed[current] + 1]
  <2> DEFINE hs == [handler EXCEPT ![h] = closed]
  <2>1. /\ hs \in [Handlers -> HandlerData] /\ hs[h] = closed
        /\ \A g \in Handlers \ {h} : hs[g] = handler[g]
    BY <1>4, <1>6, <1>8
  <2> HIDE DEF hs
  <2>2. \A g \in Handlers : Waiting(hs, g) = Waiting(handler, g)
    BY <1>6, <2>1 DEF Waiting
  <2>3. Apart(hs) /\ AllWaiting(hs) = AllWaiting(handler)
    BY <1>8, <2>2 DEF Apart, AllWaiting
  <2>4. AllWaiting(hs) \subseteq inCloseMerge \ {current}
        /\ continued \cap (inCloseMerge \ {current}) = {}
    BY <1>1, <1>8, <2>3
  <2>5. Away(hs, paused, continued) \subseteq Away(handler, paused, continued)
    BY <2>3 DEF Away
  <2>6. Unref(hs, <<h>>, Existing \ {current}, inCloseMerge \ {current}, paused, continued)
    BY <1>10 DEF hs
  <2>7. hs[h].openStates = handler[h].openStates \ {current}
    BY <1>6, <2>1
  <2> QED
    BY <1>1, <1>4, <1>10, <2>1, <2>3, <2>4, <2>5, <2>6, <2>7, CloseKeeps DEF h
<1> QED
  BY <1>2, <1>9, <1>10 DEF h, closed, waits

-----------------------------------------------------------------------------
(* The rest of the iteration. *)

LEMMA ExecutedKeeps == ASSUME IInv, Executed PROVE IInv'
<1>1. /\ phase = "execute" /\ phase' = "timers"
      /\ UNCHANGED <<mode, current, born, states, searcher, seeded, steps>>
      /\ UNCHANGED <<added, removed, paused, continued>>
      /\ UNCHANGED <<openMergeStack, inCloseMerge, handler>>
  BY DEF Executed, queues, merging
<1>2. Removed' = Removed /\ Existing' = Existing
  BY <1>1 DEF Removed, Existing
<1>3. Types' /\ Lists' /\ SeedsHaveStates'
  BY <1>1, <1>2 DEF IInv, Types, Lists, SeedsHaveStates
<1>4. Queues'
  BY <1>1, <1>2 DEF IInv, Queues, QueuesDisjoint
<1>5. Regions'
  BY <1>1, <1>2, RegionsStay DEF IInv
<1>6. Waits'
  BY <1>1, <1>2 DEF IInv, Waits, Away, AllWaiting, Waiting
<1> QED
  BY <1>3, <1>4, <1>5, <1>6 DEF IInv

LEMMA processTimersKeeps == ASSUME IInv, processTimers PROVE IInv'
<1>1. /\ phase = "timers" /\ phase' = IF mode = "running" THEN "memory" ELSE "update"
      /\ \/ removed' = removed
         \/ current \notin Removed /\ removed' = [removed EXCEPT ![current] = 1]
      /\ UNCHANGED <<mode, current, born, states, searcher, seeded, steps>>
      /\ UNCHANGED <<added, paused, continued>>
      /\ UNCHANGED <<openMergeStack, inCloseMerge, handler>>
  BY DEF processTimers, merging
<1>2. current \in states /\ current \in States /\ Existing' = Existing
  BY <1>1 DEF IInv, Queues, Lists, Types, Existing
<1>3. removed' \in [States -> Nat] /\ Removed' \subseteq Removed \cup {current}
      /\ \A s \in States : removed'[s] <= 1
  <2>1. removed \in [States -> Nat] /\ \A s \in States : removed[s] <= 1
    BY <1>1 DEF IInv, Types, Queues
  <2>2. CASE removed' = removed
    BY <2>1, <2>2 DEF Removed
  <2>3. CASE removed' = [removed EXCEPT ![current] = 1]
    BY <1>2, <2>1, <2>3 DEF Removed
  <2> QED
    BY <1>1, <2>2, <2>3
<1>4. Types' /\ Lists' /\ SeedsHaveStates'
  BY <1>1, <1>2, <1>3 DEF IInv, Types, Lists, SeedsHaveStates
<1>5. Queues'
  <2>1. current \notin added
    BY <1>2 DEF IInv, Lists
  <2> QED
    BY <1>1, <1>2, <1>3, <2>1 DEF IInv, Queues, QueuesDisjoint
<1>6. Regions'
  BY <1>1, <1>2, RegionsStay DEF IInv
<1>7. Waits'
  BY <1>1 DEF IInv, Waits, Away, AllWaiting, Waiting
<1> QED
  BY <1>4, <1>5, <1>6, <1>7 DEF IInv

LEMMA checkMemoryUsageKeeps == ASSUME IInv, checkMemoryUsage PROVE IInv'
<1>1. PICK K \in SUBSET states :
        removed' = [s \in States |-> removed[s] + (IF s \in K THEN 1 ELSE 0)]
  BY DEF checkMemoryUsage
<1>2. /\ phase = "memory" /\ phase' = "update"
      /\ UNCHANGED <<mode, current, born, states, searcher, seeded, steps>>
      /\ UNCHANGED <<added, paused, continued>>
      /\ UNCHANGED <<openMergeStack, inCloseMerge, handler>>
  BY DEF checkMemoryUsage, merging
<1>3. mode = "running" /\ Existing' = Existing
  BY <1>2 DEF IInv, Queues, Existing
<1>4. removed' \in [States -> Nat] /\ Removed' \subseteq Removed \cup K
  <2>1. \A s \in States : removed[s] \in Nat
    BY DEF IInv, Types
  <2>2. \A s \in States : removed'[s] \in Nat
    BY <1>1, <2>1
  <2>3. \A s \in States : removed'[s] > 0 => removed[s] > 0 \/ s \in K
    BY <1>1, <2>1
  <2> QED
    BY <1>1, <2>2, <2>3 DEF Removed
<1>5. Types' /\ Lists' /\ SeedsHaveStates'
  BY <1>2, <1>3, <1>4 DEF IInv, Types, Lists, SeedsHaveStates
<1>6. Queues'
  BY <1>1, <1>2, <1>3, <1>4 DEF IInv, Queues, QueuesDisjoint, Lists
<1>7. Regions'
  BY <1>2, <1>3, RegionsStay DEF IInv
<1>8. Waits'
  BY <1>2 DEF IInv, Waits, Away, AllWaiting, Waiting
<1> QED
  BY <1>5, <1>6, <1>7, <1>8 DEF IInv

(* A removed state the searcher does not hold stops the run here.          *)
LEMMA updateSearcherKeeps == ASSUME IInv, updateSearcher PROVE IInv'
<1>1. /\ phase = "update" /\ phase' = "delete"
      /\ states' = states \cup added /\ added' = {}
      /\ UNCHANGED <<mode, current, born, removed, paused, continued, seeded, steps>>
      /\ UNCHANGED <<openMergeStack, inCloseMerge, handler>>
  BY DEF updateSearcher, merging
<1>2. mode = "running" => RemovedAreHeld /\ searcher' = (searcher \cup added) \ Removed
  BY DEF updateSearcher
<1>3. mode # "running" => searcher' = searcher
  BY DEF updateSearcher
<1>4. Removed' = Removed /\ Existing' = Existing
  BY <1>1 DEF Removed, Existing
<1>5. Types'
  BY <1>1 DEF IInv, Types
<1>6. searcher' \subseteq searcher \cup added
  BY <1>2, <1>3
<1>7. Lists' /\ SeedsHaveStates'
  BY <1>1, <1>4, <1>6 DEF IInv, Lists, SeedsHaveStates, Existing
<1>8. Queues'
  <2>1. \A s \in States : removed[s] <= 1
    <3>1. CASE mode = "running"
      <4> SUFFICES ASSUME NEW s \in States PROVE removed[s] <= 1
        OBVIOUS
      <4>1. removed[s] \in Nat
        BY DEF IInv, Types
      <4>2. CASE s \in Removed
        BY <1>2, <3>1, <4>2 DEF RemovedAreHeld
      <4>3. CASE s \notin Removed
        BY <4>1, <4>3 DEF Removed
      <4> QED
        BY <4>2, <4>3
    <3>2. CASE mode # "running"
      BY <3>2 DEF IInv, Queues
    <3> QED
      BY <3>1, <3>2
  <2> QED
    BY <1>1, <1>4, <2>1 DEF IInv, Queues, QueuesDisjoint
<1>9. Regions'
  BY <1>1, <1>4, RegionsStay DEF IInv
<1>10. Waits'
  <2>1. Away(handler, paused, continued)' = Away(handler, paused, continued)
    BY <1>1 DEF Away, AllWaiting, Waiting
  <2>2. CASE mode = "running"
    <3>1. Removed \subseteq searcher /\ searcher' = (searcher \cup added) \ Removed
      BY <1>2, <2>2 DEF RemovedAreHeld
    <3>2. Away(handler, paused, continued) \subseteq states \ searcher
      BY <2>2 DEF IInv, Waits
    <3>3. added \cap states = {}
      BY DEF IInv, Lists
    <3> QED
      BY <1>1, <1>4, <2>1, <2>2, <3>1, <3>2, <3>3 DEF IInv, Waits
  <2>3. CASE mode # "running"
    BY <1>1, <1>3, <2>1, <2>3 DEF IInv, Waits
  <2> QED
    BY <2>2, <2>3
<1> QED
  BY <1>5, <1>7, <1>8, <1>9, <1>10 DEF IInv

(* A paused state that the searcher does not hold stops the run here.      *)
LEMMA rescheduleKeeps == ASSUME IInv, reschedule PROVE IInv'
<1>1. /\ phase = "delete" /\ Removed = {} /\ phase' \in {"done", "select"}
      /\ UNCHANGED <<mode, born, states, added, removed, seeded, steps>>
      /\ UNCHANGED <<openMergeStack, inCloseMerge, handler>>
  BY DEF reschedule, merging
<1>2. mode = "running" =>
        /\ paused \subseteq searcher \cup continued
        /\ searcher' = (searcher \cup continued) \ paused
        /\ paused' = {} /\ continued' = {}
  BY DEF reschedule, Rescheduled
<1>3. mode # "running" => UNCHANGED <<searcher, paused, continued>>
  BY DEF reschedule
<1>4. Removed' = Removed /\ Existing' = Existing
  BY <1>1 DEF Removed, Existing
<1>5. searcher' \subseteq searcher \cup continued
      /\ paused' \subseteq paused /\ continued' \subseteq continued
  BY <1>2, <1>3
<1>6. Types'
  BY <1>1 DEF IInv, Types
<1>7. Lists' /\ SeedsHaveStates'
  BY <1>1, <1>4, <1>5 DEF IInv, Lists, SeedsHaveStates
<1>8. Queues'
  BY <1>1, <1>4 DEF IInv, Queues, QueuesDisjoint
<1>9. Regions'
  <2>1. OpenInside'
    BY <1>1, <1>4 DEF IInv, Regions, OpenInside
  <2>2. Apart(handler') /\ AllWaiting(handler') \subseteq inCloseMerge'
    BY <1>1 DEF IInv, Regions, Apart, AllWaiting, Waiting
  <2> QED
    BY <1>1, <1>5, <2>1, <2>2 DEF IInv, Regions
<1>10. Waits'
  <2>1. AllWaiting(handler') = AllWaiting(handler)
    BY <1>1 DEF AllWaiting, Waiting
  <2>2. CASE mode = "running"
    <3>1. /\ continued \subseteq states \ searcher
          /\ AllWaiting(handler) \ paused \subseteq states \ searcher
          /\ searcher \subseteq states
      BY <2>2 DEF IInv, Waits, Away
    <3>2. AllWaiting(handler) \cap continued = {}
      BY DEF IInv, Regions
    <3>3. AllWaiting(handler) \subseteq states \ searcher'
      BY <1>2, <2>2, <3>1, <3>2
    <3>4. searcher' \subseteq states
      BY <1>2, <2>2, <3>1
    <3>5. Away(handler', paused', continued') \subseteq AllWaiting(handler)
      BY <1>2, <2>1, <2>2 DEF Away
    <3> QED
      BY <1>1, <1>4, <2>2, <3>3, <3>4, <3>5 DEF Waits
  <2>3. CASE mode # "running"
    BY <1>1, <1>3, <2>1, <2>3 DEF IInv, Waits, Away
  <2> QED
    BY <2>2, <2>3
<1> QED
  BY <1>6, <1>7, <1>8, <1>9, <1>10 DEF IInv

LEMMA StopKeeps == ASSUME IInv, Stop PROVE IInv'
<1>1. /\ phase = "select" /\ mode' = "halting" /\ phase' = "delete" /\ searcher' = {}
      /\ removed' = [s \in States |-> IF s \in states THEN 1 ELSE 0]
      /\ UNCHANGED <<born, states, added, paused, continued, seeded, steps>>
      /\ UNCHANGED <<openMergeStack, inCloseMerge, handler>>
  BY DEF Stop, merging
<1>2. Removed' \subseteq states /\ Existing' = Existing
  BY <1>1 DEF Removed, Existing
<1>3. Types' /\ Lists' /\ SeedsHaveStates'
  BY <1>1, <1>2 DEF IInv, Types, Lists, SeedsHaveStates
<1>4. Queues'
  <2>1. \A s \in States : removed'[s] <= 1
    BY <1>1
  <2> QED
    BY <1>1, <1>2, <2>1 DEF IInv, Queues, QueuesDisjoint
<1>5. Regions'
  BY <1>1, <1>2, RegionsStay DEF IInv
<1>6. Waits'
  BY <1>1 DEF Waits
<1> QED
  BY <1>3, <1>4, <1>5, <1>6 DEF IInv

LEMMA StutterKeeps == ASSUME IInv, UNCHANGED vars PROVE IInv'
<1>1. /\ UNCHANGED <<mode, phase, current, born, states, searcher, seeded, steps>>
      /\ UNCHANGED <<added, removed, paused, continued>>
      /\ UNCHANGED <<openMergeStack, inCloseMerge, handler>>
  BY DEF vars, loop, queues, merging
<1>2. Removed' = Removed /\ Existing' = Existing
  BY <1>1 DEF Removed, Existing
<1>3. Types' /\ Lists' /\ SeedsHaveStates'
  BY <1>1, <1>2 DEF IInv, Types, Lists, SeedsHaveStates
<1>4. Queues'
  BY <1>1, <1>2 DEF IInv, Queues, QueuesDisjoint
<1>5. Regions'
  BY <1>1, <1>2, RegionsStay DEF IInv
<1>6. Waits'
  BY <1>1, <1>2 DEF IInv, Waits, Away, AllWaiting, Waiting
<1> QED
  BY <1>3, <1>4, <1>5, <1>6 DEF IInv

LEMMA NextKeeps == ASSUME IInv, [Next]_vars PROVE IInv'
<1>1. CASE SelectSeeded \/ BeginSearch \/ SelectState \/ SelectMerging
  BY <1>1, SelectSeededKeeps, BeginSearchKeeps, SelectStateKeeps, SelectMergingKeeps
<1>2. CASE \E s, t \in States : Fork(s, t)
  BY <1>2, ForkKeeps
<1>3. CASE \E s \in States : Terminate(s)
  BY <1>3, TerminateKeeps
<1>4. CASE \E h \in Handlers : OpenMerge(h)
  BY <1>4, OpenMergeKeeps
<1>5. CASE \E p \in Points : CloseMerge(p)
  BY <1>5, CloseMergeKeeps
<1>6. CASE Executed \/ processTimers \/ checkMemoryUsage
  BY <1>6, ExecutedKeeps, processTimersKeeps, checkMemoryUsageKeeps
<1>7. CASE updateSearcher \/ reschedule \/ Stop
  BY <1>7, updateSearcherKeeps, rescheduleKeeps, StopKeeps
<1>8. CASE \E s \in States : deleteRemoved(s)
  BY <1>8, deleteRemovedKeeps
<1>9. CASE Done
  BY <1>9, StutterKeeps DEF Done
<1>10. CASE UNCHANGED vars
  BY <1>10, StutterKeeps
<1> QED
  BY <1>1, <1>2, <1>3, <1>4, <1>5, <1>6, <1>7, <1>8, <1>9, <1>10 DEF Next, Step

(* The queues and the lists of waiting states fit together at every step.  *)
THEOREM IInvAlways == Spec => []IInv
<1>1. Init => IInv
  BY InitHolds
<1>2. IInv /\ [Next]_vars => IInv'
  BY NextKeeps
<1> QED
  BY <1>1, <1>2, PTL DEF Spec

(* The queues stay as Executor.h documents them: no state is both added    *)
(* and to be removed, and no state is to be removed that updateStates has  *)
(* not got, however the instruction forks, merges and kills states and     *)
(* whatever the limits kill after it.                                      *)
THEOREM QueuesStayDisjoint == Spec => []QueuesDisjoint
<1>1. IInv => QueuesDisjoint
  BY DEF IInv, Queues
<1> QED
  BY <1>1, IInvAlways, PTL

(* A seed is always that of a state that exists: the state run selects     *)
(* from seedMap has not been deleted.                                      *)
THEOREM SeedsStayWithStates == Spec => []SeedsHaveStates
<1>1. IInv => SeedsHaveStates
  BY DEF IInv
<1> QED
  BY <1>1, IInvAlways, PTL

-----------------------------------------------------------------------------
(***************************************************************************)
(* The merge regions, for any number of states, regions and call sites of  *)
(* klee_close_merge.                                                       *)
(*                                                                         *)
(* The first part needs no assumption on the options.  OpenStatesAgree is  *)
(* inductive only together with what makes close_merge and                 *)
(* removeOpenState agree on the handlers that die: no stack has a region   *)
(* twice, mergeGroups has no handler twice and has every one in which a    *)
(* state waits, and regions are nested, so that two states inside one      *)
(* region have the same regions outside it (Nested).  Agreement is all of  *)
(* that with IInv.                                                         *)
(*                                                                         *)
(* The second part leaves out the options under which states wait to be    *)
(* removed twice or are killed while they wait (NoLimits): there the       *)
(* properties do not hold, and the runs show it.  Scheduled says that the  *)
(* searcher holds all states but those that wait, and that a state waits   *)
(* in h only with the stack of the states inside h below h                 *)
(* (WaitersNested).  That someone can always go on then follows from a     *)
(* state with the deepest stack: what a waiting state waits for is inside  *)
(* its region, with a deeper stack, so the deepest does not wait.          *)
(***************************************************************************)
(* Induction over the numbers, as a fact about sets: NatInduction of the   *)
(* library takes the predicate as an operator, which no prover here can    *)
(* instantiate.                                                            *)
LEMMA SetInduction ==
    ASSUME NEW S \in SUBSET Nat, 0 \in S, \A n \in S : n + 1 \in S
    PROVE  S = Nat
<1> DEFINE R == OpToRel(<, Nat)
           T == Nat \ S
<1>1. IsWellFoundedOn(R, Nat)
  BY NatLessThanWellFounded
<1>2. \A x, y : <<y, x>> \in R <=> x \in Nat /\ y \in Nat /\ y < x
  BY DEF OpToRel
<1>3. T \subseteq Nat
  OBVIOUS
<1> HIDE DEF R, T
<1>4. CASE T # {}
  <2>1. PICK x \in T : \A y \in T : ~(<<y, x>> \in R)
    BY <1>1, <1>3, <1>4, WFMin
  <2>2. x \in Nat /\ x # 0
    BY DEF T
  <2>3. x - 1 \in Nat /\ <<x - 1, x>> \in R
    BY <2>2, <1>2
  <2>4. x - 1 \in S
    BY <2>1, <2>3 DEF T
  <2>5. (x - 1) + 1 \in S
    BY <2>4
  <2> QED
    BY <2>5, <2>2 DEF T
<1> QED
  BY <1>4 DEF T

(* Induction up to n. *)
LEMMA IndexInduction ==
    ASSUME NEW n \in Nat, NEW S, 0 \in S, \A i \in 0 .. n - 1 : i \in S => i + 1 \in S
    PROVE  0 .. n \subseteq S
<1> DEFINE T == {i \in Nat : i \in S \/ i > n}
<1>1. 0 \in T /\ \A i \in T : i + 1 \in T
  OBVIOUS
<1>2. T = Nat
  BY <1>1, SetInduction
<1> QED
  BY <1>2

-----------------------------------------------------------------------------
(* mergeGroups, a list without duplicates.                                 *)
Distinct(q) == \A i, j \in 1 .. Len(q) : q[i] = q[j] => i = j

LEMMA SwapRemoves ==
    ASSUME NEW q \in Seq(Handlers), Distinct(q), NEW h, Contains(q, h)
    PROVE  LET r == SwapRemove(q, h)
           IN  /\ r \in Seq(Handlers) /\ Distinct(r)
               /\ \A g : Contains(r, g) <=> Contains(q, g) /\ g # h
<1> DEFINE n == Len(q)
           r == SwapRemove(q, h)
<1>1. PICK k \in 1 .. n : q[k] = h
  BY DEF Contains
<1>2. n \in Nat \ {0} /\ \A i \in 1 .. n : q[i] \in Handlers
  BY <1>1
<1>3. r = [i \in 1 .. n - 1 |-> IF q[i] = h THEN q[n] ELSE q[i]]
  BY DEF SwapRemove
<1>4. n - 1 \in Nat /\ \A i \in 1 .. n - 1 : r[i] \in Handlers
  BY <1>2, <1>3
<1>5. r \in Seq(Handlers)
  BY <1>3, <1>4, IsASeq
<1>6. Len(r) = n - 1
  BY <1>3, <1>4, <1>5
<1>7. \A i, j \in 1 .. n : q[i] = q[j] => i = j
  BY DEF Distinct
<1>8. \A i \in 1 .. n : q[i] = h <=> i = k
  BY <1>1, <1>7
<1>9. \A i \in 1 .. n - 1 : r[i] = IF i = k THEN q[n] ELSE q[i]
  BY <1>3, <1>2, <1>8
<1> HIDE DEF r, n
<1>10. ASSUME NEW i \in 1 .. n - 1, NEW j \in 1 .. n - 1, r[i] = r[j]
       PROVE  i = j
  <2>1. i \in 1 .. n /\ j \in 1 .. n /\ n \in 1 .. n /\ i # n /\ j # n
    BY <1>2
  <2> QED
    BY <1>7, <1>9, <1>10, <2>1
<1>11. Distinct(r)
  BY <1>6, <1>10 DEF Distinct
<1>12. ASSUME NEW g, Contains(r, g)
       PROVE  Contains(q, g) /\ g # h
  <2>1. PICK i \in 1 .. n - 1 : r[i] = g
    BY <1>6, <1>12 DEF Contains
  <2>2. i \in 1 .. n /\ n \in 1 .. n /\ i # n
    BY <1>2
  <2>3. PICK j \in 1 .. n : q[j] = g /\ j # k
    BY <1>1, <1>9, <2>1, <2>2
  <2> QED
    BY <1>8, <2>3 DEF Contains, n
<1>13. ASSUME NEW g, Contains(q, g), g # h
       PROVE  Contains(r, g)
  <2>1. PICK i \in 1 .. n : q[i] = g
    BY <1>13 DEF Contains, n
  <2>2. i # k
    BY <1>8, <1>13, <2>1
  <2>3. CASE i = n
    <3>1. k \in 1 .. n - 1 /\ r[k] = g
      BY <1>2, <1>9, <2>1, <2>2, <2>3
    <3> QED
      BY <1>6, <3>1 DEF Contains
  <2>4. CASE i # n
    <3>1. i \in 1 .. n - 1 /\ r[i] = g
      BY <1>2, <1>9, <2>1, <2>2, <2>4
    <3> QED
      BY <1>6, <3>1 DEF Contains
  <2> QED
    BY <2>3, <2>4
<1> QED
  BY <1>5, <1>11, <1>12, <1>13 DEF r

(* GroupsLeft has a value at every index. *)
Left(f, m, dropped, others) ==
    f = [i \in 0 .. m |->
           IF i = 0 THEN mergeGroups
           ELSE IF Unreferenced(dropped[i], dropped, others)
                THEN SwapRemove(f[i - 1], dropped[i])
                ELSE f[i - 1]]

LEMMA GroupsLeftDef ==
    ASSUME NEW dropped, NEW others, Len(dropped) \in Nat
    PROVE  \E f : /\ Left(f, Len(dropped), dropped, others)
                  /\ GroupsLeft(dropped, others) = f[Len(dropped)]
<1> DEFINE n == Len(dropped)
           Is(f, m) == Left(f, m, dropped, others)
           S == {m \in Nat : \E f : Is(f, m)}
           step(r, i) == IF Unreferenced(dropped[i], dropped, others)
                         THEN SwapRemove(r, dropped[i]) ELSE r
<1>1. 0 \in S
  <2>1. Is([i \in 0 .. 0 |-> mergeGroups], 0)
    BY DEF Left
  <2> QED
    BY <2>1
<1>2. ASSUME NEW m \in S
      PROVE  m + 1 \in S
  <2>1. PICK f : Is(f, m)
    OBVIOUS
  <2> DEFINE g == [i \in 0 .. m + 1 |-> IF i = m + 1 THEN step(f[m], m + 1) ELSE f[i]]
  <2>2. f = [i \in 0 .. m |-> IF i = 0 THEN mergeGroups ELSE step(f[i - 1], i)]
    BY <2>1 DEF Left
  <2> HIDE DEF step
  <2>3. \A i \in 0 .. m + 1 : g[i] = IF i = 0 THEN mergeGroups ELSE step(g[i - 1], i)
    BY <2>2
  <2>4. g = [i \in 0 .. m + 1 |-> IF i = 0 THEN mergeGroups ELSE step(g[i - 1], i)]
    <3> DEFINE h == [i \in 0 .. m + 1 |-> IF i = 0 THEN mergeGroups ELSE step(g[i - 1], i)]
    <3>1. \A i \in 0 .. m + 1 : g[i] = h[i]
      BY <2>3
    <3>2. g = h
      BY <3>1
    <3> QED
      BY <3>2
  <2> HIDE DEF g
  <2>5. Is(g, m + 1)
    BY <2>4 DEF Left, step
  <2> HIDE DEF Is
  <2> QED
    BY <2>5
<1>3. n \in S
  <2> HIDE DEF S
  <2> QED
    BY <1>1, <1>2, SetInduction DEF S
<1>4. PICK f : Is(f, n)
  BY <1>3
<1> DEFINE c == CHOOSE g : Is(g, n)
<1>5. GroupsLeft(dropped, others) = c[n]
  BY DEF GroupsLeft, Left
<1>6. Is(c, n)
  BY <1>4
<1> QED
  BY <1>5, <1>6

(* The handlers that lose their last reference leave mergeGroups.          *)
LEMMA GroupsLeftRight ==
    ASSUME mergeGroups \in Seq(Handlers), Distinct(mergeGroups),
           NEW dropped \in Seq(Handlers), Distinct(dropped), NEW others,
           \A h : Contains(dropped, h) => Contains(mergeGroups, h)
    PROVE  LET r == GroupsLeft(dropped, others)
           IN  /\ r \in Seq(Handlers) /\ Distinct(r)
               /\ \A h : Contains(r, h)
                            <=> Contains(mergeGroups, h) /\ ~Unreferenced(h, dropped, others)
<1> DEFINE n == Len(dropped)
           gone(i) == {dropped[k] : k \in {x \in 1 .. i : Unreferenced(dropped[x], dropped, others)}}
           Right(r, i) == /\ r \in Seq(Handlers) /\ Distinct(r)
                          /\ \A h : Contains(r, h) <=> Contains(mergeGroups, h) /\ h \notin gone(i)
<1>1. n \in Nat
  OBVIOUS
<1>2. PICK f : /\ Left(f, n, dropped, others)
               /\ GroupsLeft(dropped, others) = f[n]
  BY <1>1, GroupsLeftDef
<1>3. \A i \in 0 .. n : f[i] = IF i = 0 THEN mergeGroups
                               ELSE IF Unreferenced(dropped[i], dropped, others)
                                    THEN SwapRemove(f[i - 1], dropped[i])
                                    ELSE f[i - 1]
  BY <1>2 DEF Left
<1> DEFINE S == {i \in 0 .. n : Right(f[i], i)}
<1>4. 0 \in S
  BY <1>1, <1>3
<1>5. ASSUME NEW i \in 0 .. n - 1, i \in S
      PROVE  i + 1 \in S
  <2> DEFINE g == dropped[i + 1]
  <2>1. i + 1 \in 1 .. n /\ i + 1 \in 0 .. n /\ i + 1 # 0 /\ (i + 1) - 1 = i /\ i \in Nat
    BY <1>1
  <2>2. Right(f[i], i)
    BY <1>5
  <2>3. f[i + 1] = IF Unreferenced(g, dropped, others) THEN SwapRemove(f[i], g) ELSE f[i]
    BY <1>3, <2>1
  <2>4. Contains(dropped, g)
    BY <2>1 DEF Contains
  <2>5. g \notin gone(i)
    <3>1. \A k \in 1 .. i : dropped[k] # g
      BY <1>1, <2>1 DEF Distinct
    <3> QED
      BY <3>1
  <2>6. Contains(f[i], g)
    BY <2>2, <2>4, <2>5
  <2>7. gone(i + 1) = IF Unreferenced(g, dropped, others) THEN gone(i) \cup {g} ELSE gone(i)
    <3>1. \A x : x \in 1 .. i + 1 <=> x \in 1 .. i \/ x = i + 1
      BY <2>1
    <3> QED
      BY <3>1
  <2>8. CASE Unreferenced(g, dropped, others)
    <3>1. f[i] \in Seq(Handlers) /\ Distinct(f[i])
      BY <2>2
    <3>2. f[i + 1] = SwapRemove(f[i], g) /\ gone(i + 1) = gone(i) \cup {g}
      BY <2>3, <2>7, <2>8
    <3> HIDE DEF gone, g
    <3>3. /\ f[i + 1] \in Seq(Handlers) /\ Distinct(f[i + 1])
          /\ \A h : Contains(f[i + 1], h) <=> Contains(f[i], h) /\ h # g
      BY <2>6, <3>1, <3>2, SwapRemoves
    <3>4. Right(f[i + 1], i + 1)
      BY <2>2, <3>2, <3>3
    <3> HIDE DEF Right
    <3> QED
      BY <2>1, <3>4
  <2>9. CASE ~Unreferenced(g, dropped, others)
    <3>1. f[i + 1] = f[i] /\ gone(i + 1) = gone(i)
      BY <2>3, <2>7, <2>9
    <3> HIDE DEF gone, g
    <3>2. Right(f[i + 1], i + 1)
      BY <2>2, <3>1
    <3> HIDE DEF Right
    <3> QED
      BY <2>1, <3>2
  <2> QED
    BY <2>8, <2>9
<1>6. n \in S
  <2>1. 0 .. n \subseteq S
    <3> HIDE DEF S, n
    <3> QED
      BY <1>1, <1>4, <1>5, IndexInduction
  <2> QED
    BY <1>1, <2>1
<1>7. Right(f[n], n)
  BY <1>6
<1>8. \A h : h \in gone(n) <=> Unreferenced(h, dropped, others)
  BY DEF Unreferenced, Contains
<1> QED
  BY <1>2, <1>7, <1>8

-----------------------------------------------------------------------------
(* What holds of the regions, whatever the limits kill.                    *)

HandlerCounts ==
    [openStates : SUBSET States, openInstruction : Nat, closedStateCount : Nat,
     distances : Nat, reachedCloseMerge : [Points -> SUBSET States]]

Control ==
    /\ mode \in {"seeding", "running", "halting"}
    /\ phase \in {"select", "execute", "timers", "memory", "update", "delete", "done"}
    /\ current \in States \cup {NoState}

(* A distance is not negative: a state opens a region before it closes it. *)
Counts ==
    /\ steps \in [States -> Nat] /\ handler \in [Handlers -> HandlerCounts]
    /\ \A h \in Handlers : \A s \in handler[h].openStates : handler[h].openInstruction <= steps[s]

(* mergeGroups lists every handler a state waits in, and inCloseMerge only *)
(* states that wait in one.                                                *)
Listed ==
    /\ mergeGroups \in Seq(Handlers) /\ Distinct(mergeGroups)
    /\ \A h \in Handlers : ~Contains(mergeGroups, h) => Waiting(handler, h) = {}
    /\ inCloseMerge \subseteq AllWaiting(handler)

SamePrefix(q, r, n) == \A k \in 1 .. n : q[k] = r[k]

(* Regions are nested: the states inside one are in the same outer ones,   *)
(* at the same depth.  With s = t, a state is not twice in a region.       *)
Nested ==
    \A s, t \in Existing :
        \A i \in 1 .. Len(openMergeStack[s]), j \in 1 .. Len(openMergeStack[t]) :
            openMergeStack[s][i] = openMergeStack[t][j] =>
                i = j /\ SamePrefix(openMergeStack[s], openMergeStack[t], i)

Agreement == IInv /\ Control /\ Counts /\ Listed /\ Nested /\ OpenStatesAgree

LEMMA AgreementTypes == ASSUME Agreement PROVE TypeOK
<1>1. openMergeStack \in [States -> Seq(Handlers)] /\ removed \in [States -> Nat]
  BY DEF Agreement, IInv, Types
<1>2. {born, states, added, paused, continued, searcher, inCloseMerge} \subseteq SUBSET States
  BY DEF Agreement, IInv, Types, Lists, Existing
<1>3. seeded \subseteq States
  BY <1>2 DEF Agreement, IInv, SeedsHaveStates, Existing
<1>4. handler \in [Handlers ->
          [openStates : SUBSET States, openInstruction : Nat,
           closedStateCount : Nat, distances : Nat,
           reachedCloseMerge : [Points -> SUBSET States]]]
  BY DEF Agreement, Counts, HandlerCounts
<1> QED
  BY <1>1, <1>2, <1>3, <1>4 DEF TypeOK, Agreement, Control, Counts, Listed

LEMMA ExistingAreStates ==
    ASSUME IInv
    PROVE  /\ Existing \subseteq States
           /\ \A s \in Existing : openMergeStack[s] \in Seq(Handlers)
                                  /\ Len(openMergeStack[s]) \in Nat
BY DEF IInv, Types, Lists

LEMMA NewCounts ==
    ASSUME NEW S \in SUBSET States, NEW n \in Nat
    PROVE  /\ MergeHandler(S, n) \in HandlerCounts
           /\ MergeHandler(S, n).openStates = S
           /\ MergeHandler(S, n).openInstruction = n
           /\ \A p \in Points : MergeHandler(S, n).reachedCloseMerge[p] = {}
BY DEF MergeHandler, HandlerCounts

LEMMA NoCounts ==
    /\ NoHandler \in HandlerCounts /\ NoHandler.openStates = {}
    /\ \A p \in Points : NoHandler.reachedCloseMerge[p] = {}
BY NewCounts DEF NoHandler

(* A stack that is the beginning of one there was keeps regions nested.    *)
LEMMA NestedFrom ==
    ASSUME Nested, NEW from,
           \A x \in Existing' :
              /\ from[x] \in Existing
              /\ Len(openMergeStack'[x]) \in Nat /\ Len(openMergeStack[from[x]]) \in Nat
              /\ Len(openMergeStack'[x]) <= Len(openMergeStack[from[x]])
              /\ SamePrefix(openMergeStack'[x], openMergeStack[from[x]], Len(openMergeStack'[x]))
    PROVE  Nested'
<1> SUFFICES ASSUME NEW s \in Existing', NEW t \in Existing',
                    NEW i \in 1 .. Len(openMergeStack'[s]), NEW j \in 1 .. Len(openMergeStack'[t]),
                    openMergeStack'[s][i] = openMergeStack'[t][j]
             PROVE  i = j /\ SamePrefix(openMergeStack'[s], openMergeStack'[t], i)
  BY DEF Nested, SamePrefix
<1> DEFINE q == openMergeStack[from[s]]
           r == openMergeStack[from[t]]
<1>1. /\ from[s] \in Existing /\ from[t] \in Existing
      /\ i \in 1 .. Len(q) /\ j \in 1 .. Len(r)
      /\ \A k \in 1 .. Len(openMergeStack'[s]) : openMergeStack'[s][k] = q[k]
      /\ \A k \in 1 .. Len(openMergeStack'[t]) : openMergeStack'[t][k] = r[k]
      /\ Len(openMergeStack'[s]) \in Nat /\ Len(openMergeStack'[t]) \in Nat
  BY DEF SamePrefix
<1>2. q[i] = r[j]
  BY <1>1
<1>3. i = j /\ \A k \in 1 .. i : q[k] = r[k]
  BY <1>1, <1>2 DEF Nested, SamePrefix
<1>4. ASSUME NEW k \in 1 .. i
      PROVE  openMergeStack'[s][k] = openMergeStack'[t][k]
  <2>1. k \in 1 .. Len(openMergeStack'[s]) /\ k \in 1 .. Len(openMergeStack'[t])
    BY <1>1, <1>3
  <2> QED
    BY <1>1, <1>3, <2>1
<1> QED
  BY <1>3, <1>4 DEF SamePrefix

(* Most steps leave the regions alone. *)
LEMMA QuietAgrees ==
    ASSUME Agreement, IInv', UNCHANGED merging, Existing' = Existing,
           steps' \in [States -> Nat], \A s \in States : steps[s] <= steps'[s], Control'
    PROVE  Agreement'
<1>1. UNCHANGED <<openMergeStack, mergeGroups, inCloseMerge, handler>>
  BY DEF merging
<1>2. Counts'
  <2>1. ASSUME NEW h \in Handlers, NEW s \in handler[h].openStates
        PROVE  handler[h].openInstruction <= steps'[s]
    <3>1. /\ handler[h].openInstruction \in Nat /\ s \in States
          /\ handler[h].openInstruction <= steps[s] /\ steps[s] \in Nat
      BY DEF Agreement, Counts, HandlerCounts
    <3>2. steps[s] <= steps'[s] /\ steps'[s] \in Nat
      BY <3>1
    <3> DEFINE a == handler[h].openInstruction
               b == steps[s]
               c == steps'[s]
    <3>3. a \in Nat /\ b \in Nat /\ c \in Nat /\ a <= b /\ b <= c
      BY <3>1, <3>2
    <3> HIDE DEF a, b, c
    <3>4. a <= c
      BY <3>3
    <3> QED
      BY <3>4 DEF a, c
  <2> QED
    BY <1>1, <2>1 DEF Agreement, Counts
<1>3. Listed'
  BY <1>1 DEF Agreement, Listed, Distinct, Waiting, AllWaiting
<1>4. Nested'
  BY <1>1 DEF Agreement, Nested, SamePrefix
<1>5. OpenStatesAgree'
  BY <1>1 DEF Agreement, OpenStatesAgree
<1> QED
  BY <1>2, <1>3, <1>4, <1>5 DEF Agreement

(***************************************************************************)
(* A state s leaves the regions in dropped, the last of its stack.  hs are *)
(* the handlers when it does.                                              *)
(***************************************************************************)
LEMMA LeaveAgrees ==
    ASSUME Agreement, NEW s \in Existing, NEW hs \in [Handlers -> HandlerCounts],
           NEW dropped \in Seq(Handlers), Distinct(dropped), NEW closed, NEW ps, NEW cs,
           Unref(hs, dropped, Existing \ {s}, closed, ps, cs),
           \A x \in Existing \ {s} : openMergeStack'[x] = openMergeStack[x],
           openMergeStack'[s] \in Seq(Handlers),
           Len(openMergeStack'[s]) <= Len(openMergeStack[s]),
           SamePrefix(openMergeStack'[s], openMergeStack[s], Len(openMergeStack'[s])),
           Existing' \subseteq Existing, Existing \ {s} \subseteq Existing',
           \A h : Contains(dropped, h) => Contains(openMergeStack[s], h),
           \A h : s \in Existing' /\ Contains(openMergeStack'[s], h)
                     <=> Contains(openMergeStack[s], h) /\ ~Contains(dropped, h),
           \A h \in Handlers :
              /\ hs[h].openStates = handler[h].openStates
                                      \ (IF Contains(dropped, h) THEN {s} ELSE {})
              /\ hs[h].openInstruction = handler[h].openInstruction
              /\ ~Contains(mergeGroups, h) => Waiting(hs, h) = {},
           closed \subseteq AllWaiting(hs), steps' = steps
    PROVE  Counts' /\ Listed' /\ Nested' /\ OpenStatesAgree'
<1> DEFINE gone(h) == Unreferenced(h, dropped, Existing \ {s})
           G == Destroyed(dropped, Existing \ {s})
           q == openMergeStack'[s]
<1>1. s \in States /\ openMergeStack \in [States -> Seq(Handlers)] /\ Existing \subseteq States
  BY ExistingAreStates DEF Agreement, IInv, Types
<1>2. \A x \in Existing \ {s} : openMergeStack'[x] = openMergeStack[x]
  OBVIOUS
<1>3. /\ handler' = [h \in Handlers |-> IF h \in G THEN NoHandler ELSE hs[h]]
      /\ mergeGroups' = GroupsLeft(dropped, Existing \ {s})
      /\ inCloseMerge' = closed \ UNION {Waiting(hs, h) : h \in G}
  BY DEF Unref
<1>4. \A h : h \in G <=> h \in Handlers /\ gone(h)
  BY DEF Destroyed
<1>5. \A h \in Handlers : Contains(mergeGroups, h)
                             <=> \E x \in Existing : Contains(openMergeStack[x], h)
  BY DEF Agreement, OpenStatesAgree
<1>6. \A h : Contains(dropped, h) => h \in Handlers /\ Contains(mergeGroups, h)
  <2>1. \A h : Contains(dropped, h) => h \in Handlers
    BY DEF Contains
  <2> QED
    BY <1>5, <2>1
<1>7. /\ mergeGroups' \in Seq(Handlers) /\ Distinct(mergeGroups')
      /\ \A h : Contains(mergeGroups', h) <=> Contains(mergeGroups, h) /\ ~gone(h)
  BY <1>3, <1>6, GroupsLeftRight DEF Agreement, Listed
<1>8. \A h : gone(h) <=> Contains(dropped, h)
                           /\ \A t \in Existing \ {s} : ~Contains(openMergeStack[t], h)
  BY DEF Unreferenced
<1> HIDE DEF gone, G
<1>9. \A h \in Handlers : handler'[h] = IF gone(h) THEN NoHandler ELSE hs[h]
  BY <1>3, <1>4
<1>10. Counts'
  <2>1. handler' \in [Handlers -> HandlerCounts]
    BY <1>3, NoCounts
  <2>2. ASSUME NEW h \in Handlers, NEW x \in handler'[h].openStates
        PROVE  handler'[h].openInstruction <= steps'[x]
    <3>1. ~gone(h) /\ handler'[h] = hs[h]
      BY <1>9, <2>2, NoCounts
    <3>2. x \in handler[h].openStates
      BY <2>2, <3>1
    <3> QED
      BY <3>1, <3>2 DEF Agreement, Counts
  <2> QED
    BY <2>1, <2>2 DEF Agreement, Counts
<1>11. Listed'
  <2>1. \A h \in Handlers : Waiting(handler', h) = IF gone(h) THEN {} ELSE Waiting(hs, h)
    BY <1>9, NoCounts DEF Waiting
  <2>2. \A h \in Handlers : ~Contains(mergeGroups', h) => Waiting(handler', h) = {}
    BY <1>7, <2>1
  <2>3. ASSUME NEW x \in inCloseMerge'
        PROVE  x \in AllWaiting(handler')
    <3>1. PICK h \in Handlers : x \in Waiting(hs, h)
      BY <1>3, <2>3 DEF AllWaiting
    <3>2. h \notin G
      BY <1>3, <2>3, <3>1
    <3>3. x \in Waiting(handler', h)
      BY <1>4, <2>1, <3>1, <3>2
    <3> QED
      BY <3>3 DEF AllWaiting
  <2> QED
    BY <1>7, <2>2, <2>3 DEF Listed
<1>12. Nested'
  <2> DEFINE from == [x \in Existing' |-> x]
  <2>1. ASSUME NEW x \in Existing'
        PROVE  /\ from[x] \in Existing
               /\ Len(openMergeStack'[x]) \in Nat /\ Len(openMergeStack[from[x]]) \in Nat
               /\ Len(openMergeStack'[x]) <= Len(openMergeStack[from[x]])
               /\ SamePrefix(openMergeStack'[x], openMergeStack[from[x]], Len(openMergeStack'[x]))
    <3>1. from[x] = x /\ x \in Existing /\ Len(openMergeStack[x]) \in Nat
      BY <2>1, ExistingAreStates DEF Agreement
    <3>2. CASE x = s
      BY <1>2, <3>1, <3>2
    <3>3. CASE x # s
      <4>1. openMergeStack'[x] = openMergeStack[x]
        BY <1>2, <3>1, <3>3
      <4> QED
        BY <3>1, <4>1 DEF SamePrefix
    <3> QED
      BY <3>2, <3>3
  <2> HIDE DEF from
  <2> QED
    BY <2>1, NestedFrom DEF Agreement
<1>13. OpenStatesAgree'
  <2> SUFFICES ASSUME NEW h \in Handlers
               PROVE  LET inside == {x \in Existing' : Contains(openMergeStack'[x], h)}
                      IN  /\ handler'[h].openStates = inside
                          /\ Contains(mergeGroups', h) <=> inside # {}
    BY DEF OpenStatesAgree
  <2> DEFINE before == {x \in Existing : Contains(openMergeStack[x], h)}
             inside == {x \in Existing' : Contains(openMergeStack'[x], h)}
  <2>1. handler[h].openStates = before /\ (Contains(mergeGroups, h) <=> before # {})
    BY DEF Agreement, OpenStatesAgree
  <2>2. inside = before \ (IF Contains(dropped, h) THEN {s} ELSE {})
    <3>1. ASSUME NEW x
          PROVE  x \in inside <=> x \in before /\ ~(x = s /\ Contains(dropped, h))
      <4>1. CASE x = s
        BY <1>2, <4>1
      <4>2. CASE x # s
        BY <1>2, <4>2
      <4> QED
        BY <4>1, <4>2
    <3> HIDE DEF inside, before
    <3> QED
      BY <3>1
  <2>3. gone(h) => inside = {}
    <3>1. \A x : x \in inside => x \in before /\ (x = s => ~Contains(dropped, h))
      <4> HIDE DEF inside, before
      <4> QED
        BY <2>2
    <3>2. gone(h) => \A x \in before : x = s /\ Contains(dropped, h)
      BY <1>8
    <3> HIDE DEF inside, before
    <3> QED
      BY <3>1, <3>2
  <2>4. handler'[h].openStates = inside
    <3>1. hs[h].openStates = inside
      BY <2>1, <2>2
    <3> HIDE DEF inside, before
    <3> QED
      BY <1>9, <2>3, <3>1, NoCounts
  <2>5. ~gone(h) /\ before # {} => inside # {}
    <3>1. CASE Contains(dropped, h)
      <4>1. ASSUME ~gone(h) PROVE inside # {}
        <5>1. PICK t \in Existing \ {s} : Contains(openMergeStack[t], h)
          BY <1>8, <3>1, <4>1
        <5>2. t \in before /\ t # s
          BY <5>1
        <5> HIDE DEF inside, before
        <5> QED
          BY <2>2, <5>2
      <4> QED
        BY <4>1
    <3>2. CASE ~Contains(dropped, h)
      <4> HIDE DEF inside, before
      <4> QED
        BY <2>2, <3>2
    <3> QED
      BY <3>1, <3>2
  <2>6. inside # {} => before # {}
    <3> HIDE DEF inside, before
    <3> QED
      BY <2>2
  <2>7. Contains(mergeGroups', h) <=> inside # {}
    <3> HIDE DEF inside, before
    <3> QED
      BY <1>7, <2>1, <2>3, <2>5, <2>6
  <2> QED
    BY <2>4, <2>7
<1> QED
  BY <1>10, <1>11, <1>12, <1>13

LEMMA SelectMergingAgrees == ASSUME Agreement, IInv', SelectMerging PROVE Agreement'
<1>1. PICK i \in 1 .. Len(mergeGroups) + 1, G \in SUBSET Handlers :
        /\ \/ \E s \in searcher : Execute(s)
           \/ \E h \in Handlers : \E s \in handler[h].openStates : Execute(s)
        /\ handler' = [h \in Handlers |-> IF h \in G
                         THEN [handler[h] EXCEPT !.reachedCloseMerge = [p \in Points |-> {}]]
                         ELSE handler[h]]
        /\ inCloseMerge' = inCloseMerge \ UNION {Waiting(handler, h) : h \in G}
  BY DEF SelectMerging, Prioritized
<1>2. PICK s \in States : Execute(s)
  <2>1. searcher \subseteq States
    BY DEF Agreement, IInv, Lists, Types
  <2>2. \A h \in Handlers : handler[h].openStates \subseteq States
    BY DEF Agreement, Counts, HandlerCounts
  <2> QED
    BY <1>1, <2>1, <2>2
<1>3. /\ phase' = "execute" /\ current' = s
      /\ steps' = [steps EXCEPT ![s] = steps[s] + 1]
      /\ UNCHANGED <<mode, states, added, openMergeStack, mergeGroups>>
  BY <1>2 DEF Execute, SelectMerging
<1>4. Existing' = Existing
  BY <1>3 DEF Existing
<1>5. \A h \in Handlers :
        /\ handler'[h] \in HandlerCounts
        /\ handler'[h].openStates = handler[h].openStates
        /\ handler'[h].openInstruction = handler[h].openInstruction
        /\ Waiting(handler', h) = IF h \in G THEN {} ELSE Waiting(handler, h)
  <2> SUFFICES ASSUME NEW h \in Handlers
               PROVE  /\ handler'[h] \in HandlerCounts
                      /\ handler'[h].openStates = handler[h].openStates
                      /\ handler'[h].openInstruction = handler[h].openInstruction
                      /\ Waiting(handler', h) = IF h \in G THEN {} ELSE Waiting(handler, h)
    OBVIOUS
  <2>1. handler[h] \in HandlerCounts
    BY DEF Agreement, Counts
  <2>2. CASE h \in G
    <3> DEFINE q == [handler[h] EXCEPT !.reachedCloseMerge = [p \in Points |-> {}]]
    <3>1. /\ q \in HandlerCounts /\ q.openStates = handler[h].openStates
          /\ q.openInstruction = handler[h].openInstruction
          /\ q.reachedCloseMerge = [p \in Points |-> {}]
      BY <2>1 DEF HandlerCounts
    <3>2. handler'[h] = q
      BY <1>1, <2>2
    <3> HIDE DEF q
    <3>3. Waiting(handler', h) = {}
      BY <3>1, <3>2 DEF Waiting
    <3> QED
      BY <2>2, <3>1, <3>2, <3>3
  <2>3. CASE h \notin G
    <3>1. handler'[h] = handler[h]
      BY <1>1, <2>3
    <3> QED
      BY <2>1, <2>3, <3>1 DEF Waiting
  <2> QED
    BY <2>2, <2>3
<1>6. Counts'
  <2>1. \A x \in States : steps[x] \in Nat /\ steps'[x] \in Nat /\ steps[x] <= steps'[x]
    BY <1>3 DEF Agreement, Counts
  <2>2. handler' \in [Handlers -> HandlerCounts] /\ steps' \in [States -> Nat]
    BY <1>1, <1>3, <1>5, <2>1 DEF Agreement, Counts
  <2>3. ASSUME NEW h \in Handlers, NEW x \in handler'[h].openStates
        PROVE  handler'[h].openInstruction <= steps'[x]
    <3> DEFINE a == handler'[h].openInstruction
               b == steps[x]
               c == steps'[x]
    <3>1. x \in handler[h].openStates /\ x \in States /\ a = handler[h].openInstruction
      BY <1>5, <2>3 DEF HandlerCounts
    <3>2. a <= b /\ b <= c /\ a \in Nat /\ b \in Nat /\ c \in Nat
      BY <1>5, <2>1, <3>1 DEF Agreement, Counts, HandlerCounts
    <3> HIDE DEF a, b, c
    <3>3. a <= c
      BY <3>2
    <3> QED
      BY <3>3 DEF a, c
  <2> QED
    BY <2>2, <2>3 DEF Counts
<1>7. Listed'
  <2>1. \A h \in Handlers : ~Contains(mergeGroups', h) => Waiting(handler', h) = {}
    BY <1>3, <1>5 DEF Agreement, Listed
  <2>2. ASSUME NEW x \in inCloseMerge'
        PROVE  x \in AllWaiting(handler')
    <3>1. PICK h \in Handlers : x \in Waiting(handler, h)
      BY <1>1, <2>2 DEF Agreement, Listed, AllWaiting
    <3>2. h \notin G
      BY <1>1, <2>2, <3>1
    <3>3. x \in Waiting(handler', h)
      BY <1>5, <3>1, <3>2
    <3> QED
      BY <3>3 DEF AllWaiting
  <2> QED
    BY <1>3, <2>1, <2>2 DEF Agreement, Listed, Distinct
<1>8. Nested'
  BY <1>3, <1>4 DEF Agreement, Nested, SamePrefix
<1>9. OpenStatesAgree'
  BY <1>3, <1>4, <1>5 DEF Agreement, OpenStatesAgree
<1>10. Control'
  BY <1>3 DEF Agreement, Control
<1> QED
  BY <1>6, <1>7, <1>8, <1>9, <1>10 DEF Agreement

LEMMA ForkAgrees ==
    ASSUME Agreement, IInv', NEW s \in States, NEW t \in States, Fork(s, t)
    PROVE  Agreement'
<1>1. /\ phase = "execute" /\ t \notin born /\ s \in {current} \cup added
      /\ added' = added \cup {t}
      /\ steps' = [steps EXCEPT ![t] = steps[s]]
      /\ openMergeStack' = [openMergeStack EXCEPT ![t] = openMergeStack[s]]
      /\ UNCHANGED <<phase, mode, current, states, mergeGroups, inCloseMerge>>
  BY DEF Fork, Executing, Inherited, loop
<1>2. \A h \in Handlers : handler'[h] =
        IF Contains(openMergeStack[s], h)
        THEN [handler[h] EXCEPT !.openStates = handler[h].openStates \cup {t}]
        ELSE handler[h]
  BY DEF Fork, Inherited
<1>3. \A h \in Handlers :
        /\ handler'[h] \in HandlerCounts
        /\ handler'[h].openStates = handler[h].openStates
                                      \cup IF Contains(openMergeStack[s], h) THEN {t} ELSE {}
        /\ handler'[h].openInstruction = handler[h].openInstruction
        /\ handler'[h].reachedCloseMerge = handler[h].reachedCloseMerge
  <2> SUFFICES ASSUME NEW h \in Handlers
               PROVE  /\ handler'[h] \in HandlerCounts
                      /\ handler'[h].openStates = handler[h].openStates
                                \cup IF Contains(openMergeStack[s], h) THEN {t} ELSE {}
                      /\ handler'[h].openInstruction = handler[h].openInstruction
                      /\ handler'[h].reachedCloseMerge = handler[h].reachedCloseMerge
    OBVIOUS
  <2>1. handler[h] \in HandlerCounts
    BY DEF Agreement, Counts
  <2> DEFINE S == handler[h].openStates \cup {t}
             q == [handler[h] EXCEPT !.openStates = S]
  <2>2. S \in SUBSET States
    BY <2>1 DEF HandlerCounts
  <2> HIDE DEF S
  <2>3. /\ q \in HandlerCounts /\ q.openStates = S
        /\ q.openInstruction = handler[h].openInstruction
        /\ q.reachedCloseMerge = handler[h].reachedCloseMerge
    BY <2>1, <2>2 DEF HandlerCounts
  <2>4. handler'[h] = IF Contains(openMergeStack[s], h) THEN q ELSE handler[h]
    BY <1>2 DEF S
  <2> HIDE DEF q
  <2> QED
    BY <2>1, <2>3, <2>4 DEF S
<1>4. Existing' = Existing \cup {t} /\ s \in Existing /\ t \notin Existing
  BY <1>1 DEF Existing, Agreement, IInv, Queues, Lists
<1>5. /\ openMergeStack'[t] = openMergeStack[s]
      /\ \A x \in Existing : openMergeStack'[x] = openMergeStack[x]
  BY <1>1, <1>4, ExistingAreStates DEF Agreement, IInv, Types
<1>6. \A h \in Handlers : Waiting(handler', h) = Waiting(handler, h)
  BY <1>3 DEF Waiting
<1>7. Counts'
  <2>1. handler' \in [Handlers -> HandlerCounts] /\ steps' \in [States -> Nat]
    BY <1>1, <1>3 DEF Fork, Agreement, Counts
  <2>2. ASSUME NEW h \in Handlers, NEW x \in handler'[h].openStates
        PROVE  handler'[h].openInstruction <= steps'[x]
    <3>1. CASE x = t
      <4>1. x \notin handler[h].openStates
        BY <1>4, <3>1 DEF Agreement, OpenStatesAgree
      <4>2. Contains(openMergeStack[s], h)
        BY <1>3, <2>2, <4>1
      <4>3. s \in handler[h].openStates
        BY <1>4, <4>2 DEF Agreement, OpenStatesAgree
      <4>4. steps'[x] = steps[s]
        BY <1>1, <3>1 DEF Agreement, Counts
      <4> QED
        BY <1>3, <4>3, <4>4 DEF Agreement, Counts
    <3>2. CASE x # t
      <4>1. x \in handler[h].openStates
        BY <1>3, <2>2, <3>2
      <4>2. x \in States
        BY <4>1 DEF Agreement, Counts, HandlerCounts
      <4>3. steps'[x] = steps[x]
        BY <1>1, <3>2, <4>2 DEF Agreement, Counts
      <4> QED
        BY <1>3, <4>1, <4>3 DEF Agreement, Counts
    <3> QED
      BY <3>1, <3>2
  <2> QED
    BY <2>1, <2>2 DEF Counts
<1>8. Listed'
  BY <1>1, <1>6 DEF Agreement, Listed, Distinct, AllWaiting
<1>9. Nested'
  <2> DEFINE from == [x \in Existing' |-> IF x = t THEN s ELSE x]
  <2>1. ASSUME NEW x \in Existing'
        PROVE  /\ from[x] \in Existing
               /\ Len(openMergeStack'[x]) \in Nat /\ Len(openMergeStack[from[x]]) \in Nat
               /\ Len(openMergeStack'[x]) <= Len(openMergeStack[from[x]])
               /\ SamePrefix(openMergeStack'[x], openMergeStack[from[x]], Len(openMergeStack'[x]))
    <3>1. from[x] \in Existing /\ openMergeStack'[x] = openMergeStack[from[x]]
      BY <1>4, <1>5
    <3> HIDE DEF from
    <3>2. Len(openMergeStack[from[x]]) \in Nat
      BY <3>1, ExistingAreStates DEF Agreement
    <3> QED
      BY <3>1, <3>2 DEF SamePrefix
  <2> HIDE DEF from
  <2> QED
    BY <2>1, NestedFrom DEF Agreement
<1>10. OpenStatesAgree'
  <2> SUFFICES ASSUME NEW h \in Handlers
               PROVE  LET inside == {x \in Existing' : Contains(openMergeStack'[x], h)}
                      IN  /\ handler'[h].openStates = inside
                          /\ Contains(mergeGroups', h) <=> inside # {}
    BY DEF OpenStatesAgree
  <2> DEFINE before == {x \in Existing : Contains(openMergeStack[x], h)}
             inside == {x \in Existing' : Contains(openMergeStack'[x], h)}
  <2>1. handler[h].openStates = before /\ (Contains(mergeGroups, h) <=> before # {})
    BY DEF Agreement, OpenStatesAgree
  <2>2. inside = before \cup (IF Contains(openMergeStack[s], h) THEN {t} ELSE {})
    BY <1>4, <1>5
  <2>3. Contains(openMergeStack[s], h) => s \in before
    BY <1>4
  <2> HIDE DEF before, inside
  <2>4. handler'[h].openStates = inside
    BY <1>3, <2>1, <2>2
  <2>5. Contains(mergeGroups', h) <=> inside # {}
    BY <1>1, <2>1, <2>2, <2>3
  <2> QED
    BY <2>4, <2>5 DEF inside
<1>11. Control'
  BY <1>1 DEF Agreement, Control
<1> QED
  BY <1>7, <1>8, <1>9, <1>10, <1>11 DEF Agreement

LEMMA StacksDistinct == ASSUME Agreement, NEW s \in Existing PROVE Distinct(openMergeStack[s])
BY DEF Agreement, Nested, Distinct

(* ~ExecutionState. *)
LEMMA DeleteAgrees ==
    ASSUME Agreement, NEW s \in Existing, Delete(s), Existing' = Existing \ {s}, steps' = steps
    PROVE  Counts' /\ Listed' /\ Nested' /\ OpenStatesAgree'
<1> DEFINE dropped == openMergeStack[s]
           hs == [h \in Handlers |->
                    IF h \in ToSet(dropped)
                    THEN [handler[h] EXCEPT !.openStates = handler[h].openStates \ {s}]
                    ELSE handler[h]]
<1>1. /\ openMergeStack' = [openMergeStack EXCEPT ![s] = << >>]
      /\ Unref(hs, dropped, Existing \ {s}, inCloseMerge, paused, continued)
  BY DEF Delete
<1>2. dropped \in Seq(Handlers) /\ Len(dropped) \in Nat
  BY ExistingAreStates DEF Agreement
<1>3. \A h : h \in ToSet(dropped) <=> Contains(dropped, h)
  BY <1>2 DEF ToSet, Contains
<1>4. \A h \in Handlers :
        /\ hs[h] \in HandlerCounts
        /\ hs[h].openStates = handler[h].openStates \ (IF Contains(dropped, h) THEN {s} ELSE {})
        /\ hs[h].openInstruction = handler[h].openInstruction
        /\ hs[h].reachedCloseMerge = handler[h].reachedCloseMerge
  <2> SUFFICES ASSUME NEW h \in Handlers
               PROVE  /\ hs[h] \in HandlerCounts
                      /\ hs[h].openStates = handler[h].openStates
                                              \ (IF Contains(dropped, h) THEN {s} ELSE {})
                      /\ hs[h].openInstruction = handler[h].openInstruction
                      /\ hs[h].reachedCloseMerge = handler[h].reachedCloseMerge
    OBVIOUS
  <2>1. handler[h] \in HandlerCounts
    BY DEF Agreement, Counts
  <2> DEFINE S == handler[h].openStates \ {s}
             q == [handler[h] EXCEPT !.openStates = S]
  <2>2. S \in SUBSET States
    BY <2>1 DEF HandlerCounts
  <2>3. hs[h] = IF Contains(dropped, h) THEN q ELSE handler[h]
    BY <1>3
  <2> HIDE DEF S, hs
  <2>4. /\ q \in HandlerCounts /\ q.openStates = S
        /\ q.openInstruction = handler[h].openInstruction
        /\ q.reachedCloseMerge = handler[h].reachedCloseMerge
    BY <2>1, <2>2 DEF HandlerCounts
  <2> HIDE DEF q
  <2> QED
    BY <2>1, <2>3, <2>4 DEF S
<1>5. hs \in [Handlers -> HandlerCounts]
  BY <1>4
<1> HIDE DEF hs
<1>6. \A h \in Handlers : Waiting(hs, h) = Waiting(handler, h)
  BY <1>4 DEF Waiting
<1>7. inCloseMerge \subseteq AllWaiting(hs)
  BY <1>6 DEF Agreement, Listed, AllWaiting
<1>8. \A h \in Handlers :
        /\ hs[h].openStates = handler[h].openStates \ (IF Contains(dropped, h) THEN {s} ELSE {})
        /\ hs[h].openInstruction = handler[h].openInstruction
        /\ ~Contains(mergeGroups, h) => Waiting(hs, h) = {}
  BY <1>4, <1>6 DEF Agreement, Listed
<1>9. Distinct(dropped)
  BY StacksDistinct
<1> DEFINE q == << >>
<1>10. /\ q \in Seq(Handlers) /\ \A h : ~Contains(q, h)
       /\ Len(q) <= Len(openMergeStack[s]) /\ SamePrefix(q, openMergeStack[s], Len(q))
  BY <1>2 DEF Contains, SamePrefix
<1>11. openMergeStack'[s] = q /\ \A x \in Existing \ {s} : openMergeStack'[x] = openMergeStack[x]
  BY <1>1, ExistingAreStates DEF Agreement, IInv, Types
<1> HIDE DEF q, dropped
<1>12. /\ openMergeStack'[s] \in Seq(Handlers)
       /\ Len(openMergeStack'[s]) <= Len(openMergeStack[s])
       /\ SamePrefix(openMergeStack'[s], openMergeStack[s], Len(openMergeStack'[s]))
  BY <1>10, <1>11
<1>13. \A h : /\ Contains(dropped, h) => Contains(openMergeStack[s], h)
              /\ s \in Existing' /\ Contains(openMergeStack'[s], h)
                    <=> Contains(openMergeStack[s], h) /\ ~Contains(dropped, h)
  BY <1>10, <1>11 DEF dropped
<1>14. Existing' \subseteq Existing /\ Existing \ {s} \subseteq Existing'
  OBVIOUS
<1>15. Unref(hs, dropped, Existing \ {s}, inCloseMerge, paused, continued)
  BY <1>1
<1> QED
  BY <1>2, <1>5, <1>7, <1>8, <1>9, <1>11, <1>12, <1>13, <1>14, <1>15, LeaveAgrees

LEMMA TerminateAgrees ==
    ASSUME Agreement, IInv', NEW s \in States, Terminate(s)
    PROVE  Agreement'
<1>1. /\ phase = "execute" /\ s \notin Removed /\ s \in {current} \cup added
      /\ UNCHANGED <<phase, mode, current, born, states, searcher, steps>>
  BY DEF Terminate, Executing, loop
<1>2. Control'
  BY <1>1 DEF Agreement, Control
<1>3. CASE s \in added
  <2>1. added' = added \ {s} /\ Delete(s)
    BY <1>3 DEF Terminate
  <2>2. Existing' = Existing \ {s} /\ s \in Existing
    BY <1>1, <1>3, <2>1 DEF Agreement, IInv, Lists, Existing
  <2>3. Counts' /\ Listed' /\ Nested' /\ OpenStatesAgree'
    BY <1>1, <2>1, <2>2, DeleteAgrees
  <2> QED
    BY <1>2, <2>3 DEF Agreement
<1>4. CASE s \notin added
  <2>1. added' = added /\ UNCHANGED merging
    BY <1>4 DEF Terminate
  <2>2. Existing' = Existing
    BY <1>1, <2>1 DEF Existing
  <2>3. steps' \in [States -> Nat] /\ \A x \in States : steps[x] <= steps'[x]
    BY <1>1 DEF Agreement, Counts
  <2> QED
    BY <1>2, <2>1, <2>2, <2>3, QuietAgrees
<1> QED
  BY <1>3, <1>4

LEMMA deleteRemovedAgrees ==
    ASSUME Agreement, IInv', NEW s \in States, deleteRemoved(s)
    PROVE  Agreement'
<1>1. /\ phase = "delete" /\ s \in states /\ states' = states \ {s} /\ Delete(s)
      /\ UNCHANGED <<phase, mode, current, added, steps>>
  BY DEF deleteRemoved, loop
<1>2. Existing' = Existing \ {s} /\ s \in Existing
  BY <1>1 DEF Agreement, IInv, Queues, Existing
<1>3. Counts' /\ Listed' /\ Nested' /\ OpenStatesAgree'
  BY <1>1, <1>2, DeleteAgrees
<1>4. Control'
  BY <1>1 DEF Agreement, Control
<1> QED
  BY <1>3, <1>4 DEF Agreement

LEMMA OpenMergeAgrees ==
    ASSUME Agreement, IInv', NEW h \in Handlers, OpenMerge(h)
    PROVE  Agreement'
<1> DEFINE r == MergeHandler({current}, steps[current])
           top == Append(openMergeStack[current], h)
<1>1. /\ phase = "execute" /\ phase' = "timers" /\ ~Contains(mergeGroups, h)
      /\ mergeGroups' = Append(mergeGroups, h)
      /\ handler' = [handler EXCEPT ![h] = r]
      /\ openMergeStack' = [openMergeStack EXCEPT ![current] = top]
      /\ UNCHANGED <<mode, current, added, states, inCloseMerge, steps>>
  BY DEF OpenMerge, Executing, queues
<1>2. current \in States /\ current \in Existing /\ Existing' = Existing
  BY <1>1, ExistingAreStates DEF Agreement, IInv, Queues, Existing
<1>3. /\ handler \in [Handlers -> HandlerCounts] /\ steps \in [States -> Nat]
      /\ openMergeStack \in [States -> Seq(Handlers)]
      /\ mergeGroups \in Seq(Handlers)
  BY DEF Agreement, Counts, IInv, Types, Listed
<1>4. /\ r \in HandlerCounts /\ r.openStates = {current}
      /\ r.openInstruction = steps[current]
      /\ \A p \in Points : r.reachedCloseMerge[p] = {}
  <2>1. steps[current] \in Nat /\ {current} \in SUBSET States
    BY <1>2, <1>3
  <2> QED
    BY <2>1 DEF MergeHandler, HandlerCounts
<1>5. handler'[h] = r /\ \A g \in Handlers \ {h} : handler'[g] = handler[g]
  BY <1>1, <1>3
<1> HIDE DEF r
<1>6. Waiting(handler, h) = {}
  BY <1>1 DEF Agreement, Listed
<1>7. \A g \in Handlers : Waiting(handler', g) = Waiting(handler, g)
  BY <1>4, <1>5, <1>6 DEF Waiting
<1>8. /\ openMergeStack'[current] = top
      /\ \A x \in Existing \ {current} : openMergeStack'[x] = openMergeStack[x]
  BY <1>1, <1>2, <1>3, ExistingAreStates DEF Agreement
<1>9. \A x \in Existing : ~Contains(openMergeStack[x], h)
  BY <1>1 DEF Agreement, OpenStatesAgree
<1>10. /\ openMergeStack[current] \in Seq(Handlers) /\ Len(openMergeStack[current]) \in Nat
       /\ Len(top) = Len(openMergeStack[current]) + 1
       /\ \A i \in 1 .. Len(openMergeStack[current]) : top[i] = openMergeStack[current][i]
       /\ top[Len(openMergeStack[current]) + 1] = h
  BY <1>2, <1>3
<1>11. \A g : Contains(top, g) <=> Contains(openMergeStack[current], g) \/ g = h
  <2> DEFINE n == Len(openMergeStack[current])
  <2>1. n \in Nat /\ \A i : i \in 1 .. n + 1 <=> i \in 1 .. n \/ i = n + 1
    BY <1>10
  <2> HIDE DEF top
  <2> QED
    BY <1>10, <2>1 DEF Contains
<1> HIDE DEF top
<1>12. Counts'
  <2>1. handler' \in [Handlers -> HandlerCounts]
    BY <1>1, <1>3, <1>4
  <2>2. ASSUME NEW g \in Handlers, NEW x \in handler'[g].openStates
        PROVE  handler'[g].openInstruction <= steps'[x]
    <3>1. CASE g = h
      <4>1. x = current /\ steps[current] \in Nat
        BY <1>2, <1>3, <1>4, <1>5, <2>2, <3>1
      <4> QED
        BY <1>1, <1>4, <1>5, <3>1, <4>1
    <3>2. CASE g # h
      BY <1>1, <1>5, <2>2, <3>2 DEF Agreement, Counts
    <3> QED
      BY <3>1, <3>2
  <2> QED
    BY <1>1, <1>3, <2>1, <2>2 DEF Counts
<1>13. Listed'
  <2> DEFINE n == Len(mergeGroups)
  <2>1. /\ mergeGroups' \in Seq(Handlers) /\ n \in Nat /\ Len(mergeGroups') = n + 1
        /\ \A i \in 1 .. n : mergeGroups'[i] = mergeGroups[i]
        /\ mergeGroups'[n + 1] = h
    BY <1>1, <1>3
  <2>2. \A i : i \in 1 .. n + 1 <=> i \in 1 .. n \/ i = n + 1
    BY <2>1
  <2>3. /\ \A i \in 1 .. n : mergeGroups[i] # h
        /\ \A i, j \in 1 .. n : mergeGroups[i] = mergeGroups[j] => i = j
    BY <1>1 DEF Agreement, Listed, Distinct, Contains
  <2> HIDE DEF n
  <2>4. Distinct(mergeGroups')
    BY <2>1, <2>2, <2>3 DEF Distinct
  <2>5. \A g : Contains(mergeGroups, g) => Contains(mergeGroups', g)
    BY <2>1, <2>2 DEF Contains, n
  <2>6. AllWaiting(handler') = AllWaiting(handler)
    BY <1>7 DEF AllWaiting
  <2> QED
    BY <1>1, <1>7, <2>1, <2>4, <2>5, <2>6 DEF Agreement, Listed
<1>14. Nested'
  <2> SUFFICES ASSUME NEW s \in Existing, NEW t \in Existing,
                      NEW i \in 1 .. Len(openMergeStack'[s]), NEW j \in 1 .. Len(openMergeStack'[t]),
                      openMergeStack'[s][i] = openMergeStack'[t][j]
               PROVE  i = j /\ \A k \in 1 .. i : openMergeStack'[s][k] = openMergeStack'[t][k]
    BY <1>2 DEF Nested, SamePrefix
  <2> DEFINE n(x) == Len(openMergeStack[x])
  <2>1. ASSUME NEW x \in Existing
        PROVE  /\ n(x) \in Nat
               /\ Len(openMergeStack'[x]) = IF x = current THEN n(x) + 1 ELSE n(x)
               /\ \A k \in 1 .. n(x) : openMergeStack'[x][k] = openMergeStack[x][k]
               /\ x = current => openMergeStack'[x][n(x) + 1] = h
    BY <1>8, <1>10, ExistingAreStates DEF Agreement
  <2>2. ASSUME NEW x \in Existing, NEW k \in 1 .. Len(openMergeStack'[x])
        PROVE  openMergeStack'[x][k] = h <=> x = current /\ k = n(x) + 1
    <3>1. CASE k \in 1 .. n(x)
      <4>1. openMergeStack[x][k] # h
        BY <1>9, <3>1 DEF Contains
      <4> QED
        BY <2>1, <3>1, <4>1
    <3>2. CASE k \notin 1 .. n(x)
      <4>1. x = current /\ k = n(x) + 1
        BY <2>1, <2>2, <3>2
      <4> QED
        BY <2>1, <4>1
    <3> QED
      BY <3>1, <3>2
  <2>3. CASE openMergeStack'[s][i] = h
    <3>1. s = current /\ t = current /\ i = n(s) + 1 /\ j = n(t) + 1
      BY <2>2, <2>3
    <3> QED
      BY <3>1
  <2>4. CASE openMergeStack'[s][i] # h
    <3>1. i \in 1 .. n(s) /\ j \in 1 .. n(t)
      <4>1. ~(s = current /\ i = n(s) + 1) /\ ~(t = current /\ j = n(t) + 1)
        BY <2>2, <2>4
      <4> QED
        BY <2>1, <4>1
    <3>2. openMergeStack[s][i] = openMergeStack[t][j]
      BY <2>1, <3>1
    <3>3. i = j /\ \A k \in 1 .. i : openMergeStack[s][k] = openMergeStack[t][k]
      BY <3>1, <3>2 DEF Agreement, Nested, SamePrefix
    <3>4. \A k \in 1 .. i : k \in 1 .. n(s) /\ k \in 1 .. n(t)
      BY <2>1, <3>1, <3>3
    <3> QED
      BY <2>1, <3>3, <3>4
  <2> QED
    BY <2>3, <2>4
<1>15. OpenStatesAgree'
  <2> SUFFICES ASSUME NEW g \in Handlers
               PROVE  LET inside == {x \in Existing' : Contains(openMergeStack'[x], g)}
                      IN  /\ handler'[g].openStates = inside
                          /\ Contains(mergeGroups', g) <=> inside # {}
    BY DEF OpenStatesAgree
  <2> DEFINE before == {x \in Existing : Contains(openMergeStack[x], g)}
             inside == {x \in Existing' : Contains(openMergeStack'[x], g)}
  <2>1. handler[g].openStates = before /\ (Contains(mergeGroups, g) <=> before # {})
    BY DEF Agreement, OpenStatesAgree
  <2>2. inside = IF g = h THEN {current} ELSE before
    <3>1. CASE g = h
      <4>1. \A x \in Existing : Contains(openMergeStack'[x], g) <=> x = current
        BY <1>8, <1>9, <1>11, <3>1
      <4> QED
        BY <1>2, <3>1, <4>1
    <3>2. CASE g # h
      <4>1. \A x \in Existing : Contains(openMergeStack'[x], g) <=> Contains(openMergeStack[x], g)
        BY <1>8, <1>11, <3>2
      <4> QED
        BY <1>2, <3>2, <4>1
    <3> QED
      BY <3>1, <3>2
  <2>3. Contains(mergeGroups', g) <=> Contains(mergeGroups, g) \/ g = h
    <3> DEFINE n == Len(mergeGroups)
    <3>1. /\ n \in Nat /\ Len(mergeGroups') = n + 1
          /\ \A i \in 1 .. n : mergeGroups'[i] = mergeGroups[i]
          /\ mergeGroups'[n + 1] = h
      BY <1>1, <1>3
    <3>2. \A i : i \in 1 .. n + 1 <=> i \in 1 .. n \/ i = n + 1
      BY <3>1
    <3> QED
      BY <3>1, <3>2 DEF Contains
  <2> HIDE DEF before, inside
  <2>4. handler'[g].openStates = inside
    BY <1>4, <1>5, <2>1, <2>2
  <2>5. Contains(mergeGroups', g) <=> inside # {}
    BY <2>1, <2>2, <2>3
  <2> QED
    BY <2>4, <2>5 DEF inside
<1>16. Control'
  BY <1>1 DEF Agreement, Control
<1> QED
  BY <1>12, <1>13, <1>14, <1>15, <1>16 DEF Agreement

(* klee_close_merge at p: hs are the handlers after the current state      *)
(* closed its innermost region h and came to wait there, or merged with a  *)
(* state that waits, and before h is dropped.                              *)
Closes(h, hs) ==
    /\ h = Last(openMergeStack[current]) /\ h \in Handlers
    /\ hs \in [Handlers -> HandlerCounts]
    /\ hs[h].openStates = handler[h].openStates \ {current}
    /\ hs[h].openInstruction = handler[h].openInstruction
    /\ \A g \in Handlers \ {h} : hs[g] = handler[g]
    /\ \/ /\ Waiting(hs, h) = Waiting(handler, h) \cup {current}
          /\ Unref(hs, <<h>>, Existing \ {current}, inCloseMerge \cup {current},
                   IF current \in continued THEN paused ELSE paused \cup {current},
                   continued \ {current})
          /\ removed' = removed
       \/ /\ Waiting(hs, h) = Waiting(handler, h)
          /\ Unref(hs, <<h>>, Existing \ {current}, inCloseMerge \ {current},
                   paused, continued)
          /\ removed' = [removed EXCEPT ![current] = removed[current] + 1]

LEMMA CloseMergeCloses ==
    ASSUME Agreement, NEW p \in Points, CloseMerge(p)
    PROVE  /\ phase = "execute" /\ added = {} /\ current \notin Removed
           /\ openMergeStack[current] # << >> /\ current \notin inCloseMerge
           /\ openMergeStack' = [openMergeStack EXCEPT ![current] = Front(openMergeStack[current])]
           /\ phase' = "timers"
           /\ UNCHANGED <<mode, current, added, born, states, searcher, seeded, steps>>
           /\ \E h, hs : Closes(h, hs)
<1> DEFINE h == Last(openMergeStack[current])
           closed == [handler[h] EXCEPT
                        !.openStates = handler[h].openStates \ {current},
                        !.closedStateCount = handler[h].closedStateCount + 1,
                        !.distances = handler[h].distances
                                        + (steps[current] - handler[h].openInstruction)]
           waits == [closed EXCEPT !.reachedCloseMerge[p] = closed.reachedCloseMerge[p]
                                                             \cup {current}]
           ps == IF current \in continued THEN paused ELSE paused \cup {current}
           cs == continued \ {current}
<1>1. /\ phase = "execute" /\ added = {} /\ current \notin Removed
      /\ openMergeStack[current] # << >> /\ current \notin inCloseMerge
      /\ IsOpenIn(current, {h})
      /\ openMergeStack' = [openMergeStack EXCEPT ![current] = Front(openMergeStack[current])]
      /\ phase' = "timers"
      /\ UNCHANGED <<mode, current, added, born, states, searcher, seeded, steps>>
  BY DEF CloseMerge, Executing
<1>2. \/ /\ Unref([handler EXCEPT ![h] = waits], <<h>>, Existing \ {current},
                  inCloseMerge \cup {current}, ps, cs)
         /\ removed' = removed
      \/ /\ Unref([handler EXCEPT ![h] = closed], <<h>>, Existing \ {current},
                  inCloseMerge \ {current}, paused, continued)
         /\ removed' = [removed EXCEPT ![current] = removed[current] + 1]
  BY DEF CloseMerge
<1>3. current \in States
  BY <1>1 DEF Agreement, IInv, Queues, Lists, Existing, Types
<1>4. h \in Handlers /\ handler \in [Handlers -> HandlerCounts]
  BY <1>1, <1>3, InFront DEF Agreement, IInv, Types, Counts
<1> HIDE DEF h
<1>5. /\ handler[h] \in HandlerCounts
      /\ handler[h].openStates \ {current} \in SUBSET States
      /\ handler[h].closedStateCount + 1 \in Nat
      /\ handler[h].distances + (steps[current] - handler[h].openInstruction) \in Nat
  <2> DEFINE r == handler[h]
             n == steps[current]
  <2>1. r \in HandlerCounts /\ n \in Nat
    BY <1>3, <1>4 DEF Agreement, Counts
  <2>2. r.openInstruction <= n
    BY <1>1, <1>4 DEF IsOpenIn, Agreement, Counts
  <2> HIDE DEF r, n
  <2>3. /\ r.openStates \ {current} \in SUBSET States
        /\ r.closedStateCount + 1 \in Nat
        /\ r.distances \in Nat /\ r.openInstruction \in Nat
    BY <2>1 DEF HandlerCounts
  <2>4. r.distances + (n - r.openInstruction) \in Nat
    BY <2>1, <2>2, <2>3
  <2> QED
    BY <2>1, <2>3, <2>4 DEF r, n
<1>6. /\ closed \in HandlerCounts /\ closed.openStates = handler[h].openStates \ {current}
      /\ closed.openInstruction = handler[h].openInstruction
      /\ closed.reachedCloseMerge = handler[h].reachedCloseMerge
  <2> DEFINE r == handler[h]
             S == handler[h].openStates \ {current}
             n == handler[h].closedStateCount + 1
             d == handler[h].distances + (steps[current] - handler[h].openInstruction)
  <2>1. r \in HandlerCounts /\ S \in SUBSET States /\ n \in Nat /\ d \in Nat
    BY <1>5
  <2>2. closed = [r EXCEPT !.openStates = S, !.closedStateCount = n, !.distances = d]
    OBVIOUS
  <2> HIDE DEF r, S, n, d, closed
  <2>3. closed \in HandlerCounts /\ closed.openStates = S
        /\ closed.openInstruction = r.openInstruction
        /\ closed.reachedCloseMerge = r.reachedCloseMerge
    BY <2>1, <2>2 DEF HandlerCounts
  <2> QED
    BY <2>3 DEF r, S
<1> HIDE DEF closed
<1>7. /\ waits \in HandlerCounts /\ waits.openStates = closed.openStates
      /\ waits.openInstruction = closed.openInstruction
      /\ UNION {waits.reachedCloseMerge[x] : x \in Points} = Waiting(handler, h) \cup {current}
  <2> DEFINE c == closed
             f == [c.reachedCloseMerge EXCEPT ![p] = c.reachedCloseMerge[p] \cup {current}]
  <2>1. waits = [c EXCEPT !.reachedCloseMerge = f]
    OBVIOUS
  <2>2. /\ f \in [Points -> SUBSET States]
        /\ f[p] = closed.reachedCloseMerge[p] \cup {current}
        /\ \A x \in Points \ {p} : f[x] = closed.reachedCloseMerge[x]
    BY <1>3, <1>6 DEF HandlerCounts
  <2>3. c \in HandlerCounts
    BY <1>6
  <2> HIDE DEF f, c, waits
  <2>4. /\ waits \in HandlerCounts /\ waits.openStates = c.openStates
        /\ waits.openInstruction = c.openInstruction /\ waits.reachedCloseMerge = f
    BY <2>1, <2>2, <2>3 DEF HandlerCounts
  <2>5. \A y : y \in UNION {f[x] : x \in Points}
                 <=> y \in Waiting(handler, h) \/ y = current
    BY <1>6, <2>2 DEF Waiting
  <2> QED
    BY <1>6, <2>4, <2>5 DEF c
<1> HIDE DEF waits, ps, cs
<1>8. CASE /\ Unref([handler EXCEPT ![h] = waits], <<h>>, Existing \ {current},
                  inCloseMerge \cup {current}, ps, cs)
           /\ removed' = removed
  <2> DEFINE hs == [handler EXCEPT ![h] = waits]
  <2>1. /\ hs \in [Handlers -> HandlerCounts] /\ hs[h] = waits
        /\ \A g \in Handlers \ {h} : hs[g] = handler[g]
    BY <1>4, <1>7
  <2>2. Unref(hs, <<h>>, Existing \ {current}, inCloseMerge \cup {current}, ps, cs)
    BY <1>8
  <2> HIDE DEF hs
  <2>3. Waiting(hs, h) = Waiting(handler, h) \cup {current}
    BY <1>7, <2>1 DEF Waiting
  <2>4. Closes(h, hs)
    BY <1>4, <1>6, <1>7, <1>8, <2>1, <2>2, <2>3 DEF Closes, h, ps, cs
  <2> QED
    BY <1>1, <2>4
<1>9. CASE /\ Unref([handler EXCEPT ![h] = closed], <<h>>, Existing \ {current},
                  inCloseMerge \ {current}, paused, continued)
           /\ removed' = [removed EXCEPT ![current] = removed[current] + 1]
  <2> DEFINE hs == [handler EXCEPT ![h] = closed]
  <2>1. /\ hs \in [Handlers -> HandlerCounts] /\ hs[h] = closed
        /\ \A g \in Handlers \ {h} : hs[g] = handler[g]
    BY <1>4, <1>6
  <2>2. Unref(hs, <<h>>, Existing \ {current}, inCloseMerge \ {current}, paused, continued)
    BY <1>9
  <2> HIDE DEF hs
  <2>3. Waiting(hs, h) = Waiting(handler, h)
    BY <1>6, <2>1 DEF Waiting
  <2>4. Closes(h, hs)
    BY <1>4, <1>6, <1>9, <2>1, <2>2, <2>3 DEF Closes, h
  <2> QED
    BY <1>1, <2>4
<1> QED
  BY <1>2, <1>8, <1>9

LEMMA CloseMergeAgrees ==
    ASSUME Agreement, IInv', NEW p \in Points, CloseMerge(p)
    PROVE  Agreement'
<1>1. /\ phase = "execute" /\ openMergeStack[current] # << >>
      /\ openMergeStack' = [openMergeStack EXCEPT ![current] = Front(openMergeStack[current])]
      /\ phase' = "timers" /\ current \notin inCloseMerge
      /\ UNCHANGED <<mode, current, added, states, steps>>
  BY CloseMergeCloses
<1>2. PICK h, hs : Closes(h, hs)
  BY CloseMergeCloses
<1>3. current \in Existing /\ current \in States /\ Existing' = Existing
  BY <1>1, ExistingAreStates DEF Agreement, IInv, Queues, Existing
<1> DEFINE q == openMergeStack[current]
           n == Len(q)
           dropped == <<h>>
<1>4. /\ q \in Seq(Handlers) /\ n \in Nat \ {0} /\ h = q[n]
      /\ Front(q) \in Seq(Handlers) /\ Len(Front(q)) = n - 1
      /\ \A i \in 1 .. n - 1 : Front(q)[i] = q[i]
  BY <1>1, <1>2, <1>3, ExistingAreStates, InFront DEF Agreement, Closes
<1>5. /\ openMergeStack'[current] = Front(q)
      /\ \A x \in Existing \ {current} : openMergeStack'[x] = openMergeStack[x]
  BY <1>1, <1>3, ExistingAreStates DEF Agreement, IInv, Types
<1>6. Distinct(q)
  BY <1>3, StacksDistinct
<1>7. /\ dropped \in Seq(Handlers) /\ Distinct(dropped)
      /\ \A g : Contains(dropped, g) <=> g = h
  BY <1>2 DEF Closes, Distinct, Contains
<1> HIDE DEF dropped, q, n
<1>8. \A g : Contains(Front(q), g) <=> Contains(q, g) /\ g # h
  <2>1. \A i : i \in 1 .. n <=> i \in 1 .. n - 1 \/ i = n
    BY <1>4
  <2>2. \A i \in 1 .. n - 1 : q[i] # h
    BY <1>4, <1>6, <2>1 DEF Distinct, n
  <2> QED
    BY <1>4, <2>1, <2>2 DEF Contains, n
<1>9. /\ openMergeStack'[current] \in Seq(Handlers)
      /\ Len(openMergeStack'[current]) <= Len(openMergeStack[current])
      /\ SamePrefix(openMergeStack'[current], openMergeStack[current],
                    Len(openMergeStack'[current]))
  BY <1>4, <1>5 DEF q, n, SamePrefix
<1>10. Contains(q, h)
  BY <1>4 DEF Contains, n
<1>11. \A g : /\ Contains(dropped, g) => Contains(openMergeStack[current], g)
              /\ current \in Existing' /\ Contains(openMergeStack'[current], g)
                    <=> Contains(openMergeStack[current], g) /\ ~Contains(dropped, g)
  BY <1>3, <1>5, <1>7, <1>8, <1>10 DEF q
<1>12. h \in Handlers /\ Contains(mergeGroups, h)
  BY <1>2, <1>3, <1>10 DEF Closes, Agreement, OpenStatesAgree, q
<1>13. \A g \in Handlers :
         /\ hs[g].openStates = handler[g].openStates
                                 \ (IF Contains(dropped, g) THEN {current} ELSE {})
         /\ hs[g].openInstruction = handler[g].openInstruction
         /\ ~Contains(mergeGroups, g) => Waiting(hs, g) = {}
  BY <1>2, <1>7, <1>12 DEF Closes, Agreement, Listed, Waiting
<1>14. hs \in [Handlers -> HandlerCounts]
  BY <1>2 DEF Closes
<1>15. Existing' \subseteq Existing /\ Existing \ {current} \subseteq Existing' /\ steps' = steps
  BY <1>1, <1>3
<1>16. \A x : x \in AllWaiting(handler) => x \in AllWaiting(hs)
  BY <1>2 DEF Closes, AllWaiting, Waiting
<1>17. \E closed, ps, cs : closed \subseteq AllWaiting(hs)
                           /\ Unref(hs, dropped, Existing \ {current}, closed, ps, cs)
  <2>1. CASE Waiting(hs, h) = Waiting(handler, h) \cup {current}
             /\ Unref(hs, dropped, Existing \ {current}, inCloseMerge \cup {current},
                      IF current \in continued THEN paused ELSE paused \cup {current},
                      continued \ {current})
    <3>1. current \in AllWaiting(hs)
      BY <1>12, <2>1 DEF AllWaiting
    <3>2. inCloseMerge \cup {current} \subseteq AllWaiting(hs)
      BY <1>16, <3>1 DEF Agreement, Listed
    <3> QED
      BY <2>1, <3>2
  <2>2. CASE Unref(hs, dropped, Existing \ {current}, inCloseMerge \ {current},
                   paused, continued)
    <3>1. inCloseMerge \ {current} \subseteq AllWaiting(hs)
      BY <1>16 DEF Agreement, Listed
    <3> QED
      BY <2>2, <3>1
  <2> QED
    BY <1>2, <2>1, <2>2 DEF Closes, dropped
<1>18. PICK closed, ps, cs : closed \subseteq AllWaiting(hs)
                             /\ Unref(hs, dropped, Existing \ {current}, closed, ps, cs)
  BY <1>17
<1>19. Counts' /\ Listed' /\ Nested' /\ OpenStatesAgree'
  BY <1>3, <1>5, <1>7, <1>9, <1>11, <1>13, <1>14, <1>15, <1>18, LeaveAgrees
<1>20. Control'
  BY <1>1 DEF Agreement, Control
<1> QED
  BY <1>19, <1>20 DEF Agreement

LEMMA InitAgrees == Init => Agreement
<1> SUFFICES ASSUME Init PROVE Agreement
  OBVIOUS
<1>1. PICK s \in States :
        /\ mode = IF Seeding THEN "seeding" ELSE "running"
        /\ phase = "select" /\ current = NoState
        /\ states = {s} /\ added = {}
        /\ steps = [t \in States |-> 0]
        /\ openMergeStack = [t \in States |-> << >>]
        /\ mergeGroups = << >> /\ inCloseMerge = {}
        /\ handler = [h \in Handlers |-> NoHandler]
  BY DEF Init
<1>2. \A q : ~Contains(<< >>, q)
  BY DEF Contains
<1>3. \A h \in Handlers : Waiting(handler, h) = {}
  BY <1>1, NoCounts DEF Waiting
<1>4. \A t \in Existing : openMergeStack[t] = << >>
  BY <1>1 DEF Existing
<1>5. Counts
  BY <1>1, NoCounts DEF Counts
<1>6. Listed
  BY <1>1, <1>3 DEF Listed, Distinct
<1>7. Nested
  BY <1>4 DEF Nested
<1>8. OpenStatesAgree
  <2>1. ASSUME NEW h \in Handlers
        PROVE  {x \in Existing : Contains(openMergeStack[x], h)} = {}
    BY <1>2, <1>4
  <2> QED
    BY <1>1, <1>2, <2>1, NoCounts DEF OpenStatesAgree
<1> QED
  BY <1>1, <1>5, <1>6, <1>7, <1>8, InitHolds DEF Agreement, Control

(* The steps that leave the regions alone. *)
LEMMA QuietSteps ==
    ASSUME Agreement, IInv',
           \/ SelectSeeded \/ BeginSearch \/ SelectState \/ Executed \/ processTimers
           \/ checkMemoryUsage \/ updateSearcher \/ reschedule \/ Stop \/ UNCHANGED vars
    PROVE  Agreement'
<1>1. /\ steps \in [States -> Nat] /\ Control
      /\ \A s \in States : steps[s] \in Nat /\ steps[s] <= steps[s]
  BY DEF Agreement, Counts
<1>2. CASE SelectSeeded \/ SelectState
  <2>1. PICK s \in States : Execute(s)
    BY <1>2 DEF SelectSeeded, SelectState, Agreement, IInv, SeedsHaveStates, Lists, Types
  <2>2. UNCHANGED merging /\ UNCHANGED <<mode, states, added>>
        /\ phase' = "execute" /\ current' = s
        /\ steps' = [steps EXCEPT ![s] = steps[s] + 1]
    BY <1>2, <2>1 DEF SelectSeeded, SelectState, Execute
  <2>3. Existing' = Existing /\ Control'
    BY <1>1, <2>2 DEF Existing, Control
  <2>4. steps' \in [States -> Nat] /\ \A x \in States : steps[x] <= steps'[x]
    BY <1>1, <2>2
  <2> QED
    BY <2>2, <2>3, <2>4, QuietAgrees
<1>3. CASE BeginSearch
  <2>1. UNCHANGED merging /\ UNCHANGED <<steps, phase, current>> /\ mode' = "running"
        /\ Existing' = Existing
    BY <1>3 DEF BeginSearch, queues, Existing
  <2>2. Control'
    BY <1>1, <2>1 DEF Control
  <2> QED
    BY <1>1, <2>1, <2>2, QuietAgrees
<1>4. CASE Executed \/ processTimers \/ checkMemoryUsage \/ updateSearcher
  <2>1. UNCHANGED merging /\ UNCHANGED <<steps, mode, current>> /\ Existing' = Existing
    BY <1>4 DEF Executed, processTimers, checkMemoryUsage, updateSearcher, queues, Existing
  <2>2. phase' \in {"timers", "memory", "update", "delete"}
    BY <1>4 DEF Executed, processTimers, checkMemoryUsage, updateSearcher
  <2>3. Control'
    BY <1>1, <2>1, <2>2 DEF Control
  <2> QED
    BY <1>1, <2>1, <2>3, QuietAgrees
<1>5. CASE reschedule
  <2>1. UNCHANGED merging /\ UNCHANGED <<steps, mode>> /\ Existing' = Existing
        /\ phase' \in {"done", "select"} /\ current' = NoState
    BY <1>5 DEF reschedule, Existing
  <2>2. Control'
    BY <1>1, <2>1 DEF Control
  <2> QED
    BY <1>1, <2>1, <2>2, QuietAgrees
<1>6. CASE Stop
  <2>1. UNCHANGED merging /\ UNCHANGED <<steps, current>> /\ Existing' = Existing
        /\ mode' = "halting" /\ phase' = "delete"
    BY <1>6 DEF Stop, Existing
  <2>2. Control'
    BY <1>1, <2>1 DEF Control
  <2> QED
    BY <1>1, <2>1, <2>2, QuietAgrees
<1>7. CASE UNCHANGED vars
  <2>1. UNCHANGED merging /\ UNCHANGED <<steps, mode, phase, current>> /\ Existing' = Existing
    BY <1>7 DEF vars, loop, queues, Existing
  <2>2. Control'
    BY <1>1, <2>1 DEF Control
  <2> QED
    BY <1>1, <2>1, <2>2, QuietAgrees
<1> QED
  BY <1>2, <1>3, <1>4, <1>5, <1>6, <1>7

LEMMA NextAgrees == ASSUME Agreement, [Next]_vars PROVE Agreement'
<1>1. IInv'
  BY NextKeeps DEF Agreement
<1>2. CASE SelectMerging
  BY <1>1, <1>2, SelectMergingAgrees
<1>3. CASE \E s, t \in States : Fork(s, t)
  BY <1>1, <1>3, ForkAgrees
<1>4. CASE \E s \in States : Terminate(s)
  BY <1>1, <1>4, TerminateAgrees
<1>5. CASE \E h \in Handlers : OpenMerge(h)
  BY <1>1, <1>5, OpenMergeAgrees
<1>6. CASE \E p \in Points : CloseMerge(p)
  BY <1>1, <1>6, CloseMergeAgrees
<1>7. CASE \E s \in States : deleteRemoved(s)
  BY <1>1, <1>7, deleteRemovedAgrees
<1>8. CASE \/ SelectSeeded \/ BeginSearch \/ SelectState \/ Executed \/ processTimers
           \/ checkMemoryUsage \/ updateSearcher \/ reschedule \/ Stop \/ UNCHANGED vars
  BY <1>1, <1>8, QuietSteps
<1> QED
  BY <1>2, <1>3, <1>4, <1>5, <1>6, <1>7, <1>8 DEF Next, Step, Done

(* The regions, the stacks of the states and the lists of the handlers fit *)
(* together at every step, whatever the limits kill.                       *)
THEOREM AgreementAlways == Spec => []Agreement
<1>1. Init => Agreement
  BY InitAgrees
<1>2. Agreement /\ [Next]_vars => Agreement'
  BY NextAgrees
<1> QED
  BY <1>1, <1>2, PTL DEF Spec

(* Every variable keeps its type; a distance between the instructions that *)
(* open and close a region is never negative.                              *)
THEOREM TypesRight == Spec => []TypeOK
<1>1. Agreement => TypeOK
  BY AgreementTypes
<1> QED
  BY <1>1, AgreementAlways, PTL

(* A MergeHandler's openStates are the states with it on their             *)
(* openMergeStack, and it is registered in mergeGroups as long as there is *)
(* one, with every option: the assertion of removeOpenState never fails,   *)
(* and the last state that leaves a region releases those that wait.       *)
THEOREM OpenStatesAlwaysAgree == Spec => []OpenStatesAgree
<1>1. Agreement => OpenStatesAgree
  BY DEF Agreement
<1> QED
  BY <1>1, AgreementAlways, PTL

-----------------------------------------------------------------------------
(***************************************************************************)
(* What holds when nothing kills states but the program: no limit on time  *)
(* or memory, and no seeding phase, which runs states the searcher does    *)
(* not hold.                                                               *)
(***************************************************************************)
NoLimits == ~Seeding /\ ~InstructionTime /\ ~MemoryLimit

(* Where h is on a stack, what is below it is the stack of the states that *)
(* wait in h.                                                              *)
WaitersNested ==
    \A h \in Handlers : \A w \in Waiting(handler, h), s \in Existing :
        \A i \in 1 .. Len(openMergeStack[s]) :
            openMergeStack[s][i] = h =>
                /\ Len(openMergeStack[w]) = i - 1
                /\ SamePrefix(openMergeStack[w], openMergeStack[s], i - 1)

(* Every state is in the searcher, or about to be, unless it waits.        *)
Holds(se, ps, cs, st, closed, gone) ==
    /\ closed \subseteq st /\ gone \cap closed = {} /\ ps \subseteq closed \cap se
    /\ (se \cup cs) \ ps = st \ (closed \cup gone)

Gone == IF phase = "delete" THEN Removed ELSE {}

Live ==
    /\ Holds(searcher, paused, continued, states, inCloseMerge, Gone)
    /\ Removed \cap inCloseMerge = {}
    /\ phase = "execute" => current \notin inCloseMerge
    /\ phase = "select" => paused = {} /\ continued = {}
    /\ WaitersNested

Scheduled ==
    /\ IsFiniteSet(born)
    /\ mode # "seeding"
    /\ mode = "running" => Live
    /\ mode = "halting" => phase \in {"delete", "done"} /\ (MayHalt \/ states = {})

(* Releases move states from closed to where the searcher gets them.       *)
LEMMA ReleasesHold ==
    ASSUME NEW se, NEW ps, NEW cs, NEW st, NEW closed, NEW gone, NEW ws,
           Holds(se, ps, cs, st, closed, gone), ws \subseteq closed,
           continueState(ps, cs, ws)
    PROVE  Holds(se, paused', continued', st, closed \ ws, gone)
<1>1. paused' = ps \ ws /\ continued' = cs \cup (ws \ ps)
  BY DEF continueState
<1>2. /\ closed \ ws \subseteq st /\ gone \cap (closed \ ws) = {}
      /\ paused' \subseteq (closed \ ws) \cap se
  BY <1>1 DEF Holds
<1>3. ASSUME NEW x
      PROVE  x \in (se \cup continued') \ paused' <=> x \in st \ ((closed \ ws) \cup gone)
  BY <1>1 DEF Holds
<1> QED
  BY <1>2, <1>3 DEF Holds

LEMMA UnrefHolds ==
    ASSUME NEW hs, NEW dropped, NEW others, NEW closed, NEW ps, NEW cs, NEW gone,
           Unref(hs, dropped, others, closed, ps, cs), AllWaiting(hs) \subseteq closed,
           Holds(searcher, ps, cs, states, closed, gone)
    PROVE  /\ Holds(searcher, paused', continued', states, inCloseMerge', gone)
           /\ inCloseMerge' \subseteq closed
<1> DEFINE ws == UNION {Waiting(hs, h) : h \in Destroyed(dropped, others)}
<1>1. inCloseMerge' = closed \ ws /\ continueState(ps, cs, ws)
  BY DEF Unref
<1>2. ws \subseteq AllWaiting(hs)
  BY DEF AllWaiting, Destroyed
<1> HIDE DEF ws
<1> QED
  BY <1>1, <1>2, ReleasesHold

(* Stacks that shrink leave what waits where it is. *)
LEMMA WaitersNestedFrom ==
    ASSUME WaitersNested, NEW from,
           \A x \in Existing' :
              /\ from[x] \in Existing
              /\ Len(openMergeStack'[x]) \in Nat /\ Len(openMergeStack[from[x]]) \in Nat
              /\ Len(openMergeStack'[x]) <= Len(openMergeStack[from[x]])
              /\ SamePrefix(openMergeStack'[x], openMergeStack[from[x]], Len(openMergeStack'[x])),
           \A h \in Handlers : \A w \in Waiting(handler', h) :
              w \in Waiting(handler, h) /\ openMergeStack'[w] = openMergeStack[w]
    PROVE  WaitersNested'
<1> SUFFICES ASSUME NEW h \in Handlers, NEW w \in Waiting(handler', h), NEW s \in Existing',
                    NEW i \in 1 .. Len(openMergeStack'[s]), openMergeStack'[s][i] = h
             PROVE  /\ Len(openMergeStack'[w]) = i - 1
                    /\ SamePrefix(openMergeStack'[w], openMergeStack'[s], i - 1)
  BY DEF WaitersNested, SamePrefix
<1> DEFINE q == openMergeStack[from[s]]
           r == openMergeStack'[s]
<1>1. /\ from[s] \in Existing /\ i \in 1 .. Len(q) /\ Len(r) \in Nat
      /\ \A k \in 1 .. Len(r) : r[k] = q[k]
  BY DEF SamePrefix
<1>2. w \in Waiting(handler, h) /\ openMergeStack'[w] = openMergeStack[w] /\ q[i] = h
  BY <1>1
<1>3. Len(openMergeStack[w]) = i - 1 /\ \A k \in 1 .. i - 1 : openMergeStack[w][k] = q[k]
  BY <1>1, <1>2 DEF WaitersNested, SamePrefix
<1>4. i \in 1 .. Len(r)
  OBVIOUS
<1> HIDE DEF q, r
<1>5. \A k \in 1 .. i - 1 : k \in 1 .. Len(r)
  BY <1>1, <1>4
<1>6. \A k \in 1 .. i - 1 : openMergeStack'[w][k] = r[k]
  BY <1>1, <1>2, <1>3, <1>5
<1> QED
  BY <1>2, <1>3, <1>6 DEF SamePrefix, r

(* A step that changes no region and no handler. *)
LEMMA QuietNested ==
    ASSUME WaitersNested, UNCHANGED <<openMergeStack, handler>>, Existing' = Existing
    PROVE  WaitersNested'
BY DEF WaitersNested, SamePrefix, Waiting

LEMMA WaitersAll == ASSUME Agreement PROVE inCloseMerge = AllWaiting(handler)
BY DEF Agreement, IInv, Regions, Listed

(* A state is deleted that does not wait. *)
LEMMA DeleteNested ==
    ASSUME Agreement, WaitersNested, NEW s \in Existing, s \notin inCloseMerge, Delete(s),
           Existing' = Existing \ {s}
    PROVE  WaitersNested'
<1>1. /\ openMergeStack' = [openMergeStack EXCEPT ![s] = << >>]
      /\ \A h \in Handlers : Waiting(handler', h) \subseteq Waiting(handler, h)
  <2> DEFINE G == Destroyed(openMergeStack[s], Existing \ {s})
             hs == [h \in Handlers |->
                      IF h \in ToSet(openMergeStack[s])
                      THEN [handler[h] EXCEPT !.openStates = handler[h].openStates \ {s}]
                      ELSE handler[h]]
  <2>1. /\ openMergeStack' = [openMergeStack EXCEPT ![s] = << >>]
        /\ handler' = [h \in Handlers |-> IF h \in G THEN NoHandler ELSE hs[h]]
    BY DEF Delete, Unref
  <2>2. \A h \in Handlers : hs[h].reachedCloseMerge = handler[h].reachedCloseMerge
    <3> SUFFICES ASSUME NEW h \in Handlers
                 PROVE  hs[h].reachedCloseMerge = handler[h].reachedCloseMerge
      OBVIOUS
    <3>1. handler[h] \in HandlerCounts
      BY DEF Agreement, Counts
    <3> QED
      BY <3>1 DEF HandlerCounts
  <2> HIDE DEF G, hs
  <2>3. \A h \in Handlers : handler'[h] = NoHandler \/ handler'[h] = hs[h]
    BY <2>1
  <2> QED
    BY <2>1, <2>2, <2>3, NoCounts DEF Waiting
<1> DEFINE from == [x \in Existing' |-> x]
<1>2. \A x \in Existing' : openMergeStack'[x] = openMergeStack[x] /\ from[x] = x
                           /\ Len(openMergeStack[x]) \in Nat
  BY <1>1, ExistingAreStates DEF Agreement, IInv, Types
<1>3. \A x \in Existing' :
         /\ from[x] \in Existing
         /\ Len(openMergeStack'[x]) \in Nat /\ Len(openMergeStack[from[x]]) \in Nat
         /\ Len(openMergeStack'[x]) <= Len(openMergeStack[from[x]])
         /\ SamePrefix(openMergeStack'[x], openMergeStack[from[x]], Len(openMergeStack'[x]))
  BY <1>2 DEF SamePrefix
<1>4. ASSUME NEW h \in Handlers, NEW w \in Waiting(handler', h)
      PROVE  w \in Waiting(handler, h) /\ openMergeStack'[w] = openMergeStack[w]
  <2>1. w \in Waiting(handler, h) /\ w \in inCloseMerge
    BY <1>1, WaitersAll DEF AllWaiting
  <2>2. w # s /\ w \in States
    BY <2>1 DEF Agreement, IInv, Lists, Types
  <2> QED
    BY <1>1, <2>1, <2>2 DEF Agreement, IInv, Types
<1> HIDE DEF from
<1> QED
  BY <1>3, <1>4, WaitersNestedFrom

LEMMA DeleteHolds ==
    ASSUME Agreement, NEW s \in Existing, Delete(s), NEW gone,
           Holds(searcher, paused, continued, states, inCloseMerge, gone)
    PROVE  /\ Holds(searcher, paused', continued', states, inCloseMerge', gone)
           /\ inCloseMerge' \subseteq inCloseMerge
<1> DEFINE hs == [h \in Handlers |->
                    IF h \in ToSet(openMergeStack[s])
                    THEN [handler[h] EXCEPT !.openStates = handler[h].openStates \ {s}]
                    ELSE handler[h]]
<1>1. Unref(hs, openMergeStack[s], Existing \ {s}, inCloseMerge, paused, continued)
  BY DEF Delete
<1>2. \A h \in Handlers : hs[h].reachedCloseMerge = handler[h].reachedCloseMerge
  <2> SUFFICES ASSUME NEW h \in Handlers
               PROVE  hs[h].reachedCloseMerge = handler[h].reachedCloseMerge
    OBVIOUS
  <2>1. handler[h] \in HandlerCounts
    BY DEF Agreement, Counts
  <2> QED
    BY <2>1 DEF HandlerCounts
<1> HIDE DEF hs
<1>3. AllWaiting(hs) \subseteq inCloseMerge
  BY <1>2, WaitersAll DEF AllWaiting, Waiting
<1> QED
  BY <1>1, <1>3, UnrefHolds

-----------------------------------------------------------------------------
(* The steps of a run without limits. *)

LEMMA SelectStateLive ==
    ASSUME Agreement, mode = "running", Live, SelectState
    PROVE  Live' /\ mode' = "running" /\ UNCHANGED born
<1>1. PICK s \in searcher : Execute(s)
  BY DEF SelectState
<1>2. /\ phase = "select" /\ phase' = "execute" /\ current' = s
      /\ UNCHANGED <<mode, born, states, added, removed, searcher, seeded, paused, continued>>
      /\ UNCHANGED <<openMergeStack, mergeGroups, inCloseMerge, handler>>
  BY <1>1 DEF SelectState, Execute, merging
<1>3. Removed' = Removed /\ Existing' = Existing
  BY <1>2 DEF Removed, Existing
<1>4. Holds(searcher, paused, continued, states, inCloseMerge, {}) /\ paused = {}
  BY <1>2 DEF Live, Gone
<1>5. s \notin inCloseMerge
  BY <1>4 DEF Holds
<1>6. WaitersNested'
  BY <1>2, <1>3, QuietNested DEF Live
<1>7. Holds(searcher, paused, continued, states, inCloseMerge, Gone)'
  BY <1>2, <1>4 DEF Holds, Gone
<1> QED
  BY <1>2, <1>3, <1>5, <1>6, <1>7 DEF Live

LEMMA SelectMergingLive ==
    ASSUME Agreement, mode = "running", Live, SelectMerging
    PROVE  Live' /\ mode' = "running" /\ UNCHANGED born
<1>1. PICK i \in 1 .. Len(mergeGroups) + 1, G \in SUBSET Handlers :
        LET released == UNION {Waiting(handler, h) : h \in G}
        IN  /\ \/ \E s \in searcher : Execute(s)
               \/ \E s : s \notin inCloseMerge \ released /\ Execute(s)
            /\ handler' = [h \in Handlers |-> IF h \in G
                             THEN [handler[h] EXCEPT !.reachedCloseMerge =
                                                        [p \in Points |-> {}]]
                             ELSE handler[h]]
            /\ inCloseMerge' = inCloseMerge \ released
            /\ continueState(paused, continued, released)
  BY DEF SelectMerging, Prioritized
<1> DEFINE released == UNION {Waiting(handler, h) : h \in G}
<1>2. PICK s : Execute(s) /\ (s \in searcher \/ s \notin inCloseMerge \ released)
  BY <1>1
<1>3. /\ phase = "select" /\ phase' = "execute" /\ current' = s
      /\ UNCHANGED <<mode, born, states, added, removed, searcher, seeded>>
      /\ UNCHANGED <<openMergeStack, mergeGroups>>
  BY <1>2 DEF SelectMerging, Execute
<1>4. Removed' = Removed /\ Existing' = Existing
  BY <1>3 DEF Removed, Existing
<1>5. Holds(searcher, paused, continued, states, inCloseMerge, {}) /\ paused = {} /\ continued = {}
  BY <1>3 DEF Live, Gone
<1>6. released \subseteq inCloseMerge
  BY WaitersAll DEF AllWaiting
<1>7. inCloseMerge' = inCloseMerge \ released /\ continueState(paused, continued, released)
  BY <1>1
<1>8. \A h \in Handlers : Waiting(handler', h) \subseteq Waiting(handler, h)
  <2> SUFFICES ASSUME NEW h \in Handlers PROVE Waiting(handler', h) \subseteq Waiting(handler, h)
    OBVIOUS
  <2>1. handler[h] \in HandlerCounts
    BY DEF Agreement, Counts
  <2>2. CASE h \in G
    <3>1. handler'[h].reachedCloseMerge = [p \in Points |-> {}]
      BY <1>1, <2>1, <2>2 DEF HandlerCounts
    <3> QED
      BY <3>1 DEF Waiting
  <2>3. CASE h \notin G
    <3>1. handler'[h] = handler[h]
      BY <1>1, <2>3
    <3> QED
      BY <3>1 DEF Waiting
  <2> QED
    BY <2>2, <2>3
<1> HIDE DEF released
<1>9. Holds(searcher, paused', continued', states, inCloseMerge', {})
  BY <1>5, <1>6, <1>7, ReleasesHold
<1>10. s \notin inCloseMerge'
  <2>1. searcher \cap inCloseMerge = {}
    BY <1>5 DEF Holds
  <2> QED
    BY <1>2, <1>7, <2>1
<1>11. Holds(searcher, paused, continued, states, inCloseMerge, Gone)'
  BY <1>3, <1>9 DEF Holds, Gone
<1>12. WaitersNested'
  <2> DEFINE from == [x \in Existing' |-> x]
  <2>1. \A x \in Existing' :
         /\ from[x] \in Existing
         /\ Len(openMergeStack'[x]) \in Nat /\ Len(openMergeStack[from[x]]) \in Nat
         /\ Len(openMergeStack'[x]) <= Len(openMergeStack[from[x]])
         /\ SamePrefix(openMergeStack'[x], openMergeStack[from[x]], Len(openMergeStack'[x]))
    BY <1>3, <1>4, ExistingAreStates DEF Agreement, SamePrefix
  <2>2. \A h \in Handlers : \A w \in Waiting(handler', h) :
          w \in Waiting(handler, h) /\ openMergeStack'[w] = openMergeStack[w]
    BY <1>3, <1>8
  <2> HIDE DEF from
  <2> QED
    BY <2>1, <2>2, WaitersNestedFrom DEF Live
<1>13. Removed' \cap inCloseMerge' = {}
  BY <1>4, <1>7 DEF Live
<1> QED
  BY <1>3, <1>10, <1>11, <1>12, <1>13 DEF Live

LEMMA ForkLive ==
    ASSUME Agreement, mode = "running", Live, NEW s \in States, NEW t \in States, Fork(s, t)
    PROVE  Live' /\ mode' = "running" /\ born' = born \cup {t}
<1>1. /\ phase = "execute" /\ t \notin born /\ s \in {current} \cup added
      /\ born' = born \cup {t} /\ added' = added \cup {t}
      /\ openMergeStack' = [openMergeStack EXCEPT ![t] = openMergeStack[s]]
      /\ UNCHANGED <<phase, mode, current, states, removed, paused, continued, searcher, inCloseMerge>>
  BY DEF Fork, Executing, Inherited, loop
<1>2. \A h \in Handlers : handler'[h].reachedCloseMerge = handler[h].reachedCloseMerge
  <2> SUFFICES ASSUME NEW h \in Handlers
               PROVE  handler'[h].reachedCloseMerge = handler[h].reachedCloseMerge
    OBVIOUS
  <2>1. handler[h] \in HandlerCounts
    BY DEF Agreement, Counts
  <2>2. handler'[h] = IF Contains(openMergeStack[s], h)
                      THEN [handler[h] EXCEPT !.openStates = handler[h].openStates \cup {t}]
                      ELSE handler[h]
    BY DEF Fork, Inherited
  <2> QED
    BY <2>1, <2>2 DEF HandlerCounts
<1>3. Existing' = Existing \cup {t} /\ s \in Existing /\ t \notin Existing /\ Removed' = Removed
  BY <1>1 DEF Existing, Removed, Agreement, IInv, Queues, Lists
<1>4. /\ openMergeStack'[t] = openMergeStack[s]
      /\ \A x \in States \ {t} : openMergeStack'[x] = openMergeStack[x]
  BY <1>1 DEF Agreement, IInv, Types
<1>5. WaitersNested'
  <2> DEFINE from == [x \in Existing' |-> IF x = t THEN s ELSE x]
  <2>1. \A x \in Existing' : from[x] \in Existing /\ openMergeStack'[x] = openMergeStack[from[x]]
    BY <1>3, <1>4, ExistingAreStates DEF Agreement
  <2> HIDE DEF from
  <2>2. \A x \in Existing' :
         /\ from[x] \in Existing
         /\ Len(openMergeStack'[x]) \in Nat /\ Len(openMergeStack[from[x]]) \in Nat
         /\ Len(openMergeStack'[x]) <= Len(openMergeStack[from[x]])
         /\ SamePrefix(openMergeStack'[x], openMergeStack[from[x]], Len(openMergeStack'[x]))
    BY <2>1, ExistingAreStates DEF Agreement, SamePrefix
  <2>3. ASSUME NEW h \in Handlers, NEW w \in Waiting(handler', h)
        PROVE  w \in Waiting(handler, h) /\ openMergeStack'[w] = openMergeStack[w]
    <3>1. w \in Waiting(handler, h)
      BY <1>2, <2>3 DEF Waiting
    <3>2. w \in born /\ w \in States
      BY <3>1, WaitersAll DEF AllWaiting, Agreement, IInv, Lists, Types
    <3> QED
      BY <1>1, <1>4, <3>1, <3>2
  <2> QED
    BY <2>2, <2>3, WaitersNestedFrom DEF Live
<1>6. Holds(searcher, paused, continued, states, inCloseMerge, Gone)'
  BY <1>1, <1>3 DEF Live, Holds, Gone
<1> QED
  BY <1>1, <1>3, <1>5, <1>6 DEF Live

LEMMA TerminateLive ==
    ASSUME Agreement, mode = "running", Live, NEW s \in States, Terminate(s)
    PROVE  Live' /\ mode' = "running" /\ UNCHANGED born
<1>1. /\ phase = "execute" /\ s \notin Removed /\ s \in {current} \cup added
      /\ UNCHANGED <<phase, mode, current, born, states, searcher, steps>>
  BY DEF Terminate, Executing, loop
<1>2. Holds(searcher, paused, continued, states, inCloseMerge, {}) /\ current \notin inCloseMerge
  BY <1>1 DEF Live, Gone
<1>3. CASE s \in added
  <2>1. /\ added' = added \ {s} /\ removed' = removed /\ Delete(s)
    BY <1>3 DEF Terminate
  <2>2. /\ Removed' = Removed /\ Existing' = Existing \ {s} /\ s \in Existing
        /\ s \notin inCloseMerge
    BY <1>1, <1>3, <2>1 DEF Agreement, IInv, Lists, Removed, Existing
  <2>3. Holds(searcher, paused', continued', states, inCloseMerge', {})
        /\ inCloseMerge' \subseteq inCloseMerge
    BY <1>2, <2>1, <2>2, DeleteHolds
  <2>4. WaitersNested'
    BY <2>1, <2>2, DeleteNested DEF Live
  <2>5. Holds(searcher, paused, continued, states, inCloseMerge, Gone)'
    BY <1>1, <2>3 DEF Holds, Gone
  <2> QED
    BY <1>1, <1>2, <2>2, <2>3, <2>4, <2>5 DEF Live
<1>4. CASE s \notin added
  <2>1. /\ removed' = [removed EXCEPT ![s] = removed[s] + 1] /\ s = current
        /\ UNCHANGED <<added, paused, continued>>
        /\ UNCHANGED <<openMergeStack, handler, inCloseMerge>>
    BY <1>1, <1>4 DEF Terminate, merging
  <2>2. Removed' \subseteq Removed \cup {current} /\ Existing' = Existing
    BY <1>1, <2>1 DEF Agreement, IInv, Types, Removed, Existing
  <2>3. WaitersNested'
    BY <2>1, <2>2, QuietNested DEF Live
  <2>4. Holds(searcher, paused, continued, states, inCloseMerge, Gone)'
    BY <1>1, <1>2, <2>1 DEF Holds, Gone
  <2> QED
    BY <1>1, <1>2, <2>1, <2>2, <2>3, <2>4 DEF Live
<1> QED
  BY <1>3, <1>4

LEMMA deleteRemovedLive ==
    ASSUME Agreement, mode = "running", Live, NEW s \in States, deleteRemoved(s)
    PROVE  Live' /\ mode' = "running" /\ UNCHANGED born
<1>1. /\ phase = "delete" /\ s \in Removed /\ s \in states /\ states' = states \ {s}
      /\ removed' = [removed EXCEPT ![s] = removed[s] - 1] /\ Delete(s)
      /\ UNCHANGED <<phase, mode, current, added, born, searcher>>
  BY DEF deleteRemoved, loop
<1>2. removed[s] = 1 /\ added = {}
  BY <1>1 DEF Agreement, IInv, Queues, Types, Removed
<1>3. Removed' = Removed \ {s} /\ Existing' = Existing \ {s} /\ s \in Existing
  BY <1>1, <1>2 DEF Agreement, IInv, Types, Removed, Existing
<1>4. Holds(searcher, paused, continued, states, inCloseMerge, Removed) /\ s \notin inCloseMerge
  BY <1>1 DEF Live, Gone
<1>5. Holds(searcher, paused', continued', states, inCloseMerge', Removed)
      /\ inCloseMerge' \subseteq inCloseMerge
  BY <1>1, <1>3, <1>4, DeleteHolds
<1>6. WaitersNested'
  BY <1>1, <1>3, <1>4, DeleteNested DEF Live
<1>7. Holds(searcher, paused', continued', states', inCloseMerge', Removed')
  <2>1. states' \ (inCloseMerge' \cup Removed') = states \ (inCloseMerge' \cup Removed)
    BY <1>1, <1>3
  <2>2. inCloseMerge' \subseteq states' /\ Removed' \cap inCloseMerge' = {}
    BY <1>1, <1>3, <1>4, <1>5 DEF Holds
  <2> QED
    BY <1>5, <2>1, <2>2 DEF Holds
<1>8. Holds(searcher, paused, continued, states, inCloseMerge, Gone)'
  BY <1>1, <1>7 DEF Holds, Gone
<1>9. Removed' \cap inCloseMerge' = {}
  BY <1>7 DEF Holds
<1> QED
  BY <1>1, <1>6, <1>8, <1>9 DEF Live

LEMMA OpenMergeLive ==
    ASSUME Agreement, mode = "running", Live, NEW h \in Handlers, OpenMerge(h)
    PROVE  Live' /\ mode' = "running" /\ UNCHANGED born
<1> DEFINE r == MergeHandler({current}, steps[current])
           top == Append(openMergeStack[current], h)
<1>1. /\ phase = "execute" /\ phase' = "timers" /\ ~Contains(mergeGroups, h)
      /\ handler' = [handler EXCEPT ![h] = r]
      /\ openMergeStack' = [openMergeStack EXCEPT ![current] = top]
      /\ UNCHANGED <<mode, current, added, removed, paused, continued>>
      /\ UNCHANGED <<states, inCloseMerge, searcher, born>>
  BY DEF OpenMerge, Executing, queues
<1>2. /\ current \in States /\ current \in Existing /\ Existing' = Existing
      /\ Removed' = Removed
  BY <1>1, ExistingAreStates DEF Agreement, IInv, Queues, Existing, Removed
<1>3. /\ handler \in [Handlers -> HandlerCounts] /\ openMergeStack \in [States -> Seq(Handlers)]
  BY DEF Agreement, Counts, IInv, Types
<1>4. \A p \in Points : r.reachedCloseMerge[p] = {}
  BY DEF MergeHandler
<1>5. handler'[h] = r /\ \A g \in Handlers \ {h} : handler'[g] = handler[g]
  BY <1>1, <1>3
<1> HIDE DEF r
<1>6. Waiting(handler', h) = {} /\ \A g \in Handlers \ {h} : Waiting(handler', g) = Waiting(handler, g)
  BY <1>4, <1>5 DEF Waiting
<1>7. current \notin inCloseMerge
  BY <1>1 DEF Live
<1>8. /\ openMergeStack'[current] = top
      /\ \A x \in States \ {current} : openMergeStack'[x] = openMergeStack[x]
  BY <1>1, <1>2, <1>3
<1>9. /\ Len(openMergeStack[current]) \in Nat
      /\ Len(top) = Len(openMergeStack[current]) + 1
      /\ \A i \in 1 .. Len(openMergeStack[current]) : top[i] = openMergeStack[current][i]
      /\ top[Len(openMergeStack[current]) + 1] = h
  BY <1>2, <1>3
<1> HIDE DEF top
<1>10. WaitersNested'
  <2> SUFFICES ASSUME NEW g \in Handlers, NEW w \in Waiting(handler', g), NEW s \in Existing,
                      NEW i \in 1 .. Len(openMergeStack'[s]), openMergeStack'[s][i] = g
               PROVE  /\ Len(openMergeStack'[w]) = i - 1
                      /\ \A k \in 1 .. i - 1 : openMergeStack'[w][k] = openMergeStack'[s][k]
    BY <1>2 DEF WaitersNested, SamePrefix
  <2>1. g # h /\ w \in Waiting(handler, g)
    BY <1>6
  <2>2. w \in inCloseMerge
    BY <2>1, WaitersAll DEF AllWaiting
  <2>3. w # current /\ w \in States
    BY <1>7, <2>2 DEF Agreement, IInv, Lists, Types
  <2>4. openMergeStack'[w] = openMergeStack[w]
    BY <1>8, <2>3
  <2> DEFINE n == Len(openMergeStack[s])
  <2>5. i \in 1 .. n /\ \A k \in 1 .. i : openMergeStack'[s][k] = openMergeStack[s][k]
    <3>1. CASE s = current
      <4>1. i \in 1 .. n + 1 /\ n \in Nat /\ (i = n + 1 => g = h)
        BY <1>8, <1>9, <3>1
      <4>2. i \in 1 .. n
        BY <2>1, <4>1
      <4>3. \A k \in 1 .. i : k \in 1 .. n
        BY <4>1, <4>2
      <4> QED
        BY <1>8, <1>9, <3>1, <4>2, <4>3
    <3>2. CASE s # current
      <4>1. openMergeStack'[s] = openMergeStack[s]
        BY <1>8, <3>2, ExistingAreStates DEF Agreement
      <4> QED
        BY <4>1
    <3> QED
      BY <3>1, <3>2
  <2>6. openMergeStack[s][i] = g /\ i \in Nat
    BY <2>5
  <2>7. /\ Len(openMergeStack[w]) = i - 1
        /\ \A k \in 1 .. i - 1 : openMergeStack[w][k] = openMergeStack[s][k]
    BY <2>1, <2>5, <2>6 DEF Live, WaitersNested, SamePrefix
  <2>8. \A k \in 1 .. i - 1 : k \in 1 .. i
    BY <2>6
  <2> QED
    BY <2>4, <2>5, <2>7, <2>8
<1>11. Holds(searcher, paused, continued, states, inCloseMerge, Gone)'
  BY <1>1 DEF Live, Holds, Gone
<1> QED
  BY <1>1, <1>2, <1>10, <1>11 DEF Live

LEMMA CloseMergeLive ==
    ASSUME Agreement, mode = "running", Live, NEW p \in Points, CloseMerge(p)
    PROVE  Live' /\ mode' = "running" /\ UNCHANGED born
<1>1. /\ phase = "execute" /\ openMergeStack[current] # << >> /\ added = {}
      /\ openMergeStack' = [openMergeStack EXCEPT ![current] = Front(openMergeStack[current])]
      /\ phase' = "timers" /\ current \notin inCloseMerge /\ current \notin Removed
      /\ UNCHANGED <<mode, current, added, born, states, searcher>>
  BY CloseMergeCloses
<1>2. PICK h, hs : Closes(h, hs)
  BY CloseMergeCloses
<1>3. current \in states /\ current \in Existing /\ current \in States /\ Existing' = Existing
  BY <1>1, ExistingAreStates DEF Agreement, IInv, Queues, Existing
<1>4. /\ Holds(searcher, paused, continued, states, inCloseMerge, {})
      /\ Removed \cap inCloseMerge = {} /\ inCloseMerge = AllWaiting(handler)
  BY <1>1, WaitersAll DEF Live, Gone
<1>5. \A g \in Handlers : Waiting(handler', g) \subseteq Waiting(hs, g)
  <2>1. PICK G : handler' = [g \in Handlers |-> IF g \in G THEN NoHandler ELSE hs[g]]
    BY <1>2 DEF Closes, Unref
  <2>2. \A g \in Handlers : handler'[g] = NoHandler \/ handler'[g] = hs[g]
    BY <2>1
  <2> QED
    BY <2>2, NoCounts DEF Waiting
<1>6. \A g \in Handlers \ {h} : Waiting(hs, g) = Waiting(handler, g)
  BY <1>2 DEF Closes, Waiting
<1>7. /\ Waiting(hs, h) = Waiting(handler, h) \/ Waiting(hs, h) = Waiting(handler, h) \cup {current}
      /\ h \in Handlers /\ h = Last(openMergeStack[current])
  BY <1>2 DEF Closes
<1> DEFINE q == openMergeStack[current]
           n == Len(q)
<1>8. /\ n \in Nat \ {0} /\ h = q[n] /\ Len(Front(q)) = n - 1
      /\ \A i \in 1 .. n - 1 : Front(q)[i] = q[i]
  BY <1>1, <1>3, <1>7, ExistingAreStates, InFront DEF Agreement
<1>9. /\ openMergeStack'[current] = Front(q)
      /\ \A x \in States \ {current} : openMergeStack'[x] = openMergeStack[x]
  BY <1>1, <1>3 DEF Agreement, IInv, Types
<1>10. WaitersNested'
  <2> SUFFICES ASSUME NEW g \in Handlers, NEW w \in Waiting(handler', g), NEW s \in Existing,
                      NEW i \in 1 .. Len(openMergeStack'[s]), openMergeStack'[s][i] = g
               PROVE  /\ Len(openMergeStack'[w]) = i - 1
                      /\ \A k \in 1 .. i - 1 : openMergeStack'[w][k] = openMergeStack'[s][k]
    BY <1>3 DEF WaitersNested, SamePrefix
  <2>1. /\ i \in 1 .. Len(openMergeStack[s]) /\ openMergeStack[s][i] = g
        /\ \A k \in 1 .. i : openMergeStack'[s][k] = openMergeStack[s][k]
        /\ s = current => i < n
    <3>1. CASE s = current
      <4>1. i \in 1 .. n - 1 /\ i \in 1 .. n
        BY <1>8, <1>9, <3>1
      <4>2. \A k \in 1 .. i : k \in 1 .. n - 1
        BY <1>8, <4>1
      <4> HIDE DEF n
      <4>3. i < n
        BY <1>8, <4>1
      <4> QED
        BY <1>8, <1>9, <3>1, <4>1, <4>2, <4>3 DEF n
    <3>2. CASE s # current
      <4>1. openMergeStack'[s] = openMergeStack[s]
        BY <1>9, <3>2, ExistingAreStates DEF Agreement
      <4> QED
        BY <3>2, <4>1
    <3> QED
      BY <3>1, <3>2
  <2>2. i \in Nat /\ \A k \in 1 .. i - 1 : k \in 1 .. i
    BY <2>1
  <2>3. CASE w \in Waiting(handler, g)
    <3>1. w # current /\ w \in States
      BY <1>1, <1>4, <2>3 DEF AllWaiting, Agreement, IInv, Lists, Types
    <3>2. /\ Len(openMergeStack[w]) = i - 1
          /\ \A k \in 1 .. i - 1 : openMergeStack[w][k] = openMergeStack[s][k]
      BY <2>1, <2>3 DEF Live, WaitersNested, SamePrefix
    <3> QED
      BY <1>9, <2>1, <2>2, <3>1, <3>2
  <2>4. CASE w \notin Waiting(handler, g)
    <3>1. w = current /\ g = h
      BY <1>5, <1>6, <1>7, <2>4
    <3>2. n \in 1 .. n /\ openMergeStack[s][i] = q[n]
      BY <1>8, <2>1, <3>1
    <3>3. i = n /\ \A k \in 1 .. i : openMergeStack[s][k] = q[k]
      BY <1>3, <2>1, <3>2 DEF Agreement, Nested, SamePrefix
    <3> HIDE DEF q, n
    <3>4. \A k \in 1 .. i - 1 : k \in 1 .. n - 1
      BY <2>2, <3>3
    <3> QED
      BY <1>8, <1>9, <2>1, <2>2, <3>1, <3>3, <3>4
  <2> QED
    BY <2>3, <2>4
<1>11. Holds(searcher, paused', continued', states, inCloseMerge', {})
       /\ Removed' \cap inCloseMerge' = {}
  <2>1. CASE /\ Waiting(hs, h) = Waiting(handler, h) \cup {current}
             /\ Unref(hs, <<h>>, Existing \ {current}, inCloseMerge \cup {current},
                      IF current \in continued THEN paused ELSE paused \cup {current},
                      continued \ {current})
             /\ removed' = removed
    <3> DEFINE ps == IF current \in continued THEN paused ELSE paused \cup {current}
               cs == continued \ {current}
               closed == inCloseMerge \cup {current}
    <3>1. AllWaiting(hs) \subseteq closed
      BY <1>4, <1>6, <2>1 DEF AllWaiting
    <3>2. Holds(searcher, ps, cs, states, closed, {})
      <4>1. current \in (searcher \cup continued) \ paused
        BY <1>1, <1>3, <1>4 DEF Holds
      <4>2. continued \cap searcher = {}
        BY DEF Agreement, IInv, Waits, Away
      <4>3. CASE current \in continued
        <5>1. ps = paused
          BY <4>3
        <5> HIDE DEF ps
        <5>2. (searcher \cup cs) \ ps = states \ (closed \cup {})
          BY <1>3, <1>4, <4>1, <4>2, <4>3, <5>1 DEF Holds
        <5> QED
          BY <1>3, <1>4, <5>1, <5>2 DEF Holds
      <4>4. CASE current \notin continued
        <5>1. ps = paused \cup {current}
          BY <4>4
        <5> HIDE DEF ps
        <5>2. (searcher \cup cs) \ ps = states \ (closed \cup {})
          BY <1>3, <1>4, <4>1, <4>4, <5>1 DEF Holds
        <5> QED
          BY <1>3, <1>4, <4>1, <4>4, <5>1, <5>2 DEF Holds
      <4> QED
        BY <4>3, <4>4
    <3>3. Unref(hs, <<h>>, Existing \ {current}, closed, ps, cs)
      BY <2>1
    <3> HIDE DEF ps, cs, closed
    <3>4. Holds(searcher, paused', continued', states, inCloseMerge', {})
          /\ inCloseMerge' \subseteq closed
      BY <3>1, <3>2, <3>3, UnrefHolds
    <3>5. Removed' = Removed
      BY <2>1 DEF Removed
    <3> QED
      BY <1>1, <1>4, <3>4, <3>5 DEF closed
  <2>2. CASE /\ Waiting(hs, h) = Waiting(handler, h)
             /\ Unref(hs, <<h>>, Existing \ {current}, inCloseMerge \ {current},
                      paused, continued)
             /\ removed' = [removed EXCEPT ![current] = removed[current] + 1]
    <3> DEFINE closed == inCloseMerge \ {current}
    <3>1. closed = inCloseMerge
      BY <1>1
    <3>2. Unref(hs, <<h>>, Existing \ {current}, closed, paused, continued)
      BY <2>2
    <3> HIDE DEF closed
    <3>3. AllWaiting(hs) \subseteq closed
      BY <1>4, <1>6, <2>2, <3>1 DEF AllWaiting
    <3>4. Holds(searcher, paused, continued, states, closed, {})
      BY <1>4, <3>1
    <3>5. Holds(searcher, paused', continued', states, inCloseMerge', {})
          /\ inCloseMerge' \subseteq closed
      BY <3>2, <3>3, <3>4, UnrefHolds
    <3>6. Removed' \subseteq Removed \cup {current}
      BY <2>2 DEF Removed, Agreement, IInv, Types
    <3> QED
      BY <1>1, <1>4, <3>1, <3>5, <3>6
  <2> QED
    BY <1>2, <2>1, <2>2 DEF Closes
<1>12. Holds(searcher, paused, continued, states, inCloseMerge, Gone)'
  BY <1>1, <1>11 DEF Holds, Gone
<1> QED
  BY <1>1, <1>10, <1>11, <1>12 DEF Live

LEMMA IterationLive ==
    ASSUME NoLimits, Agreement, mode = "running", Live,
           Executed \/ processTimers \/ checkMemoryUsage
    PROVE  Live' /\ mode' = "running" /\ UNCHANGED born
<1>1. /\ phase \in {"execute", "timers", "memory"} /\ phase' \in {"timers", "memory", "update"}
      /\ UNCHANGED <<mode, current, born, states, added, searcher, paused, continued>>
      /\ UNCHANGED <<openMergeStack, inCloseMerge, handler>>
  BY DEF Executed, processTimers, checkMemoryUsage, queues, merging
<1>2. Removed' = Removed
  <2>1. CASE Executed
    BY <2>1 DEF Executed, queues, Removed
  <2>2. CASE processTimers
    BY <2>2 DEF processTimers, NoLimits, Removed
  <2>3. CASE checkMemoryUsage
    <3>1. removed' = [s \in States |-> removed[s] + 0]
      BY <2>3 DEF checkMemoryUsage, NoLimits
    <3>2. \A s \in States : removed[s] \in Nat /\ removed'[s] = removed[s] + 0
      BY <3>1 DEF Agreement, IInv, Types
    <3> QED
      BY <3>2 DEF Removed
  <2> QED
    BY <2>1, <2>2, <2>3
<1>3. Existing' = Existing
  BY <1>1 DEF Existing
<1>4. WaitersNested'
  BY <1>1, <1>3, QuietNested DEF Live
<1>5. Holds(searcher, paused, continued, states, inCloseMerge, Gone)'
  BY <1>1 DEF Live, Holds, Gone
<1> QED
  BY <1>1, <1>2, <1>4, <1>5 DEF Live

LEMMA updateSearcherLive ==
    ASSUME Agreement, mode = "running", Live, updateSearcher
    PROVE  Live' /\ mode' = "running" /\ UNCHANGED born
<1>1. /\ phase = "update" /\ phase' = "delete" /\ RemovedAreHeld
      /\ searcher' = (searcher \cup added) \ Removed
      /\ states' = states \cup added /\ added' = {}
      /\ UNCHANGED <<mode, current, born, removed, paused, continued>>
      /\ UNCHANGED <<openMergeStack, inCloseMerge, handler>>
  BY DEF updateSearcher, merging
<1>2. Removed' = Removed /\ Existing' = Existing
  BY <1>1 DEF Removed, Existing
<1>3. WaitersNested'
  BY <1>1, <1>2, QuietNested DEF Live
<1>4. Holds(searcher, paused, continued, states, inCloseMerge, {})
      /\ Removed \cap inCloseMerge = {}
  BY <1>1 DEF Live, Gone
<1>5. /\ added \cap (paused \cup continued \cup inCloseMerge) = {} /\ added \cap Removed = {}
      /\ Removed \subseteq searcher /\ continued \cap searcher = {}
  BY <1>1 DEF Agreement, IInv, Lists, Queues, QueuesDisjoint, RemovedAreHeld, Waits, Away
<1>6. Holds(searcher', paused, continued, states', inCloseMerge, Removed)
  <2>1. ASSUME NEW x
        PROVE  x \in (searcher' \cup continued) \ paused
                  <=> x \in states' \ (inCloseMerge \cup Removed)
    <3>1. x \in (searcher \cup continued) \ paused <=> x \in states \ (inCloseMerge \cup {})
      BY <1>4 DEF Holds
    <3>2. x \in paused => x \in inCloseMerge
      BY <1>4 DEF Holds
    <3> QED
      BY <1>1, <1>5, <3>1, <3>2
  <2>2. (searcher' \cup continued) \ paused = states' \ (inCloseMerge \cup Removed)
    BY <2>1
  <2>3. inCloseMerge \subseteq states' /\ paused \subseteq inCloseMerge \cap searcher'
    BY <1>1, <1>4 DEF Holds
  <2> QED
    BY <1>4, <2>2, <2>3 DEF Holds
<1>7. Holds(searcher, paused, continued, states, inCloseMerge, Gone)'
  BY <1>1, <1>2, <1>6 DEF Holds, Gone
<1> QED
  BY <1>1, <1>2, <1>3, <1>4, <1>7 DEF Live

LEMMA rescheduleLive ==
    ASSUME Agreement, mode = "running", Live, reschedule
    PROVE  Live' /\ mode' = "running" /\ UNCHANGED born
<1>1. /\ phase = "delete" /\ phase' = "select" /\ Removed = {}
      /\ searcher' = (searcher \cup continued) \ paused /\ paused' = {} /\ continued' = {}
      /\ UNCHANGED <<mode, born, states, added, removed>>
      /\ UNCHANGED <<openMergeStack, inCloseMerge, handler>>
  BY DEF reschedule, Rescheduled, merging
<1>2. Removed' = Removed /\ Existing' = Existing
  BY <1>1 DEF Removed, Existing
<1>3. WaitersNested'
  BY <1>1, <1>2, QuietNested DEF Live
<1>4. Holds(searcher, paused, continued, states, inCloseMerge, {})
  BY <1>1 DEF Live, Gone
<1>5. Holds(searcher', {}, {}, states, inCloseMerge, {})
  BY <1>1, <1>4 DEF Holds
<1>6. Holds(searcher, paused, continued, states, inCloseMerge, Gone)'
  BY <1>1, <1>5 DEF Holds, Gone
<1> QED
  BY <1>1, <1>2, <1>3, <1>6 DEF Live

LEMMA InitScheduled == ASSUME NoLimits, Init PROVE Scheduled
<1>1. PICK s \in States :
        /\ mode = "running" /\ phase = "select" /\ current = NoState
        /\ born = {s} /\ states = {s} /\ added = {}
        /\ removed = [t \in States |-> 0]
        /\ paused = {} /\ continued = {} /\ searcher = {s}
        /\ inCloseMerge = {} /\ handler = [h \in Handlers |-> NoHandler]
  BY DEF Init, NoLimits
<1>2. Removed = {}
  BY <1>1 DEF Removed
<1>3. \A h \in Handlers : Waiting(handler, h) = {}
  BY <1>1, NoCounts DEF Waiting
<1>4. Live
  BY <1>1, <1>2, <1>3 DEF Live, Holds, Gone, WaitersNested
<1>5. IsFiniteSet(born)
  BY <1>1, FS_Singleton
<1> QED
  BY <1>1, <1>4, <1>5 DEF Scheduled

LEMMA NextScheduled == ASSUME NoLimits, Agreement, Scheduled, [Next]_vars PROVE Scheduled'
<1>1. CASE UNCHANGED vars
  <2>1. /\ UNCHANGED <<mode, phase, current, born, states, searcher>>
        /\ UNCHANGED <<added, removed, paused, continued>>
        /\ UNCHANGED <<openMergeStack, inCloseMerge, handler>>
    BY <1>1 DEF vars, loop, queues, merging
  <2>2. Removed' = Removed /\ Existing' = Existing
    BY <2>1 DEF Removed, Existing
  <2>3. Live => Live'
    <3> SUFFICES ASSUME Live PROVE Live'
      OBVIOUS
    <3>1. WaitersNested'
      BY <2>1, <2>2, QuietNested DEF Live
    <3>2. Holds(searcher, paused, continued, states, inCloseMerge, Gone)'
      BY <2>1, <2>2 DEF Live, Holds, Gone
    <3> QED
      BY <2>1, <2>2, <3>1, <3>2 DEF Live
  <2> QED
    BY <2>1, <2>3 DEF Scheduled
<1>2. CASE Stop
  <2>1. phase' = "delete" /\ mode' = "halting" /\ UNCHANGED <<born, states>>
        /\ (MayHalt \/ states = {})
    BY <1>2 DEF Stop
  <2> QED
    BY <2>1 DEF Scheduled
<1>3. CASE mode = "halting" /\ Next /\ ~Stop /\ ~UNCHANGED vars
  <2>1. reschedule \/ \E s \in States : deleteRemoved(s)
    BY <1>3 DEF Scheduled, Next, Step, Done, SelectSeeded, BeginSearch, SelectState,
          SelectMerging, Fork, Terminate, Executing, OpenMerge, CloseMerge, Executed,
          processTimers, checkMemoryUsage, updateSearcher
  <2>2. /\ UNCHANGED <<mode, born>> /\ states' \subseteq states /\ phase' \in {"delete", "done"}
    <3>1. phase \in {"delete", "done"}
      BY <1>3 DEF Scheduled
    <3> QED
      BY <1>3, <2>1, <3>1 DEF reschedule, deleteRemoved, loop
  <2>3. MayHalt \/ states' = {}
    BY <1>3, <2>2 DEF Scheduled
  <2> QED
    BY <1>3, <2>2, <2>3 DEF Scheduled
<1>4. CASE mode = "running" /\ Next /\ ~Stop /\ ~UNCHANGED vars
  <2>1. Live /\ IsFiniteSet(born)
    BY <1>4 DEF Scheduled
  <2>2. /\ Live' /\ mode' = "running"
        /\ born' = born \/ \E t \in States : born' = born \cup {t}
    <3>1. CASE SelectState \/ SelectMerging
      BY <1>4, <2>1, <3>1, SelectStateLive, SelectMergingLive
    <3>2. CASE \E s, t \in States : Fork(s, t)
      BY <1>4, <2>1, <3>2, ForkLive
    <3>3. CASE \E s \in States : Terminate(s)
      BY <1>4, <2>1, <3>3, TerminateLive
    <3>4. CASE \E h \in Handlers : OpenMerge(h)
      BY <1>4, <2>1, <3>4, OpenMergeLive
    <3>5. CASE \E p \in Points : CloseMerge(p)
      BY <1>4, <2>1, <3>5, CloseMergeLive
    <3>6. CASE Executed \/ processTimers \/ checkMemoryUsage
      BY <1>4, <2>1, <3>6, IterationLive
    <3>7. CASE updateSearcher \/ reschedule
      BY <1>4, <2>1, <3>7, updateSearcherLive, rescheduleLive
    <3>8. CASE \E s \in States : deleteRemoved(s)
      BY <1>4, <2>1, <3>8, deleteRemovedLive
    <3>9. ~SelectSeeded /\ ~BeginSearch /\ ~Done
      BY <1>4 DEF SelectSeeded, BeginSearch, Done
    <3> QED
      BY <1>4, <3>1, <3>2, <3>3, <3>4, <3>5, <3>6, <3>7, <3>8, <3>9 DEF Next, Step
  <2>3. IsFiniteSet(born')
    BY <2>1, <2>2, FS_AddElement
  <2> QED
    BY <2>2, <2>3 DEF Scheduled
<1> QED
  BY <1>1, <1>2, <1>3, <1>4 DEF Scheduled, Agreement, Control

(* Without limits and seeding the searcher, the lists of paused and        *)
(* continued states and the handlers' lists of waiting states account for  *)
(* every state at every step, and who waits in a region has the stack that *)
(* the states inside it have outside it.                                   *)
THEOREM ScheduledAlways == ASSUME NoLimits PROVE Spec => [](Agreement /\ Scheduled)
<1>1. Init => Agreement /\ Scheduled
  BY InitAgrees, InitScheduled
<1>2. Agreement /\ Scheduled /\ [Next]_vars => (Agreement /\ Scheduled)'
  BY NextAgrees, NextScheduled
<1> QED
  BY <1>1, <1>2, PTL DEF Spec

-----------------------------------------------------------------------------
(* Results.                                                                *)

(* In a finite set, some element has the largest value. *)
LEMMA FiniteMax ==
    ASSUME NEW D, IsFiniteSet(D), D # {}, NEW f \in [D -> Nat]
    PROVE  \E m \in D : \A x \in D : f[x] <= f[m]
<1> DEFINE Has(S) == \E m \in S : \A x \in S : f[x] <= f[m]
           T == {n \in Nat : \A S \in SUBSET D : S # {} /\ Cardinality(S) = n => Has(S)}
<1>1. \A S \in SUBSET D : IsFiniteSet(S)
  BY FS_Subset
<1>2. 0 \in T
  BY <1>1, FS_EmptySet
<1>3. ASSUME NEW n \in T PROVE n + 1 \in T
  <2>1. n \in Nat /\ \A S \in SUBSET D : S # {} /\ Cardinality(S) = n => Has(S)
    BY <1>3
  <2> HIDE DEF T
  <2>2. ASSUME NEW S \in SUBSET D, S # {}, Cardinality(S) = n + 1
        PROVE  Has(S)
    <3>1. PICK y \in S : TRUE
      BY <2>2
    <3> DEFINE R == S \ {y}
    <3>2. IsFiniteSet(S)
      BY <1>1
    <3>3. Cardinality(R) = Cardinality(S) - 1
      BY <3>1, <3>2, FS_RemoveElement
    <3>4. R \in SUBSET D /\ Cardinality(R) = n
      BY <2>1, <2>2, <3>3
    <3>5. CASE R = {}
      <4>1. \A x \in S : x = y
        BY <3>5
      <4>2. f[y] \in Nat
        BY <3>1
      <4> QED
        BY <3>1, <4>1, <4>2
    <3>6. CASE R # {}
      <4>1. PICK m \in R : \A x \in R : f[x] <= f[m]
        BY <2>1, <3>4, <3>6
      <4>2. f[m] \in Nat /\ f[y] \in Nat /\ \A x \in S : f[x] \in Nat /\ (x \in R \/ x = y)
        BY <3>1
      <4>3. CASE f[y] <= f[m]
        <5>1. m \in S /\ \A x \in S : f[x] <= f[m]
          BY <4>1, <4>2, <4>3
        <5> QED
          BY <5>1
      <4>4. CASE ~(f[y] <= f[m])
        <5>1. \A x \in S : f[x] <= f[y]
          <6> SUFFICES ASSUME NEW x \in S PROVE f[x] <= f[y]
            OBVIOUS
          <6>1. CASE x = y
            BY <4>2, <6>1
          <6>2. CASE x \in R
            <7>1. f[x] <= f[m] /\ f[x] \in Nat /\ f[m] \in Nat /\ f[y] \in Nat /\ f[m] < f[y]
              BY <4>1, <4>2, <4>4, <6>2
            <7> QED
              BY <7>1
          <6> QED
            BY <4>2, <6>1, <6>2
        <5> QED
          BY <3>1, <5>1
      <4> QED
        BY <4>3, <4>4
    <3> QED
      BY <3>5, <3>6
  <2>3. n + 1 \in Nat
    BY <2>1
  <2> QED
    BY <2>2, <2>3 DEF T
<1>4. T = Nat
  <2> HIDE DEF Has
  <2> QED
    BY <1>2, <1>3, SetInduction
<1>5. Cardinality(D) \in Nat
  BY FS_CardinalityType
<1>6. Has(D)
  BY <1>4, <1>5
<1> QED
  BY <1>6

(* A state that waits does so in a region that another state is inside, or *)
(* the region would be gone; that state is deeper.                         *)
LEMMA SomeoneInside ==
    ASSUME Agreement, NEW h \in Handlers, Waiting(handler, h) # {}
    PROVE  \E s \in Existing : \E i \in 1 .. Len(openMergeStack[s]) : openMergeStack[s][i] = h
<1>1. Contains(mergeGroups, h)
  BY DEF Agreement, Listed
<1>2. {s \in Existing : Contains(openMergeStack[s], h)} # {}
  BY <1>1 DEF Agreement, OpenStatesAgree
<1> QED
  BY <1>2 DEF Contains

LEMMA SearcherNeverEmpty ==
    ASSUME Agreement, Scheduled, phase = "select", mode = "running", states # {},
           searcher = states \ inCloseMerge
    PROVE  searcher # {}
<1> SUFFICES ASSUME searcher = {} PROVE FALSE
  OBVIOUS
<1>1. Existing = states /\ IsFiniteSet(states)
  <2>1. states \subseteq born /\ added = {}
    BY DEF Agreement, IInv, Lists, Queues, Existing
  <2> QED
    BY <2>1, FS_Subset DEF Scheduled, Existing
<1> DEFINE depth == [s \in states |-> Len(openMergeStack[s])]
<1>2. depth \in [states -> Nat]
  BY <1>1, ExistingAreStates DEF Agreement
<1>3. PICK m \in states : \A x \in states : depth[x] <= depth[m]
  <2> HIDE DEF depth
  <2> QED
    BY <1>1, <1>2, FiniteMax
<1>4. PICK h \in Handlers : m \in Waiting(handler, h)
  BY WaitersAll DEF AllWaiting
<1>5. PICK s \in Existing : \E i \in 1 .. Len(openMergeStack[s]) : openMergeStack[s][i] = h
  BY <1>4, SomeoneInside
<1>6. PICK i \in 1 .. Len(openMergeStack[s]) : openMergeStack[s][i] = h
  BY <1>5
<1>7. Len(openMergeStack[m]) = i - 1
  BY <1>4, <1>6 DEF Scheduled, Live, WaitersNested
<1>8. depth[m] = i - 1 /\ i <= depth[s] /\ depth[s] <= depth[m] /\ depth[s] \in Nat /\ i \in Nat
  BY <1>1, <1>2, <1>3, <1>6, <1>7
<1> HIDE DEF depth
<1> QED
  BY <1>8

(* At every iteration the searcher holds exactly the states that do not    *)
(* wait at a close_merge, and one at least while there are states: none is *)
(* lost and none selected while it waits (updateStates), and they never    *)
(* all wait for each other.  For any number of states, regions, nesting    *)
(* and call sites, with a MergingSearcher or without.                      *)
THEOREM NoStateIsForgotten == ASSUME NoLimits PROVE Spec => []NoStateForgotten
<1>1. Agreement /\ Scheduled => NoStateForgotten
  <2> SUFFICES ASSUME Agreement, Scheduled, phase = "select", mode = "running"
               PROVE  /\ searcher = states \ inCloseMerge
                      /\ states # {} => searcher # {}
    BY DEF NoStateForgotten
  <2>1. searcher = states \ inCloseMerge
    BY DEF Scheduled, Live, Holds, Gone
  <2> QED
    BY <2>1, SearcherNeverEmpty
<1> QED
  BY <1>1, ScheduledAlways, PTL

(* When nothing halts the run either, it halts with no states left. *)
LEMMA NoneWaitWhenHalting ==
    ASSUME ~MayHalt, Agreement, Scheduled, mode = "halting"
    PROVE  \A h \in Handlers : Waiting(handler, h) = {}
<1>1. Existing = {}
  BY DEF Scheduled, Agreement, IInv, Queues, Existing
<1> QED
  BY <1>1, SomeoneInside

(* States that wait in one handler have the same openMergeStack, whatever  *)
(* the nesting of the regions: a merge never makes one state stand for     *)
(* another that has other regions to close.                                *)
THEOREM PartnersAlwaysShareStack ==
    ASSUME NoLimits, ~MayHalt PROVE Spec => []PartnersShareStack
<1>1. Agreement /\ Scheduled => PartnersShareStack
  <2> SUFFICES ASSUME Agreement, Scheduled, NEW h \in Handlers,
                      NEW s \in Waiting(handler, h), NEW t \in Waiting(handler, h)
               PROVE  openMergeStack[s] = openMergeStack[t]
    BY DEF PartnersShareStack
  <2>1. mode = "running"
    BY NoneWaitWhenHalting DEF Scheduled, Agreement, Control
  <2>2. PICK x \in Existing : \E i \in 1 .. Len(openMergeStack[x]) : openMergeStack[x][i] = h
    BY SomeoneInside
  <2>3. PICK i \in 1 .. Len(openMergeStack[x]) : openMergeStack[x][i] = h
    BY <2>2
  <2>4. ASSUME NEW w \in Waiting(handler, h)
        PROVE  /\ openMergeStack[w] \in Seq(Handlers) /\ Len(openMergeStack[w]) = i - 1
               /\ \A k \in 1 .. i - 1 : openMergeStack[w][k] = openMergeStack[x][k]
    <3>1. w \in States
      BY WaitersAll DEF AllWaiting, Agreement, IInv, Lists, Types
    <3>2. Live
      BY <2>1 DEF Scheduled
    <3> QED
      BY <2>3, <3>1, <3>2 DEF Live, WaitersNested, SamePrefix, Agreement, IInv, Types
  <2> DEFINE q == openMergeStack[s]
             r == openMergeStack[t]
  <2>5. /\ q \in Seq(Handlers) /\ r \in Seq(Handlers) /\ Len(q) = Len(r)
        /\ \A k \in 1 .. Len(q) : q[k] = r[k]
    BY <2>4
  <2> HIDE DEF q, r
  <2>6. q = r
    BY <2>5, SeqEqual
  <2> QED
    BY <2>6 DEF q, r
<1> QED
  BY <1>1, ScheduledAlways, PTL

(* inCloseMerge is the set of the states that wait in some handler, and    *)
(* every one of them still exists.                                         *)
THEOREM WaitersAreAlwaysHeld ==
    ASSUME NoLimits, ~MayHalt PROVE Spec => []WaitersAreHeld
<1>1. Agreement /\ Scheduled => WaitersAreHeld
  <2> SUFFICES ASSUME Agreement, Scheduled PROVE WaitersAreHeld
    OBVIOUS
  <2>1. inCloseMerge = UNION {Waiting(handler, h) : h \in Handlers}
    BY WaitersAll DEF AllWaiting
  <2>2. CASE mode = "running"
    BY <2>1, <2>2 DEF Scheduled, Live, Holds, WaitersAreHeld
  <2>3. CASE mode = "halting"
    <3>1. inCloseMerge = {}
      BY <2>1, <2>3, NoneWaitWhenHalting
    <3> QED
      BY <2>1, <3>1 DEF WaitersAreHeld
  <2> QED
    BY <2>2, <2>3 DEF Scheduled, Agreement, Control
<1> QED
  BY <1>1, ScheduledAlways, PTL

(* A searcher that selects only states it holds. *)
Selects ==
    /\ useMergingSearcher \in IncompleteMerge
    /\ mode = "running" /\ phase \in {"execute", "timers", "memory", "update"}
          => current \in searcher

LEMMA NextSelects ==
    ASSUME IncompleteMerge \subseteq {FALSE}, Selects, [Next]_vars PROVE Selects'
<1>1. useMergingSearcher' = useMergingSearcher /\ ~useMergingSearcher
  BY DEF Selects, Next, vars
<1>2. CASE SelectState \/ SelectSeeded
  BY <1>1, <1>2 DEF Selects, SelectState, SelectSeeded, Execute
<1>3. CASE BeginSearch \/ reschedule \/ Stop \/ updateSearcher
  BY <1>1, <1>3 DEF Selects, BeginSearch, reschedule, Stop, updateSearcher
<1>4. CASE Executed \/ processTimers \/ checkMemoryUsage
  BY <1>1, <1>4 DEF Selects, Executed, processTimers, checkMemoryUsage
<1>5. CASE \E s, t \in States : Fork(s, t)
  BY <1>1, <1>5 DEF Selects, Fork, loop
<1>6. CASE \E s \in States : Terminate(s) \/ deleteRemoved(s)
  BY <1>1, <1>6 DEF Selects, Terminate, deleteRemoved, loop
<1>7. CASE \E h \in Handlers : OpenMerge(h)
  BY <1>1, <1>7 DEF Selects, OpenMerge, Executing
<1>8. CASE \E p \in Points : CloseMerge(p)
  BY <1>1, <1>8 DEF Selects, CloseMerge, Executing
<1>9. CASE UNCHANGED vars
  BY <1>9 DEF Selects, vars, loop
<1>10. ~SelectMerging
  BY <1>1 DEF SelectMerging
<1> QED
  BY <1>2, <1>3, <1>4, <1>5, <1>6, <1>7, <1>8, <1>9, <1>10 DEF Next, Step, Done

(* Without -use-incomplete-merge the state that was executed is one the    *)
(* searcher holds when it is updated, whatever the limits and the seeding  *)
(* phase do; only the MergingSearcher selects a state it does not hold.    *)
THEOREM OnlyHeldAreExecuted ==
    ASSUME IncompleteMerge \subseteq {FALSE} PROVE Spec => []OnlyHeldExecuted
<1>1. Init => Selects
  BY DEF Init, Selects
<1>2. Selects /\ [Next]_vars => Selects'
  BY NextSelects
<1>3. Selects => OnlyHeldExecuted
  BY DEF Selects, OnlyHeldExecuted, CurrentIsHeld
<1> QED
  BY <1>1, <1>2, <1>3, PTL DEF Spec

(* What updateStates asserts when it tells the searcher of the states that *)
(* were added and removed, and of those that pause and continue.           *)
UpdatesAccepted ==
    mode = "running" =>
        /\ phase = "update" => CurrentIsHeld /\ RemovedAreHeld
        /\ phase = "delete" => continued \cap searcher = {} /\ paused \subseteq searcher

(* Only the state that was executed is removed from the searcher. *)
OneRemoved ==
    mode = "running" =>
        /\ phase \in {"execute", "timers", "memory", "update"} => Removed \subseteq {current}
        /\ \A s \in States : removed[s] <= 1

LEMMA NextRemovesOne ==
    ASSUME NoLimits, Agreement, Agreement', Scheduled, OneRemoved, [Next]_vars
    PROVE  OneRemoved'
<1>1. CASE ~(mode' = "running")
  BY <1>1 DEF OneRemoved
<1>2. CASE phase' \notin {"update"} /\ mode' = "running"
  <2>1. \A s \in States : removed'[s] <= 1
    BY <1>2 DEF Agreement, IInv, Queues
  <2>2. CASE phase' \in {"execute", "timers", "memory"}
    <3>1. CASE phase = "select"
      <4>1. Removed = {}
        BY <3>1 DEF Agreement, IInv, Queues
      <4>2. removed' = removed
        BY <1>2, <2>2, <3>1 DEF Next, Step, SelectSeeded, BeginSearch, SelectState, SelectMerging,
              Execute, Fork, Terminate, Executing, OpenMerge, CloseMerge, Executed,
              processTimers, checkMemoryUsage, updateSearcher, deleteRemoved, reschedule,
              Stop, Done, vars, loop, queues
      <4> QED
        BY <2>1, <4>1, <4>2 DEF OneRemoved, Removed
    <3>2. CASE phase \in {"execute", "timers", "memory"}
      <4>1. mode = "running" /\ current' = current
        BY <1>2, <2>2, <3>2 DEF Next, Step, SelectSeeded, BeginSearch, SelectState, SelectMerging,
              Execute, Fork, Terminate, Executing, OpenMerge, CloseMerge, Executed,
              processTimers, checkMemoryUsage, updateSearcher, deleteRemoved, reschedule,
              Stop, Done, vars, loop, queues
      <4>2. Removed \subseteq {current}
        BY <3>2, <4>1 DEF OneRemoved
      <4>3. Removed' \subseteq Removed \cup {current}
        <5>1. removed \in [States -> Nat]
          BY DEF Agreement, IInv, Types
        <5>2. CASE \E p \in Points : CloseMerge(p)
          <6>1. removed' = removed \/ removed' = [removed EXCEPT ![current] = removed[current] + 1]
            BY <5>2 DEF CloseMerge
          <6> QED
            BY <5>1, <6>1 DEF Removed
        <5>3. CASE \E s \in States : Terminate(s)
          <6>1. PICK s \in States : Terminate(s)
            BY <5>3
          <6>2. CASE s \in added
            <7>1. removed' = removed
              BY <6>1, <6>2 DEF Terminate
            <7> QED
              BY <7>1 DEF Removed
          <6>3. CASE s \notin added
            <7>1. s = current /\ removed' = [removed EXCEPT ![s] = removed[s] + 1]
              BY <6>1, <6>3 DEF Terminate, Executing
            <7> QED
              BY <5>1, <7>1 DEF Removed
          <6> QED
            BY <6>2, <6>3
        <5>4. CASE processTimers \/ checkMemoryUsage \/ Executed
          <6>1. Live
            BY <4>1 DEF Scheduled
          <6>2. CASE Executed
            BY <6>2 DEF Executed, queues, Removed
          <6>3. CASE processTimers
            BY <6>3 DEF processTimers, NoLimits, Removed
          <6>4. CASE checkMemoryUsage
            <7>1. removed' = [s \in States |-> removed[s] + 0]
              BY <6>4 DEF checkMemoryUsage, NoLimits
            <7>2. \A s \in States : removed[s] \in Nat /\ removed'[s] = removed[s] + 0
              BY <5>1, <7>1
            <7> QED
              BY <7>2 DEF Removed
          <6> QED
            BY <5>4, <6>2, <6>3, <6>4
        <5>5. CASE \/ UNCHANGED vars \/ \E s, t \in States : Fork(s, t)
                   \/ \E h \in Handlers : OpenMerge(h)
          <6>1. removed' = removed
            BY <5>5 DEF vars, Fork, OpenMerge, queues
          <6> QED
            BY <6>1 DEF Removed
        <5>6. ~updateSearcher /\ ~reschedule /\ ~SelectSeeded /\ ~SelectState /\ ~SelectMerging
              /\ ~BeginSearch /\ ~Stop /\ ~(\E s \in States : deleteRemoved(s))
          BY <3>2 DEF updateSearcher, reschedule, SelectSeeded, SelectState, SelectMerging,
                BeginSearch, Stop, deleteRemoved
        <5> QED
          BY <5>2, <5>3, <5>4, <5>5, <5>6 DEF Next, Step, Done
      <4> QED
        BY <1>2, <2>1, <2>2, <4>1, <4>2, <4>3 DEF OneRemoved
    <3>3. phase \in {"select", "execute", "timers", "memory"}
      BY <1>2, <2>2 DEF Next, Step, SelectSeeded, BeginSearch, SelectState, SelectMerging,
            Execute, Fork, Terminate, Executing, OpenMerge, CloseMerge, Executed,
            processTimers, checkMemoryUsage, updateSearcher, deleteRemoved, reschedule,
            Stop, Done, vars, loop, queues
    <3> QED
      BY <3>1, <3>2, <3>3
  <2>3. CASE phase' \notin {"execute", "timers", "memory"}
    BY <1>2, <2>1, <2>3 DEF OneRemoved
  <2> QED
    BY <2>2, <2>3
<1>3. CASE phase' = "update" /\ mode' = "running"
  <2>1. checkMemoryUsage \/ UNCHANGED vars
    BY <1>3 DEF Next, Step, SelectSeeded, BeginSearch, SelectState, SelectMerging,
          Execute, Fork, Terminate, Executing, OpenMerge, CloseMerge, Executed,
          processTimers, checkMemoryUsage, updateSearcher, deleteRemoved, reschedule,
          Stop, Done, vars, loop, queues
  <2>2. CASE checkMemoryUsage
    <3>1. removed' = [s \in States |-> removed[s] + 0] /\ current' = current
          /\ phase = "memory" /\ mode = "running"
      BY <1>3, <2>2 DEF checkMemoryUsage, NoLimits
    <3>2. \A s \in States : removed[s] \in Nat /\ removed'[s] = removed[s]
      <4>1. \A s \in States : removed[s] \in Nat /\ removed'[s] = removed[s] + 0
        BY <3>1 DEF Agreement, IInv, Types
      <4> QED
        BY <4>1
    <3> QED
      BY <3>1, <3>2 DEF OneRemoved, Removed
  <2>3. CASE UNCHANGED vars
    BY <2>3 DEF OneRemoved, Removed, vars, loop, queues
  <2> QED
    BY <2>1, <2>2, <2>3
<1> QED
  BY <1>1, <1>2, <1>3

(* Without limits, and with a searcher that selects only states it holds,  *)
(* no assertion of the searchers stops the run: every state updateStates   *)
(* tells them to remove, to pause or to continue is one they hold or not,  *)
(* as they require, and none is removed twice.                             *)
THEOREM UpdatesAlwaysAccepted ==
    ASSUME NoLimits, IncompleteMerge \subseteq {FALSE}
    PROVE  Spec => []UpdatesAccepted
<1>1. Init => Agreement /\ Scheduled /\ Selects /\ OneRemoved
  <2> SUFFICES ASSUME Init PROVE Selects /\ OneRemoved
    BY InitAgrees, InitScheduled
  <2>1. phase = "select" /\ removed = [t \in States |-> 0]
    BY DEF Init
  <2> QED
    BY <2>1 DEF Init, Selects, OneRemoved
<1>2. Agreement /\ Scheduled /\ Selects /\ OneRemoved /\ [Next]_vars
        => (Agreement /\ Scheduled /\ Selects /\ OneRemoved)'
  BY NextAgrees, NextScheduled, NextSelects, NextRemovesOne
<1>3. Agreement /\ Scheduled /\ Selects /\ OneRemoved => UpdatesAccepted
  <2> SUFFICES ASSUME Agreement, Scheduled, Selects, OneRemoved, mode = "running"
               PROVE  /\ phase = "update" => CurrentIsHeld /\ RemovedAreHeld
                      /\ phase = "delete" => continued \cap searcher = {} /\ paused \subseteq searcher
    BY DEF UpdatesAccepted
  <2>1. continued \cap searcher = {} /\ paused \subseteq searcher
    BY DEF Agreement, IInv, Waits, Away, Scheduled, Live, Holds
  <2>2. ASSUME phase = "update"
        PROVE  CurrentIsHeld /\ RemovedAreHeld
    <3>1. current \in searcher /\ Removed \subseteq {current}
      BY <2>2 DEF Selects, OneRemoved
    <3>2. \A s \in Removed : removed[s] = 1
      BY DEF OneRemoved, Removed, Agreement, IInv, Types
    <3> QED
      BY <3>1, <3>2 DEF CurrentIsHeld, RemovedAreHeld
  <2> QED
    BY <2>1, <2>2
<1> QED
  BY <1>1, <1>2, <1>3, PTL DEF Spec
=============================================================================
