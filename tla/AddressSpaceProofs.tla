------------------------- MODULE AddressSpaceProofs -------------------------
(***************************************************************************)
(* Proofs about AddressSpace.                                              *)
(*                                                                         *)
(* SharedIsNotOwned is not inductive by itself: that getWriteable may      *)
(* modify an ObjectState in place also depends on every mapped ObjectState *)
(* being allocated, on no ObjectState being mapped for two MemoryObjects,  *)
(* on owners never exceeding the key of a state that maps them (so that a  *)
(* fork's new key owns nothing that is shared), and on a resolution's      *)
(* pairs still being the bindings of the states they are used in.          *)
(***************************************************************************)
EXTENDS AddressSpace, TLAPS

MTypes ==
    /\ live \subseteq States
    /\ cowKey \in [States -> 1 .. MaxKey]
    /\ objects \in [States -> [MOs -> OSs \cup {Unbound}]]
    /\ heap \in [OSs -> ObjectState \cup {Free}]
    /\ process \in [MOs -> Values]

DeadBindNothing == \A s \in States \ live, mo \in MOs : objects[s][mo] = Unbound

MappedIsAllocated ==
    \A s \in live, mo \in MOs : objects[s][mo] # Unbound =>
        /\ heap[objects[s][mo]] \in ObjectState
        /\ heap[objects[s][mo]].copyOnWriteOwner \in 1 .. cowKey[s]

Separate ==
    \A s, t \in live, m, n \in MOs :
        objects[s][m] = objects[t][n] /\ objects[s][m] # Unbound =>
            /\ m = n
            /\ s = t \/ heap[objects[s][m]].copyOnWriteOwner # cowKey[s]

MInv == MTypes /\ DeadBindNothing /\ MappedIsAllocated /\ Separate

OpInv ==
    /\ op \in {Idle} \cup Resolving \cup Calling
    /\ ResolutionFresh
    /\ op.kind = "call" => op.who \in live /\ objects[op.who][Errno] # Unbound

IInv == MInv /\ OpInv

-----------------------------------------------------------------------------
(* Freeing what no state maps leaves every mapped ObjectState as it was.   *)
LEMMA SweepKeeps ==
    ASSUME NEW h \in [OSs -> ObjectState \cup {Free}],
           NEW objs \in [States -> [MOs -> OSs \cup {Unbound}]]
    PROVE  /\ Sweep(h, objs) \in [OSs -> ObjectState \cup {Free}]
           /\ \A s \in States, mo \in MOs : objs[s][mo] # Unbound =>
                 Sweep(h, objs)[objs[s][mo]] = h[objs[s][mo]]
<1>1. \A os \in OSs : h[os] \in ObjectState \cup {Free}
  OBVIOUS
<1>2. ASSUME NEW s \in States, NEW mo \in MOs, objs[s][mo] # Unbound
      PROVE  objs[s][mo] \in OSs /\ Mapped(objs, objs[s][mo])
  BY <1>2 DEF Mapped
<1>3. \A os \in OSs : Mapped(objs, os) => Sweep(h, objs)[os] = h[os]
  BY DEF Sweep
<1> QED
  BY <1>1, <1>2, <1>3 DEF Sweep

(* One state's map changes, and its content only where that state owned    *)
(* the ObjectState or has just allocated it; some states may end.          *)
Update(a, dead, map, h) ==
    /\ live' = live \ dead
    /\ cowKey' = [s \in States |-> IF s \in dead THEN 1 ELSE cowKey[s]]
    /\ objects' = [s \in States |-> IF s = a THEN map
                                    ELSE IF s \in dead THEN [mo \in MOs |-> Unbound]
                                    ELSE objects[s]]
    /\ heap' = Sweep(h, objects')

(* What makes an update sound: the map and the content it installs. *)
Updating(a, dead, map, h) ==
    /\ a \in live /\ dead \subseteq live
    /\ map \in [MOs -> OSs \cup {Unbound}]
    /\ h \in [OSs -> ObjectState \cup {Free}]
    /\ process' \in [MOs -> Values]
    /\ Update(a, dead, map, h)
    /\ a \in dead => \A mo \in MOs : map[mo] = Unbound
    /\ \A s \in live \ {a}, mo \in MOs : objects[s][mo] # Unbound =>
          h[objects[s][mo]] = heap[objects[s][mo]]
    /\ \A mo \in MOs : map[mo] # Unbound =>
          /\ h[map[mo]] \in ObjectState
          /\ h[map[mo]].copyOnWriteOwner \in 1 .. cowKey[a]
          /\ \/ heap[map[mo]] = Free
             \/ /\ map[mo] = objects[a][mo]
                /\ h[map[mo]].copyOnWriteOwner = heap[map[mo]].copyOnWriteOwner
    /\ \A m, n \in MOs : map[m] = map[n] /\ map[m] # Unbound => m = n

(* A sound update of one state's map keeps the invariant of the memory,    *)
(* and what every other state sees.                                        *)
LEMMA UpdateKeeps ==
    ASSUME MInv, Names, NEW a, NEW dead, NEW map, NEW h, Updating(a, dead, map, h)
    PROVE  /\ MInv'
           /\ \A s \in live \ {a}, mo \in MOs : s \notin dead => View(s, mo)' = View(s, mo)
           /\ \A mo \in MOs : View(a, mo)' = IF map[mo] = Unbound THEN Unbound
                                             ELSE Content(h[map[mo]])
<1>0. MTypes /\ DeadBindNothing /\ MappedIsAllocated /\ Separate
  BY DEF MInv
<1>a. /\ a \in live /\ dead \subseteq live
      /\ map \in [MOs -> OSs \cup {Unbound}]
      /\ h \in [OSs -> ObjectState \cup {Free}]
      /\ process' \in [MOs -> Values]
      /\ Update(a, dead, map, h)
      /\ a \in dead => \A mo \in MOs : map[mo] = Unbound
  BY DEF Updating
<1>b. \A s \in live \ {a}, mo \in MOs : objects[s][mo] # Unbound =>
          h[objects[s][mo]] = heap[objects[s][mo]]
  BY DEF Updating
<1>c. \A mo \in MOs : map[mo] # Unbound =>
          /\ h[map[mo]] \in ObjectState
          /\ h[map[mo]].copyOnWriteOwner \in 1 .. cowKey[a]
          /\ \/ heap[map[mo]] = Free
             \/ /\ map[mo] = objects[a][mo]
                /\ h[map[mo]].copyOnWriteOwner = heap[map[mo]].copyOnWriteOwner
  BY DEF Updating
<1>d. \A m, n \in MOs : map[m] = map[n] /\ map[m] # Unbound => m = n
  BY DEF Updating
<1>1. a \in States /\ dead \subseteq States /\ live' = live \ dead
  BY <1>0, <1>a DEF MTypes, Update
<1>2. objects' \in [States -> [MOs -> OSs \cup {Unbound}]]
  BY <1>0, <1>1, <1>a DEF MTypes, Update
<1>3. /\ objects'[a] = map
      /\ \A s \in States \ {a} : s \notin dead => objects'[s] = objects[s]
  BY <1>1, <1>a DEF Update
<1>4. \A s \in dead, mo \in MOs : objects'[s][mo] = Unbound
  BY <1>1, <1>a DEF Update
<1>5. /\ heap' \in [OSs -> ObjectState \cup {Free}]
      /\ \A s \in States, mo \in MOs : objects'[s][mo] # Unbound =>
            heap'[objects'[s][mo]] = h[objects'[s][mo]]
  <2>1. heap' = Sweep(h, objects')
    BY <1>a DEF Update
  <2> QED
    BY <1>2, <1>a, <2>1, SweepKeeps
<1>6. /\ cowKey' \in [States -> 1 .. MaxKey]
      /\ \A s \in States \ dead : cowKey'[s] = cowKey[s]
  BY <1>0, <1>1, <1>a DEF MTypes, Names, Update
<1>7. MTypes'
  BY <1>0, <1>1, <1>2, <1>5, <1>6, <1>a DEF MTypes
<1>8. DeadBindNothing'
  <2> SUFFICES ASSUME NEW s \in States \ live', NEW mo \in MOs
               PROVE  objects'[s][mo] = Unbound
    BY DEF DeadBindNothing
  <2>1. CASE s \in dead
    BY <2>1, <1>4
  <2>2. CASE s \notin dead
    BY <2>2, <1>0, <1>1, <1>3, <1>a DEF DeadBindNothing
  <2> QED
    BY <2>1, <2>2
<1>9. MappedIsAllocated'
  <2> SUFFICES ASSUME NEW s \in live', NEW mo \in MOs, objects'[s][mo] # Unbound
               PROVE  /\ heap'[objects'[s][mo]] \in ObjectState
                      /\ heap'[objects'[s][mo]].copyOnWriteOwner \in 1 .. cowKey'[s]
    BY DEF MappedIsAllocated
  <2>1. s \in live /\ s \in States \ dead /\ cowKey'[s] = cowKey[s]
    BY <1>0, <1>1, <1>6 DEF MTypes
  <2>2. CASE s = a
    BY <2>1, <2>2, <1>3, <1>5, <1>c
  <2>3. CASE s # a
    BY <2>1, <2>3, <1>0, <1>3, <1>5, <1>b DEF MappedIsAllocated
  <2> QED
    BY <2>2, <2>3
<1>10. Separate'
  <2> SUFFICES ASSUME NEW s \in live', NEW t \in live', NEW m \in MOs, NEW n \in MOs,
                      objects'[s][m] = objects'[t][n], objects'[s][m] # Unbound
               PROVE  /\ m = n
                      /\ \/ s = t
                         \/ heap'[objects'[s][m]].copyOnWriteOwner # cowKey'[s]
    BY DEF Separate
  <2>1. /\ s \in live /\ s \in States \ dead /\ cowKey'[s] = cowKey[s]
        /\ t \in live /\ t \in States \ dead /\ cowKey'[t] = cowKey[t]
    BY <1>0, <1>1, <1>6 DEF MTypes
  <2>2. CASE s = a /\ t = a
    BY <2>2, <1>3, <1>d
  <2>3. CASE s # a /\ t # a
    <3>1. objects'[s] = objects[s] /\ objects'[t] = objects[t]
      BY <2>1, <2>3, <1>3
    <3>2. heap'[objects'[s][m]] = heap[objects[s][m]]
      BY <2>1, <2>3, <3>1, <1>5, <1>b
    <3> QED
      BY <1>0, <2>1, <3>1, <3>2 DEF Separate
  <2>4. ASSUME NEW b \in live \ {a}, b \notin dead, a \notin dead,
               NEW k \in MOs, NEW j \in MOs,
               map[k] = objects[b][j], map[k] # Unbound
        PROVE  /\ k = j
               /\ h[map[k]].copyOnWriteOwner # cowKey[a]
               /\ h[map[k]].copyOnWriteOwner # cowKey[b]
    <3>1. heap[map[k]] \in ObjectState
      BY <1>0, <2>4 DEF MappedIsAllocated
    <3>2. /\ map[k] = objects[a][k]
          /\ h[map[k]].copyOnWriteOwner = heap[map[k]].copyOnWriteOwner
      BY <3>1, <2>4, <1>c, FreeIsNone
    <3>3. /\ a # b /\ objects[a][k] = objects[b][j]
          /\ objects[a][k] # Unbound /\ objects[b][j] # Unbound
      BY <3>2, <2>4
    <3>4. k = j /\ heap[objects[a][k]].copyOnWriteOwner # cowKey[a]
      BY <1>0, <1>a, <3>3 DEF Separate
    <3>5. heap[objects[b][j]].copyOnWriteOwner # cowKey[b]
      BY <1>0, <1>a, <3>3 DEF Separate
    <3> QED
      BY <3>2, <3>3, <3>4, <3>5
  <2>5. CASE s = a /\ t # a
    BY <2>1, <2>4, <2>5, <1>3, <1>5
  <2>6. CASE s # a /\ t = a
    <3>1. map[n] = objects[s][m] /\ map[n] # Unbound
      BY <2>1, <2>6, <1>3
    <3>2. n = m /\ h[map[n]].copyOnWriteOwner # cowKey[s]
      BY <3>1, <2>1, <2>4, <2>6
    <3> QED
      BY <3>1, <3>2, <2>1, <2>6, <1>3, <1>5
  <2> QED
    BY <2>2, <2>3, <2>5, <2>6
<1>11. \A s \in live \ {a}, mo \in MOs : s \notin dead => View(s, mo)' = View(s, mo)
  BY <1>0, <1>1, <1>3, <1>5, <1>b DEF View, MTypes
<1>12. \A mo \in MOs : View(a, mo)' = IF map[mo] = Unbound THEN Unbound
                                      ELSE Content(h[map[mo]])
  BY <1>1, <1>3, <1>5 DEF View
<1> QED
  BY <1>7, <1>8, <1>9, <1>10, <1>11, <1>12 DEF MInv

(* getWriteable on the current bindings of s, followed by writes. *)
LEMMA RewriteKeeps ==
    ASSUME MInv, Names,
           NEW s \in live, NEW dead \in SUBSET (live \ {s}),
           NEW M \in SUBSET MOs, NEW src,
           \A mo \in M : src[mo] = objects[s][mo] /\ src[mo] # Unbound,
           NEW new \in Writeables(s, M, src),
           NEW content \in [M -> ObjectState],
           Update(s, dead, Redirect(s, new), Overwrite(s, new, content)),
           process' \in [MOs -> Values]
    PROVE  /\ MInv'
           /\ \A t \in live \ {s}, mo \in MOs : t \notin dead => View(t, mo)' = View(t, mo)
           /\ \A mo \in MOs : View(s, mo)' = IF mo \in M THEN Content(content[mo])
                                             ELSE View(s, mo)
<1> DEFINE map == Redirect(s, new)
           h == Overwrite(s, new, content)
<1>0. MTypes /\ DeadBindNothing /\ MappedIsAllocated /\ Separate /\ s \in States
  BY DEF MInv, MTypes
<1>1. /\ new \in [M -> OSs]
      /\ \A m, n \in M : new[m] = new[n] => m = n
      /\ \A mo \in M : new[mo] \in Writeable(s, src[mo])
  BY DEF Writeables, Injection, IsInjective
<1>2. \A mo \in M : \/ heap[new[mo]] = Free
                   \/ /\ new[mo] = objects[s][mo]
                      /\ heap[new[mo]].copyOnWriteOwner = cowKey[s]
  BY <1>1 DEF Writeable
<1>3. \A mo \in M : h[new[mo]] = [content[mo] EXCEPT !.copyOnWriteOwner = cowKey[s]]
  <2> SUFFICES ASSUME NEW mo \in M
               PROVE  h[new[mo]] = [content[mo] EXCEPT !.copyOnWriteOwner = cowKey[s]]
    OBVIOUS
  <2>1. new[mo] \in OSs /\ DOMAIN new = M
    BY <1>1
  <2>2. (CHOOSE m \in DOMAIN new : new[m] = new[mo]) = mo
    BY <1>1, <2>1
  <2> QED
    BY <2>1, <2>2 DEF Overwrite
<1>4. \A os \in OSs : (\A mo \in M : new[mo] # os) => h[os] = heap[os]
  BY <1>1 DEF Overwrite
<1>5. cowKey[s] \in 1 .. MaxKey /\ cowKey[s] \in 0 .. MaxKey
  BY <1>0 DEF MTypes, Names
<1>6. \A mo \in M : /\ h[new[mo]] \in ObjectState
                   /\ h[new[mo]].copyOnWriteOwner = cowKey[s]
                   /\ Content(h[new[mo]]) = Content(content[mo])
  <2> SUFFICES ASSUME NEW mo \in M
               PROVE  /\ h[new[mo]] \in ObjectState
                      /\ h[new[mo]].copyOnWriteOwner = cowKey[s]
                      /\ Content(h[new[mo]]) = Content(content[mo])
    OBVIOUS
  <2> DEFINE c == content[mo]
             d == h[new[mo]]
  <2>1. c \in ObjectState /\ d = [c EXCEPT !.copyOnWriteOwner = cowKey[s]]
    BY <1>3
  <2> HIDE DEF c, d
  <2>2. d \in ObjectState /\ d.copyOnWriteOwner = cowKey[s] /\ Content(d) = Content(c)
    BY <2>1, <1>5 DEF ObjectState, Content
  <2> QED
    BY <2>2 DEF c, d
<1>7. ASSUME NEW t \in live, NEW n \in MOs, NEW m \in M,
             objects[t][n] = new[m], objects[t][n] # Unbound
      PROVE  t = s /\ n = m
  <2>1. heap[new[m]] # Free
    BY <1>0, <1>7, FreeIsNone DEF MappedIsAllocated
  <2>2. new[m] = objects[s][m] /\ heap[new[m]].copyOnWriteOwner = cowKey[s]
    BY <1>2, <2>1
  <2>3. objects[s][m] = objects[t][n] /\ objects[s][m] # Unbound
    BY <1>7, <2>2
  <2>4. m = n /\ (s = t \/ heap[objects[s][m]].copyOnWriteOwner # cowKey[s])
    BY <1>0, <2>3 DEF Separate
  <2> QED
    BY <2>2, <2>4
<1>8. /\ map \in [MOs -> OSs \cup {Unbound}]
      /\ \A mo \in M : map[mo] = new[mo]
      /\ \A mo \in MOs \ M : map[mo] = objects[s][mo]
  BY <1>0, <1>1 DEF Redirect, MTypes
<1>9. h \in [OSs -> ObjectState \cup {Free}]
  <2> SUFFICES ASSUME NEW os \in OSs PROVE h[os] \in ObjectState \cup {Free}
    BY DEF Overwrite
  <2>1. heap[os] \in ObjectState \cup {Free}
    BY <1>0 DEF MTypes
  <2> QED
    BY <2>1, <1>4, <1>6
<1>10. \A t \in live, mo \in MOs :
          objects[t][mo] # Unbound /\ (t = s => mo \notin M) =>
              h[objects[t][mo]] = heap[objects[t][mo]]
  <2> SUFFICES ASSUME NEW t \in live, NEW mo \in MOs,
                      objects[t][mo] # Unbound, t = s => mo \notin M
               PROVE  h[objects[t][mo]] = heap[objects[t][mo]]
    OBVIOUS
  <2>1. objects[t][mo] \in OSs
    BY <1>0 DEF MTypes
  <2>2. \A m \in M : new[m] # objects[t][mo]
    BY <1>7
  <2> QED
    BY <1>4, <2>1, <2>2
<1>11. \A mo \in MOs : map[mo] # Unbound =>
           /\ h[map[mo]] \in ObjectState
           /\ h[map[mo]].copyOnWriteOwner \in 1 .. cowKey[s]
  <2> SUFFICES ASSUME NEW mo \in MOs, map[mo] # Unbound
               PROVE  /\ h[map[mo]] \in ObjectState
                      /\ h[map[mo]].copyOnWriteOwner \in 1 .. cowKey[s]
    OBVIOUS
  <2>1. CASE mo \in M
    BY <2>1, <1>5, <1>6, <1>8
  <2>2. CASE mo \notin M
    BY <2>2, <1>0, <1>8, <1>10 DEF MappedIsAllocated
  <2> QED
    BY <2>1, <2>2
<1>12. \A mo \in MOs : map[mo] # Unbound =>
           \/ heap[map[mo]] = Free
           \/ /\ map[mo] = objects[s][mo]
              /\ h[map[mo]].copyOnWriteOwner = heap[map[mo]].copyOnWriteOwner
  <2> SUFFICES ASSUME NEW mo \in MOs, map[mo] # Unbound, heap[map[mo]] # Free
               PROVE  /\ map[mo] = objects[s][mo]
                      /\ h[map[mo]].copyOnWriteOwner = heap[map[mo]].copyOnWriteOwner
    OBVIOUS
  <2>1. CASE mo \in M
    BY <2>1, <1>2, <1>6, <1>8
  <2>2. CASE mo \notin M
    BY <2>2, <1>8, <1>10
  <2> QED
    BY <2>1, <2>2
<1>13. \A m, n \in MOs : map[m] = map[n] /\ map[m] # Unbound => m = n
  <2> SUFFICES ASSUME NEW m \in MOs, NEW n \in MOs, map[m] = map[n], map[m] # Unbound
               PROVE  m = n
    OBVIOUS
  <2>1. CASE m \in M /\ n \in M
    BY <2>1, <1>1, <1>8
  <2>2. CASE m \in M /\ n \notin M
    BY <2>2, <1>7, <1>8
  <2>3. CASE m \notin M /\ n \in M
    BY <2>3, <1>7, <1>8
  <2>4. CASE m \notin M /\ n \notin M
    BY <2>4, <1>0, <1>8 DEF Separate
  <2> QED
    BY <2>1, <2>2, <2>3, <2>4
<1>14. /\ MInv'
       /\ \A t \in live \ {s}, mo \in MOs : t \notin dead => View(t, mo)' = View(t, mo)
       /\ \A mo \in MOs : View(s, mo)' = IF map[mo] = Unbound THEN Unbound
                                         ELSE Content(h[map[mo]])
  <2>1. s \notin dead /\ dead \in SUBSET live /\ Update(s, dead, map, h)
    OBVIOUS
  <2>2. /\ s \in live /\ dead \subseteq live
        /\ s \in dead => \A mo \in MOs : map[mo] = Unbound
        /\ \A t \in live \ {s}, mo \in MOs : objects[t][mo] # Unbound =>
              h[objects[t][mo]] = heap[objects[t][mo]]
    BY <1>10, <2>1
  <2> HIDE DEF map, h
  <2>3. Updating(s, dead, map, h)
    BY <1>8, <1>9, <1>11, <1>12, <1>13, <2>1, <2>2 DEF Updating
  <2> QED
    BY <2>3, UpdateKeeps
<1>15. \A mo \in MOs : View(s, mo)' = IF mo \in M THEN Content(content[mo]) ELSE View(s, mo)
  <2> SUFFICES ASSUME NEW mo \in MOs
               PROVE  View(s, mo)' = IF mo \in M THEN Content(content[mo]) ELSE View(s, mo)
    OBVIOUS
  <2>1. CASE mo \in M
    <3>1. map[mo] # Unbound
      BY <2>1, <1>1, <1>8 DEF Names
    <3> QED
      BY <2>1, <3>1, <1>6, <1>8, <1>14
  <2>2. CASE mo \notin M
    BY <2>2, <1>8, <1>10, <1>14 DEF View
  <2> QED
    BY <2>1, <2>2
<1> QED
  BY <1>14, <1>15

(* bindObjectInState, with some other objects of s unbound after it. *)
Binding(s, mo, n, c, gone) ==
    /\ s \in live /\ mo \in MOs /\ n \in OSs /\ gone \subseteq MOs
    /\ c \in ObjectState /\ c.copyOnWriteOwner = cowKey[s]
    /\ bindObject(s, mo, n, c, gone)
    /\ live' = live /\ cowKey' = cowKey /\ process' \in [MOs -> Values]

(* bindObjectInState keeps the invariant and shows in one state only.      *)
LEMMA BindKeeps ==
    ASSUME MInv, Names, NEW s, NEW mo, NEW n, NEW c, NEW gone,
           Binding(s, mo, n, c, gone)
    PROVE  /\ MInv'
           /\ \A t \in live \ {s}, m \in MOs : View(t, m)' = View(t, m)
           /\ \A m \in MOs : View(s, m)' = IF m = mo THEN Content(c)
                                           ELSE IF m \in gone THEN Unbound
                                           ELSE View(s, m)
<1> DEFINE map == [m \in MOs |-> IF m = mo THEN n
                                 ELSE IF m \in gone THEN Unbound
                                 ELSE objects[s][m]]
           h == [heap EXCEPT ![n] = c]
<1>a. /\ s \in live /\ mo \in MOs /\ n \in OSs /\ gone \subseteq MOs
      /\ c \in ObjectState /\ c.copyOnWriteOwner = cowKey[s]
      /\ bindObject(s, mo, n, c, gone)
      /\ live' = live /\ cowKey' = cowKey /\ process' \in [MOs -> Values]
  BY DEF Binding
<1>0. /\ MTypes /\ DeadBindNothing /\ MappedIsAllocated /\ Separate /\ s \in States
      /\ cowKey[s] \in 1 .. MaxKey
  BY <1>a DEF MInv, MTypes
<1>1. map \in [MOs -> OSs \cup {Unbound}] /\ h \in [OSs -> ObjectState \cup {Free}]
  BY <1>a, <1>0 DEF MTypes
<1>2. \A t \in live, m \in MOs : objects[t][m] # Unbound =>
          objects[t][m] # n /\ h[objects[t][m]] = heap[objects[t][m]]
  BY <1>a, <1>0, FreeIsNone DEF MTypes, MappedIsAllocated, bindObject
<1>3. h[n] = c /\ heap[n] = Free /\ n # Unbound
  BY <1>a, <1>0 DEF MTypes, bindObject, Names
<1>4. Update(s, {}, map, h)
  BY <1>a, <1>0 DEF Update, MTypes, bindObject
<1>5. \A m \in MOs : map[m] # Unbound =>
          /\ h[map[m]] \in ObjectState
          /\ h[map[m]].copyOnWriteOwner \in 1 .. cowKey[s]
  BY <1>a, <1>0, <1>2, <1>3 DEF MappedIsAllocated
<1>6. \A m \in MOs : map[m] # Unbound =>
          \/ heap[map[m]] = Free
          \/ /\ map[m] = objects[s][m]
             /\ h[map[m]].copyOnWriteOwner = heap[map[m]].copyOnWriteOwner
  BY <1>a, <1>2, <1>3
<1>7. \A j, k \in MOs : map[j] = map[k] /\ map[j] # Unbound => j = k
  BY <1>a, <1>0, <1>2 DEF Separate
<1>8. /\ MInv'
      /\ \A t \in live \ {s}, m \in MOs : t \notin {} => View(t, m)' = View(t, m)
      /\ \A m \in MOs : View(s, m)' = IF map[m] = Unbound THEN Unbound
                                      ELSE Content(h[map[m]])
  <2> DEFINE none == {}
  <2>1. none \in SUBSET live /\ s \notin none /\ Update(s, none, map, h)
    BY <1>a, <1>4
  <2>2. \A t \in live \ {s}, m \in MOs : objects[t][m] # Unbound =>
            h[objects[t][m]] = heap[objects[t][m]]
    BY <1>a, <1>2
  <2> HIDE DEF map, h, none
  <2>3. /\ MInv'
        /\ \A t \in live \ {s}, m \in MOs : t \notin none => View(t, m)' = View(t, m)
        /\ \A m \in MOs : View(s, m)' = IF map[m] = Unbound THEN Unbound
                                        ELSE Content(h[map[m]])
    <3>1. Updating(s, none, map, h)
      BY <1>a, <1>1, <1>5, <1>6, <1>7, <2>1, <2>2 DEF Updating
    <3> QED
      BY <3>1, UpdateKeeps
  <2> QED
    BY <2>3 DEF none
<1>9. \A m \in MOs : View(s, m)' = IF m = mo THEN Content(c)
                                  ELSE IF m \in gone THEN Unbound
                                  ELSE View(s, m)
  BY <1>a, <1>2, <1>3, <1>8 DEF View
<1> QED
  BY <1>8, <1>9

(* unbindObject keeps the invariant and shows in one state only.           *)
LEMMA UnbindKeeps ==
    ASSUME MInv, Names, NEW s \in live, NEW gone \in SUBSET MOs,
           unbindObject(s, gone), UNCHANGED <<live, cowKey, process>>
    PROVE  /\ MInv'
           /\ \A t \in live \ {s}, m \in MOs : View(t, m)' = View(t, m)
           /\ \A m \in MOs : View(s, m)' = IF m \in gone THEN Unbound ELSE View(s, m)
<1> DEFINE map == [mo \in MOs |-> IF mo \in gone THEN Unbound ELSE objects[s][mo]]
<1>0. /\ MTypes /\ DeadBindNothing /\ MappedIsAllocated /\ Separate /\ s \in States
      /\ heap \in [OSs -> ObjectState \cup {Free}]
  BY DEF MInv, MTypes
<1>1. map \in [MOs -> OSs \cup {Unbound}]
  BY <1>0 DEF MTypes
<1>2. Update(s, {}, map, heap) /\ process' \in [MOs -> Values]
  BY <1>0 DEF Update, MTypes, unbindObject
<1>3. \A m \in MOs : map[m] # Unbound =>
          /\ map[m] = objects[s][m]
          /\ heap[map[m]] \in ObjectState
          /\ heap[map[m]].copyOnWriteOwner \in 1 .. cowKey[s]
  BY <1>0 DEF MappedIsAllocated
<1>4. \A j, k \in MOs : map[j] = map[k] /\ map[j] # Unbound => j = k
  BY <1>0 DEF Separate
<1>5. /\ MInv'
      /\ \A t \in live \ {s}, m \in MOs : t \notin {} => View(t, m)' = View(t, m)
      /\ \A m \in MOs : View(s, m)' = IF map[m] = Unbound THEN Unbound
                                      ELSE Content(heap[map[m]])
  <2> DEFINE none == {}
  <2>1. none \in SUBSET live /\ s \notin none /\ Update(s, none, map, heap)
    BY <1>2
  <2> HIDE DEF map, none
  <2>2. /\ MInv'
        /\ \A t \in live \ {s}, m \in MOs : t \notin none => View(t, m)' = View(t, m)
        /\ \A m \in MOs : View(s, m)' = IF map[m] = Unbound THEN Unbound
                                        ELSE Content(heap[map[m]])
    <3>1. Updating(s, none, map, heap)
      BY <1>0, <1>1, <1>2, <1>3, <1>4, <2>1 DEF Updating
    <3> QED
      BY <3>1, UpdateKeeps
  <2> QED
    BY <2>2 DEF none
<1>6. \A m \in MOs : View(s, m)' = IF m \in gone THEN Unbound ELSE View(s, m)
  BY <1>3, <1>5 DEF View
<1> QED
  BY <1>5, <1>6

(* Deleting a state keeps the invariant and what the other states see.     *)
LEMMA TerminateKeeps ==
    ASSUME MInv, Names, NEW s \in live, terminateState(s)
    PROVE  /\ MInv'
           /\ \A t \in live \ {s}, m \in MOs : View(t, m)' = View(t, m)
<1> DEFINE map == [mo \in MOs |-> Unbound]
<1>0. MTypes /\ s \in States /\ heap \in [OSs -> ObjectState \cup {Free}]
  BY DEF MInv, MTypes
<1>1. map \in [MOs -> OSs \cup {Unbound}] /\ \A m \in MOs : map[m] = Unbound
  OBVIOUS
<1>2. Update(s, {s}, map, heap) /\ process' \in [MOs -> Values]
  BY <1>0 DEF Update, MTypes, terminateState
<1>3. /\ MInv'
      /\ \A t \in live \ {s}, m \in MOs : t \notin {s} => View(t, m)' = View(t, m)
  <2> HIDE DEF map
  <2>1. Updating(s, {s}, map, heap)
    BY <1>0, <1>1, <1>2 DEF Updating
  <2> QED
    BY <2>1, UpdateKeeps
<1> QED
  BY <1>3

(* A fork gives both states a key nothing is owned by yet. *)
LEMMA BranchKeeps ==
    ASSUME MInv, Names, NEW s \in live, NEW t, branch(s, t)
    PROVE  /\ MInv'
           /\ t \in States \ live /\ live' = live \cup {t}
           /\ objects' = [objects EXCEPT ![t] = objects[s]]
           /\ \A u \in live, m \in MOs : View(u, m)' = View(u, m)
           /\ \A m \in MOs : View(t, m)' = View(s, m)
<1>0. /\ MTypes /\ DeadBindNothing /\ MappedIsAllocated /\ Separate /\ s \in States
      /\ t \in States \ live /\ live' = live \cup {t}
      /\ objects' = [objects EXCEPT ![t] = objects[s]] /\ heap' = heap
      /\ process' = process
      /\ cowKey' = [cowKey EXCEPT ![s] = cowKey[s] + 1, ![t] = cowKey[s] + 1]
      /\ cowKey[s] < MaxKey /\ cowKey[s] \in 1 .. MaxKey /\ MaxKey \in Nat
  BY DEF MInv, MTypes, branch, Names
<1>1. MTypes'
  BY <1>0 DEF MTypes
<1>2. /\ objects'[t] = objects[s]
      /\ \A u \in States \ {t} : objects'[u] = objects[u]
      /\ cowKey'[t] = cowKey[s] + 1 /\ cowKey'[s] = cowKey[s] + 1
      /\ \A u \in States \ {s, t} : cowKey'[u] = cowKey[u]
  BY <1>0 DEF MTypes
<1>3. DeadBindNothing'
  BY <1>0, <1>2 DEF DeadBindNothing
<1>4. MappedIsAllocated'
  <2> SUFFICES ASSUME NEW u \in live', NEW mo \in MOs, objects'[u][mo] # Unbound
               PROVE  /\ heap'[objects'[u][mo]] \in ObjectState
                      /\ heap'[objects'[u][mo]].copyOnWriteOwner \in 1 .. cowKey'[u]
    BY DEF MappedIsAllocated
  <2>1. CASE u = t
    <3>1. objects[s][mo] # Unbound /\ objects'[u][mo] = objects[s][mo]
      BY <2>1, <1>2
    <3>2. /\ heap[objects[s][mo]] \in ObjectState
          /\ heap[objects[s][mo]].copyOnWriteOwner \in 1 .. cowKey[s]
      BY <3>1, <1>0 DEF MappedIsAllocated
    <3>3. \A k \in 1 .. cowKey[s] : k \in 1 .. (cowKey[s] + 1)
      BY <1>0
    <3>4. cowKey'[u] = cowKey[s] + 1 /\ heap' = heap
      BY <2>1, <1>0, <1>2
    <3> QED
      BY <3>1, <3>2, <3>3, <3>4
  <2>2. CASE u # t
    <3>1. u \in live /\ u \in States /\ objects'[u] = objects[u] /\ cowKey[u] \in Nat
      BY <2>2, <1>0, <1>2 DEF MTypes
    <3>2. /\ heap[objects[u][mo]] \in ObjectState
          /\ heap[objects[u][mo]].copyOnWriteOwner \in 1 .. cowKey[u]
      BY <3>1, <1>0 DEF MappedIsAllocated
    <3>3. cowKey'[u] = cowKey[u] \/ cowKey'[u] = cowKey[u] + 1
      BY <3>1, <2>2, <1>2
    <3> QED
      BY <3>1, <3>2, <3>3, <1>0
  <2> QED
    BY <2>1, <2>2
<1>5. Separate'
  <2> DEFINE old(u) == IF u = t THEN s ELSE u
  <2>1. \A u \in live' : /\ old(u) \in live /\ objects'[u] = objects[old(u)]
                        /\ cowKey'[u] = IF old(u) = s THEN cowKey[s] + 1
                                        ELSE cowKey[old(u)]
    <3> SUFFICES ASSUME NEW u \in live'
                 PROVE  /\ old(u) \in live /\ objects'[u] = objects[old(u)]
                        /\ cowKey'[u] = IF old(u) = s THEN cowKey[s] + 1
                                        ELSE cowKey[old(u)]
      OBVIOUS
    <3>1. CASE u = t
      BY <3>1, <1>0, <1>2
    <3>2. CASE u # t
      BY <3>2, <1>0, <1>2 DEF MTypes
    <3> QED
      BY <3>1, <3>2
  <2> SUFFICES ASSUME NEW u \in live', NEW v \in live', NEW m \in MOs, NEW n \in MOs,
                      objects'[u][m] = objects'[v][n], objects'[u][m] # Unbound
               PROVE  /\ m = n
                      /\ \/ u = v
                         \/ heap'[objects'[u][m]].copyOnWriteOwner # cowKey'[u]
    BY DEF Separate
  <2>2. /\ old(u) \in live /\ old(v) \in live
        /\ objects[old(u)][m] = objects[old(v)][n] /\ objects[old(u)][m] # Unbound
    BY <2>1
  <2>3. m = n /\ (\/ old(u) = old(v)
                  \/ heap[objects[old(u)][m]].copyOnWriteOwner # cowKey[old(u)])
    <3> HIDE DEF old
    <3> QED
      BY <2>2, <1>0 DEF Separate
  <2>4. heap[objects[old(u)][m]].copyOnWriteOwner \in 1 .. cowKey[old(u)]
    <3> HIDE DEF old
    <3> QED
      BY <2>2, <1>0 DEF MappedIsAllocated
  <2>5. heap' = heap /\ objects'[u][m] = objects[old(u)][m]
    BY <2>1, <1>0
  <2>6. CASE old(u) = s
    <3>1. cowKey'[u] = cowKey[s] + 1
      BY <2>1, <2>6
    <3> QED
      BY <2>3, <2>4, <2>5, <2>6, <3>1, <1>0
  <2>7. CASE old(u) # s
    <3>1. cowKey'[u] = cowKey[old(u)]
      BY <2>1, <2>7
    <3>2. old(u) = old(v) => u = v
      BY <2>7
    <3> QED
      BY <2>3, <2>5, <3>1, <3>2
  <2> QED
    BY <2>6, <2>7
<1>6. /\ \A u \in live, m \in MOs : View(u, m)' = View(u, m)
      /\ \A m \in MOs : View(t, m)' = View(s, m)
  BY <1>0, <1>2 DEF View, MTypes
<1> QED
  BY <1>0, <1>1, <1>3, <1>4, <1>5, <1>6 DEF MInv

(* Flushing writes to shared ObjectStates, but only below an expression. *)
LEMMA FlushIs ==
    ASSUME MInv, Names, NEW s \in live,
           NEW F \in SUBSET {mo \in Bound(s) : heap[objects[s][mo]].expr # Concrete},
           NEW answer \in [F -> Values],
           heap' = Flushed(s, answer)
    PROVE  \A os \in OSs : /\ heap[os] \in ObjectState => heap'[os] \in ObjectState
                           /\ heap'[os] \in ObjectState \cup {Free}
                           /\ heap'[os].copyOnWriteOwner = heap[os].copyOnWriteOwner
                           /\ Content(heap'[os]) = Content(heap[os])
<1>0. MTypes /\ MappedIsAllocated /\ s \in States
  BY DEF MInv, MTypes
<1>1. ASSUME NEW os \in OSs
      PROVE  \/ heap'[os] = heap[os]
             \/ /\ heap[os] \in ObjectState /\ heap[os].expr # Concrete
                /\ \E v \in Values : heap'[os] = [heap[os] EXCEPT !.concreteStore = v]
  <2>1. CASE \E mo \in F : objects[s][mo] = os
    <3> DEFINE mo == CHOOSE m \in F : objects[s][m] = os
    <3>1. mo \in F /\ objects[s][mo] = os
      BY <2>1
    <3>2. heap[os] \in ObjectState /\ heap[os].expr # Concrete
      BY <3>1, <1>0 DEF Bound, MappedIsAllocated
    <3>3. heap'[os] = [heap[os] EXCEPT !.concreteStore = answer[mo]]
      BY <2>1 DEF Flushed
    <3> QED
      BY <3>1, <3>2, <3>3
  <2>2. CASE ~ \E mo \in F : objects[s][mo] = os
    BY <2>2 DEF Flushed
  <2> QED
    BY <2>1, <2>2
<1> SUFFICES ASSUME NEW os \in OSs
             PROVE  /\ heap[os] \in ObjectState => heap'[os] \in ObjectState
                    /\ heap'[os] \in ObjectState \cup {Free}
                    /\ heap'[os].copyOnWriteOwner = heap[os].copyOnWriteOwner
                    /\ Content(heap'[os]) = Content(heap[os])
  OBVIOUS
<1>2. CASE heap'[os] = heap[os]
  BY <1>2, <1>0 DEF MTypes
<1>3. CASE heap'[os] # heap[os]
  <2>1. heap[os] \in ObjectState /\ heap[os].expr # Concrete
    BY <1>3, <1>1
  <2>2. PICK v \in Values : heap'[os] = [heap[os] EXCEPT !.concreteStore = v]
    BY <1>3, <1>1
  <2> DEFINE c == heap[os]
             d == heap'[os]
  <2>3. c \in ObjectState /\ c.expr # Concrete /\ d = [c EXCEPT !.concreteStore = v]
    BY <2>1, <2>2
  <2> HIDE DEF c, d
  <2>4. /\ d \in ObjectState /\ d.copyOnWriteOwner = c.copyOnWriteOwner
        /\ Content(d) = Content(c)
    BY <2>3 DEF ObjectState, Content
  <2> QED
    BY <2>4 DEF c, d
<1> QED
  BY <1>2, <1>3

(* Flushing changes the store of shared ObjectStates, but no state's view. *)
LEMMA FlushKeeps ==
    ASSUME MInv, Names, NEW s \in live,
           NEW F \in SUBSET {mo \in Bound(s) : heap[objects[s][mo]].expr # Concrete},
           NEW answer \in [F -> Values],
           heap' = Flushed(s, answer),
           UNCHANGED <<live, cowKey, objects>>, process' \in [MOs -> Values]
    PROVE  /\ MInv'
           /\ \A t \in live, m \in MOs : View(t, m)' = View(t, m)
<1>0. /\ MTypes /\ DeadBindNothing /\ MappedIsAllocated /\ Separate /\ s \in States
      /\ live' = live /\ cowKey' = cowKey /\ objects' = objects
  BY DEF MInv, MTypes
<1>2. \A os \in OSs : /\ heap[os] \in ObjectState => heap'[os] \in ObjectState
                     /\ heap'[os] \in ObjectState \cup {Free}
                     /\ heap'[os].copyOnWriteOwner = heap[os].copyOnWriteOwner
                     /\ Content(heap'[os]) = Content(heap[os])
  BY FlushIs
<1>3. MTypes'
  <2>1. heap' \in [OSs -> ObjectState \cup {Free}]
    BY <1>2 DEF Flushed
  <2> QED
    BY <1>0, <2>1 DEF MTypes
<1>4. \A t \in live, mo \in MOs : objects[t][mo] # Unbound => objects[t][mo] \in OSs
  BY <1>0 DEF MTypes
<1>5. MappedIsAllocated'
  BY <1>0, <1>2, <1>4 DEF MappedIsAllocated
<1>6. Separate'
  BY <1>0, <1>2, <1>4 DEF Separate
<1>7. DeadBindNothing'
  BY <1>0 DEF DeadBindNothing
<1>8. \A t \in live, m \in MOs : View(t, m)' = View(t, m)
  BY <1>0, <1>2, <1>4 DEF View
<1> QED
  BY <1>3, <1>5, <1>6, <1>7, <1>8 DEF MInv

(* What is written to an ObjectState is what is read back.                 *)
LEMMA WrittenIs ==
    ASSUME Names, NEW os \in ObjectState, NEW c \in Contents
    PROVE  Written(os, c) \in ObjectState /\ Content(Written(os, c)) = c
<1>1. CASE c \in Values
  BY <1>1 DEF Written, Content, ObjectState
<1>2. CASE c \notin Values
  BY <1>2 DEF Written, Content, ObjectState, Contents, Names
<1> QED
  BY <1>1, <1>2

(* A new ObjectState holds the content it was created with.                *)
LEMMA NewObjectStateIs ==
    ASSUME MInv, Names, NEW s \in live, NEW v \in Values, NEW e \in Exprs \cup {Concrete}
    PROVE  /\ NewObjectState(s, v, e) \in ObjectState
           /\ NewObjectState(s, v, e).copyOnWriteOwner = cowKey[s]
           /\ Content(NewObjectState(s, v, e)) = IF e = Concrete THEN v ELSE e
<1>1. cowKey[s] \in 0 .. MaxKey
  BY DEF MInv, MTypes, Names
<1> QED
  BY <1>1 DEF NewObjectState, ObjectState, Content

(* A rewrite, of the current bindings of s, that ends no state. *)
Rewriting(s, M, src, new, content) ==
    /\ s \in live /\ M \subseteq MOs
    /\ \A mo \in M : src[mo] = objects[s][mo] /\ src[mo] # Unbound
    /\ new \in Writeables(s, M, src) /\ content \in [M -> ObjectState]
    /\ Rewrite(s, new, content)
    /\ live' = live /\ cowKey' = cowKey /\ process' = process

(* A rewrite replaces the content of the objects it names, in one state.   *)
LEMMA RewriteOne ==
    ASSUME MInv, Names, NEW s, NEW M, NEW src, NEW new, NEW content,
           Rewriting(s, M, src, new, content)
    PROVE  /\ MInv'
           /\ \A t \in States \ {s} : objects'[t] = objects[t]
           /\ \A t \in live \ {s}, mo \in MOs : View(t, mo)' = View(t, mo)
           /\ \A mo \in MOs : View(s, mo)' = IF mo \in M THEN Content(content[mo])
                                             ELSE View(s, mo)
<1> DEFINE none == {}
<1>0. /\ s \in live /\ M \in SUBSET MOs
      /\ \A mo \in M : src[mo] = objects[s][mo] /\ src[mo] # Unbound
      /\ new \in Writeables(s, M, src) /\ content \in [M -> ObjectState]
      /\ Rewrite(s, new, content)
      /\ live' = live /\ cowKey' = cowKey /\ process' = process
  BY DEF Rewriting
<1>1. MTypes /\ s \in States
  BY <1>0 DEF MInv, MTypes
<1>2. none \in SUBSET (live \ {s}) /\ process' \in [MOs -> Values]
  BY <1>0, <1>1 DEF MTypes
<1>3. Update(s, none, Redirect(s, new), Overwrite(s, new, content))
  BY <1>0, <1>1 DEF Rewrite, Update, MTypes
<1>4. \A t \in States \ {s} : objects'[t] = objects[t]
  BY <1>0, <1>1 DEF Rewrite, MTypes
<1>5. /\ MInv'
      /\ \A t \in live \ {s}, mo \in MOs : t \notin none => View(t, mo)' = View(t, mo)
      /\ \A mo \in MOs : View(s, mo)' = IF mo \in M THEN Content(content[mo])
                                        ELSE View(s, mo)
  <2> HIDE DEF none
  <2> QED
    BY <1>0, <1>2, <1>3, RewriteKeeps, Z3
<1> QED
  BY <1>4, <1>5

-----------------------------------------------------------------------------
(* From the views of the states to the steps of their private memories. *)

LEMMA ViewIs ==
    ASSUME MInv, Names
    PROVE  \A s \in live, mo \in MOs :
               /\ View(s, mo) \in Contents \cup {Unbound}
               /\ View(s, mo) = Unbound <=> objects[s][mo] = Unbound
<1> SUFFICES ASSUME NEW s \in live, NEW mo \in MOs
             PROVE  /\ View(s, mo) \in Contents \cup {Unbound}
                    /\ View(s, mo) = Unbound <=> objects[s][mo] = Unbound
  OBVIOUS
<1>1. CASE objects[s][mo] = Unbound
  BY <1>1 DEF View
<1>2. CASE objects[s][mo] # Unbound
  <2>1. heap[objects[s][mo]] \in ObjectState
    BY <1>2 DEF MInv, MappedIsAllocated
  <2>2. Content(heap[objects[s][mo]]) \in Contents
    BY <2>1 DEF Content, Contents, ObjectState
  <2> QED
    BY <1>2, <2>2 DEF View, Names
<1> QED
  BY <1>1, <1>2

(* A private memory is alive exactly when its state is live.               *)
LEMMA AliveIsLive ==
    ASSUME MInv, Names, NEW s \in States
    PROVE  /\ Private!Alive(s) <=> s \in live
           /\ s \in live => PrivateMem[s] = [mo \in MOs |-> View(s, mo)]
           /\ s \notin live => PrivateMem[s] = NoState
<1>1. CASE s \in live
  <2>1. PrivateMem[s] = [mo \in MOs |-> View(s, mo)]
    BY <1>1 DEF PrivateMem
  <2>2. PrivateMem[s] \in [MOs -> Contents \cup {Unbound}]
    BY <1>1, <2>1, ViewIs
  <2> QED
    BY <1>1, <2>1, <2>2 DEF Names, Private!Alive
<1>2. CASE s \notin live
  BY <1>2 DEF PrivateMem, Private!Alive
<1> QED
  BY <1>1, <1>2

(* If no view changes, no private memory does.                             *)
LEMMA MemUnchanged ==
    ASSUME MInv, live' = live,
           \A t \in live, mo \in MOs : View(t, mo)' = View(t, mo)
    PROVE  PrivateMem' = PrivateMem
  BY DEF PrivateMem, MInv, MTypes

(* If the view of one state changes, so does its private memory alone.     *)
LEMMA MemBecomes ==
    ASSUME MInv, live' = live, NEW s \in live, NEW f,
           \A t \in live \ {s}, mo \in MOs : View(t, mo)' = View(t, mo),
           \A mo \in MOs : View(s, mo)' = f[mo],
           f = [mo \in MOs |-> f[mo]]
    PROVE  Private!Becomes(s, f)
<1>1. live \subseteq States
  BY DEF MInv, MTypes
<1>2. [mo \in MOs |-> View(s, mo)'] = f
  BY Zenon
<1>3. \A t \in live \ {s} : [mo \in MOs |-> View(t, mo)'] = [mo \in MOs |-> View(t, mo)]
  OBVIOUS
<1>4. PrivateMem' = [t \in States |-> IF t \in live THEN [mo \in MOs |-> View(t, mo)']
                                      ELSE NoState]
  BY DEF PrivateMem
<1>5. PrivateMem' = [PrivateMem EXCEPT ![s] = f]
  BY <1>1, <1>2, <1>3, <1>4 DEF PrivateMem
<1> QED
  BY <1>5 DEF Private!Becomes

(* When a state ends, so does its private memory.                          *)
LEMMA MemEnds ==
    ASSUME MInv, NEW s \in live, live' = live \ {s},
           \A t \in live \ {s}, mo \in MOs : View(t, mo)' = View(t, mo)
    PROVE  Private!End(s)
  BY DEF PrivateMem, MInv, MTypes, Private!End, Private!Becomes

(* When a state is forked, its private memory is copied.                   *)
LEMMA MemForks ==
    ASSUME MInv, Names, NEW s \in live, NEW t \in States \ live, live' = live \cup {t},
           \A u \in live, mo \in MOs : View(u, mo)' = View(u, mo),
           \A mo \in MOs : View(t, mo)' = View(s, mo)
    PROVE  Private!Fork(s, t)
<1>1. ~Private!Alive(t) /\ PrivateMem[s] = [mo \in MOs |-> View(s, mo)]
  BY AliveIsLive DEF MInv, MTypes
<1>2. PrivateMem' = [PrivateMem EXCEPT ![t] = PrivateMem[s]]
  BY <1>1 DEF PrivateMem, MInv, MTypes
<1> QED
  BY <1>1, <1>2 DEF Private!Fork, Private!Becomes

(* A step of a live state's private memory is a step of PrivateMemory.     *)
LEMMA IsStep ==
    ASSUME MInv, Names, NEW s \in live, Private!Step(s)
    PROVE  Private!Next
  BY AliveIsLive DEF MInv, MTypes, Private!Next

-----------------------------------------------------------------------------
(* The operation the Executor is in. *)

LEMMA IdleIsFine ==
    ASSUME op' = Idle
    PROVE  OpInv'
  BY DEF OpInv, Idle, ResolutionFresh

(* The operation in progress, by kind.                                     *)
LEMMA OpIs ==
    ASSUME OpInv
    PROVE  /\ op.kind = "resolve" => op \in Resolving
           /\ op.kind = "call" => op \in Calling
           /\ op # Idle => op.kind \in {"resolve", "call"}
  BY DEF OpInv, Resolving, Calling, Idle

(* The fields of a resolution in progress.                                 *)
LEMMA ResolvingIs ==
    ASSUME op \in Resolving
    PROVE  /\ op = [kind |-> "resolve", use |-> op.use, unbound |-> op.unbound,
                    rl |-> op.rl, results |-> op.results]
           /\ op.use \in Uses /\ op.unbound \in States \cup {NoState}
           /\ DOMAIN op.rl \subseteq MOs /\ op.rl \in [DOMAIN op.rl -> OSs]
           /\ DOMAIN op.results \subseteq States
           /\ op.results \in [DOMAIN op.results -> MOs \X OSs]
<1>1. /\ op = [kind |-> "resolve", use |-> op.use, unbound |-> op.unbound,
               rl |-> op.rl, results |-> op.results]
      /\ op.use \in Uses /\ op.unbound \in States \cup {NoState}
      /\ op.rl \in UNION {[M -> OSs] : M \in SUBSET MOs}
      /\ op.results \in UNION {[T -> MOs \X OSs] : T \in SUBSET States}
  BY DEF Resolving
<1>2. PICK M \in SUBSET MOs : op.rl \in [M -> OSs]
  BY <1>1
<1>3. PICK T \in SUBSET States : op.results \in [T -> MOs \X OSs]
  BY <1>1
<1> QED
  BY <1>1, <1>2, <1>3

(* A record of the right fields is a resolution in progress.               *)
LEMMA MakeResolving ==
    ASSUME NEW use \in Uses, NEW unbound \in States \cup {NoState},
           NEW M \in SUBSET MOs, NEW rl \in [M -> OSs],
           NEW T \in SUBSET States, NEW results \in [T -> MOs \X OSs]
    PROVE  [kind |-> "resolve", use |-> use, unbound |-> unbound,
            rl |-> rl, results |-> results] \in Resolving
<1>1. /\ rl \in UNION {[N -> OSs] : N \in SUBSET MOs}
      /\ results \in UNION {[U -> MOs \X OSs] : U \in SUBSET States}
  OBVIOUS
<1> QED
  BY <1>1 DEF Resolving

(* The resolution after one more state took its pair.                      *)
LEMMA TookIs ==
    ASSUME op \in Resolving, NEW mo \in DOMAIN op.rl,
           NEW bound \in States, NEW unbound \in States \cup {NoState},
           Took(mo, bound, unbound)
    PROVE  /\ op' \in Resolving
           /\ op'.kind = "resolve" /\ op'.use = op.use /\ op'.unbound = unbound
           /\ op'.rl = [m \in DOMAIN op.rl \ {mo} |-> op.rl[m]]
           /\ op'.results = [t \in DOMAIN op.results \cup {bound} |->
                               IF t = bound THEN <<mo, op.rl[mo]>> ELSE op.results[t]]
<1> DEFINE rl == [m \in DOMAIN op.rl \ {mo} |-> op.rl[m]]
           results == [t \in DOMAIN op.results \cup {bound} |->
                         IF t = bound THEN <<mo, op.rl[mo]>> ELSE op.results[t]]
<1>1. op' = [kind |-> "resolve", use |-> op.use, unbound |-> unbound,
             rl |-> rl, results |-> results]
  BY DEF Took, Without, Restrict
<1>2. /\ rl \in [DOMAIN op.rl \ {mo} -> OSs] /\ DOMAIN op.rl \ {mo} \subseteq MOs
      /\ results \in [DOMAIN op.results \cup {bound} -> MOs \X OSs]
      /\ DOMAIN op.results \cup {bound} \subseteq States
      /\ op.use \in Uses
  BY ResolvingIs
<1>3. op' \in Resolving
  <2> HIDE DEF rl, results
  <2> QED
    BY <1>1, <1>2, MakeResolving
<1> QED
  BY <1>1, <1>3

(* Once t has used its pair, the pairs of the others are as fresh as       *)
(* before, whatever t did to its own address space.                        *)
LEMMA ConsumedKeeps ==
    ASSUME OpInv, op.kind = "resolve", NEW t \in DOMAIN op.results, Consumed(t),
           live \ {t} \subseteq live', \A u \in States \ {t} : objects'[u] = objects[u]
    PROVE  OpInv'
<1>1. op \in Resolving /\ ResolutionFresh
  BY OpIs DEF OpInv
<1>2. CASE op' = Idle
  BY <1>2, IdleIsFine
<1>3. CASE op' # Idle
  <2> DEFINE results == [u \in DOMAIN op.results \ {t} |-> op.results[u]]
  <2>1. op' = [kind |-> "resolve", use |-> op.use, unbound |-> op.unbound,
               rl |-> op.rl, results |-> results]
    BY <1>1, <1>3, ResolvingIs DEF Consumed, Without, Restrict
  <2>2. results \in [DOMAIN op.results \ {t} -> MOs \X OSs]
    BY <1>1, ResolvingIs
  <2>3. op' \in Resolving
    <3> HIDE DEF results
    <3> QED
      BY <1>1, <2>1, <2>2, ResolvingIs, MakeResolving
  <2>4. ResolutionFresh'
    <3>1. op.unbound # NoState =>
            /\ op.unbound \in live' \ DOMAIN op'.results
            /\ \A mo \in DOMAIN op'.rl : objects'[op.unbound][mo] = op'.rl[mo]
      BY <1>1, <2>1, ResolvingIs DEF ResolutionFresh
    <3>2. \A u \in DOMAIN op'.results :
            /\ u \in live'
            /\ objects'[u][op'.results[u][1]] = op'.results[u][2]
      BY <1>1, <2>1, ResolvingIs DEF ResolutionFresh
    <3> QED
      BY <2>1, <3>1, <3>2 DEF ResolutionFresh
  <2>5. op'.kind # "call"
    BY <2>1
  <2> QED
    BY <2>3, <2>4, <2>5 DEF OpInv
<1> QED
  BY <1>2, <1>3

-----------------------------------------------------------------------------
(* One lemma per action: it keeps the invariant, and it is a step of the   *)
(* private memories or leaves them alone.                                  *)

Implements == Private!Next \/ PrivateMem' = PrivateMem

(* terminateState ends one private memory.                                 *)
LEMMA TerminateStep ==
    ASSUME MInv, Names, NEW s \in live, terminateState(s)
    PROVE  /\ MInv' /\ Implements
           /\ live' = live \ {s}
           /\ \A u \in States \ {s} : objects'[u] = objects[u]
<1>1. /\ MInv' /\ live' = live \ {s}
      /\ \A u \in States \ {s} : objects'[u] = objects[u]
  BY TerminateKeeps DEF terminateState, MInv, MTypes
<1>2. Private!End(s)
  BY <1>1, TerminateKeeps, MemEnds
<1> QED
  BY <1>1, <1>2, IsStep DEF Implements, Private!Step

(* branch forks one private memory.                                        *)
LEMMA BranchStep ==
    ASSUME MInv, Names, NEW s \in live, NEW t, branch(s, t)
    PROVE  MInv' /\ Implements
<1>1. /\ MInv' /\ t \in States \ live
      /\ Private!Fork(s, t)
  BY BranchKeeps, MemForks
<1> QED
  BY <1>1, IsStep DEF Implements, Private!Step

(* bindObject writes one object of one private memory.                     *)
LEMMA BindStep ==
    ASSUME MInv, Names, NEW s \in live, NEW mo \in MOs, NEW n \in OSs,
           NEW v \in Values, NEW e \in Exprs \cup {Concrete},
           bindObject(s, mo, n, NewObjectState(s, v, e), {}),
           UNCHANGED <<live, cowKey>>, process' \in [MOs -> Values]
    PROVE  /\ MInv' /\ Implements
           /\ live' = live
           /\ \A u \in States \ {s} : objects'[u] = objects[u]
<1> DEFINE os == NewObjectState(s, v, e)
           c  == IF e = Concrete THEN v ELSE e
           f  == [PrivateMem[s] EXCEPT ![mo] = c]
           none == {}
<1>1. os \in ObjectState /\ os.copyOnWriteOwner = cowKey[s] /\ Content(os) = c
  BY NewObjectStateIs
<1>2. \A u \in States \ {s} : objects'[u] = objects[u]
  BY DEF bindObject, MInv, MTypes
<1>3. /\ MInv' /\ live' = live
      /\ \A t \in live \ {s}, m \in MOs : View(t, m)' = View(t, m)
      /\ \A m \in MOs : View(s, m)' = IF m = mo THEN c ELSE View(s, m)
  <2>1. bindObject(s, mo, n, os, none) /\ none \in SUBSET MOs
    OBVIOUS
  <2> HIDE DEF os, c, none
  <2>2. /\ MInv'
        /\ \A t \in live \ {s}, m \in MOs : View(t, m)' = View(t, m)
        /\ \A m \in MOs : View(s, m)' = IF m = mo THEN Content(os)
                                        ELSE IF m \in none THEN Unbound
                                        ELSE View(s, m)
    <3>1. Binding(s, mo, n, os, none)
      BY <1>1, <2>1 DEF Binding
    <3> QED
      BY <3>1, BindKeeps
  <2> QED
    BY <1>1, <2>2 DEF none
<1>4. s \in States /\ PrivateMem[s] = [m \in MOs |-> View(s, m)]
  BY AliveIsLive DEF MInv, MTypes
<1>5. Private!Bind(s, mo, c)
  <2>1. \A m \in MOs : View(s, m)' = f[m]
    BY <1>3, <1>4
  <2>2. f = [m \in MOs |-> f[m]]
    BY <1>4
  <2>3. Private!Becomes(s, f)
    <3> HIDE DEF f
    <3> QED
      BY <1>3, <2>1, <2>2, MemBecomes
  <2> QED
    BY <2>3 DEF Private!Bind
<1>6. c \in Private!Contents
  BY DEF Private!Contents
<1>7. Private!Step(s)
  BY <1>5, <1>6 DEF Private!Step
<1> QED
  BY <1>2, <1>3, <1>7, IsStep DEF Implements

(* executeAlloc with reallocFrom. *)
LEMMA ReallocStep ==
    ASSUME MInv, Names, NEW s \in live, NEW from \in MOs, NEW to \in Fresh, NEW n \in OSs,
           NEW v \in Values, objects[s][from] # Unbound,
           heap[objects[s][from]].expr = Concrete =>
               v = heap[objects[s][from]].concreteStore,
           bindObject(s, to, n, NewObjectState(s, v, heap[objects[s][from]].expr), {from}),
           UNCHANGED <<live, cowKey>>, process' \in [MOs -> Values]
    PROVE  /\ MInv' /\ Implements
           /\ live' = live
           /\ \A u \in States \ {s} : objects'[u] = objects[u]
<1> DEFINE e  == heap[objects[s][from]].expr
           os == NewObjectState(s, v, e)
           f  == [PrivateMem[s] EXCEPT ![to] = PrivateMem[s][from], ![from] = Unbound]
<1>1. heap[objects[s][from]] \in ObjectState /\ e \in Exprs \cup {Concrete}
  BY DEF MInv, MappedIsAllocated, ObjectState
<1>2. /\ os \in ObjectState /\ os.copyOnWriteOwner = cowKey[s]
      /\ Content(os) = View(s, from)
  BY <1>1, NewObjectStateIs DEF View, Content
<1>3. s \in States /\ to \in MOs /\ from \in MOs /\ objects[s][to] = Unbound /\ to # from
  BY DEF Fresh, MInv, MTypes
<1>4. \A u \in States \ {s} : objects'[u] = objects[u]
  BY DEF bindObject, MInv, MTypes
<1>5. /\ MInv' /\ live' = live
      /\ \A t \in live \ {s}, m \in MOs : View(t, m)' = View(t, m)
      /\ \A m \in MOs : View(s, m)' = IF m = to THEN View(s, from)
                                      ELSE IF m \in {from} THEN Unbound
                                      ELSE View(s, m)
  <2>1. bindObject(s, to, n, os, {from}) /\ {from} \in SUBSET MOs
    OBVIOUS
  <2> HIDE DEF os
  <2>2. /\ s \in live /\ to \in MOs /\ n \in OSs /\ process' \in [MOs -> Values]
        /\ live' = live /\ cowKey' = cowKey
    BY <1>3
  <2>3. Binding(s, to, n, os, {from})
    BY <1>2, <2>1, <2>2 DEF Binding
  <2>4. /\ MInv'
        /\ \A t \in live \ {s}, m \in MOs : View(t, m)' = View(t, m)
        /\ \A m \in MOs : View(s, m)' = IF m = to THEN Content(os)
                                        ELSE IF m \in {from} THEN Unbound
                                        ELSE View(s, m)
    BY <2>3, BindKeeps
  <2> QED
    BY <1>2, <2>2, <2>4
<1>6. PrivateMem[s] = [m \in MOs |-> View(s, m)]
  BY AliveIsLive, <1>3
<1>7. View(s, from) # Unbound /\ View(s, to) = Unbound
  BY ViewIs, <1>3
<1>8. Private!Move(s, from, to)
  <2>1. \A m \in MOs : View(s, m)' = f[m]
    BY <1>3, <1>5, <1>6
  <2>2. f = [m \in MOs |-> f[m]]
    BY <1>6
  <2>3. Private!Becomes(s, f)
    <3> HIDE DEF f
    <3> QED
      BY <1>5, <2>1, <2>2, MemBecomes
  <2> QED
    BY <1>3, <1>6, <1>7, <2>3 DEF Private!Move
<1>9. Private!Step(s)
  BY <1>3, <1>8 DEF Private!Step
<1> QED
  BY <1>4, <1>5, <1>9, IsStep DEF Implements

(* unbindObject unbinds objects of one private memory.                     *)
LEMMA UnbindStep ==
    ASSUME MInv, Names, NEW s \in live, NEW gone \in SUBSET MOs,
           unbindObject(s, gone), UNCHANGED <<live, cowKey, process>>
    PROVE  /\ MInv' /\ Implements
           /\ live' = live
           /\ \A u \in States \ {s} : objects'[u] = objects[u]
<1> DEFINE f == [m \in MOs |-> IF m \in gone THEN Unbound ELSE PrivateMem[s][m]]
<1>1. /\ MInv' /\ live' = live
      /\ \A t \in live \ {s}, m \in MOs : View(t, m)' = View(t, m)
      /\ \A m \in MOs : View(s, m)' = IF m \in gone THEN Unbound ELSE View(s, m)
  BY UnbindKeeps
<1>2. \A u \in States \ {s} : objects'[u] = objects[u]
  BY DEF unbindObject, MInv, MTypes
<1>3. PrivateMem[s] = [m \in MOs |-> View(s, m)]
  BY AliveIsLive DEF MInv, MTypes
<1>4. /\ \A m \in MOs : View(s, m)' = f[m]
      /\ f = [m \in MOs |-> f[m]]
  BY <1>1, <1>3
<1>5. Private!Becomes(s, f)
  <2> HIDE DEF f
  <2> QED
    BY <1>1, <1>4, MemBecomes
<1>6. Private!Step(s)
  BY <1>5 DEF Private!Step, Private!Unbind
<1> QED
  BY <1>1, <1>2, <1>6, IsStep DEF Implements

(* A write to one object through getWriteable. *)
Writing(s, mo, c, os, new) ==
    /\ s \in live /\ mo \in MOs /\ c \in Contents
    /\ os = objects[s][mo] /\ os # Unbound
    /\ new \in Writeables(s, {mo}, [m \in {mo} |-> os])
    /\ Rewrite(s, new, [m \in {mo} |-> Written(heap[os], c)])
    /\ live' = live /\ cowKey' = cowKey /\ process' = process

(* A write through getWriteable writes one object of one private memory.   *)
LEMMA WriteStep ==
    ASSUME MInv, Names, NEW s, NEW mo, NEW c, NEW os, NEW new, Writing(s, mo, c, os, new)
    PROVE  /\ MInv' /\ Implements
           /\ live' = live
           /\ \A u \in States \ {s} : objects'[u] = objects[u]
<1> DEFINE M   == {mo}
           src == [m \in M |-> os]
           content == [m \in M |-> Written(heap[os], c)]
           f   == [PrivateMem[s] EXCEPT ![mo] = c]
<1>a. /\ s \in live /\ mo \in MOs /\ c \in Contents
      /\ os = objects[s][mo] /\ os # Unbound
      /\ new \in Writeables(s, {mo}, [m \in {mo} |-> os])
      /\ Rewrite(s, new, [m \in {mo} |-> Written(heap[os], c)])
      /\ live' = live /\ cowKey' = cowKey /\ process' = process
  BY DEF Writing
<1>0. heap[os] \in ObjectState
  BY <1>a DEF MInv, MappedIsAllocated
<1>1. /\ live' = live
      /\ content \in [M -> ObjectState] /\ Content(content[mo]) = c
      /\ Rewriting(s, M, src, new, content)
  BY <1>a, <1>0, WrittenIs DEF Rewriting
<1>2. /\ MInv'
      /\ \A t \in States \ {s} : objects'[t] = objects[t]
      /\ \A t \in live \ {s}, m \in MOs : View(t, m)' = View(t, m)
      /\ \A m \in MOs : View(s, m)' = IF m = mo THEN c ELSE View(s, m)
  <2>1. \A m : m \in M <=> m = mo
    OBVIOUS
  <2> HIDE DEF M, src, content, f
  <2> QED
    BY <1>1, <2>1, RewriteOne
<1>3. PrivateMem[s] = [m \in MOs |-> View(s, m)] /\ View(s, mo) # Unbound
  BY <1>a, AliveIsLive, ViewIs DEF MInv, MTypes
<1>4. /\ \A m \in MOs : View(s, m)' = f[m]
      /\ f = [m \in MOs |-> f[m]]
  BY <1>2, <1>3
<1>5. Private!Becomes(s, f)
  <2> HIDE DEF f
  <2> QED
    BY <1>a, <1>1, <1>2, <1>4, MemBecomes
<1>6. Private!Write(s, mo, c) /\ c \in Private!Contents
  BY <1>a, <1>3, <1>5 DEF Private!Write, Private!Contents, Contents
<1>7. Private!Step(s)
  BY <1>a, <1>6 DEF Private!Step
<1> QED
  BY <1>a, <1>1, <1>2, <1>7, IsStep DEF Implements

-----------------------------------------------------------------------------
(* The actions. *)

Keeps == IInv' /\ Implements

(* The single-step operations other than Merge and the external call. *)
LEMMA SimpleSteps ==
    ASSUME IInv, Names, op = Idle, NEW s \in live,
           Fork(s) \/ Terminate(s) \/ Alloc(s) \/ popFrame(s) \/ Store(s)
    PROVE  Keeps
<1>0. MInv /\ MTypes /\ s \in States
  BY DEF IInv, MInv, MTypes
<1>1. CASE Fork(s)
  <2>1. PICK t \in States : branch(s, t) /\ op' = op
    BY <1>1 DEF Fork
  <2> QED
    BY <1>0, <2>1, BranchStep, IdleIsFine DEF Keeps, IInv
<1>2. CASE Terminate(s)
  BY <1>0, <1>2, TerminateStep, IdleIsFine DEF Keeps, IInv, Terminate
<1>3. CASE Alloc(s)
  <2>1. PICK mo \in Fresh, n \in OSs, v, real \in Values :
           /\ bindObject(s, mo, n, NewObjectState(s, v, Concrete), {})
           /\ process' = [process EXCEPT ![mo] = real]
           /\ UNCHANGED <<live, cowKey, op>>
    BY <1>3 DEF Alloc
  <2>2. mo \in MOs /\ process' \in [MOs -> Values]
    BY <1>0, <2>1 DEF Fresh, MTypes
  <2>3. MInv' /\ Implements
    BY <1>0, <2>1, <2>2, BindStep
  <2> QED
    BY <2>1, <2>3, IdleIsFine DEF Keeps, IInv
<1>4. CASE popFrame(s)
  <2>1. PICK gone \in SUBSET MOs :
           unbindObject(s, gone) /\ UNCHANGED <<live, cowKey, process, op>>
    BY <1>4 DEF popFrame, Bound
  <2> QED
    BY <1>0, <2>1, UnbindStep, IdleIsFine DEF Keeps, IInv
<1>5. CASE Store(s)
  <2>1. PICK mo \in Bound(s), c \in Contents :
           IF heap[objects[s][mo]].readOnly THEN Terminate(s)
           ELSE \E new \in Writeables(s, {mo}, objects[s]) :
                   /\ Rewrite(s, new, [m \in {mo} |-> Written(heap[objects[s][mo]], c)])
                   /\ UNCHANGED <<live, cowKey, process, op>>
    BY <1>5 DEF Store
  <2>2. CASE heap[objects[s][mo]].readOnly
    BY <1>0, <2>1, <2>2, TerminateStep, IdleIsFine DEF Keeps, IInv, Terminate
  <2>3. CASE ~heap[objects[s][mo]].readOnly
    <3> DEFINE os == objects[s][mo]
    <3>1. PICK new \in Writeables(s, {mo}, objects[s]) :
             /\ Rewrite(s, new, [m \in {mo} |-> Written(heap[os], c)])
             /\ UNCHANGED <<live, cowKey, process, op>>
      BY <2>1, <2>3
    <3>2. mo \in MOs /\ os # Unbound
      BY DEF Bound
    <3>3. new \in Writeables(s, {mo}, [m \in {mo} |-> os])
      BY <3>1 DEF Writeables
    <3>4. Writing(s, mo, c, os, new)
      BY <3>1, <3>2, <3>3 DEF Writing
    <3>5. MInv' /\ Implements
      BY <1>0, <3>4, WriteStep
    <3> QED
      BY <3>1, <3>5, IdleIsFine DEF Keeps, IInv
  <2> QED
    BY <2>2, <2>3
<1> QED
  BY <1>1, <1>2, <1>3, <1>4, <1>5

(* merge(b): both states change, and the writes are those of one of them. *)
LEMMA MergeStep ==
    ASSUME IInv, Names, op = Idle, NEW a \in live, NEW b \in States, Merge(a, b)
    PROVE  Keeps
<1>0. MInv /\ MTypes /\ MappedIsAllocated /\ a \in States
  BY DEF IInv, MInv, MTypes
<1> DEFINE M == Mutated(a, b)
           merged(sel) == [mo \in M |-> Written(heap[objects[a][mo]],
                             IF View(a, mo) = View(b, mo) THEN View(a, mo) ELSE sel)]
<1>1. a # b /\ b \in live /\ Bound(a) = Bound(b)
  BY DEF Merge
<1>2. PICK new \in Writeables(a, M, objects[a]), sel \in Exprs :
         /\ objects' = [objects EXCEPT ![a] = Redirect(a, new),
                                       ![b] = [mo \in MOs |-> Unbound]]
         /\ heap' = Sweep(Overwrite(a, new,
                       [mo \in DOMAIN new |->
                          Written(heap[objects[a][mo]],
                            IF View(a, mo) = View(b, mo) THEN View(a, mo) ELSE sel)]),
                       objects')
  BY DEF Merge
<1>3. DOMAIN new = M
  BY DEF Writeables, Injection
<1>4. \A mo \in M : /\ mo \in MOs /\ objects[a][mo] # Unbound
                    /\ heap[objects[a][mo]] \in ObjectState
                    /\ View(a, mo) \in Contents
  BY <1>0, <1>1, ViewIs DEF Mutated, Bound, MappedIsAllocated
<1>5. /\ merged(sel) \in [M -> ObjectState]
      /\ \A mo \in M : Content(merged(sel)[mo]) =
                          IF View(a, mo) = View(b, mo) THEN View(a, mo) ELSE sel
  <2>1. ASSUME NEW mo \in M
        PROVE  LET c == IF View(a, mo) = View(b, mo) THEN View(a, mo) ELSE sel
                   w == Written(heap[objects[a][mo]], c)
               IN  w \in ObjectState /\ Content(w) = c
    <3> DEFINE c == IF View(a, mo) = View(b, mo) THEN View(a, mo) ELSE sel
    <3>1. c \in Contents /\ heap[objects[a][mo]] \in ObjectState
      BY <1>4 DEF Contents
    <3> HIDE DEF c
    <3>2. Written(heap[objects[a][mo]], c) \in ObjectState
          /\ Content(Written(heap[objects[a][mo]], c)) = c
      BY <3>1, WrittenIs
    <3> QED
      BY <3>2 DEF c
  <2> QED
    BY <2>1
<1>6. Update(a, {b}, Redirect(a, new), Overwrite(a, new, merged(sel)))
  <2>1. heap' = Sweep(Overwrite(a, new, merged(sel)), objects')
    BY <1>2, <1>3
  <2>2. objects' = [s \in States |-> IF s = a THEN Redirect(a, new)
                                     ELSE IF s \in {b} THEN [mo \in MOs |-> Unbound]
                                     ELSE objects[s]]
    BY <1>0, <1>1, <1>2 DEF MTypes
  <2>3. /\ live' = live \ {b}
        /\ cowKey' = [s \in States |-> IF s \in {b} THEN 1 ELSE cowKey[s]]
    BY <1>0 DEF Merge, MTypes
  <2> HIDE DEF M, merged
  <2> QED
    BY <2>1, <2>2, <2>3 DEF Update
<1>7. /\ MInv'
      /\ \A t \in live \ {a}, mo \in MOs : t \notin {b} => View(t, mo)' = View(t, mo)
      /\ \A mo \in MOs : View(a, mo)' = IF mo \in M THEN Content(merged(sel)[mo])
                                        ELSE View(a, mo)
  <2> DEFINE dead == {b}
             content == merged(sel)
             src == objects[a]
  <2>1. /\ dead \in SUBSET (live \ {a}) /\ M \in SUBSET MOs
        /\ \A mo \in M : src[mo] = objects[a][mo] /\ src[mo] # Unbound
        /\ new \in Writeables(a, M, src) /\ content \in [M -> ObjectState]
        /\ Update(a, dead, Redirect(a, new), Overwrite(a, new, content))
        /\ process' \in [MOs -> Values]
    BY <1>0, <1>1, <1>4, <1>5, <1>6 DEF Merge, MTypes
  <2> HIDE DEF dead, content, src, M, merged
  <2>2. /\ MInv'
        /\ \A t \in live \ {a}, mo \in MOs : t \notin dead => View(t, mo)' = View(t, mo)
        /\ \A mo \in MOs : View(a, mo)' = IF mo \in M THEN Content(content[mo])
                                          ELSE View(a, mo)
    BY <1>0, <2>1, RewriteKeeps, Z3
  <2> QED
    BY <2>2 DEF dead, content
<1>8. Private!Step(a)
  <2> DEFINE result == [mo \in MOs |-> View(a, mo)']
  <2>1. \A mo \in MOs :
           /\ result[mo] \in Contents \cup {Unbound}
           /\ View(a, mo) = Unbound <=> View(b, mo) = Unbound
           /\ IF View(a, mo) = View(b, mo) THEN result[mo] = View(a, mo)
              ELSE result[mo] \in Exprs
    <3> SUFFICES ASSUME NEW mo \in MOs
                 PROVE  /\ result[mo] \in Contents \cup {Unbound}
                        /\ View(a, mo) = Unbound <=> View(b, mo) = Unbound
                        /\ IF View(a, mo) = View(b, mo) THEN result[mo] = View(a, mo)
                           ELSE result[mo] \in Exprs
      OBVIOUS
    <3>1. View(a, mo) = Unbound <=> View(b, mo) = Unbound
      BY <1>0, <1>1, ViewIs DEF Bound
    <3>2. CASE mo \in M
      BY <3>1, <3>2, <1>4, <1>5, <1>7 DEF Contents
    <3>3. CASE mo \notin M
      BY <3>1, <3>3, <1>0, <1>7, ViewIs DEF Mutated, View
    <3> QED
      BY <3>2, <3>3
  <2>2. result \in Private!Memories
    BY <2>1 DEF Private!Memories, Private!Contents, Contents
  <2>3. /\ Private!Alive(b)
        /\ PrivateMem[a] = [mo \in MOs |-> View(a, mo)]
        /\ PrivateMem[b] = [mo \in MOs |-> View(b, mo)]
    BY <1>0, <1>1, AliveIsLive
  <2>4. PrivateMem' = [PrivateMem EXCEPT ![a] = result, ![b] = NoState]
    <3>1. PrivateMem' = [s \in States |-> IF s \in live \ {b}
                                          THEN [mo \in MOs |-> View(s, mo)'] ELSE NoState]
      BY DEF PrivateMem, Merge
    <3>2. \A s \in live \ {a, b} : [mo \in MOs |-> View(s, mo)'] = [mo \in MOs |-> View(s, mo)]
      BY <1>7
    <3> QED
      BY <3>1, <3>2, <1>0, <1>1 DEF PrivateMem
  <2>5. Private!Merge(a, b, result)
    <3> HIDE DEF result
    <3> QED
      BY <1>1, <2>1, <2>3, <2>4 DEF Private!Merge
  <2> QED
    BY <2>2, <2>5 DEF Private!Step
<1>9. op' = Idle
  BY DEF Merge
<1> QED
  BY <1>0, <1>7, <1>8, <1>9, IsStep, IdleIsFine DEF Keeps, Implements, IInv

(* A step that leaves the address spaces alone is a stutter.               *)
LEMMA SameMemory ==
    ASSUME MInv, UNCHANGED <<live, cowKey, objects, heap>>, process' \in [MOs -> Values]
    PROVE  MInv' /\ Implements
<1>1. MInv'
  BY DEF MInv, MTypes, DeadBindNothing, MappedIsAllocated, Separate
<1>2. PrivateMem' = PrivateMem
  BY DEF PrivateMem, View
<1> QED
  BY <1>1, <1>2 DEF Implements

(* A resolution starts with the bindings of its state.                     *)
LEMMA ResolveStep ==
    ASSUME IInv, Names, op = Idle, NEW s \in live, Resolve(s)
    PROVE  Keeps
<1>0. MInv /\ MTypes /\ s \in States
  BY DEF IInv, MInv, MTypes
<1>1. PICK use \in Uses, M \in SUBSET Bound(s) :
         op' = [kind    |-> "resolve", use |-> use, unbound |-> s,
                rl      |-> [mo \in M |-> objects[s][mo]],
                results |-> << >>]
  BY DEF Resolve
<1>2. UNCHANGED <<live, cowKey, objects, heap, process>>
  BY DEF Resolve
<1>3. MInv' /\ Implements
  BY <1>0, <1>2, SameMemory DEF MTypes
<1>4. op' \in Resolving
  <2> DEFINE rl == [mo \in M |-> objects[s][mo]]
             T == {}
             results == << >>
  <2>1. /\ M \in SUBSET MOs /\ rl \in [M -> OSs]
        /\ T \in SUBSET States /\ results \in [T -> MOs \X OSs]
    BY <1>0 DEF Bound, MTypes
  <2> HIDE DEF rl, T, results
  <2>2. [kind |-> "resolve", use |-> use, unbound |-> s, rl |-> rl,
         results |-> results] \in Resolving
    BY <1>0, <2>1, MakeResolving
  <2> QED
    BY <1>1, <2>2 DEF rl, results
<1>5. ResolutionFresh'
  <2>1. /\ op'.unbound = s /\ DOMAIN op'.results = {} /\ DOMAIN op'.rl = M
        /\ \A mo \in M : op'.rl[mo] = objects[s][mo]
    BY <1>1
  <2> QED
    BY <1>2, <2>1 DEF ResolutionFresh
<1>6. op'.kind # "call"
  BY <1>1
<1> QED
  BY <1>3, <1>4, <1>5, <1>6 DEF Keeps, IInv, OpInv

(* What a resolution still knows about its unbound state. *)
LEMMA UnboundIs ==
    ASSUME IInv, NextPair, op.unbound # NoState
    PROVE  /\ op \in Resolving /\ op.kind = "resolve"
           /\ op.unbound \in live \ DOMAIN op.results /\ op.unbound \in States
           /\ \A mo \in DOMAIN op.rl : objects[op.unbound][mo] = op.rl[mo]
           /\ \A t \in DOMAIN op.results :
                 t \in live /\ objects[t][op.results[t][1]] = op.results[t][2]
  BY OpIs DEF IInv, MInv, MTypes, OpInv, NextPair, ResolutionFresh

(* One candidate fewer, and one more state, bound, that has its pair. *)
LEMMA TookKeeps ==
    ASSUME IInv, NextPair, op.unbound # NoState, NEW mo \in DOMAIN op.rl,
           NEW bound \in States, NEW unbound \in States \cup {NoState},
           Took(mo, bound, unbound),
           live \subseteq live', bound \in live', bound \notin DOMAIN op.results,
           unbound # NoState => unbound \in live' \ DOMAIN op.results /\ unbound # bound,
           \A t \in DOMAIN op.results : objects'[t] = objects[t],
           objects'[bound] = objects[op.unbound],
           unbound # NoState => objects'[unbound] = objects[op.unbound]
    PROVE  OpInv'
<1>1. /\ op \in Resolving
      /\ \A m \in DOMAIN op.rl : objects[op.unbound][m] = op.rl[m]
      /\ \A t \in DOMAIN op.results :
            t \in live /\ objects[t][op.results[t][1]] = op.results[t][2]
  BY UnboundIs
<1>2. /\ op' \in Resolving
      /\ op'.kind = "resolve" /\ op'.unbound = unbound
      /\ op'.rl = [m \in DOMAIN op.rl \ {mo} |-> op.rl[m]]
      /\ op'.results = [t \in DOMAIN op.results \cup {bound} |->
                          IF t = bound THEN <<mo, op.rl[mo]>> ELSE op.results[t]]
  BY <1>1, TookIs
<1>3. unbound # NoState =>
         /\ unbound \in live' \ DOMAIN op'.results
         /\ \A m \in DOMAIN op'.rl : objects'[unbound][m] = op'.rl[m]
  BY <1>1, <1>2
<1>4. ASSUME NEW t \in DOMAIN op'.results
      PROVE  t \in live' /\ objects'[t][op'.results[t][1]] = op'.results[t][2]
  <2>1. CASE t = bound
    <3>1. op'.results[t] = <<mo, op.rl[mo]>>
      BY <1>2, <2>1
    <3> QED
      BY <1>1, <2>1, <3>1
  <2>2. CASE t # bound
    <3>1. t \in DOMAIN op.results /\ op'.results[t] = op.results[t]
      BY <1>2, <2>2
    <3> QED
      BY <1>1, <3>1
  <2> QED
    BY <2>1, <2>2
<1>5. ResolutionFresh'
  BY <1>2, <1>3, <1>4 DEF ResolutionFresh
<1> QED
  BY <1>2, <1>5 DEF OpInv

(* A resolution forks its state, and its pairs stay fresh in both.         *)
LEMMA ForkPairStep ==
    ASSUME IInv, Names, ForkPair
    PROVE  Keeps
<1> DEFINE u == op.unbound
<1>0. NextPair /\ u # NoState /\ MInv /\ MTypes
  BY DEF ForkPair, NextPair, IInv, MInv
<1>1. /\ op \in Resolving /\ op.kind = "resolve"
      /\ u \in live \ DOMAIN op.results /\ u \in States
      /\ \A mo \in DOMAIN op.rl : objects[u][mo] = op.rl[mo]
      /\ \A t \in DOMAIN op.results :
            t \in live /\ objects[t][op.results[t][1]] = op.results[t][2]
  BY <1>0, UnboundIs
<1>2. PICK mo \in DOMAIN op.rl :
         \/ \E t \in States : branch(u, t) /\ (Took(mo, u, t) \/ Took(mo, t, u))
         \/ Took(mo, u, NoState) /\ UNCHANGED <<live, cowKey, objects, heap, process>>
         \/ /\ op' = [op EXCEPT !.rl = Without(op.rl, mo)]
            /\ UNCHANGED <<live, cowKey, objects, heap, process>>
  BY DEF ForkPair
<1>3. CASE \E t \in States : branch(u, t) /\ (Took(mo, u, t) \/ Took(mo, t, u))
  <2>1. PICK t \in States : branch(u, t) /\ (Took(mo, u, t) \/ Took(mo, t, u))
    BY <1>3
  <2>2. MInv' /\ Implements
    BY <1>0, <1>1, <2>1, BranchStep
  <2>3. /\ t \in States \ live /\ live' = live \cup {t}
        /\ objects' = [objects EXCEPT ![t] = objects[u]]
    BY <2>1 DEF branch
  <2>4. /\ objects'[t] = objects[u] /\ \A v \in States \ {t} : objects'[v] = objects[v]
        /\ \A v \in DOMAIN op.results : objects'[v] = objects[v] /\ v # t /\ v # u
        /\ t # NoState /\ u # NoState /\ t # u /\ t \notin DOMAIN op.results
        /\ objects'[u] = objects[u]
    BY <1>0, <1>1, <2>3 DEF MTypes, Names
  <2>5. live \subseteq live' /\ u \in live' /\ t \in live'
    BY <1>1, <2>3
  <2>6. CASE Took(mo, u, t)
    <3> HIDE DEF u
    <3> QED
      BY <1>0, <1>1, <2>2, <2>4, <2>5, <2>6, TookKeeps DEF Keeps, IInv, u
  <2>7. CASE Took(mo, t, u)
    <3> HIDE DEF u
    <3> QED
      BY <1>0, <1>1, <2>2, <2>4, <2>5, <2>7, TookKeeps DEF Keeps, IInv, u
  <2> QED
    BY <2>1, <2>6, <2>7
<1>4. CASE Took(mo, u, NoState) /\ UNCHANGED <<live, cowKey, objects, heap, process>>
  <2>1. MInv' /\ Implements
    BY <1>0, <1>4, SameMemory DEF MTypes
  <2>2. OpInv'
    BY <1>0, <1>1, <1>4, TookKeeps
  <2> QED
    BY <2>1, <2>2 DEF Keeps, IInv
<1>5. CASE /\ op' = [op EXCEPT !.rl = Without(op.rl, mo)]
           /\ UNCHANGED <<live, cowKey, objects, heap, process>>
  <2>1. MInv' /\ Implements
    BY <1>0, <1>5, SameMemory DEF MTypes
  <2> DEFINE rl == [m \in DOMAIN op.rl \ {mo} |-> op.rl[m]]
  <2>2. op' = [kind |-> "resolve", use |-> op.use, unbound |-> op.unbound,
               rl |-> rl, results |-> op.results]
    BY <1>1, <1>5, ResolvingIs DEF Without, Restrict
  <2>3. op' \in Resolving
    <3>1. rl \in [DOMAIN op.rl \ {mo} -> OSs] /\ DOMAIN op.rl \ {mo} \in SUBSET MOs
      BY <1>1, ResolvingIs
    <3> HIDE DEF rl
    <3> QED
      BY <1>1, <2>2, <3>1, ResolvingIs, MakeResolving
  <2>4. /\ op'.kind = "resolve" /\ op'.unbound = u /\ op'.results = op.results
        /\ op'.rl = rl
    BY <2>2
  <2>5. ResolutionFresh'
    BY <1>1, <1>5, <2>4 DEF ResolutionFresh
  <2> QED
    BY <2>1, <2>3, <2>4, <2>5 DEF Keeps, IInv, OpInv
<1> QED
  BY <1>2, <1>3, <1>4, <1>5

(* A resolution ends the state that no object was found for.               *)
LEMMA EndUnboundStep ==
    ASSUME IInv, Names, EndUnbound
    PROVE  Keeps
<1> DEFINE u == op.unbound
<1>0. NextPair /\ u # NoState /\ MInv /\ MTypes /\ terminateState(u)
  BY DEF EndUnbound, NextPair, IInv, MInv
<1>1. /\ op \in Resolving /\ op.kind = "resolve"
      /\ u \in live \ DOMAIN op.results /\ u \in States
      /\ \A t \in DOMAIN op.results :
            t \in live /\ objects[t][op.results[t][1]] = op.results[t][2]
  BY <1>0, UnboundIs
<1>2. /\ MInv' /\ Implements /\ live' = live \ {u}
      /\ \A v \in States \ {u} : objects'[v] = objects[v]
  BY <1>0, <1>1, TerminateStep
<1>3. CASE op' = Idle
  BY <1>2, <1>3, IdleIsFine DEF Keeps, IInv
<1>4. CASE op' # Idle
  <2>1. op' = [kind |-> "resolve", use |-> op.use, unbound |-> NoState,
               rl |-> op.rl, results |-> op.results]
    BY <1>1, <1>4, ResolvingIs DEF EndUnbound
  <2>2. op' \in Resolving
    BY <1>1, <2>1, ResolvingIs, MakeResolving
  <2>3. ResolutionFresh'
    BY <1>1, <1>2, <2>1, ResolvingIs DEF ResolutionFresh
  <2> QED
    BY <1>2, <2>1, <2>2, <2>3 DEF Keeps, IInv, OpInv
<1> QED
  BY <1>3, <1>4

(* A pair is used in the state it was found for: one private memory        *)
(* changes.                                                                *)
LEMMA UsePairStep ==
    ASSUME IInv, Names, UsePair
    PROVE  Keeps
<1>0. MInv /\ MTypes /\ MappedIsAllocated /\ OpInv /\ op.kind = "resolve"
  BY DEF IInv, MInv, UsePair
<1>1. op \in Resolving /\ ResolutionFresh
  BY <1>0, OpIs DEF OpInv
<1> DEFINE mo(t) == op.results[t][1]
           os(t) == op.results[t][2]
<1>2. PICK t \in DOMAIN op.results :
       \/ /\ op.use \in {Read, "realloc"}
          /\ Consumed(t)
          /\ UNCHANGED <<live, cowKey, objects, heap, process>>
       \/ /\ op.use \in Contents /\ heap[os(t)].readOnly
          /\ terminateState(t) /\ Consumed(t)
       \/ /\ op.use \in Contents /\ ~heap[os(t)].readOnly
          /\ \E new \in Writeables(t, {mo(t)}, [m \in {mo(t)} |-> os(t)]) :
                Rewrite(t, new, [m \in {mo(t)} |-> Written(heap[os(t)], op.use)])
          /\ Consumed(t)
          /\ UNCHANGED <<live, cowKey, process>>
       \/ /\ \/ op.use = "free" /\ mo(t) \in Locals \cup Globals
             \/ op.use = "realloc"
             \/ op.use = "make_symbolic" /\ ~heap[os(t)].readOnly
          /\ terminateState(t) /\ Consumed(t)
       \/ /\ op.use = "free" /\ mo(t) \notin Locals \cup Globals
          /\ unbindObject(t, {mo(t)}) /\ Consumed(t)
          /\ UNCHANGED <<live, cowKey, process>>
       \/ /\ op.use = "realloc"
          /\ \E to \in Fresh, n \in OSs, v, real \in Values :
                /\ heap[os(t)].expr = Concrete => v = heap[os(t)].concreteStore
                /\ bindObject(t, to, n, NewObjectState(t, v, heap[os(t)].expr), {mo(t)})
                /\ process' = [process EXCEPT ![to] = real]
          /\ Consumed(t)
          /\ UNCHANGED <<live, cowKey>>
       \/ /\ op.use = "make_symbolic" /\ heap[os(t)].readOnly
          /\ terminateState(t)
          /\ op' = Idle
       \/ /\ op.use = "make_symbolic" /\ ~heap[os(t)].readOnly
          /\ \E n \in OSs, v \in Values, e \in Exprs :
                bindObject(t, mo(t), n, NewObjectState(t, v, e), {})
          /\ Consumed(t)
          /\ UNCHANGED <<live, cowKey, process>>
  BY DEF UsePair
<1>3. /\ t \in live /\ t \in States /\ mo(t) \in MOs /\ os(t) \in OSs
      /\ os(t) = objects[t][mo(t)] /\ os(t) # Unbound
      /\ heap[os(t)] \in ObjectState
  <2>1. t \in live /\ objects[t][mo(t)] = os(t)
    BY <1>0, <1>1 DEF ResolutionFresh
  <2>2. op.results[t] \in MOs \X OSs
    BY <1>1, ResolvingIs
  <2> QED
    BY <2>1, <2>2, <1>0 DEF MTypes, MappedIsAllocated, Names
<1>4. ASSUME MInv', Implements, Consumed(t), live \ {t} \subseteq live',
             \A u \in States \ {t} : objects'[u] = objects[u]
      PROVE  Keeps
  BY <1>0, <1>4, ConsumedKeeps DEF Keeps, IInv
<1>5. ASSUME terminateState(t), Consumed(t)
      PROVE  Keeps
  BY <1>0, <1>3, <1>4, <1>5, TerminateStep
<1>6. ASSUME terminateState(t), op' = Idle
      PROVE  Keeps
  BY <1>0, <1>3, <1>6, TerminateStep, IdleIsFine DEF Keeps, IInv
<1>7. ASSUME Consumed(t), UNCHANGED <<live, cowKey, objects, heap, process>>
      PROVE  Keeps
  <2>1. MInv' /\ Implements
    BY <1>0, <1>7, SameMemory DEF MTypes
  <2> QED
    BY <1>4, <1>7, <2>1
<1>8. ASSUME op.use \in Contents, Consumed(t), UNCHANGED <<live, cowKey, process>>,
             NEW new \in Writeables(t, {mo(t)}, [m \in {mo(t)} |-> os(t)]),
             Rewrite(t, new, [m \in {mo(t)} |-> Written(heap[os(t)], op.use)])
      PROVE  Keeps
  <2>1. Writing(t, mo(t), op.use, os(t), new)
    BY <1>3, <1>8 DEF Writing
  <2>2. MInv' /\ Implements /\ live' = live /\ \A u \in States \ {t} : objects'[u] = objects[u]
    BY <1>0, <2>1, WriteStep
  <2> QED
    BY <1>4, <1>8, <2>2
<1>9. ASSUME unbindObject(t, {mo(t)}), Consumed(t), UNCHANGED <<live, cowKey, process>>
      PROVE  Keeps
  <2> DEFINE gone == {mo(t)}
  <2>1. unbindObject(t, gone) /\ gone \in SUBSET MOs /\ UNCHANGED <<live, cowKey, process>>
    BY <1>3, <1>9
  <2> HIDE DEF gone
  <2>2. MInv' /\ Implements /\ live' = live /\ \A u \in States \ {t} : objects'[u] = objects[u]
    BY <1>0, <1>3, <2>1, UnbindStep
  <2> QED
    BY <1>4, <1>9, <2>2
<1>10. ASSUME Consumed(t), UNCHANGED <<live, cowKey>>,
              NEW to \in Fresh, NEW n \in OSs, NEW v \in Values, NEW real \in Values,
              heap[os(t)].expr = Concrete => v = heap[os(t)].concreteStore,
              bindObject(t, to, n, NewObjectState(t, v, heap[os(t)].expr), {mo(t)}),
              process' = [process EXCEPT ![to] = real]
       PROVE  Keeps
  <2> DEFINE k == mo(t)
  <2>1. /\ heap[objects[t][k]].expr = Concrete => v = heap[objects[t][k]].concreteStore
        /\ bindObject(t, to, n, NewObjectState(t, v, heap[objects[t][k]].expr), {k})
        /\ k \in MOs /\ objects[t][k] # Unbound
    BY <1>3, <1>10
  <2>2. process' \in [MOs -> Values] /\ UNCHANGED <<live, cowKey>>
    BY <1>0, <1>10 DEF MTypes
  <2> HIDE DEF k
  <2>3. MInv' /\ Implements /\ live' = live /\ \A u \in States \ {t} : objects'[u] = objects[u]
    BY <1>0, <1>3, <2>1, <2>2, ReallocStep
  <2> QED
    BY <1>4, <1>10, <2>3
<1>11. ASSUME Consumed(t), UNCHANGED <<live, cowKey, process>>,
              NEW n \in OSs, NEW v \in Values, NEW e \in Exprs,
              bindObject(t, mo(t), n, NewObjectState(t, v, e), {})
       PROVE  Keeps
  <2> DEFINE k == mo(t)
  <2>1. /\ k \in MOs /\ bindObject(t, k, n, NewObjectState(t, v, e), {})
        /\ UNCHANGED <<live, cowKey>> /\ process' \in [MOs -> Values]
    BY <1>0, <1>3, <1>11 DEF MTypes
  <2> HIDE DEF k
  <2>2. MInv' /\ Implements /\ live' = live /\ \A u \in States \ {t} : objects'[u] = objects[u]
    BY <1>0, <1>3, <2>1, BindStep
  <2> QED
    BY <1>4, <1>11, <2>2
<1> HIDE DEF mo, os
<1> QED
  BY <1>2, <1>5, <1>6, <1>7, <1>8, <1>9, <1>10, <1>11

(* A symbolic size forks the state that reallocates: the new state has the *)
(* same bindings, so the same pair is as fresh in it.                      *)
LEMMA ForkSizeStep ==
    ASSUME IInv, Names, ForkSize
    PROVE  Keeps
<1>0. MInv /\ MTypes /\ OpInv /\ op.kind = "resolve" /\ op.unbound = NoState
  BY DEF IInv, MInv, ForkSize
<1>1. op \in Resolving /\ ResolutionFresh
  BY <1>0, OpIs DEF OpInv
<1>2. PICK t \in DOMAIN op.results, x \in States :
         /\ branch(t, x)
         /\ op' = [op EXCEPT !.results =
                      [y \in DOMAIN op.results \cup {x} |->
                         op.results[IF y = x THEN t ELSE y]]]
  BY DEF ForkSize
<1>3. \A y \in DOMAIN op.results :
         y \in live /\ objects[y][op.results[y][1]] = op.results[y][2]
  BY <1>0, <1>1 DEF ResolutionFresh
<1>4. MInv' /\ Implements
  BY <1>0, <1>2, <1>3, BranchStep
<1>5. /\ live' = live \cup {x} /\ x \notin live /\ objects'[x] = objects[t]
      /\ \A y \in States \ {x} : objects'[y] = objects[y]
  BY <1>0, <1>2 DEF branch, MTypes
<1> DEFINE T == DOMAIN op.results \cup {x}
           results == [y \in T |-> op.results[IF y = x THEN t ELSE y]]
<1>6. op' = [kind |-> "resolve", use |-> op.use, unbound |-> NoState,
             rl |-> op.rl, results |-> results]
  BY <1>0, <1>1, <1>2, ResolvingIs
<1>7. results \in [T -> MOs \X OSs] /\ T \in SUBSET States
  BY <1>1, <1>2, ResolvingIs
<1>8. \A y \in T : y \in live' /\ objects'[y][results[y][1]] = results[y][2]
  <2> SUFFICES ASSUME NEW y \in T
               PROVE  y \in live' /\ objects'[y][results[y][1]] = results[y][2]
    OBVIOUS
  <2>1. CASE y = x
    BY <1>2, <1>3, <1>5, <2>1
  <2>2. CASE y # x
    BY <1>2, <1>3, <1>5, <1>7, <2>2
  <2> QED
    BY <2>1, <2>2
<1> HIDE DEF T, results
<1>9. op' \in Resolving
  BY <1>1, <1>6, <1>7, ResolvingIs, MakeResolving
<1>10. DOMAIN results = T
  BY <1>7
<1>11. ResolutionFresh'
  BY <1>6, <1>8, <1>10 DEF ResolutionFresh
<1> QED
  BY <1>4, <1>6, <1>9, <1>11 DEF Keeps, IInv, OpInv

-----------------------------------------------------------------------------
(* The external call. *)

LEMMA CallOutStep ==
    ASSUME IInv, Names, op = Idle, NEW s \in live, CallOut(s)
    PROVE  Keeps
<1>0. MInv /\ MTypes /\ MappedIsAllocated /\ s \in States
  BY DEF IInv, MInv, MTypes
<1>a. PICK F \in SUBSET {mo \in Bound(s) : heap[objects[s][mo]].expr # Concrete} :
         \E answer \in [F -> Values] :
            heap' = Flushed(s, answer) /\ process' = copyOutConcretes(s, heap')
  BY DEF CallOut
<1>1. PICK answer \in [F -> Values] :
         heap' = Flushed(s, answer) /\ process' = copyOutConcretes(s, heap')
  BY <1>a
<1>2. UNCHANGED <<live, cowKey, objects>>
  BY DEF CallOut
<1>3. \A mo \in Bound(s) : heap'[objects[s][mo]].concreteStore \in Values
  <2> SUFFICES ASSUME NEW mo \in Bound(s)
               PROVE  heap'[objects[s][mo]].concreteStore \in Values
    OBVIOUS
  <2>1. objects[s][mo] \in OSs /\ heap[objects[s][mo]] \in ObjectState
    BY <1>0 DEF Bound, MTypes, MappedIsAllocated
  <2>2. heap'[objects[s][mo]] \in ObjectState
    BY <1>0, <1>1, <2>1, FlushIs
  <2> QED
    BY <2>2 DEF ObjectState
<1>4. process' \in [MOs -> Values]
  <2>1. \A mo \in MOs : process[mo] \in Values
    BY <1>0 DEF MTypes
  <2> QED
    BY <1>1, <1>3, <2>1 DEF copyOutConcretes
<1>5. MInv' /\ \A t \in live, m \in MOs : View(t, m)' = View(t, m)
  BY <1>0, <1>1, <1>2, <1>4, FlushKeeps
<1>6. Implements
  BY <1>0, <1>2, <1>5, MemUnchanged DEF Implements
<1>7. OpInv'
  <2>1. /\ op' = [kind |-> "call", who |-> s, touched |-> {}]
        /\ Errno \in Bound(s)
    BY DEF CallOut
  <2>2. op' \in Calling /\ op'.kind = "call" /\ op'.who = s
    BY <1>0, <2>1 DEF Calling
  <2>3. objects'[s][Errno] # Unbound /\ s \in live'
    BY <1>2, <2>1 DEF Bound
  <2> QED
    BY <2>2, <2>3 DEF OpInv, ResolutionFresh
<1> QED
  BY <1>5, <1>6, <1>7 DEF Keeps, IInv

(* Whoever is in a call exists, and its errno is bound. *)
LEMMA CallerIs ==
    ASSUME IInv, op.kind = "call"
    PROVE  /\ op \in Calling /\ op.who \in live /\ op.who \in States
           /\ objects[op.who][Errno] # Unbound
  BY OpIs DEF IInv, OpInv, MInv, MTypes

(* Native code changes the process's memory, no private one.               *)
LEMMA NativeCodeStep ==
    ASSUME IInv, Names, NativeCode
    PROVE  Keeps
<1>0. MInv /\ MTypes /\ op.kind = "call"
  BY DEF IInv, MInv, NativeCode
<1>1. /\ op \in Calling /\ op.who \in live /\ op.who \in States
      /\ objects[op.who][Errno] # Unbound
  BY <1>0, CallerIs
<1>2. PICK mo \in Bound(op.who), v \in Values :
         /\ process' = [process EXCEPT ![mo] = v]
         /\ op' = [op EXCEPT !.touched = op.touched \cup {mo}]
  BY DEF NativeCode
<1>3. UNCHANGED <<live, cowKey, objects, heap>>
  BY DEF NativeCode
<1>4. process' \in [MOs -> Values] /\ mo \in MOs
  BY <1>0, <1>2 DEF MTypes, Bound
<1>5. MInv' /\ Implements
  BY <1>0, <1>3, <1>4, SameMemory
<1>6. op' \in Calling /\ op'.kind = "call" /\ op'.who = op.who
  BY <1>1, <1>2, <1>4 DEF Calling
<1> QED
  BY <1>1, <1>3, <1>5, <1>6 DEF Keeps, IInv, OpInv, ResolutionFresh

(* A call that fails ends the private memory of its state.                 *)
LEMMA CallEnds ==
    ASSUME IInv, Names, CallCrashes \/ CopyInFails
    PROVE  Keeps
<1>1. MInv /\ op.kind = "call" /\ terminateState(op.who) /\ op' = Idle
  BY DEF IInv, CallCrashes, CopyInFails
<1>2. op.who \in live
  BY <1>1, CallerIs
<1>3. MInv' /\ Implements
  BY <1>1, <1>2, TerminateStep
<1> QED
  BY <1>1, <1>3, IdleIsFine DEF Keeps, IInv

(* A call that returns changes the private memory of its state, and no     *)
(* symbolic content of it.                                                 *)
LEMMA CallReturnsStep ==
    ASSUME IInv, Names, CallReturns
    PROVE  Keeps
<1>0. MInv /\ MTypes /\ MappedIsAllocated /\ op.kind = "call" /\ op' = Idle
  BY DEF IInv, MInv, CallReturns
<1>a. op.who \in live /\ op.who \in States /\ objects[op.who][Errno] # Unbound
  BY <1>0, CallerIs
<1>b. PICK s \in live : s = op.who
  BY <1>a
<1>1. s \in live /\ s \in States /\ objects[s][Errno] # Unbound
  BY <1>a, <1>b
<1> DEFINE Os(mo) == heap[objects[s][mo]]
<1>2. PICK e \in Values :
         LET In == Differs(s) \cup (IF e = Os(Errno).concreteStore THEN {} ELSE {Errno})
         IN \E new \in Writeables(s, In, objects[s]) :
               Rewrite(s, new, [mo \in In |->
                 [Os(mo) EXCEPT !.concreteStore =
                     IF mo = Errno THEN e ELSE process[mo]]])
  BY <1>b DEF CallReturns
<1> DEFINE In == Differs(s) \cup (IF e = Os(Errno).concreteStore THEN {} ELSE {Errno})
           val(mo) == IF mo = Errno THEN e ELSE process[mo]
           content == [mo \in In |-> [Os(mo) EXCEPT !.concreteStore = val(mo)]]
           src == objects[s]
<1>3. PICK new \in Writeables(s, In, src) : Rewrite(s, new, content)
  BY <1>2
<1>4. In \subseteq MOs /\ \A mo \in In : objects[s][mo] # Unbound
  BY <1>1 DEF Differs, Bound, Names
<1>5. \A mo \in In : /\ Os(mo) \in ObjectState /\ val(mo) \in Values
                     /\ content[mo] = [Os(mo) EXCEPT !.concreteStore = val(mo)]
  BY <1>0, <1>1, <1>4 DEF MTypes, MappedIsAllocated
<1>6. \A mo \in In : /\ content[mo] \in ObjectState
                     /\ Content(content[mo]) = IF Os(mo).expr = Concrete THEN val(mo)
                                               ELSE Content(Os(mo))
  <2> SUFFICES ASSUME NEW mo \in In
               PROVE  /\ content[mo] \in ObjectState
                      /\ Content(content[mo]) = IF Os(mo).expr = Concrete THEN val(mo)
                                                ELSE Content(Os(mo))
    OBVIOUS
  <2> DEFINE c == Os(mo)
             d == content[mo]
             v == val(mo)
  <2>1. c \in ObjectState /\ v \in Values /\ d = [c EXCEPT !.concreteStore = v]
    BY <1>5
  <2> HIDE DEF c, d, v
  <2>2. /\ d \in ObjectState
        /\ Content(d) = IF c.expr = Concrete THEN v ELSE Content(c)
    BY <2>1 DEF ObjectState, Content
  <2> QED
    BY <2>2 DEF c, d, v
<1>7. Rewriting(s, In, src, new, content) /\ live' = live
  <2>1. content \in [In -> ObjectState]
    BY <1>6
  <2>2. live' = live /\ cowKey' = cowKey /\ process' = process
    BY DEF CallReturns
  <2> HIDE DEF In, content, Os
  <2> QED
    BY <1>1, <1>3, <1>4, <2>1, <2>2 DEF Rewriting
<1>8. /\ MInv'
      /\ \A t \in live \ {s}, mo \in MOs : View(t, mo)' = View(t, mo)
      /\ \A mo \in MOs : View(s, mo)' = IF mo \in In THEN Content(content[mo])
                                        ELSE View(s, mo)
  <2> HIDE DEF In, content, src
  <2> QED
    BY <1>0, <1>7, RewriteOne
<1>9. \A mo \in MOs : IF View(s, mo) \in Values THEN View(s, mo)' \in Values
                      ELSE View(s, mo)' = View(s, mo)
  <2> SUFFICES ASSUME NEW mo \in MOs
               PROVE  IF View(s, mo) \in Values THEN View(s, mo)' \in Values
                      ELSE View(s, mo)' = View(s, mo)
    OBVIOUS
  <2>1. CASE mo \in In
    <3>1. View(s, mo) = Content(Os(mo)) /\ Os(mo) \in ObjectState
      BY <2>1, <1>4, <1>5 DEF View
    <3>2. View(s, mo)' = IF Os(mo).expr = Concrete THEN val(mo) ELSE Content(Os(mo))
      BY <2>1, <1>6, <1>8
    <3>3. val(mo) \in Values
      BY <2>1, <1>5
    <3> HIDE DEF Os, val, In
    <3>4. CASE Os(mo).expr = Concrete
      BY <3>1, <3>2, <3>3, <3>4 DEF Content, ObjectState
    <3>5. CASE Os(mo).expr # Concrete
      BY <3>1, <3>2, <3>5 DEF Content, ObjectState, Names
    <3> QED
      BY <3>4, <3>5
  <2>2. CASE mo \notin In
    BY <2>2, <1>8
  <2> QED
    BY <2>1, <2>2
<1>10. Private!Step(s)
  <2> DEFINE result == [mo \in MOs |-> View(s, mo)']
  <2>1. result \in Private!Memories
    <3>1. \A mo \in MOs : View(s, mo)' \in Contents \cup {Unbound}
      BY <1>0, <1>1, <1>9, ViewIs DEF Contents
    <3> QED
      BY <3>1 DEF Private!Memories, Private!Contents, Contents
  <2>2. PrivateMem[s] = [mo \in MOs |-> View(s, mo)]
    BY <1>0, <1>1, AliveIsLive
  <2>3. Private!Becomes(s, result)
    <3>1. /\ \A mo \in MOs : View(s, mo)' = result[mo]
          /\ result = [mo \in MOs |-> result[mo]]
      OBVIOUS
    <3> HIDE DEF result, In, content, src
    <3> QED
      BY <1>0, <1>1, <1>7, <1>8, <3>1, MemBecomes
  <2>4. Private!Call(s, result)
    BY <1>9, <2>2, <2>3 DEF Private!Call
  <2> QED
    BY <2>1, <2>4 DEF Private!Step
<1> QED
  BY <1>0, <1>1, <1>8, <1>10, IsStep, IdleIsFine DEF Keeps, Implements, IInv

-----------------------------------------------------------------------------
(* The theorems. *)

LEMMA InitHolds ==
    ASSUME Init, Names
    PROVE  IInv /\ Private!Init
<1>0. PICK s \in States, init \in [Globals -> Values], real \in [Globals -> Values],
           place \in Injection(Globals, OSs) :
        /\ live = {s}
        /\ cowKey = [t \in States |-> 1]
        /\ objects = [t \in States |-> [mo \in MOs |->
                        IF t = s /\ mo \in Globals THEN place[mo] ELSE Unbound]]
        /\ heap = [os \in OSs |->
                     IF \E mo \in Globals : place[mo] = os
                     THEN LET mo == CHOOSE m \in Globals : place[m] = os IN
                          [copyOnWriteOwner |-> 1, concreteStore |-> init[mo],
                           expr |-> Concrete, readOnly |-> mo \in ReadOnly]
                     ELSE Free]
        /\ process \in {p \in [MOs -> Values] : \A mo \in Globals : p[mo] = real[mo]}
        /\ op = Idle
  BY DEF Init
<1>1. /\ place \in [Globals -> OSs]
      /\ \A m, n \in Globals : place[m] = place[n] => m = n
  BY DEF Injection, IsInjective
<1>2. 1 \in 1 .. MaxKey /\ 1 \in 0 .. MaxKey /\ Globals \subseteq MOs
  BY DEF Names
<1>3. heap \in [OSs -> ObjectState \cup {Free}]
  <2>1. ASSUME NEW os \in OSs
        PROVE  heap[os] \in ObjectState \cup {Free}
    <3>1. CASE \E mo \in Globals : place[mo] = os
      <4> DEFINE mo == CHOOSE m \in Globals : place[m] = os
      <4>1. mo \in Globals
        BY <3>1
      <4>2. heap[os] = [copyOnWriteOwner |-> 1, concreteStore |-> init[mo],
                        expr |-> Concrete, readOnly |-> mo \in ReadOnly]
        BY <1>0, <3>1
      <4>3. (mo \in ReadOnly) \in BOOLEAN /\ init[mo] \in Values
        BY <4>1
      <4> HIDE DEF mo
      <4> QED
        BY <1>2, <4>2, <4>3 DEF ObjectState
    <3>2. CASE ~ \E mo \in Globals : place[mo] = os
      BY <1>0, <3>2
    <3> QED
      BY <3>1, <3>2
  <2>2. heap = [os \in OSs |-> heap[os]]
    BY <1>0
  <2> QED
    BY <2>1, <2>2
<1>4. ASSUME NEW mo \in Globals
      PROVE  heap[place[mo]] \in ObjectState /\ heap[place[mo]].copyOnWriteOwner = 1
  <2> DEFINE m == CHOOSE m \in Globals : place[m] = place[mo]
  <2>1. /\ place[mo] \in OSs
        /\ heap[place[mo]] = [copyOnWriteOwner |-> 1, concreteStore |-> init[m],
                              expr |-> Concrete, readOnly |-> m \in ReadOnly]
    BY <1>0, <1>1
  <2>2. heap[place[mo]] # Free
    <3>1. m \in Globals
      OBVIOUS
    <3>2. (m \in ReadOnly) \in BOOLEAN /\ init[m] \in Values
      BY <3>1
    <3> HIDE DEF m
    <3>3. heap[place[mo]] \in ObjectState
      BY <1>2, <2>1, <3>2 DEF ObjectState
    <3> QED
      BY <3>3, FreeIsNone
  <2> HIDE DEF m
  <2> QED
    BY <1>3, <2>1, <2>2
<1>5. MTypes
  <2>1. live \subseteq States /\ cowKey \in [States -> 1 .. MaxKey] /\ process \in [MOs -> Values]
    BY <1>0, <1>2
  <2>2. objects \in [States -> [MOs -> OSs \cup {Unbound}]]
    BY <1>0, <1>1
  <2> QED
    BY <1>3, <2>1, <2>2 DEF MTypes
<1>6. \A mo \in MOs : objects[s][mo] = IF mo \in Globals THEN place[mo] ELSE Unbound
  BY <1>0
<1>7. DeadBindNothing
  BY <1>0 DEF DeadBindNothing
<1>8. MappedIsAllocated
  <2> SUFFICES ASSUME NEW mo \in MOs, objects[s][mo] # Unbound
               PROVE  /\ heap[objects[s][mo]] \in ObjectState
                      /\ heap[objects[s][mo]].copyOnWriteOwner \in 1 .. cowKey[s]
    BY <1>0 DEF MappedIsAllocated
  <2>1. mo \in Globals /\ objects[s][mo] = place[mo] /\ cowKey[s] = 1
    BY <1>0, <1>6
  <2> QED
    BY <1>4, <2>1
<1>9. Separate
  BY <1>0, <1>1, <1>6 DEF Separate
<1>10. OpInv
  BY <1>0 DEF OpInv, Idle, ResolutionFresh
<1>11. MInv
  BY <1>5, <1>7, <1>8, <1>9 DEF MInv
<1>12. Private!Init
  <2> DEFINE m == [mo \in MOs |-> View(s, mo)]
  <2>1. m \in Private!Memories
    BY <1>0, <1>11, ViewIs DEF Private!Memories, Private!Contents, Contents
  <2>2. PrivateMem = [t \in States |-> IF t = s THEN m ELSE NoState]
    BY <1>0 DEF PrivateMem
  <2> QED
    BY <2>1, <2>2 DEF Private!Init
<1> QED
  BY <1>10, <1>11, <1>12 DEF IInv

(* Every step of AddressSpace keeps the invariant and is a step of         *)
(* PrivateMemory, or a stutter.                                            *)
LEMMA StepHolds ==
    ASSUME IInv, Names, [Next]_vars
    PROVE  Keeps
<1>1. ASSUME op = Idle, NEW s \in live, Step(s)
      PROVE  Keeps
  <2>1. CASE Fork(s) \/ Terminate(s) \/ Alloc(s) \/ popFrame(s) \/ Store(s)
    BY <1>1, <2>1, SimpleSteps
  <2>2. CASE \E b \in States : Merge(s, b)
    BY <1>1, <2>2, MergeStep
  <2>3. CASE Resolve(s)
    BY <1>1, <2>3, ResolveStep
  <2>4. CASE CallOut(s)
    BY <1>1, <2>4, CallOutStep
  <2> QED
    BY <1>1, <2>1, <2>2, <2>3, <2>4 DEF Step
<1>2. CASE op = Idle /\ \E s \in live : Step(s)
  BY <1>1, <1>2
<1>3. CASE ForkPair
  BY <1>3, ForkPairStep
<1>4. CASE EndUnbound
  BY <1>4, EndUnboundStep
<1>5. CASE UsePair
  BY <1>5, UsePairStep
<1>10. CASE ForkSize
  BY <1>10, ForkSizeStep
<1>6. CASE NativeCode
  BY <1>6, NativeCodeStep
<1>7. CASE CallCrashes \/ CopyInFails
  BY <1>7, CallEnds
<1>8. CASE CallReturns
  BY <1>8, CallReturnsStep
<1>9. CASE UNCHANGED vars
  <2>1. /\ UNCHANGED <<live, cowKey, objects, heap, process>> /\ op' = op
        /\ process' \in [MOs -> Values]
    BY <1>9 DEF vars, IInv, MInv, MTypes
  <2>2. MInv' /\ Implements
    BY <2>1, SameMemory DEF IInv
  <2>3. OpInv'
    BY <2>1 DEF IInv, OpInv, ResolutionFresh
  <2> QED
    BY <2>2, <2>3 DEF Keeps, IInv
<1> QED
  BY <1>2, <1>3, <1>4, <1>5, <1>6, <1>7, <1>8, <1>9, <1>10 DEF Next

(* The strengthened invariant holds in every reachable state of every      *)
(* instance: any numbers of states, objects and ObjectStates, any bound on *)
(* the keys.                                                               *)
THEOREM Inductive == Spec => []IInv
<1>1. Init => IInv
  BY InitHolds, Names
<1>2. IInv /\ [Next]_vars => IInv'
  BY StepHolds, Names DEF Keeps
<1> QED
  BY <1>1, <1>2, PTL DEF Spec

(* The AddressSpace, the heap and the operation in progress keep their     *)
(* types; in particular no mapped ObjectState is ever freed.               *)
THEOREM Typed == Spec => []TypeOK
<1>1. IInv => TypeOK
  BY DEF IInv, MInv, MTypes, OpInv, TypeOK
<1> QED
  BY <1>1, Inductive, PTL

(* The invariant AddressSpace.h documents for cowKey: no owner lies ahead  *)
(* of the key of a state that maps the object.                             *)
THEOREM NoFutureOwner == Spec => []OwnersNotInTheFuture
<1>1. IInv => OwnersNotInTheFuture
  BY DEF IInv, MInv, MappedIsAllocated, OwnersNotInTheFuture, Bound
<1> QED
  BY <1>1, Inductive, PTL

(* Copy-on-write is sound: whatever AddressSpace::getWriteable may modify  *)
(* in place is mapped by one state only.                                   *)
THEOREM CopyOnWrite == Spec => []SharedIsNotOwned
<1>1. IInv => SharedIsNotOwned
  BY DEF IInv, MInv, Separate, SharedIsNotOwned
<1> QED
  BY <1>1, Inductive, PTL

(* The (MemoryObject, ObjectState) pairs executeMemoryOperation and        *)
(* resolveExact looked up before forking are current when they are used.   *)
THEOREM PairsStayFresh == Spec => []ResolutionFresh
<1>1. IInv => ResolutionFresh
  BY DEF IInv, OpInv
<1> QED
  BY <1>1, Inductive, PTL

(* The address spaces implement private memories: whatever the Executor    *)
(* does to one state's objects is invisible to the others.                 *)
THEOREM Refinement == Spec => PrivateSpec
<1>1. Init => Private!Init
  BY InitHolds, Names
<1>2. IInv /\ [Next]_vars => [Private!Next]_PrivateMem
  BY StepHolds, Names DEF Keeps, Implements
<1> QED
  BY <1>1, <1>2, Inductive, PTL DEF Spec, PrivateSpec, Private!Spec

(* What a state sees after a step is a content or no binding.              *)
LEMMA ViewTyped ==
    (MInv => \A s \in live, mo \in MOs : View(s, mo) \in Contents \cup {Unbound})'
<1>1. MInv => \A s \in live, mo \in MOs : View(s, mo) \in Contents \cup {Unbound}
  BY ViewIs, Names
<1> QED
  BY <1>1, PTL

(* A step of PrivateMemory shows in one surviving memory at most.          *)
LEMMA StepIsolates ==
    ASSUME IInv, Names, [Next]_vars
    PROVE  \E a \in States : \A s \in (live \cap live') \ {a} :
              \A mo \in MOs : View(s, mo)' = View(s, mo)
<1>0. MInv'
  BY StepHolds DEF Keeps, IInv
<1>1. Implements /\ live \subseteq States
  BY StepHolds DEF Keeps, IInv, MInv, MTypes
<1>2. ASSUME NEW a \in States,
             \A s \in (live \cap live') \ {a} : PrivateMem'[s] = PrivateMem[s]
      PROVE  \A s \in (live \cap live') \ {a} :
                \A mo \in MOs : View(s, mo)' = View(s, mo)
  <2> SUFFICES ASSUME NEW s \in (live \cap live') \ {a}, NEW mo \in MOs
               PROVE  View(s, mo)' = View(s, mo)
    OBVIOUS
  <2>1. /\ PrivateMem[s] = [m \in MOs |-> View(s, m)]
        /\ PrivateMem'[s] = [m \in MOs |-> View(s, m)']
    BY <1>1 DEF PrivateMem
  <2>2. [m \in MOs |-> View(s, m)'][mo] = [m \in MOs |-> View(s, m)][mo]
    BY <1>2, <2>1
  <2> QED
    BY <2>2
<1>3. CASE PrivateMem' = PrivateMem
  BY <1>2, <1>3 DEF Names
<1>4. CASE Private!Next
  <2>1. PICK a \in States : Private!Step(a)
    BY <1>4 DEF Private!Next
  <2>2. \A s \in (live \cap live') \ {a} : PrivateMem'[s] = PrivateMem[s]
    <3>1. ASSUME NEW m, Private!Becomes(a, m)
          PROVE  \A s \in (live \cap live') \ {a} : PrivateMem'[s] = PrivateMem[s]
      BY <1>1, <3>1 DEF Private!Becomes, PrivateMem
    <3>2. CASE \E t \in States : Private!Fork(a, t)
      <4>1. PICK t \in States : ~Private!Alive(t) /\ Private!Becomes(t, PrivateMem[a])
        BY <3>2 DEF Private!Fork
      <4>2. t \notin live
        BY <4>1, AliveIsLive DEF IInv
      <4> QED
        BY <1>1, <4>1, <4>2 DEF Private!Becomes, PrivateMem
    <3>3. CASE \E t \in States, result \in Private!Memories : Private!Merge(a, t, result)
      <4>1. PICK t \in States, result \in Private!Memories :
               PrivateMem' = [PrivateMem EXCEPT ![a] = result, ![t] = NoState]
        BY <3>3 DEF Private!Merge
      <4>2. ASSUME NEW s \in (live \cap live') \ {a}
            PROVE  s # t
        <5>1. PrivateMem'[s] # NoState
          <6>1. PrivateMem'[s] = [mo \in MOs |-> View(s, mo)']
            BY <1>1 DEF PrivateMem
          <6>2. \A mo \in MOs : View(s, mo)' \in Contents \cup {Unbound}
            BY <1>0, ViewTyped
          <6> QED
            BY <6>1, <6>2 DEF Names
        <5> QED
          BY <1>1, <4>1, <5>1 DEF PrivateMem
      <4> QED
        BY <1>1, <4>1, <4>2 DEF PrivateMem
    <3> QED
      BY <2>1, <3>1, <3>2, <3>3
         DEF Private!Step, Private!Bind, Private!Unbind, Private!Write, Private!Move,
             Private!Call, Private!End
  <2> QED
    BY <1>2, <2>1, <2>2
<1> QED
  BY <1>1, <1>3, <1>4 DEF Implements

(* No step of one state (a write, an external call, a merge, a fork) is    *)
(* seen by a second state that survives it.                                *)
THEOREM Isolated == Spec => Isolation
<1>1. IInv /\ [Next]_vars =>
        [\E a \in States : \A s \in (live \cap live') \ {a} :
            \A mo \in MOs : View(s, mo)' = View(s, mo)]_vars
  BY StepIsolates, Names
<1> QED
  BY <1>1, Inductive, PTL DEF Spec, Isolation

-----------------------------------------------------------------------------
(***************************************************************************)
(* Two more invariants, which rest on IInv: read-only objects keep one     *)
(* ObjectState, and what copyInConcretes finds changed after an external   *)
(* call is what the call wrote.                                            *)
(***************************************************************************)
(* State s binds mo to an ObjectState that may not be written. *)
ReadOnlyAt(s, mo) == objects[s][mo] # Unbound /\ heap[objects[s][mo]].readOnly

(* Read-only bindings are of the objects that were bound so at the start   *)
(* (errno is none of them), and every state that binds one has the same    *)
(* ObjectState.                                                            *)
OneReadOnly ==
    \A s \in live, mo \in MOs : ReadOnlyAt(s, mo) =>
        /\ mo \in ReadOnly
        /\ \A t \in live : objects[t][mo] # Unbound => objects[t][mo] = objects[s][mo]

RInv == IInv /\ OneReadOnly /\ CopyInOnlyTouched

-----------------------------------------------------------------------------
(* Read-only objects. *)

(* What a step that changes one state, a, has to respect: the other states *)
(* keep their bindings and the flags of those, and a keeps each binding    *)
(* too, unless it replaces one that is read-only nowhere by one that is    *)
(* not read-only either.                                                   *)
Respects(a) ==
    /\ live' \subseteq live
    /\ \A s \in live' \ {a}, mo \in MOs :
          /\ objects'[s][mo] = objects[s][mo]
          /\ objects[s][mo] # Unbound =>
                heap'[objects[s][mo]].readOnly = heap[objects[s][mo]].readOnly
    /\ a \in live' => \A mo \in MOs : objects'[a][mo] # Unbound =>
          \/ /\ objects'[a][mo] = objects[a][mo]
             /\ heap'[objects[a][mo]].readOnly = heap[objects[a][mo]].readOnly
          \/ /\ heap'[objects'[a][mo]].readOnly = FALSE
             /\ \A t \in live : ~ReadOnlyAt(t, mo)

(* Freeing what no state maps leaves mapped ObjectStates as they were.      *)
LEMMA SweepLeaves ==
    ASSUME NEW h \in [OSs -> ObjectState \cup {Free}], heap' = Sweep(h, objects'),
           objects' \in [States -> [MOs -> OSs \cup {Unbound}]]
    PROVE  \A u \in States, mo \in MOs : objects'[u][mo] # Unbound =>
               heap'[objects'[u][mo]] = h[objects'[u][mo]]
  BY SweepKeeps

(* Such a step keeps read-only objects in one ObjectState.                 *)
LEMMA RespectsKeeps ==
    ASSUME OneReadOnly, NEW a, Respects(a)
    PROVE  OneReadOnly'
<1>1. live' \subseteq live
  BY DEF Respects
<1>2. ASSUME NEW s \in live', NEW mo \in MOs, ReadOnlyAt(s, mo)'
      PROVE  ReadOnlyAt(s, mo) /\ objects'[s][mo] = objects[s][mo]
  BY <1>1, <1>2 DEF Respects, ReadOnlyAt
<1>3. ASSUME NEW s \in live', NEW t \in live', NEW mo \in MOs,
             ReadOnlyAt(s, mo), objects'[t][mo] # Unbound
      PROVE  objects'[t][mo] = objects[s][mo]
  <2>1. objects'[t][mo] = objects[t][mo]
    BY <1>1, <1>3 DEF Respects
  <2> QED
    BY <1>1, <1>3, <2>1 DEF OneReadOnly
<1> SUFFICES ASSUME NEW s \in live', NEW mo \in MOs, ReadOnlyAt(s, mo)'
             PROVE  /\ mo \in ReadOnly
                    /\ \A t \in live' : objects'[t][mo] # Unbound =>
                          objects'[t][mo] = objects'[s][mo]
  BY DEF OneReadOnly
<1>4. ReadOnlyAt(s, mo) /\ objects'[s][mo] = objects[s][mo] /\ s \in live
  BY <1>1, <1>2
<1> QED
  BY <1>3, <1>4 DEF OneReadOnly

(* A fork shares every ObjectState, the read-only ones too.                *)
LEMMA BranchRespects ==
    ASSUME MInv, OneReadOnly, NEW s \in live, NEW t \in States, branch(s, t)
    PROVE  OneReadOnly'
<1>1. /\ live' = live \cup {t} /\ t \notin live /\ heap' = heap
      /\ objects' = [objects EXCEPT ![t] = objects[s]]
      /\ objects \in [States -> [MOs -> OSs \cup {Unbound}]] /\ live \subseteq States
  BY DEF branch, MInv, MTypes
<1>2. objects'[t] = objects[s] /\ \A u \in live : objects'[u] = objects[u]
  BY <1>1
<1>3. \A u \in live' : \E v \in live : objects'[u] = objects[v]
  BY <1>1, <1>2
<1> QED
  BY <1>1, <1>3 DEF OneReadOnly, ReadOnlyAt

(* Ending a state keeps the bindings of the others.                        *)
LEMMA TerminateRespects ==
    ASSUME MInv, OneReadOnly, NEW s \in live, terminateState(s)
    PROVE  OneReadOnly'
<1>1. /\ live' = live \ {s} /\ live \subseteq States /\ heap' = Sweep(heap, objects')
      /\ objects' = [objects EXCEPT ![s] = [mo \in MOs |-> Unbound]]
      /\ objects \in [States -> [MOs -> OSs \cup {Unbound}]]
      /\ heap \in [OSs -> ObjectState \cup {Free}]
  BY DEF terminateState, MInv, MTypes
<1>2. objects' \in [States -> [MOs -> OSs \cup {Unbound}]]
  BY <1>1
<1>3. \A u \in States, mo \in MOs : objects'[u][mo] # Unbound =>
          heap'[objects'[u][mo]] = heap[objects'[u][mo]]
  BY <1>1, <1>2, SweepLeaves
<1>4. \A u \in live' : objects'[u] = objects[u] /\ u \in States /\ u # s
  BY <1>1
<1>5. Respects(s)
  BY <1>1, <1>3, <1>4 DEF Respects
<1> QED
  BY <1>5, RespectsKeeps

(* Unbinding keeps the other bindings.                                     *)
LEMMA UnbindRespects ==
    ASSUME MInv, OneReadOnly, NEW s \in live, NEW gone, unbindObject(s, gone), live' = live
    PROVE  OneReadOnly'
<1>1. /\ live \subseteq States /\ heap' = Sweep(heap, objects')
      /\ objects' = [objects EXCEPT ![s] =
                        [mo \in MOs |-> IF mo \in gone THEN Unbound ELSE objects[s][mo]]]
      /\ objects \in [States -> [MOs -> OSs \cup {Unbound}]]
      /\ heap \in [OSs -> ObjectState \cup {Free}]
  BY DEF unbindObject, MInv, MTypes
<1>2. objects' \in [States -> [MOs -> OSs \cup {Unbound}]]
  BY <1>1
<1>3. \A u \in States, mo \in MOs : objects'[u][mo] # Unbound =>
          heap'[objects'[u][mo]] = heap[objects'[u][mo]]
  BY <1>1, <1>2, SweepLeaves
<1>4. \A u \in live \ {s} : objects'[u] = objects[u]
  BY <1>1
<1>5. \A mo \in MOs : objects'[s][mo] # Unbound => objects'[s][mo] = objects[s][mo]
  BY <1>1
<1>6. Respects(s)
  BY <1>1, <1>3, <1>4, <1>5 DEF Respects
<1> QED
  BY <1>6, RespectsKeeps

(* A new ObjectState, not read-only, for an object that is read-only       *)
(* nowhere.                                                                *)
LEMMA BindRespects ==
    ASSUME MInv, OneReadOnly, NEW s \in live, NEW mo \in MOs, NEW n \in OSs,
           NEW c \in ObjectState, NEW gone, c.readOnly = FALSE,
           bindObject(s, mo, n, c, gone), live' = live,
           \A t \in live : ~ReadOnlyAt(t, mo)
    PROVE  OneReadOnly'
<1> DEFINE h == [heap EXCEPT ![n] = c]
           map == [m \in MOs |-> IF m = mo THEN n
                                 ELSE IF m \in gone THEN Unbound ELSE objects[s][m]]
<1>1. /\ live \subseteq States /\ heap' = Sweep(h, objects') /\ heap[n] = Free
      /\ objects' = [objects EXCEPT ![s] = map]
      /\ objects \in [States -> [MOs -> OSs \cup {Unbound}]]
      /\ heap \in [OSs -> ObjectState \cup {Free}]
  BY DEF bindObject, MInv, MTypes
<1>2. objects' \in [States -> [MOs -> OSs \cup {Unbound}]] /\ h \in [OSs -> ObjectState \cup {Free}]
  BY <1>1
<1>3. \A u \in States, m \in MOs : objects'[u][m] # Unbound =>
          heap'[objects'[u][m]] = h[objects'[u][m]]
  <2> HIDE DEF h, map
  <2> QED
    BY <1>1, <1>2, SweepLeaves
<1>4. \A u \in live, m \in MOs : objects[u][m] # Unbound =>
          objects[u][m] \in OSs /\ h[objects[u][m]] = heap[objects[u][m]]
  <2>1. \A u \in live, m \in MOs : objects[u][m] # Unbound => objects[u][m] # n
    BY <1>1, FreeIsNone DEF MInv, MappedIsAllocated
  <2> QED
    BY <1>1, <2>1
<1>5. \A u \in live \ {s} : objects'[u] = objects[u]
  BY <1>1
<1>6. objects'[s] = map /\ s \in States
  BY <1>1
<1>7. h[n] = c
  BY <1>1
<1>8. ASSUME NEW m \in MOs, objects'[s][m] # Unbound
      PROVE  \/ /\ objects'[s][m] = objects[s][m]
                /\ heap'[objects[s][m]].readOnly = heap[objects[s][m]].readOnly
             \/ /\ heap'[objects'[s][m]].readOnly = FALSE
                /\ \A t \in live : ~ReadOnlyAt(t, m)
  <2>1. heap'[objects'[s][m]] = h[objects'[s][m]]
    BY <1>3, <1>6, <1>8
  <2>2. CASE m = mo
    BY <1>6, <1>7, <2>1, <2>2
  <2>3. CASE m # mo
    <3>1. objects'[s][m] = objects[s][m]
      BY <1>6, <1>8, <2>3
    <3> QED
      BY <1>4, <1>8, <2>1, <3>1
  <2> QED
    BY <2>2, <2>3
<1>9. Respects(s)
  <2> HIDE DEF h, map
  <2>1. \A u \in live \ {s}, m \in MOs :
           /\ objects'[u][m] = objects[u][m]
           /\ objects[u][m] # Unbound =>
                 heap'[objects[u][m]].readOnly = heap[objects[u][m]].readOnly
    <3>1. live \subseteq States
      BY <1>1
    <3> QED
      BY <3>1, <1>3, <1>4, <1>5
  <2> QED
    BY <1>8, <2>1 DEF Respects
<1> QED
  BY <1>9, RespectsKeeps

(* A rewrite of objects that are not read-only, in a state that binds      *)
(* them; dead ends with the step.                                          *)
RewritingPlain(s, dead, M, src, new, content) ==
    /\ M \subseteq MOs /\ dead \subseteq live \ {s}
    /\ \A mo \in M : src[mo] = objects[s][mo] /\ src[mo] # Unbound
    /\ \A mo \in M : heap[objects[s][mo]].readOnly = FALSE
    /\ new \in Writeables(s, M, src)
    /\ content \in [M -> ObjectState]
    /\ \A mo \in M : content[mo].readOnly = FALSE
    /\ live' = live \ dead
    /\ objects' = [u \in States |-> IF u = s THEN Redirect(s, new)
                                    ELSE IF u \in dead THEN [mo \in MOs |-> Unbound]
                                    ELSE objects[u]]
    /\ heap' = Sweep(Overwrite(s, new, content), objects')

(* Such a rewrite redirects no read-only binding and sets no flag.         *)
LEMMA RewriteRespects ==
    ASSUME MInv, Names, OneReadOnly, NEW s \in live, NEW dead, NEW M, NEW src, NEW new,
           NEW content, RewritingPlain(s, dead, M, src, new, content)
    PROVE  OneReadOnly'
<1> DEFINE h == Overwrite(s, new, content)
<1>0. /\ MTypes /\ MappedIsAllocated /\ s \in States /\ live \subseteq States
      /\ objects \in [States -> [MOs -> OSs \cup {Unbound}]]
      /\ heap \in [OSs -> ObjectState \cup {Free}]
      /\ cowKey[s] \in 0 .. MaxKey
  BY DEF MInv, MTypes, Names
<1>a. /\ M \subseteq MOs /\ dead \subseteq live \ {s}
      /\ \A mo \in M : src[mo] = objects[s][mo] /\ src[mo] # Unbound
      /\ \A mo \in M : heap[objects[s][mo]].readOnly = FALSE
      /\ content \in [M -> ObjectState]
      /\ \A mo \in M : content[mo].readOnly = FALSE
      /\ live' = live \ dead
      /\ objects' = [u \in States |-> IF u = s THEN Redirect(s, new)
                                      ELSE IF u \in dead THEN [mo \in MOs |-> Unbound]
                                      ELSE objects[u]]
      /\ heap' = Sweep(h, objects')
      /\ new \in Writeables(s, M, src)
  BY DEF RewritingPlain
<1>1. /\ new \in [M -> OSs] /\ DOMAIN new = M
      /\ \A m, n \in M : new[m] = new[n] => m = n
      /\ \A mo \in M : new[mo] = objects[s][mo] \/ heap[new[mo]] = Free
  BY <1>a DEF Writeables, Writeable, Injection, IsInjective
<1>2. ASSUME NEW mo \in M
      PROVE  /\ h[new[mo]] = [content[mo] EXCEPT !.copyOnWriteOwner = cowKey[s]]
             /\ h[new[mo]] \in ObjectState /\ h[new[mo]].readOnly = FALSE
  <2>1. (CHOOSE m \in DOMAIN new : new[m] = new[mo]) = mo /\ new[mo] \in OSs
    BY <1>1
  <2>2. h[new[mo]] = [content[mo] EXCEPT !.copyOnWriteOwner = cowKey[s]]
    BY <1>1, <2>1 DEF Overwrite
  <2> DEFINE c == content[mo]
  <2>3. c \in ObjectState /\ c.readOnly = FALSE
    BY <1>a
  <2> HIDE DEF c
  <2>4. /\ [c EXCEPT !.copyOnWriteOwner = cowKey[s]] \in ObjectState
        /\ [c EXCEPT !.copyOnWriteOwner = cowKey[s]].readOnly = FALSE
    BY <1>0, <2>3 DEF ObjectState
  <2> QED
    BY <2>2, <2>4 DEF c
<1>3. \A os \in OSs : (\A mo \in M : new[mo] # os) => h[os] = heap[os]
  BY <1>1 DEF Overwrite
<1>4. h \in [OSs -> ObjectState \cup {Free}]
  <2> SUFFICES ASSUME NEW os \in OSs PROVE h[os] \in ObjectState \cup {Free}
    BY DEF Overwrite
  <2> HIDE DEF h
  <2> QED
    BY <1>0, <1>2, <1>3
<1>5. objects' \in [States -> [MOs -> OSs \cup {Unbound}]]
  <2>1. Redirect(s, new) \in [MOs -> OSs \cup {Unbound}]
    BY <1>0, <1>1 DEF Redirect
  <2> QED
    BY <1>0, <1>a, <2>1
<1>6. \A u \in States, m \in MOs : objects'[u][m] # Unbound =>
          heap'[objects'[u][m]] = h[objects'[u][m]]
  <2> HIDE DEF h
  <2> QED
    BY <1>a, <1>4, <1>5, SweepLeaves
<1>7. ASSUME NEW u \in live, NEW m \in MOs, objects[u][m] # Unbound
      PROVE  h[objects[u][m]].readOnly = heap[objects[u][m]].readOnly
  <2>1. objects[u][m] \in OSs /\ heap[objects[u][m]] # Free
    BY <1>0, <1>7, FreeIsNone DEF MappedIsAllocated
  <2>2. CASE \E k \in M : new[k] = objects[u][m]
    <3>1. PICK k \in M : new[k] = objects[u][m]
      BY <2>2
    <3>2. h[objects[u][m]].readOnly = FALSE
      BY <1>2, <3>1
    <3>3. new[k] = objects[s][k]
      BY <1>1, <2>1, <3>1
    <3> QED
      BY <1>a, <3>1, <3>2, <3>3
  <2>3. CASE ~ \E k \in M : new[k] = objects[u][m]
    BY <1>3, <2>1, <2>3
  <2> QED
    BY <2>2, <2>3
<1>8. ASSUME NEW u \in live' \ {s}
      PROVE  u \in live /\ objects'[u] = objects[u] /\ u \in States
  BY <1>0, <1>a
<1>9. ASSUME NEW m \in MOs, objects'[s][m] # Unbound
      PROVE  \/ /\ objects'[s][m] = objects[s][m]
                /\ heap'[objects[s][m]].readOnly = heap[objects[s][m]].readOnly
             \/ /\ heap'[objects'[s][m]].readOnly = FALSE
                /\ \A t \in live : ~ReadOnlyAt(t, m)
  <2>1. /\ objects'[s][m] = IF m \in M THEN new[m] ELSE objects[s][m]
        /\ heap'[objects'[s][m]] = h[objects'[s][m]]
    BY <1>0, <1>1, <1>6, <1>9, <1>a DEF Redirect
  <2>2. CASE m \in M
    <3>1. heap'[objects'[s][m]].readOnly = FALSE
      BY <1>2, <2>1, <2>2
    <3>2. \A t \in live : ~ReadOnlyAt(t, m)
      BY <1>a, <2>2 DEF OneReadOnly, ReadOnlyAt
    <3> QED
      BY <3>1, <3>2
  <2>3. CASE m \notin M
    <3>1. objects'[s][m] = objects[s][m]
      BY <2>1, <2>3
    <3>2. h[objects[s][m]].readOnly = heap[objects[s][m]].readOnly
      BY <1>7, <1>9, <3>1
    <3> QED
      BY <2>1, <3>1, <3>2
  <2> QED
    BY <2>2, <2>3
<1>10. Respects(s)
  <2>1. live' \subseteq live
    BY <1>a
  <2> HIDE DEF h
  <2>2. \A u \in live' \ {s}, m \in MOs :
           /\ objects'[u][m] = objects[u][m]
           /\ objects[u][m] # Unbound =>
                 heap'[objects[u][m]].readOnly = heap[objects[u][m]].readOnly
    BY <1>6, <1>7, <1>8
  <2> QED
    BY <1>9, <2>1, <2>2 DEF Respects
<1> QED
  BY <1>10, RespectsKeeps

(* A write through getWriteable of an ObjectState that is not read-only.   *)
LEMMA WriteRespects ==
    ASSUME IInv, Names, OneReadOnly, NEW s, NEW mo, NEW c, NEW os, NEW new,
           Writing(s, mo, c, os, new), heap[os].readOnly = FALSE
    PROVE  OneReadOnly'
<1> DEFINE M   == {mo}
           src == [m \in M |-> os]
           content == [m \in M |-> Written(heap[os], c)]
           none == {}
<1>0. MInv /\ MTypes /\ MappedIsAllocated
  BY DEF IInv, MInv
<1>1. /\ s \in live /\ mo \in MOs /\ c \in Contents
      /\ os = objects[s][mo] /\ os # Unbound
      /\ new \in Writeables(s, M, src) /\ Rewrite(s, new, content)
      /\ live' = live
  BY DEF Writing
<1>2. heap[os] \in ObjectState
  BY <1>0, <1>1 DEF MappedIsAllocated
<1>3. Written(heap[os], c) \in ObjectState /\ Written(heap[os], c).readOnly = FALSE
  <2> DEFINE o == heap[os]
  <2>1. o \in ObjectState /\ o.readOnly = FALSE
    BY <1>2
  <2> HIDE DEF o
  <2>2. Written(o, c).readOnly = FALSE
    BY <2>1 DEF Written, ObjectState
  <2>3. Written(o, c) \in ObjectState
    BY <1>1, <2>1, WrittenIs
  <2> QED
    BY <2>2, <2>3 DEF o
<1>4. /\ content \in [M -> ObjectState]
      /\ \A m \in M : content[m].readOnly = FALSE
      /\ \A m \in M : src[m] = objects[s][m] /\ src[m] # Unbound
      /\ \A m \in M : heap[objects[s][m]].readOnly = FALSE
      /\ M \subseteq MOs /\ none \subseteq live \ {s} /\ live' = live \ none
  BY <1>1, <1>3
<1>5. objects' = [u \in States |-> IF u = s THEN Redirect(s, new)
                                  ELSE IF u \in none THEN [m \in MOs |-> Unbound]
                                  ELSE objects[u]]
      /\ heap' = Sweep(Overwrite(s, new, content), objects')
  BY <1>0, <1>1 DEF Rewrite, MTypes
<1>6. RewritingPlain(s, none, M, src, new, content)
  <2> HIDE DEF M, src, content, none
  <2> QED
    BY <1>1, <1>4, <1>5 DEF RewritingPlain
<1> QED
  BY <1>0, <1>1, <1>6, RewriteRespects

(* Where one state binds mo to an ObjectState that is not read-only, no    *)
(* state has it read-only.                                                 *)
LEMMA PlainIsPlain ==
    ASSUME OneReadOnly, NEW s \in live, NEW mo \in MOs,
           objects[s][mo] # Unbound, ~heap[objects[s][mo]].readOnly
    PROVE  \A t \in live : ~ReadOnlyAt(t, mo)
  BY DEF OneReadOnly, ReadOnlyAt

(* A flag is TRUE or FALSE. *)
LEMMA FlagIs ==
    ASSUME MInv, NEW s \in live, NEW mo \in MOs,
           objects[s][mo] # Unbound, ~heap[objects[s][mo]].readOnly
    PROVE  heap[objects[s][mo]].readOnly = FALSE
  BY DEF MInv, MappedIsAllocated, ObjectState

(* bindObject with a new ObjectState of the Executor. *)
LEMMA NewRespects ==
    ASSUME MInv, Names, OneReadOnly, NEW s \in live, NEW mo \in MOs, NEW n \in OSs,
           NEW v \in Values, NEW e \in Exprs \cup {Concrete}, NEW gone,
           bindObject(s, mo, n, NewObjectState(s, v, e), gone), live' = live,
           \A t \in live : ~ReadOnlyAt(t, mo)
    PROVE  OneReadOnly'
<1> DEFINE c == NewObjectState(s, v, e)
<1>1. c \in ObjectState /\ c.readOnly = FALSE
  BY NewObjectStateIs DEF NewObjectState
<1>2. bindObject(s, mo, n, c, gone)
  OBVIOUS
<1> HIDE DEF c
<1> QED
  BY <1>1, <1>2, BindRespects

(* Nobody binds a fresh object. *)
LEMMA FreshIsPlain ==
    ASSUME MInv, NEW mo \in Fresh
    PROVE  mo \in MOs /\ \A t \in live : ~ReadOnlyAt(t, mo)
  BY DEF MInv, MTypes, Fresh, ReadOnlyAt

(* A step that leaves map and heap alone.                                  *)
LEMMA SameRespects ==
    ASSUME OneReadOnly, UNCHANGED <<live, objects, heap>>
    PROVE  OneReadOnly'
  BY DEF OneReadOnly, ReadOnlyAt

(* Every single-step operation of the Executor keeps read-only objects in  *)
(* one ObjectState.                                                        *)
LEMMA SimpleRespects ==
    ASSUME IInv, Names, OneReadOnly, NEW s \in live,
           Fork(s) \/ Terminate(s) \/ Alloc(s) \/ popFrame(s) \/ Store(s)
    PROVE  OneReadOnly'
<1>0. MInv
  BY DEF IInv
<1>1. CASE Fork(s)
  BY <1>0, <1>1, BranchRespects DEF Fork
<1>2. CASE Terminate(s)
  BY <1>0, <1>2, TerminateRespects DEF Terminate
<1>3. CASE Alloc(s)
  <2>1. PICK mo \in Fresh, n \in OSs, v \in Values :
           bindObject(s, mo, n, NewObjectState(s, v, Concrete), {}) /\ live' = live
    BY <1>3 DEF Alloc
  <2> DEFINE none == {}
             e == Concrete
  <2>2. bindObject(s, mo, n, NewObjectState(s, v, e), none) /\ e \in Exprs \cup {Concrete}
    BY <2>1
  <2> HIDE DEF none, e
  <2>3. mo \in MOs /\ \A t \in live : ~ReadOnlyAt(t, mo)
    BY <1>0, FreshIsPlain
  <2> QED
    BY <1>0, <2>1, <2>2, <2>3, NewRespects
<1>4. CASE popFrame(s)
  <2>1. PICK gone \in SUBSET (Bound(s) \cap Locals) : unbindObject(s, gone) /\ live' = live
    BY <1>4 DEF popFrame
  <2> QED
    BY <1>0, <2>1, UnbindRespects
<1>5. CASE Store(s)
  <2>1. PICK mo \in Bound(s), c \in Contents :
           IF heap[objects[s][mo]].readOnly THEN Terminate(s)
           ELSE \E new \in Writeables(s, {mo}, objects[s]) :
                   /\ Rewrite(s, new, [m \in {mo} |-> Written(heap[objects[s][mo]], c)])
                   /\ UNCHANGED <<live, cowKey, process, op>>
    BY <1>5 DEF Store
  <2>2. CASE heap[objects[s][mo]].readOnly
    BY <1>0, <2>1, <2>2, TerminateRespects DEF Terminate
  <2>3. CASE ~heap[objects[s][mo]].readOnly
    <3> DEFINE os == objects[s][mo]
    <3>1. PICK new \in Writeables(s, {mo}, objects[s]) :
             /\ Rewrite(s, new, [m \in {mo} |-> Written(heap[os], c)])
             /\ UNCHANGED <<live, cowKey, process, op>>
      BY <2>1, <2>3
    <3>2. mo \in MOs /\ os # Unbound
      BY DEF Bound
    <3>3. new \in Writeables(s, {mo}, [m \in {mo} |-> os])
      BY <3>1 DEF Writeables
    <3>4. Writing(s, mo, c, os, new)
      BY <3>1, <3>2, <3>3 DEF Writing
    <3>5. heap[os].readOnly = FALSE
      BY <1>0, <2>3, <3>2, FlagIs
    <3> HIDE DEF os
    <3> QED
      BY <3>4, <3>5, WriteRespects
  <2> QED
    BY <2>2, <2>3
<1> QED
  BY <1>1, <1>2, <1>3, <1>4, <1>5

(* merge() writes no read-only object: both states have the same one.      *)
LEMMA MergeRespects ==
    ASSUME IInv, Names, OneReadOnly, NEW a \in live, NEW b \in States, Merge(a, b)
    PROVE  OneReadOnly'
<1> DEFINE M == Mutated(a, b)
           arm(mo, sel) == IF View(a, mo) = View(b, mo) THEN View(a, mo) ELSE sel
           src == objects[a]
           dead == {b}
<1>0. MInv /\ MTypes /\ MappedIsAllocated /\ a \in States
  BY DEF IInv, MInv, MTypes
<1>1. a # b /\ b \in live /\ Bound(a) = Bound(b) /\ live' = live \ {b}
  BY DEF Merge
<1>2. PICK new \in Writeables(a, M, src), sel \in Exprs :
         /\ objects' = [objects EXCEPT ![a] = Redirect(a, new),
                                       ![b] = [mo \in MOs |-> Unbound]]
         /\ heap' = Sweep(Overwrite(a, new, [mo \in DOMAIN new |->
                                Written(heap[objects[a][mo]], arm(mo, sel))]), objects')
  BY DEF Merge
<1> DEFINE content == [mo \in M |-> Written(heap[objects[a][mo]], arm(mo, sel))]
<1>3. DOMAIN new = M
  BY DEF Writeables, Injection
<1>4. ASSUME NEW mo \in M
      PROVE  /\ mo \in MOs /\ src[mo] # Unbound
             /\ heap[objects[a][mo]] \in ObjectState
             /\ heap[objects[a][mo]].readOnly = FALSE
             /\ arm(mo, sel) \in Contents
  <2>1. /\ mo \in MOs /\ objects[a][mo] # objects[b][mo]
        /\ objects[a][mo] # Unbound /\ objects[b][mo] # Unbound
    BY <1>1 DEF Mutated, Bound
  <2>2. ~heap[objects[a][mo]].readOnly
    BY <1>1, <2>1 DEF OneReadOnly, ReadOnlyAt
  <2>3. View(a, mo) \in Contents
    BY <1>0, <2>1, ViewIs
  <2> QED
    BY <1>0, <2>1, <2>2, <2>3, FlagIs DEF MappedIsAllocated, Contents
<1>5. ASSUME NEW mo \in M
      PROVE  content[mo] \in ObjectState /\ content[mo].readOnly = FALSE
  <2> DEFINE o == heap[objects[a][mo]]
             c == arm(mo, sel)
  <2>1. o \in ObjectState /\ o.readOnly = FALSE /\ c \in Contents
    BY <1>4
  <2>2. content[mo] = Written(o, c)
    OBVIOUS
  <2> HIDE DEF o, c
  <2>3. Written(o, c).readOnly = FALSE
    BY <2>1 DEF Written, ObjectState
  <2>4. Written(o, c) \in ObjectState
    BY <2>1, WrittenIs
  <2> QED
    BY <2>2, <2>3, <2>4
<1>6. objects' = [u \in States |-> IF u = a THEN Redirect(a, new)
                                  ELSE IF u \in dead THEN [mo \in MOs |-> Unbound]
                                  ELSE objects[u]]
  BY <1>0, <1>1, <1>2 DEF MTypes
<1>7. heap' = Sweep(Overwrite(a, new, content), objects')
  BY <1>2, <1>3
<1>8. RewritingPlain(a, dead, M, src, new, content)
  <2>1. content \in [M -> ObjectState] /\ \A mo \in M : content[mo].readOnly = FALSE
    BY <1>5
  <2>2. /\ M \subseteq MOs
        /\ \A mo \in M : src[mo] = objects[a][mo] /\ src[mo] # Unbound
        /\ \A mo \in M : heap[objects[a][mo]].readOnly = FALSE
    BY <1>4
  <2>3. dead \subseteq live \ {a} /\ live' = live \ dead
    BY <1>1
  <2> HIDE DEF M, src, dead, content
  <2> QED
    BY <1>2, <1>6, <1>7, <2>1, <2>2, <2>3 DEF RewritingPlain
<1> HIDE DEF M, src, dead, content
<1> QED
  BY <1>0, <1>8, RewriteRespects

(* Using a pair writes, unbinds or replaces no read-only ObjectState.      *)
LEMMA UsePairRespects ==
    ASSUME IInv, Names, OneReadOnly, UsePair
    PROVE  OneReadOnly'
<1>0. MInv /\ MTypes /\ MappedIsAllocated /\ OpInv /\ op.kind = "resolve"
  BY DEF IInv, MInv, UsePair
<1>1. op \in Resolving /\ ResolutionFresh
  BY <1>0, OpIs DEF OpInv
<1>2. PICK t \in DOMAIN op.results :
       LET mo == op.results[t][1]
           os == op.results[t][2]
       IN
       \/ UNCHANGED <<live, objects, heap>>
       \/ terminateState(t)
       \/ /\ op.use \in Contents /\ ~heap[os].readOnly
          /\ \E new \in Writeables(t, {mo}, [m \in {mo} |-> os]) :
                Rewrite(t, new, [m \in {mo} |-> Written(heap[os], op.use)])
          /\ UNCHANGED <<live, cowKey, process>>
       \/ unbindObject(t, {mo}) /\ live' = live
       \/ /\ \E to \in Fresh, n \in OSs, v \in Values :
                bindObject(t, to, n, NewObjectState(t, v, heap[os].expr), {mo})
          /\ live' = live
       \/ /\ ~heap[os].readOnly
          /\ \E n \in OSs, v \in Values, e \in Exprs :
                bindObject(t, mo, n, NewObjectState(t, v, e), {})
          /\ live' = live
  BY DEF UsePair
<1>3. PICK mo, os : mo = op.results[t][1] /\ os = op.results[t][2]
  OBVIOUS
<1>4. /\ t \in live /\ mo \in MOs /\ os = objects[t][mo] /\ os # Unbound
      /\ heap[os] \in ObjectState
  <2>1. t \in live /\ objects[t][mo] = os
    BY <1>0, <1>1, <1>3 DEF ResolutionFresh
  <2>2. op.results[t] \in MOs \X OSs
    BY <1>1, ResolvingIs
  <2> QED
    BY <2>1, <2>2, <1>0, <1>3 DEF MTypes, MappedIsAllocated, Names
<1>5. CASE UNCHANGED <<live, objects, heap>>
  BY <1>5, SameRespects
<1>6. CASE terminateState(t)
  BY <1>0, <1>4, <1>6, TerminateRespects
<1>7. ASSUME op.use \in Contents, ~heap[os].readOnly, UNCHANGED <<live, cowKey, process>>,
             NEW new \in Writeables(t, {mo}, [m \in {mo} |-> os]),
             Rewrite(t, new, [m \in {mo} |-> Written(heap[os], op.use)])
      PROVE  OneReadOnly'
  <2>1. Writing(t, mo, op.use, os, new)
    BY <1>4, <1>7 DEF Writing
  <2>2. heap[os].readOnly = FALSE
    BY <1>4, <1>7 DEF ObjectState
  <2> QED
    BY <2>1, <2>2, WriteRespects
<1>8. CASE unbindObject(t, {mo}) /\ live' = live
  BY <1>0, <1>4, <1>8, UnbindRespects
<1>9. ASSUME live' = live, NEW to \in Fresh, NEW n \in OSs, NEW v \in Values,
             bindObject(t, to, n, NewObjectState(t, v, heap[os].expr), {mo})
      PROVE  OneReadOnly'
  <2> DEFINE gone == {mo}
             e == heap[os].expr
  <2>1. bindObject(t, to, n, NewObjectState(t, v, e), gone) /\ e \in Exprs \cup {Concrete}
    BY <1>4, <1>9 DEF ObjectState
  <2>2. to \in MOs /\ \A u \in live : ~ReadOnlyAt(u, to)
    BY <1>0, FreshIsPlain
  <2> HIDE DEF gone, e
  <2> QED
    BY <1>0, <1>4, <1>9, <2>1, <2>2, NewRespects
<1>10. ASSUME ~heap[os].readOnly, live' = live, NEW n \in OSs, NEW v \in Values, NEW e \in Exprs,
              bindObject(t, mo, n, NewObjectState(t, v, e), {})
       PROVE  OneReadOnly'
  <2> DEFINE none == {}
  <2>1. bindObject(t, mo, n, NewObjectState(t, v, e), none) /\ e \in Exprs \cup {Concrete}
    BY <1>10
  <2>2. \A u \in live : ~ReadOnlyAt(u, mo)
    BY <1>4, <1>10, PlainIsPlain
  <2> HIDE DEF none
  <2> QED
    BY <1>0, <1>4, <1>10, <2>1, <2>2, NewRespects
<1> QED
  BY <1>2, <1>3, <1>5, <1>6, <1>7, <1>8, <1>9, <1>10

(* Flushing sets no flag.                                                  *)
LEMMA FlushRespects ==
    ASSUME IInv, Names, OneReadOnly, NEW s \in live, CallOut(s)
    PROVE  OneReadOnly'
<1>0. MTypes /\ MappedIsAllocated /\ s \in States
  BY DEF IInv, MInv, MTypes
<1>1. PICK F \in SUBSET {mo \in Bound(s) : heap[objects[s][mo]].expr # Concrete} :
         \E answer \in [F -> Values] : heap' = Flushed(s, answer)
  BY DEF CallOut
<1>2. PICK answer \in [F -> Values] : heap' = Flushed(s, answer)
  BY <1>1
<1>3. ASSUME NEW os \in OSs, heap[os] \in ObjectState
      PROVE  heap'[os].readOnly = heap[os].readOnly
  <2> DEFINE o == heap[os]
  <2>1. heap'[os] = o \/ \E v : heap'[os] = [o EXCEPT !.concreteStore = v]
    BY <1>2 DEF Flushed
  <2>2. o \in ObjectState
    BY <1>3
  <2> HIDE DEF o
  <2>3. \A v : [o EXCEPT !.concreteStore = v].readOnly = o.readOnly
    BY <2>2 DEF ObjectState
  <2> QED
    BY <2>1, <2>3 DEF o
<1>4. UNCHANGED <<live, objects>>
  BY DEF CallOut
<1>5. \A t \in live, mo \in MOs : objects[t][mo] # Unbound =>
          heap'[objects[t][mo]].readOnly = heap[objects[t][mo]].readOnly
  BY <1>0, <1>3 DEF MTypes, MappedIsAllocated
<1> QED
  BY <1>4, <1>5 DEF OneReadOnly, ReadOnlyAt

(* copyInConcretes writes objects that are not read-only, and errno is     *)
(* none.                                                                   *)
LEMMA ReturnRespects ==
    ASSUME IInv, Names, OneReadOnly, CallReturns
    PROVE  OneReadOnly'
<1>0. MInv /\ MTypes /\ MappedIsAllocated /\ op.kind = "call"
  BY DEF IInv, MInv, CallReturns
<1>a. op.who \in live /\ objects[op.who][Errno] # Unbound
  BY <1>0, CallerIs
<1>1. PICK s \in live : s = op.who
  BY <1>a
<1> DEFINE Os(mo) == heap[objects[s][mo]]
<1>2. PICK e \in Values :
         LET In == Differs(s) \cup (IF e = Os(Errno).concreteStore THEN {} ELSE {Errno})
         IN \E new \in Writeables(s, In, objects[s]) :
               Rewrite(s, new, [mo \in In |->
                 [Os(mo) EXCEPT !.concreteStore =
                     IF mo = Errno THEN e ELSE process[mo]]])
  BY <1>1 DEF CallReturns
<1> DEFINE In == Differs(s) \cup (IF e = Os(Errno).concreteStore THEN {} ELSE {Errno})
           val(mo) == IF mo = Errno THEN e ELSE process[mo]
           content == [mo \in In |-> [Os(mo) EXCEPT !.concreteStore = val(mo)]]
           src == objects[s]
           none == {}
<1>3. PICK new \in Writeables(s, In, src) : Rewrite(s, new, content)
  BY <1>2
<1>4. ASSUME NEW mo \in In
      PROVE  /\ mo \in MOs /\ src[mo] # Unbound
             /\ Os(mo) \in ObjectState /\ Os(mo).readOnly = FALSE
             /\ val(mo) \in Values
  <2>1. mo \in MOs /\ objects[s][mo] # Unbound
    BY <1>1, <1>a DEF Differs, Bound, Names
  <2>2. ~Os(mo).readOnly
    <3>1. CASE mo = Errno
      BY <2>1, <3>1 DEF OneReadOnly, ReadOnlyAt, Names
    <3>2. CASE mo # Errno
      BY <1>1, <3>2 DEF CallReturns
    <3> QED
      BY <3>1, <3>2
  <2>3. Os(mo).readOnly = FALSE /\ Os(mo) \in ObjectState
    BY <1>0, <2>1, <2>2, FlagIs DEF MappedIsAllocated
  <2> QED
    BY <1>0, <2>1, <2>3 DEF MTypes
<1>5. ASSUME NEW mo \in In
      PROVE  content[mo] \in ObjectState /\ content[mo].readOnly = FALSE
  <2> DEFINE o == Os(mo)
             v == val(mo)
  <2>1. o \in ObjectState /\ o.readOnly = FALSE /\ v \in Values
    BY <1>4
  <2>2. content[mo] = [o EXCEPT !.concreteStore = v]
    OBVIOUS
  <2> HIDE DEF o, v, In, content
  <2>3. /\ [o EXCEPT !.concreteStore = v] \in ObjectState
        /\ [o EXCEPT !.concreteStore = v].readOnly = FALSE
    BY <2>1 DEF ObjectState
  <2> QED
    BY <2>2, <2>3
<1>6. objects' = [u \in States |-> IF u = s THEN Redirect(s, new)
                                  ELSE IF u \in none THEN [mo \in MOs |-> Unbound]
                                  ELSE objects[u]]
      /\ heap' = Sweep(Overwrite(s, new, content), objects')
  <2> HIDE DEF content
  <2> QED
    BY <1>0, <1>3 DEF Rewrite, MTypes
<1>7. RewritingPlain(s, none, In, src, new, content)
  <2>1. content \in [In -> ObjectState] /\ \A mo \in In : content[mo].readOnly = FALSE
    BY <1>5
  <2>2. /\ In \subseteq MOs
        /\ \A mo \in In : src[mo] = objects[s][mo] /\ src[mo] # Unbound
        /\ \A mo \in In : heap[objects[s][mo]].readOnly = FALSE
    BY <1>4
  <2>3. none \subseteq live \ {s} /\ live' = live \ none
    BY DEF CallReturns
  <2> HIDE DEF In, src, none, content
  <2> QED
    BY <1>3, <1>6, <2>1, <2>2, <2>3 DEF RewritingPlain
<1> HIDE DEF In, src, none, content
<1> QED
  BY <1>0, <1>7, RewriteRespects

(* initializeGlobals binds the read-only objects in the first state only.  *)
LEMMA InitOneReadOnly ==
    ASSUME Init, Names
    PROVE  OneReadOnly /\ CopyInOnlyTouched
<1>1. PICK s \in States, init \in [Globals -> Values], place \in Injection(Globals, OSs) :
        /\ live = {s}
        /\ objects = [t \in States |-> [mo \in MOs |->
                        IF t = s /\ mo \in Globals THEN place[mo] ELSE Unbound]]
        /\ heap = [os \in OSs |->
                     IF \E mo \in Globals : place[mo] = os
                     THEN LET mo == CHOOSE m \in Globals : place[m] = os IN
                          [copyOnWriteOwner |-> 1, concreteStore |-> init[mo],
                           expr |-> Concrete, readOnly |-> mo \in ReadOnly]
                     ELSE Free]
        /\ op = Idle
  BY DEF Init
<1>2. ASSUME NEW mo \in MOs, ReadOnlyAt(s, mo)
      PROVE  mo \in ReadOnly
  <2>1. mo \in Globals /\ objects[s][mo] = place[mo] /\ place[mo] \in OSs
    BY <1>1, <1>2 DEF ReadOnlyAt, Injection
  <2>2. (CHOOSE m \in Globals : place[m] = place[mo]) = mo
    BY <2>1 DEF Injection, IsInjective
  <2>3. heap[place[mo]] = [copyOnWriteOwner |-> 1, concreteStore |-> init[mo],
                           expr |-> Concrete, readOnly |-> mo \in ReadOnly]
    BY <1>1, <2>1, <2>2
  <2> DEFINE flag == mo \in ReadOnly
  <2>a. heap[place[mo]] = [copyOnWriteOwner |-> 1, concreteStore |-> init[mo],
                           expr |-> Concrete, readOnly |-> flag]
    BY <2>3
  <2>4. heap[place[mo]].readOnly = flag
    <3> HIDE DEF flag
    <3> QED
      BY <2>a
  <2>5. heap[place[mo]].readOnly
    BY <1>2, <2>1 DEF ReadOnlyAt
  <2> QED
    BY <2>4, <2>5, Zenon
<1>3. OneReadOnly
  BY <1>1, <1>2 DEF OneReadOnly
<1> QED
  BY <1>1, <1>3 DEF CopyInOnlyTouched, Idle

(* Every step keeps read-only objects in one ObjectState.                  *)
LEMMA StepRespects ==
    ASSUME IInv, Names, OneReadOnly, [Next]_vars
    PROVE  OneReadOnly'
<1>0. MInv
  BY DEF IInv
<1>1. ASSUME NEW s \in live, Step(s)
      PROVE  OneReadOnly'
  <2>1. CASE Fork(s) \/ Terminate(s) \/ Alloc(s) \/ popFrame(s) \/ Store(s)
    BY <2>1, SimpleRespects
  <2>2. CASE \E b \in States : Merge(s, b)
    BY <2>2, MergeRespects
  <2>3. CASE Resolve(s)
    BY <2>3, SameRespects DEF Resolve
  <2>4. CASE CallOut(s)
    BY <2>4, FlushRespects
  <2> QED
    BY <1>1, <2>1, <2>2, <2>3, <2>4 DEF Step
<1>2. CASE ForkPair
  <2>1. \/ \E t \in States : branch(op.unbound, t)
        \/ UNCHANGED <<live, objects, heap>>
    BY <1>2 DEF ForkPair
  <2>2. op.unbound \in live
    BY <1>2, UnboundIs DEF ForkPair, NextPair
  <2> QED
    BY <1>0, <2>1, <2>2, BranchRespects, SameRespects
<1>3. CASE EndUnbound
  <2>1. op.unbound \in live /\ terminateState(op.unbound)
    BY <1>3, UnboundIs DEF EndUnbound, NextPair
  <2> QED
    BY <1>0, <2>1, TerminateRespects
<1>4. CASE UsePair
  BY <1>4, UsePairRespects
<1>5. CASE NativeCode \/ UNCHANGED vars
  BY <1>5, SameRespects DEF NativeCode, vars
<1>6. CASE CallCrashes \/ CopyInFails
  <2>1. op.who \in live /\ terminateState(op.who)
    BY <1>6, CallerIs DEF CallCrashes, CopyInFails
  <2> QED
    BY <1>0, <2>1, TerminateRespects
<1>7. CASE CallReturns
  BY <1>7, ReturnRespects
<1>8. CASE ForkSize
  <2>1. OpInv /\ op.kind = "resolve"
    BY <1>8 DEF IInv, ForkSize
  <2>2. PICK t \in DOMAIN op.results, x \in States : branch(t, x)
    BY <1>8 DEF ForkSize
  <2>3. t \in live
    BY <2>1, OpIs DEF OpInv, ResolutionFresh
  <2> QED
    BY <1>0, <2>2, <2>3, BranchRespects
<1> QED
  BY <1>1, <1>2, <1>3, <1>4, <1>5, <1>6, <1>7, <1>8 DEF Next

-----------------------------------------------------------------------------
(* External calls. *)

(* copyOutConcretes makes the process agree with every object the calling  *)
(* state may write.                                                        *)
LEMMA CallOutAgrees ==
    ASSUME NEW s \in live, CallOut(s), process \in [MOs -> Values]
    PROVE  CopyInOnlyTouched'
<1>1. /\ process' = copyOutConcretes(s, heap') /\ objects' = objects
      /\ op' = [kind |-> "call", who |-> s, touched |-> {}]
  BY DEF CallOut
<1>2. ASSUME NEW mo \in Bound(s) \ {Errno}, ~heap'[objects[s][mo]].readOnly
      PROVE  process'[mo] = heap'[objects[s][mo]].concreteStore
  <2>1. mo \in MOs
    BY DEF Bound
  <2> QED
    BY <1>1, <1>2, <2>1 DEF copyOutConcretes
<1>3. op'.who = s
  BY <1>1
<1>4. \A mo \in Differs(s)' :
         /\ mo \in Bound(s) \ {Errno}
         /\ process'[mo] # heap'[objects[s][mo]].concreteStore
  BY <1>1 DEF Differs, Bound
<1>5. Differs(op.who)' = Differs(s)'
  BY <1>3 DEF Differs, Bound
<1> QED
  BY <1>1, <1>2, <1>3, <1>4, <1>5 DEF CopyInOnlyTouched

(* The native function adds what it writes to touched. *)
LEMMA NativeCodeAgrees ==
    ASSUME IInv, CopyInOnlyTouched, NativeCode
    PROVE  CopyInOnlyTouched'
<1>0. op.kind = "call" /\ op \in Calling /\ process \in [MOs -> Values]
  BY CallerIs DEF NativeCode, IInv, MInv, MTypes
<1>1. PICK mo \in Bound(op.who), v \in Values :
         /\ process' = [process EXCEPT ![mo] = v]
         /\ op' = [op EXCEPT !.touched = op.touched \cup {mo}]
  BY DEF NativeCode
<1>2. UNCHANGED <<objects, heap>>
  BY DEF NativeCode
<1>3. op'.who = op.who /\ op'.touched = op.touched \cup {mo}
  BY <1>0, <1>1 DEF Calling
<1>4. \A m \in MOs \ {mo} : process'[m] = process[m]
  BY <1>0, <1>1
<1>5. ASSUME NEW m \in Differs(op.who)', m # mo
      PROVE  m \in Differs(op.who)
  BY <1>2, <1>3, <1>4, <1>5 DEF Differs, Bound
<1> QED
  BY <1>0, <1>2, <1>3, <1>5 DEF CopyInOnlyTouched

(* Every other step is not in a call, or ends it.                          *)
LEMMA StepAgrees ==
    ASSUME IInv, CopyInOnlyTouched, [Next]_vars
    PROVE  CopyInOnlyTouched'
<1>0. process \in [MOs -> Values] /\ Idle.kind # "call"
  BY DEF IInv, MInv, MTypes, Idle
<1>1. ASSUME op = Idle, NEW s \in live, Step(s)
      PROVE  CopyInOnlyTouched'
  <2>1. CASE CallOut(s)
    BY <1>0, <2>1, CallOutAgrees
  <2>2. CASE Resolve(s)
    <3>1. op'.kind = "resolve"
      BY <2>2 DEF Resolve
    <3> QED
      BY <3>1 DEF CopyInOnlyTouched
  <2>3. CASE \/ Fork(s) \/ Terminate(s) \/ Alloc(s) \/ popFrame(s) \/ Store(s)
             \/ \E b \in States : Merge(s, b)
    <3>1. op' = op
      BY <2>3 DEF Fork, Terminate, Alloc, popFrame, Store, Merge
    <3> QED
      BY <1>0, <1>1, <3>1 DEF CopyInOnlyTouched
  <2> QED
    BY <1>1, <2>1, <2>2, <2>3 DEF Step
<1>2. CASE ForkPair
  <2>1. op.kind = "resolve" /\ op \in Resolving
    BY <1>2, OpIs DEF IInv, ForkPair, NextPair
  <2>2. op'.kind = "resolve"
    <3>1. ASSUME NEW m, NEW t, NEW u, Took(m, t, u)
          PROVE  op'.kind = "resolve"
      BY <3>1 DEF Took
    <3>2. ASSUME NEW m, op' = [op EXCEPT !.rl = Without(op.rl, m)]
          PROVE  op'.kind = "resolve"
      BY <2>1, <3>2 DEF Resolving
    <3> QED
      BY <1>2, <3>1, <3>2 DEF ForkPair
  <2> QED
    BY <2>2 DEF CopyInOnlyTouched
<1>3. CASE EndUnbound \/ UsePair
  <2>1. op.kind = "resolve" /\ op \in Resolving
    BY <1>3, OpIs DEF IInv, EndUnbound, NextPair, UsePair
  <2>2. \/ op' = Idle \/ op' = [op EXCEPT !.unbound = NoState]
        \/ \E t : op' = [op EXCEPT !.results = Without(op.results, t)]
    BY <1>3 DEF EndUnbound, UsePair, Consumed
  <2>3. op'.kind # "call"
    BY <1>0, <2>1, <2>2 DEF Resolving
  <2> QED
    BY <2>3 DEF CopyInOnlyTouched
<1>4. CASE NativeCode
  BY <1>4, NativeCodeAgrees
<1>5. CASE CallCrashes \/ CopyInFails \/ CallReturns
  <2>1. op' = Idle
    BY <1>5 DEF CallCrashes, CopyInFails, CallReturns
  <2> QED
    BY <1>0, <2>1 DEF CopyInOnlyTouched
<1>6. CASE UNCHANGED vars
  BY <1>6 DEF vars, CopyInOnlyTouched, Differs, Bound
<1>7. CASE ForkSize
  <2>1. op.kind = "resolve" /\ op \in Resolving
    BY <1>7, OpIs DEF IInv, ForkSize
  <2>2. op'.kind = "resolve"
    BY <1>7, <2>1 DEF ForkSize, Resolving
  <2> QED
    BY <2>2 DEF CopyInOnlyTouched
<1> QED
  BY <1>1, <1>2, <1>3, <1>4, <1>5, <1>6, <1>7 DEF Next

-----------------------------------------------------------------------------
(* The theorems. *)

(* The invariant of both holds in every reachable state.                   *)
THEOREM RInvAlways == Spec => []RInv
<1>1. Init => RInv
  BY InitHolds, InitOneReadOnly, Names DEF RInv
<1>2. RInv /\ [Next]_vars => RInv'
  <2> SUFFICES ASSUME RInv, [Next]_vars
               PROVE  RInv'
    OBVIOUS
  <2>1. IInv'
    BY StepHolds, Names DEF RInv, Keeps
  <2>2. OneReadOnly' /\ CopyInOnlyTouched'
    BY StepRespects, StepAgrees, Names DEF RInv
  <2> QED
    BY <2>1, <2>2 DEF RInv
<1> QED
  BY <1>1, <1>2, PTL DEF Spec

(* Two states that bind a read-only object map the same ObjectState, so    *)
(* the assertion of ExecutionState::merge "objects mutated but not         *)
(* writable" cannot fail.                                                  *)
THEOREM ReadOnlyShared == Spec => []ReadOnlyNeverCopied
<1>1. RInv => ReadOnlyNeverCopied
  BY DEF RInv, OneReadOnly, ReadOnlyAt, ReadOnlyNeverCopied, Bound
<1> QED
  BY <1>1, RInvAlways, PTL

(* What AddressSpace::copyInConcretes finds changed in an object that may  *)
(* be written was written by the call, not by that of another state.       *)
THEOREM CallsReadTheirOwn == Spec => []CopyInOnlyTouched
<1>1. RInv => CopyInOnlyTouched
  BY DEF RInv
<1> QED
  BY <1>1, RInvAlways, PTL
=============================================================================
