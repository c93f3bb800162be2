----------------------- MODULE FileDescriptorsProofs -----------------------
(***************************************************************************)
(* FileDescriptors keeps both of its invariants, for tables of any size    *)
(* and any symbolic files.  They are inductive with the types of the table *)
(* and of the history: all actions store into one slot a descriptor that   *)
(* agrees with what the program asked for, and no descriptor of the system *)
(* is ever closed (StoreKeeps).                                            *)
(***************************************************************************)
EXTENDS FileDescriptors, TLAPS

Descriptor ==
    [open : BOOLEAN, dfile : Files \cup {NoFile}, fd : 0 .. 2 \cup 0 .. (MAX_OS_FDS - 1),
     off : Offs \cup {0}]

Reference == [dfile : Files \cup {NoFile}, off : Offs \cup {0, -1}]

Types == fds \in [Fds -> Descriptor] /\ opened \in [Fds -> Reference]

(* f is what the program refers to, with o open in the system. *)
Agrees(f, as, o) ==
    /\ f \in Descriptor
    /\ as = IF f.open THEN [dfile |-> f.dfile, off |-> f.off] ELSE NotOpened
    /\ f.open /\ f.dfile = NoFile => f.fd \in o

IInv == Types /\ DescriptorsRight /\ SystemFilesOpen /\ 0 \in os

-----------------------------------------------------------------------------
LEMMA ZeroAgrees == \A o : Agrees(Zero, NotOpened, o)
BY DEF Agrees, Zero, NotOpened, Descriptor

LEMMA SlotAgrees ==
    ASSUME IInv, NEW d \in Fds
    PROVE  Agrees(fds[d], opened[d], os)
BY DEF IInv, Types, DescriptorsRight, SystemFilesOpen, Agrees

LEMMA OffsetsAgree ==
    ASSUME IInv, NEW d \in Fds, get_file(d)
    PROVE  opened[d].off = fds[d].off
<1>1. opened[d] = [dfile |-> fds[d].dfile, off |-> fds[d].off]
  BY SlotAgrees DEF Agrees, get_file
<1> QED
  BY <1>1

LEMMA AgreesIsReference ==
    ASSUME NEW f, NEW as, NEW o, Agrees(f, as, o)
    PROVE  as \in Reference
BY DEF Agrees, Descriptor, Reference, NotOpened

LEMMA StoreKeeps ==
    ASSUME IInv, NEW d \in Fds, NEW f, NEW as, Store(d, f, as),
           os \subseteq os', Agrees(f, as, os')
    PROVE  IInv'
<1>1. Types'
  BY AgreesIsReference DEF IInv, Types, Store, Agrees
<1>2. \A n \in Fds : fds'[n] = (IF n = d THEN f ELSE fds[n])
                  /\ opened'[n] = (IF n = d THEN as ELSE opened[n])
  BY DEF IInv, Types, Store
<1>3. DescriptorsRight'
  BY <1>2 DEF IInv, DescriptorsRight, Agrees
<1>4. SystemFilesOpen'
  BY <1>2 DEF IInv, SystemFilesOpen, Agrees
<1> QED
  BY <1>1, <1>3, <1>4 DEF IInv

(* read, write and lseek: an offset moves as the program moves it. *)
LEMMA MoveKeeps ==
    ASSUME IInv, NEW d \in Fds, get_file(d), os' = os,
           NEW n \in Offs, NEW m, m = n,
           Store(d, [fds[d] EXCEPT !.off = n], [opened[d] EXCEPT !.off = m])
    PROVE  IInv'
<1> DEFINE f == [fds[d] EXCEPT !.off = n]
           as == [opened[d] EXCEPT !.off = m]
<1>1. Agrees(fds[d], opened[d], os) /\ fds[d].open
  BY SlotAgrees DEF get_file
<1>2. f \in Descriptor /\ f.open = fds[d].open /\ f.dfile = fds[d].dfile /\ f.fd = fds[d].fd /\ f.off = n
  BY <1>1 DEF Agrees, Descriptor
<1>3. as = [dfile |-> f.dfile, off |-> f.off]
  BY <1>1, <1>2 DEF Agrees
<1>4. Agrees(f, as, os')
  BY <1>1, <1>2, <1>3 DEF Agrees
<1> QED
  BY <1>4, StoreKeeps

LEMMA NothingKeeps ==
    ASSUME IInv, UNCHANGED <<fds, os, opened>>
    PROVE  IInv'
BY DEF IInv, Types, DescriptorsRight, SystemFilesOpen

LEMMA InitHolds == FilesInit => IInv
<1> SUFFICES ASSUME FilesInit PROVE IInv
  OBVIOUS
<1> DEFINE standard(f, d) == [open |-> TRUE, dfile |-> f, fd |-> d, off |-> 0]
<1>1. PICK std \in [0 .. 1 -> Files \cup {NoFile}] :
        LET dfile(d) == IF d \in 0 .. 1 THEN std[d] ELSE NoFile
        IN  /\ fds = [d \in Fds |-> IF d \in 0 .. 2 THEN standard(dfile(d), d) ELSE Zero]
            /\ opened = [d \in Fds |-> IF d \in 0 .. 2 THEN [dfile |-> dfile(d), off |-> 0] ELSE NotOpened]
  BY DEF FilesInit
<1> DEFINE dfile(d) == IF d \in 0 .. 1 THEN std[d] ELSE NoFile
<1>2. \A d \in Fds : dfile(d) \in Files \cup {NoFile}
  OBVIOUS
<1>3. os = 0 .. 2
  BY DEF FilesInit
<1>4. \A d \in Fds : Agrees(IF d \in 0 .. 2 THEN standard(dfile(d), d) ELSE Zero,
                           IF d \in 0 .. 2 THEN [dfile |-> dfile(d), off |-> 0] ELSE NotOpened, os)
  <2> SUFFICES ASSUME NEW d \in Fds
               PROVE  Agrees(IF d \in 0 .. 2 THEN standard(dfile(d), d) ELSE Zero,
                             IF d \in 0 .. 2 THEN [dfile |-> dfile(d), off |-> 0] ELSE NotOpened, os)
    OBVIOUS
  <2>1. CASE d \in 0 .. 2
    <3> DEFINE x == dfile(d)
    <3>1. x \in Files \cup {NoFile}
      BY <1>2
    <3> HIDE DEF x
    <3>2. Agrees(standard(x, d), [dfile |-> x, off |-> 0], os)
      BY <1>3, <2>1, <3>1 DEF Agrees, Descriptor
    <3> QED
      BY <2>1, <3>2 DEF x
  <2>2. CASE d \notin 0 .. 2
    BY <2>2, ZeroAgrees
  <2> QED
    BY <2>1, <2>2
<1>5. \A d \in Fds : Agrees(fds[d], opened[d], os)
  BY <1>1, <1>4
<1>6. fds \in [Fds -> Descriptor]
  BY <1>1, <1>5 DEF Agrees
<1>7. opened \in [Fds -> Reference]
  BY <1>1, <1>5, AgreesIsReference
<1> QED
  BY <1>3, <1>5, <1>6, <1>7 DEF IInv, Types, DescriptorsRight, SystemFilesOpen, Agrees

-----------------------------------------------------------------------------
(* One lemma for each action. *)

LEMMA OpenKeeps == ASSUME IInv, NEW d \in Fds, open(d) PROVE IInv'
<1> DEFINE g == Opened(Zero)
<1>1. /\ Zero \in Descriptor
      /\ Zero.open = FALSE /\ Zero.dfile = NoFile /\ Zero.fd = 0 /\ Zero.off = 0
      /\ 0 \in os
  BY DEF Zero, Descriptor, IInv
<1>2. /\ g \in Descriptor
      /\ g.open = TRUE /\ g.dfile = NoFile /\ g.fd = 0 /\ g.off = 0
  BY <1>1 DEF Opened, Descriptor
<1> HIDE DEF g
<1>3. ASSUME NEW df \in Files, UNCHANGED os, Store(d, [Zero EXCEPT !.dfile = df], NotOpened)
      PROVE  IInv'
  <2>1. Agrees([Zero EXCEPT !.dfile = df], NotOpened, os')
    BY <1>1 DEF Agrees, Descriptor
  <2> QED
    BY <1>3, <2>1, StoreKeeps
<1>4. ASSUME NEW df \in Files, UNCHANGED os, Store(d, [g EXCEPT !.dfile = df], [dfile |-> df, off |-> 0])
      PROVE  IInv'
  <2> DEFINE f == [g EXCEPT !.dfile = df]
  <2>1. f \in Descriptor /\ f.open = TRUE /\ f.dfile = df /\ f.fd = 0 /\ f.off = 0
    BY <1>2 DEF Descriptor
  <2>2. f.fd \in os'
    BY <1>1, <1>4, <2>1
  <2> HIDE DEF f
  <2>3. Agrees(f, [dfile |-> df, off |-> 0], os')
    BY <2>1, <2>2 DEF Agrees
  <2> QED
    BY <1>4, <2>3, StoreKeeps DEF f
<1>5. CASE Store(d, Zero, NotOpened) /\ UNCHANGED os
  BY <1>5, ZeroAgrees, StoreKeeps
<1>6. ASSUME NEW n \in 0 .. (MAX_OS_FDS - 1), os' = os \cup {n},
             Store(d, [g EXCEPT !.fd = n], [dfile |-> NoFile, off |-> 0])
      PROVE  IInv'
  <2> DEFINE f == [g EXCEPT !.fd = n]
  <2>1. f \in Descriptor /\ f.open = TRUE /\ f.dfile = NoFile /\ f.fd = n /\ f.off = 0
    BY <1>2 DEF Descriptor
  <2>2. f.fd \in os' /\ os \subseteq os'
    BY <1>6, <2>1
  <2> HIDE DEF f
  <2>3. Agrees(f, [dfile |-> NoFile, off |-> 0], os')
    BY <2>1, <2>2 DEF Agrees
  <2> QED
    BY <1>6, <2>2, <2>3, StoreKeeps DEF f
<1> QED
  BY <1>3, <1>4, <1>5, <1>6 DEF open, Claim, g

LEMMA CloseKeeps == ASSUME IInv, NEW d \in Fds, close(d) PROVE IInv'
BY ZeroAgrees, StoreKeeps, NothingKeeps DEF close, Release

LEMMA TransferKeeps ==
    ASSUME IInv, NEW d \in Fds, NEW function, NEW lengths, Transfer(d, function, lengths)
    PROVE  IInv'
<1>1. CASE UNCHANGED <<fds, opened>>
  BY <1>1, NothingKeeps DEF Transfer
<1>2. CASE \E n \in lengths :
             /\ fds[d].off + n \in Offs
             /\ Store(d, [fds[d] EXCEPT !.off = @ + n], [opened[d] EXCEPT !.off = @ + n])
  <2>1. PICK n \in lengths :
          /\ fds[d].off + n \in Offs
          /\ Store(d, [fds[d] EXCEPT !.off = fds[d].off + n], [opened[d] EXCEPT !.off = opened[d].off + n])
    BY <1>2
  <2>2. get_file(d) /\ UNCHANGED os
    BY DEF Transfer
  <2>3. opened[d].off + n = fds[d].off + n
    BY <2>2, OffsetsAgree
  <2> QED
    BY <2>1, <2>2, <2>3, MoveKeeps
<1> QED
  BY <1>1, <1>2 DEF Transfer

LEMMA SeekKeeps ==
    ASSUME IInv, NEW d \in Fds, NEW offset, NEW whence, lseek(d, offset, whence)
    PROVE  IInv'
<1>1. get_file(d) /\ UNCHANGED os
  BY DEF lseek
<1>2. PICK from : 
        /\ whence = "SEEK_CUR" => from = fds[d].off
        /\ from + offset \in Offs
        /\ Store(d, [fds[d] EXCEPT !.off = from + offset],
                 [opened[d] EXCEPT !.off = (IF whence = "SEEK_CUR" THEN opened[d].off ELSE from) + offset])
  BY DEF lseek, Position
<1>3. (IF whence = "SEEK_CUR" THEN opened[d].off ELSE from) + offset = from + offset
  BY <1>1, <1>2, OffsetsAgree
<1> QED
  BY <1>1, <1>2, <1>3, MoveKeeps

LEMMA Dup2Keeps == ASSUME IInv, NEW oldfd \in Fds, NEW newfd \in Fds, dup2(oldfd, newfd) PROVE IInv'
<1>1. UNCHANGED os
  BY DEF dup2, Release
<1>2. Store(newfd, Zero, NotOpened) \/ Store(newfd, fds[oldfd], opened[oldfd])
  BY DEF dup2
<1>3. Agrees(fds[oldfd], opened[oldfd], os)
  BY SlotAgrees
<1> QED
  BY <1>1, <1>2, <1>3, ZeroAgrees, StoreKeeps

LEMMA StepKeeps == ASSUME IInv, [FilesNext]_descriptorVars PROVE IInv'
<1>1. CASE FilesNext
  <2>1. PICK d \in Fds :
          \/ open(d)
          \/ close(d)
          \/ \E function, lengths : Transfer(d, function, lengths)
          \/ \E offset, whence : lseek(d, offset, whence)
          \/ \E newfd \in Fds : dup2(d, newfd)
    BY <1>1 DEF FilesNext, dup
  <2> QED
    BY <2>1, OpenKeeps, CloseKeeps, TransferKeeps, SeekKeeps, Dup2Keeps
<1>2. CASE UNCHANGED descriptorVars
  BY <1>2, NothingKeeps DEF descriptorVars
<1> QED
  BY <1>1, <1>2

-----------------------------------------------------------------------------
(* Descriptors are what the program made them, whatever failed before and  *)
(* whoever moves the positions in the system (fd.c).                       *)
THEOREM DescriptorsStayRight == FilesSpec => []DescriptorsRight
<1>1. IInv => DescriptorsRight
  BY DEF IInv
<1> QED
  BY <1>1, InitHolds, StepKeeps, PTL DEF FilesSpec

(* No descriptor is left without its file in the system (close, dup2). *)
THEOREM SystemFilesStayOpen == FilesSpec => []SystemFilesOpen
<1>1. IInv => SystemFilesOpen
  BY DEF IInv
<1> QED
  BY <1>1, InitHolds, StepKeeps, PTL DEF FilesSpec
=============================================================================
