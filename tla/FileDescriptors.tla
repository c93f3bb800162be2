-------------------------- MODULE FileDescriptors --------------------------
(***************************************************************************)
(* The file descriptors of the program KLEE executes (runtime/POSIX/fd.c): *)
(* some name symbolic files, kept in memory at a fixed size, the others    *)
(* files of the operating system.  All paths of the program share the      *)
(* system's descriptors, so the runtime keeps the offsets itself and the   *)
(* position of a system's descriptor is anywhere.                          *)
(*                                                                         *)
(* Left out: contents; names and permissions, by which an open means a     *)
(* symbolic file, a file of the system or nothing; the flags eReadable and *)
(* eWriteable, which nothing tests.  The n-th call of read, write or close *)
(* fails if the symbolic read_fail, write_fail or close_fail is n: since   *)
(* it may be any number, any call may be the one that fails.               *)
(***************************************************************************)
EXTENDS Integers, FiniteSets

CONSTANTS
    MAX_FDS,        \* descriptors are 0 .. MAX_FDS - 1
    MAX_OS_FDS,     \* likewise those of the operating system
    Files,          \* the symbolic files
    Size,           \* the size of each of them
    MaxFailures,    \* max_failures, as klee_init_fds sets it
    MaxOff,         \* bound: how far the program seeks, reads and writes
    NoFile          \* a null dfile

VARIABLES
    fds,            \* fds[d]: eOpen, dfile, fd and off of a descriptor
    failed,         \* the functions that have had their failing call
    os,             \* the descriptors of the system that are open
    opened          \* history: the file and offset each descriptor has by the
                    \* calls the program has made

descriptorVars == <<fds, failed, os, opened>>

Fds == 0 .. MAX_FDS - 1

Offs == 0 .. MaxOff

(* memset(f, 0, sizeof *f) *)
Zero == [open |-> FALSE, dfile |-> NoFile, fd |-> 0, off |-> 0]

NotOpened == [dfile |-> NoFile, off |-> -1]

get_file(d) == d \in Fds /\ fds[d].open

(* The slot that open and dup take. *)
FirstFree(d) == d \in Fds /\ ~ fds[d].open /\ \A n \in Fds : ~ fds[n].open => d <= n

Store(d, f, as) ==
    /\ fds' = [fds EXCEPT ![d] = f]
    /\ opened' = [opened EXCEPT ![d] = as]

-----------------------------------------------------------------------------
(* open and openat *)

(* Mutant: the slot "should be" empty "if file was available". *)
ClaimUncleared(d) == fds[d]

Claim(d) == Zero

(* f->flags = eOpen, the last thing an open does. *)
Opened(f) == [f EXCEPT !.open = TRUE]

(* The slot of a file that may not be opened keeps dfile, but not eOpen. *)
open(d) ==
    /\ FirstFree(d)
    /\ LET f == Claim(d)
       IN  \/ /\ \E df \in Files :
                    \/ Store(d, [f EXCEPT !.dfile = df], NotOpened)
                    \/ Store(d, [Opened(f) EXCEPT !.dfile = df], [dfile |-> df, off |-> 0])
              /\ UNCHANGED os
           \/ Store(d, f, NotOpened) /\ UNCHANGED os
           \/ \E n \in (0 .. MAX_OS_FDS - 1) \ os :
                 /\ os' = os \cup {n}
                 /\ Store(d, [Opened(f) EXCEPT !.fd = n], [dfile |-> NoFile, off |-> 0])
    /\ UNCHANGED failed

-----------------------------------------------------------------------------
(* Calls on descriptors *)

Fails(function) ==
    /\ Cardinality(failed) < MaxFailures
    /\ function \notin failed
    /\ failed' = failed \cup {function}

(* Mutant: the descriptor of the system is closed as well (#if 0). *)
ReleaseBoth(f) == IF f.dfile = NoFile THEN os \ {f.fd} ELSE os

(* What is open in the system when a descriptor has been closed. *)
Release(f) == os

close(d) ==
    /\ get_file(d)
    /\ \/ Fails("close") /\ UNCHANGED <<fds, os, opened>>
       \/ /\ Store(d, Zero, NotOpened)
          /\ os' = Release(fds[d])
          /\ UNCHANGED failed

(* What read may transfer.  The standard input is read where the system's  *)
(* position is, and its offset stays; a symbolic file to its end.          *)
Reads(f, count) ==
    IF f.dfile = NoFile THEN IF f.fd = 0 THEN {0} ELSE 0 .. count
    ELSE IF Size < f.off THEN {0}
    ELSE IF Size < f.off + count THEN {Size - f.off} ELSE {count}

(* A write of a symbolic file says it wrote all, and moves past the end:   *)
(* save_all_writes is off, or the write would fail an assertion.           *)
Writes(f, count) ==
    IF f.dfile # NoFile THEN {count} ELSE IF f.fd \in {1, 2} THEN {0} ELSE 0 .. count

(* read and write; the system's failure is a transfer of nothing. *)
Transfer(d, function, lengths) ==
    /\ get_file(d)
    /\ \/ Fails(function) /\ UNCHANGED <<fds, opened>>
       \/ /\ \E n \in lengths :
                /\ fds[d].off + n \in Offs
                /\ Store(d, [fds[d] EXCEPT !.off = @ + n], [opened[d] EXCEPT !.off = @ + n])
          /\ UNCHANGED failed
    /\ UNCHANGED os

(* Mutant: seeks from the system's position, which other descriptors and   *)
(* other paths have moved.                                                 *)
PositionInSystem(f) == IF f.dfile = NoFile THEN Offs ELSE {f.off}

(* The system's position is first set to the offset. *)
Position(f) == {f.off}

(* A seek of a system's file to somewhere from its end is one to anywhere. *)
lseek(d, offset, whence) ==
    /\ get_file(d)
    /\ \E from \in CASE whence = "SEEK_SET" -> {0}
                     [] whence = "SEEK_CUR" -> Position(fds[d])
                     [] whence = "SEEK_END" -> IF fds[d].dfile = NoFile THEN Offs ELSE {Size} :
          /\ from + offset \in Offs
          /\ Store(d, [fds[d] EXCEPT !.off = from + offset],
                   [opened[d] EXCEPT !.off = (IF whence = "SEEK_CUR" THEN @ ELSE from) + offset])
    /\ UNCHANGED <<failed, os>>

(* newfd gets an offset of its own and the same descriptor of the system.  *)
(* Whether the close before fails is not looked at; if it succeeds on      *)
(* oldfd itself, what is copied is an empty slot.                          *)
dup2(oldfd, newfd) ==
    /\ get_file(oldfd)
    /\ \/ /\ get_file(newfd)
          /\ Fails("close")
          /\ Store(newfd, fds[oldfd], opened[oldfd])
          /\ UNCHANGED os
       \/ /\ UNCHANGED failed
          /\ IF oldfd = newfd THEN Store(newfd, Zero, NotOpened)
             ELSE Store(newfd, fds[oldfd], opened[oldfd])
          /\ os' = IF get_file(newfd) THEN Release(fds[newfd]) ELSE os

dup(oldfd) ==
    \E d \in Fds : FirstFree(d) /\ dup2(oldfd, d)

-----------------------------------------------------------------------------
(* The standard streams are the system's, but the first two may have been  *)
(* made symbolic files.                                                    *)
FilesInit ==
    \E std \in [0 .. 1 -> Files \cup {NoFile}] :
        LET dfile(d) == IF d \in 0 .. 1 THEN std[d] ELSE NoFile
        IN  /\ fds = [d \in Fds |-> IF d \in 0 .. 2 THEN [open |-> TRUE, dfile |-> dfile(d), fd |-> d, off |-> 0]
                                   ELSE Zero]
            /\ failed = {}
            /\ os = 0 .. 2
            /\ opened = [d \in Fds |-> IF d \in 0 .. 2 THEN [dfile |-> dfile(d), off |-> 0] ELSE NotOpened]

FilesNext ==
    \E d \in Fds :
        \/ open(d)
        \/ close(d)
        \/ \E count \in 1 .. 2 :
              \/ Transfer(d, "read", Reads(fds[d], count))
              \/ Transfer(d, "write", Writes(fds[d], count))
        \/ \E offset \in -1 .. 1, whence \in {"SEEK_SET", "SEEK_CUR", "SEEK_END"} : lseek(d, offset, whence)
        \/ \E newfd \in Fds : dup2(d, newfd)
        \/ dup(d)

FilesSpec == FilesInit /\ [][FilesNext]_descriptorVars

-----------------------------------------------------------------------------
(* An open descriptor is the file the program opened, whatever a call that *)
(* failed has left in its slot, and its offset is where the program's own  *)
(* calls have brought it, wherever other descriptors and other paths have  *)
(* moved the system's position; a closed one can be opened again.          *)
DescriptorsRight ==
    \A d \in Fds :
        opened[d] = IF fds[d].open THEN [dfile |-> fds[d].dfile, off |-> fds[d].off] ELSE NotOpened

(* The system's file behind a descriptor is open as long as the descriptor *)
(* is, though copies of it have been closed or overwritten (dup2: "we can  *)
(* get away with not dup'ng the OS fd").                                   *)
SystemFilesOpen ==
    \A d \in Fds : fds[d].open /\ fds[d].dfile = NoFile => fds[d].fd \in os
=============================================================================
