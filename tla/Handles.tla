------------------------------- MODULE Handles -------------------------------
(***************************************************************************)
(* Who owns what the kernel gives out: files, directories and their        *)
(* iterators, sockets.  A FileValue forgets its stream when it closes it;  *)
(* a Dir object keeps its pointer and a Socket object its number, which    *)
(* the kernel gives to the next that is opened.                            *)
(***************************************************************************)
EXTENDS Integers, Sequences

CONSTANTS
  ClosesTwice,         \* whether programs close a socket again
  MaxFds, MaxObjects   \* bounds

ASSUME HandlesAssumption ==
  ClosesTwice \in BOOLEAN /\ {MaxFds, MaxObjects} \subseteq Nat

VARIABLES
  table,    \* the kernel's: descriptor -> the object it was opened for, 0 for a free one
  objects,  \* values of the program, in the order they were made
  mode      \* run, aborted (assertion) or undefined (a freed or null pointer is used)

vars == << table, objects, mode >>

Kinds == {"File", "Dir", "Socket"}

\* held: the variables of the program refer to it; pointer: the stream or directory;
\* of: the Dir of an iterator; closed: history, the program closed it.
Object(kind, fd, of) ==
  [kind |-> kind, fd |-> fd, pointer |-> "open", of |-> of, held |-> TRUE, closed |-> FALSE]

Init == table = [fd \in 1..MaxFds |-> 0] /\ objects = << >> /\ mode = "run"

Fresh == Len(objects) + 1
Running == mode = "run"

FreeFds == {fd \in DOMAIN table : table[fd] = 0}

\* An object is there as long as a variable or an iterator refers to it.
Live(o) == objects[o].held \/ \E i \in DOMAIN objects : objects[i].of = o /\ objects[i].held

Usable(o) == Running /\ objects[o].held

-----------------------------------------------------------------------------
(* Opening. *)

\* fopen, opendir, socket and accept take the least free descriptor; without one
\* File_open, Dir_new and sock_socket throw.
Opened(kind) ==
  /\ Running /\ Len(objects) < MaxObjects
  /\ IF FreeFds = {} THEN UNCHANGED << table, objects >>
     ELSE \E fd \in FreeFds :
            /\ \A g \in FreeFds : fd <= g
            /\ table' = [table EXCEPT ![fd] = Fresh]
            /\ objects' = Append(objects, Object(kind, fd, 0))
  /\ UNCHANGED mode

File_open   == Opened("File")
Dir_new     == Opened("Dir")
sock_socket == Opened("Socket")

\* accept gives a new socket, or returns an exception, which the caller of the
\* native asserts not to see.
sock_sock_accept(o) ==
  /\ Usable(o) /\ objects[o].kind = "Socket" /\ ~objects[o].closed /\ FreeFds # {}
  /\ Opened("Socket")

\* Mutant: the iterator takes the pointer out of the directory.
BorrowPointer(o) == 0

\* The data of the iterator is the directory object.
IteratorData(o) == o

dir___iter__(o) ==
  /\ Usable(o) /\ objects[o].kind = "Dir" /\ Len(objects) < MaxObjects
  /\ objects' = Append(objects, [Object("Iterator", o, IteratorData(o)) EXCEPT !.pointer = "null"])
  /\ UNCHANGED << table, mode >>

-----------------------------------------------------------------------------
(* Closing. *)

Released(fd) == [table EXCEPT ![fd] = 0]

Set(o, pointer, closed, held) ==
  [objects EXCEPT ![o].pointer = pointer, ![o].closed = closed, ![o].held = held]

\* FileValue::close: nothing for a stream that is not there.
FileClose(o, held) ==
  IF objects[o].pointer = "null" THEN objects' = Set(o, "null", TRUE, held) /\ UNCHANGED << table, mode >>
  ELSE /\ table' = Released(objects[o].fd)
       /\ objects' = Set(o, "null", TRUE, held) /\ UNCHANGED mode

file_close(o) == Usable(o) /\ objects[o].kind = "File" /\ FileClose(o, TRUE)

\* dir_close: the assertion is that there is a pointer, and there always is.
DirClose(o, held, by) ==
  IF objects[o].pointer = "freed" THEN mode' = "undefined" /\ UNCHANGED << table, objects >>
  ELSE /\ table' = Released(objects[o].fd)
       /\ objects' = Set(o, "freed", by, held)
       /\ UNCHANGED mode

dir_close(o) == Usable(o) /\ objects[o].kind = "Dir" /\ DirClose(o, TRUE, TRUE)

\* GETFD: the number stays in the object.
GETFD(o) == objects[o].fd

\* close(2) of whatever has the number; that it fails is returned, not thrown.
sock_sock_close(o) ==
  /\ Usable(o) /\ objects[o].kind = "Socket" /\ (objects[o].closed => ClosesTwice)
  /\ IF table[GETFD(o)] = 0 THEN mode' = "aborted" /\ UNCHANGED << table, objects >>
     ELSE /\ table' = Released(GETFD(o)) /\ UNCHANGED mode
          /\ objects' = Set(o, objects[o].pointer, TRUE, TRUE)

\* Mutant: the destructor closes the number it finds.
CloseNumber(o) ==
  /\ table' = Released(GETFD(o)) /\ objects' = Set(o, objects[o].pointer, objects[o].closed, FALSE)
  /\ UNCHANGED mode

\* sock_sock_DESTROY looks at the number and does nothing.
sock_sock_DESTROY(o) ==
  objects' = Set(o, objects[o].pointer, objects[o].closed, FALSE) /\ UNCHANGED << table, mode >>

IsIterated(o) == \E i \in DOMAIN objects : objects[i].of = o /\ objects[i].held

\* ~FileValue
DestroyFile(o) == FileClose(o, FALSE)

\* dir_DESTROY runs when the last reference goes: the program's, or its iterator's.
DestroyDir(o) == DirClose(o, FALSE, objects[o].closed)

Unheld(o) == objects' = Set(o, objects[o].pointer, objects[o].closed, FALSE) /\ UNCHANGED << table, mode >>

\* Dropping an iterator also drops its hold on the directory.
LastOfDir(i) ==
  LET d == objects[i].of
  IN  d # 0 /\ ~objects[d].held /\ \A j \in DOMAIN objects : objects[j].of = d /\ objects[j].held => j = i

\* The last variable that refers to the object goes.
Drop(o) ==
  /\ Usable(o)
  /\ CASE objects[o].kind = "File" -> DestroyFile(o)
       [] objects[o].kind = "Dir" -> IF IsIterated(o) THEN Unheld(o) ELSE DestroyDir(o)
       [] objects[o].kind = "Socket" -> sock_sock_DESTROY(o)
       [] OTHER -> IF ~LastOfDir(o) THEN Unheld(o)
                   ELSE LET d == objects[o].of
                        IN  IF objects[d].pointer = "freed"
                            THEN mode' = "undefined" /\ UNCHANGED << table, objects >>
                            ELSE /\ table' = Released(objects[d].fd) /\ UNCHANGED mode
                                 /\ objects' = [objects EXCEPT ![d].pointer = "freed", ![o].held = FALSE]

-----------------------------------------------------------------------------
(* Use. *)

\* dir_read, through the object or through an iterator's.
Reads(d) ==
  /\ mode' = IF objects[d].pointer = "freed" THEN "undefined" ELSE "run"
  /\ UNCHANGED << table, objects >>

dir_read(o) == Usable(o) /\ objects[o].kind = "Dir" /\ ~objects[o].closed /\ Reads(o)

\* fd of an iterator is the directory it was made from.
dir_Iterator___next__(o) == Usable(o) /\ objects[o].kind = "Iterator" /\ Reads(objects[o].fd)

Next ==
  \/ File_open \/ Dir_new \/ sock_socket
  \/ \E o \in DOMAIN objects :
       \/ sock_sock_accept(o) \/ dir___iter__(o)
       \/ file_close(o) \/ dir_close(o) \/ sock_sock_close(o) \/ Drop(o)
       \/ dir_read(o) \/ dir_Iterator___next__(o)

Spec == Init /\ [][Next]_vars

-----------------------------------------------------------------------------
(* Properties. *)

\* FileValue, Dir and Socket (value/file.h:24, dir.cc:72, socket.cc:37): what an object has
\* opened and not closed is still its own, whatever was closed, dropped and opened since.
OwnDescriptor == \A o \in DOMAIN objects :
  Live(o) /\ ~objects[o].closed /\ objects[o].kind # "Iterator" => table[objects[o].fd] = o

\* ~FileValue, dir_DESTROY: a descriptor that no object of the program can close any more
\* is one of a socket that was dropped without close.
NoneLost == \A fd \in DOMAIN table : table[fd] # 0 =>
  \/ Live(table[fd]) /\ ~objects[table[fd]].closed
  \/ objects[table[fd]].kind = "Socket" /\ ~objects[table[fd]].closed

\* dir___iter__ (dir.cc:153): a loop over a directory reads it as long as it goes on, also
\* when the program has dropped the directory, unless it has closed it.
IterationIsSafe == mode = "run" =>
  \A i \in DOMAIN objects : objects[i].kind = "Iterator" /\ objects[i].held =>
    objects[objects[i].fd].pointer = "open" \/ objects[objects[i].fd].closed

\* dir.cc:70 "you don't need to close directory by hand since the destructor closes
\* directory automtically": closing by hand is possible, not fatal.
ClosedDirIsClosed == mode # "undefined"

\* The assertion at vm.cc:347 and its like: natives throw
\* their exceptions.
NativesThrow == mode # "aborted"
=============================================================================
