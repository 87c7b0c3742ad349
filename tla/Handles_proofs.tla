--------------------------- MODULE Handles_proofs ---------------------------
(***************************************************************************)
(* Descriptors have one owner each, in programs that close no socket       *)
(* twice; the bytes of files and sockets are kept and given once.  For any *)
(* number of descriptors and objects, any texts, buffers and messages.     *)
(***************************************************************************)
EXTENDS MCHandles, TLAPS

Fds == 1..MaxFds

Objects == [kind : Kinds \union {"Iterator"}, fd : Nat, pointer : {"open", "null", "freed"},
            of : Nat, held : BOOLEAN, closed : BOOLEAN]

Typed ==
  /\ table \in [Fds -> Nat]
  /\ objects \in Seq(Objects)
  /\ mode \in {"run", "undefined"}

\* An iterator is one of a directory.
Iterates(o) ==
  /\ objects[o].of = objects[o].fd /\ objects[o].of \in DOMAIN objects
  /\ objects[objects[o].of].kind = "Dir" /\ objects[o].pointer = "null"

\* What it has opened is still open.
Has(o) == IF objects[o].kind = "Socket" THEN ~objects[o].closed ELSE objects[o].pointer = "open"

\* The streams of files end when they are closed or dropped, directories when they are closed or
\* nothing is left that reads them.
Ends(o) ==
  /\ objects[o].of = 0 /\ objects[o].fd \in Fds
  /\ objects[o].kind = "Socket" => objects[o].pointer = "open"
  /\ objects[o].kind = "File" => /\ Has(o) <=> ~objects[o].closed
                                 /\ Has(o) => objects[o].held
                                 /\ Has(o) <=> objects[o].pointer # "null"
  /\ objects[o].kind = "Dir" => /\ Has(o) <=> ~objects[o].closed /\ Live(o)
                                /\ Has(o) <=> objects[o].pointer # "freed"

Shaped == \A o \in DOMAIN objects : IF objects[o].kind = "Iterator" THEN Iterates(o) ELSE Ends(o)

Owner == \A o \in DOMAIN objects : objects[o].kind # "Iterator" /\ Has(o) => table[objects[o].fd] = o

Owned == \A fd \in Fds, o \in Nat \ {0} : table[fd] = o =>
  o \in DOMAIN objects /\ objects[o].kind # "Iterator" /\ objects[o].fd = fd /\ Has(o)

Owners == Typed /\ Shaped /\ Owner /\ Owned

-----------------------------------------------------------------------------
(* What one step does to the objects. *)

\* No object has the number 0.
LEMMA NoObjectZero == ASSUME Typed PROVE 0 \notin DOMAIN objects /\ DOMAIN objects = 1..Len(objects) /\ Len(objects) \in Nat
BY DEF Typed

\* One element of a sequence is replaced.
LEMMA Replaced ==
  ASSUME NEW S, NEW s \in Seq(S), NEW i \in DOMAIN s, NEW x \in S
  PROVE  /\ [s EXCEPT ![i] = x] \in Seq(S) /\ DOMAIN [s EXCEPT ![i] = x] = DOMAIN s
         /\ [s EXCEPT ![i] = x][i] = x
         /\ \A j \in DOMAIN s \ {i} : [s EXCEPT ![i] = x][j] = s[j]
OBVIOUS

\* Set changes three fields of one object.
LEMMA SetFields ==
  ASSUME Typed, NEW o \in DOMAIN objects, NEW pointer \in {"open", "null", "freed"},
         NEW closed \in BOOLEAN, NEW held \in BOOLEAN, objects' = Set(o, pointer, closed, held)
  PROVE  /\ objects' \in Seq(Objects) /\ DOMAIN objects' = DOMAIN objects
         /\ \A p \in DOMAIN objects : /\ objects'[p].kind = objects[p].kind
                                      /\ objects'[p].fd = objects[p].fd
                                      /\ objects'[p].of = objects[p].of
         /\ \A p \in DOMAIN objects \ {o} : objects'[p] = objects[p]
         /\ objects'[o].pointer = pointer /\ objects'[o].closed = closed /\ objects'[o].held = held
<1>1. objects \in Seq(Objects) /\ objects[o] \in Objects
  BY DEF Typed
<1>2. objects' = [objects EXCEPT ![o] = [[[@ EXCEPT !.pointer = pointer] EXCEPT !.closed = closed] EXCEPT !.held = held]]
  BY <1>1 DEF Set, Objects
<1>3. [[[objects[o] EXCEPT !.pointer = pointer] EXCEPT !.closed = closed] EXCEPT !.held = held] \in Objects
  BY <1>1 DEF Objects
<1>4. objects' \in Seq(Objects) /\ DOMAIN objects' = DOMAIN objects
  BY <1>1, <1>2, <1>3
<1>5. objects'[o] = [[[objects[o] EXCEPT !.pointer = pointer] EXCEPT !.closed = closed] EXCEPT !.held = held]
  BY <1>1, <1>2
<1>6. \A p \in DOMAIN objects \ {o} : objects'[p] = objects[p]
  BY <1>1, <1>2
<1>7. /\ objects'[o].kind = objects[o].kind /\ objects'[o].fd = objects[o].fd /\ objects'[o].of = objects[o].of
      /\ objects'[o].pointer = pointer /\ objects'[o].closed = closed /\ objects'[o].held = held
  BY <1>1, <1>5 DEF Objects
<1> QED
  BY <1>4, <1>6, <1>7

\* A file, directory or socket changes: its descriptor is released if and only if it ends.
LEMMA ChangesOne ==
  ASSUME Owners, NEW o \in DOMAIN objects, objects[o].kind # "Iterator",
         NEW pointer \in {"open", "null", "freed"}, NEW closed \in BOOLEAN, NEW held \in BOOLEAN,
         objects' = Set(o, pointer, closed, held), mode' \in {"run", "undefined"},
         Has(o)' => Has(o),
         table' = IF Has(o) /\ ~Has(o)' THEN Released(objects[o].fd) ELSE table,
         Ends(o)'
  PROVE  Owners'
<1>1. Typed /\ Shaped /\ Owner /\ Owned
  BY DEF Owners
<1>2. /\ objects' \in Seq(Objects) /\ DOMAIN objects' = DOMAIN objects
      /\ \A p \in DOMAIN objects : /\ objects'[p].kind = objects[p].kind
                                   /\ objects'[p].fd = objects[p].fd
                                   /\ objects'[p].of = objects[p].of
      /\ \A p \in DOMAIN objects \ {o} : objects'[p] = objects[p]
  BY <1>1, SetFields
<1>3. objects[o].fd \in Fds /\ objects[o].of = 0
  BY <1>1 DEF Shaped, Ends
<1>4. table' \in [Fds -> Nat]
  BY <1>1, <1>3 DEF Released, Typed
<1>5. \A p \in DOMAIN objects \ {o} : Has(p)' = Has(p)
  BY <1>2 DEF Has
<1>6. \A p \in DOMAIN objects \ {o} : Live(p)' = Live(p)
  <2> SUFFICES ASSUME NEW p \in DOMAIN objects, p # o PROVE Live(p)' = Live(p)
    OBVIOUS
  <2>1. p # 0
    BY <1>1, NoObjectZero
  <2>2. \A i \in DOMAIN objects : (objects'[i].of = p /\ objects'[i].held) <=> (objects[i].of = p /\ objects[i].held)
    BY <2>1, <1>2, <1>3
  <2> QED
    BY <2>2, <1>2 DEF Live
<1>7. Shaped'
  <2> SUFFICES ASSUME NEW p \in DOMAIN objects PROVE (IF objects[p].kind = "Iterator" THEN Iterates(p) ELSE Ends(p))'
    BY <1>2 DEF Shaped
  <2>1. CASE p = o
    BY <2>1, <1>2
  <2>2. CASE p # o /\ objects[p].kind = "Iterator"
    BY <2>2, <1>1, <1>2 DEF Shaped, Iterates
  <2>3. CASE p # o /\ objects[p].kind # "Iterator"
    BY <2>3, <1>1, <1>2, <1>5, <1>6 DEF Shaped, Ends
  <2> QED
    BY <2>1, <2>2, <2>3
<1>8. Owner'
  <2> SUFFICES ASSUME NEW p \in DOMAIN objects, objects'[p].kind # "Iterator", Has(p)'
               PROVE  table'[objects'[p].fd] = p
    BY <1>2 DEF Owner
  <2>1. objects[p].kind # "Iterator" /\ Has(p) /\ objects'[p].fd = objects[p].fd
    BY <1>2, <1>5
  <2>2. table[objects[p].fd] = p /\ objects[p].fd \in Fds
    BY <2>1, <1>1 DEF Owner, Shaped, Ends
  <2>3. CASE Has(o) /\ ~Has(o)'
    <3>1. p # o
      BY <2>3
    <3>2. table[objects[o].fd] = o
      BY <2>3, <1>1 DEF Owner
    <3>3. objects[p].fd # objects[o].fd
      BY <3>1, <3>2, <2>2
    <3> QED
      BY <2>1, <2>2, <2>3, <3>3, <1>1 DEF Released, Typed
  <2>4. CASE ~(Has(o) /\ ~Has(o)')
    BY <2>1, <2>2, <2>4
  <2> QED
    BY <2>3, <2>4
<1>9. Owned'
  <2> SUFFICES ASSUME NEW fd \in Fds, NEW p \in Nat \ {0}, table'[fd] = p
               PROVE  p \in DOMAIN objects /\ objects'[p].kind # "Iterator" /\ objects'[p].fd = fd /\ Has(p)'
    BY <1>2 DEF Owned
  <2>1. table[fd] = p /\ ~(p = o /\ Has(o) /\ ~Has(o)')
    <3>1. CASE Has(o) /\ ~Has(o)'
      <4>1. fd # objects[o].fd /\ table'[fd] = table[fd]
        BY <3>1, <1>1, <1>3 DEF Released, Typed
      <4>2. p \in DOMAIN objects /\ objects[p].fd = fd
        BY <4>1, <1>1 DEF Owned
      <4> QED
        BY <4>1, <4>2
    <3>2. CASE ~(Has(o) /\ ~Has(o)')
      BY <3>2
    <3> QED
      BY <3>1, <3>2
  <2>2. p \in DOMAIN objects /\ objects[p].kind # "Iterator" /\ objects[p].fd = fd /\ Has(p)
    BY <2>1, <1>1 DEF Owned
  <2> QED
    BY <2>1, <2>2, <1>2, <1>5
<1> QED
  BY <1>2, <1>4, <1>7, <1>8, <1>9 DEF Owners, Typed

-----------------------------------------------------------------------------
(* The operations. *)

\* Init, and steps that change no more than mode.
LEMMA OwnersInit == Init => Owners
BY HandlesAssumption DEF Init, Owners, Typed, Shaped, Owner, Owned, Fds

LEMMA OnlyMode == ASSUME Owners, UNCHANGED << table, objects >>, mode' \in {"run", "undefined"} PROVE Owners'
BY DEF Owners, Typed, Shaped, Owner, Owned, Iterates, Ends, Has, Live

\* What a new object leaves as it was.
LEMMA Appends ==
  ASSUME Typed, Shaped, NEW new \in Objects, new.of \in {0} \union DOMAIN objects, objects' = Append(objects, new),
         new.of # 0 => objects[new.of].held
  PROVE  /\ objects' \in Seq(Objects) /\ DOMAIN objects' = DOMAIN objects \union {Fresh}
         /\ Fresh \in Nat \ {0} /\ Fresh \notin DOMAIN objects /\ objects'[Fresh] = new
         /\ \A p \in DOMAIN objects : objects'[p] = objects[p]
         /\ \A p \in DOMAIN objects : Live(p)' = Live(p) /\ Has(p)' = Has(p)
<1>1. /\ objects' \in Seq(Objects) /\ DOMAIN objects' = DOMAIN objects \union {Fresh}
      /\ Fresh \in Nat \ {0} /\ Fresh \notin DOMAIN objects /\ objects'[Fresh] = new
      /\ \A p \in DOMAIN objects : objects'[p] = objects[p]
  BY DEF Typed, Fresh
<1>2. ASSUME NEW p \in DOMAIN objects PROVE Live(p)' = Live(p) /\ Has(p)' = Has(p)
  <2>1. Has(p)' = Has(p)
    BY <1>1, <1>2 DEF Has
  <2>2. \A i \in DOMAIN objects : objects'[i] = objects[i]
    BY <1>1
  <2>3. CASE new.of = p
    <3>1. objects[p].held
      BY <2>3, <1>2, NoObjectZero
    <3> QED
      BY <3>1, <2>1, <1>1, <1>2 DEF Live
  <2>4. CASE new.of # p
    BY <2>4, <2>1, <1>1, <1>2 DEF Live
  <2> QED
    BY <2>3, <2>4
<1> QED
  BY <1>1, <1>2

\* fopen, opendir, socket, accept.
LEMMA OpenedStep == ASSUME Owners, NEW kind \in Kinds, Opened(kind) PROVE Owners'
<1>1. Typed /\ Shaped /\ Owner /\ Owned
  BY DEF Owners
<1>2. mode' = mode /\ mode \in {"run", "undefined"}
  BY <1>1 DEF Opened, Typed
<1>3. CASE FreeFds = {}
  BY <1>2, <1>3, OnlyMode DEF Opened
<1>4. CASE FreeFds # {}
  <2>1. PICK fd \in FreeFds : /\ table' = [table EXCEPT ![fd] = Fresh]
                              /\ objects' = Append(objects, Object(kind, fd, 0))
    BY <1>4 DEF Opened
  <2>2. fd \in Fds /\ table[fd] = 0 /\ Fds \subseteq Nat
    BY <1>1, HandlesAssumption DEF FreeFds, Typed, Fds
  <2> DEFINE new == Object(kind, fd, 0)
  <2>3. /\ new \in Objects /\ new.of = 0 /\ new.kind = kind /\ new.fd = fd
        /\ new.pointer = "open" /\ new.held = TRUE /\ new.closed = FALSE
    BY <2>2 DEF Object, Objects, Kinds
  <2> HIDE DEF new
  <2>4. /\ objects' \in Seq(Objects) /\ DOMAIN objects' = DOMAIN objects \union {Fresh}
        /\ Fresh \in Nat \ {0} /\ Fresh \notin DOMAIN objects /\ objects'[Fresh] = new
        /\ \A p \in DOMAIN objects : objects'[p] = objects[p]
        /\ \A p \in DOMAIN objects : Live(p)' = Live(p) /\ Has(p)' = Has(p)
    BY <1>1, <2>1, <2>3, Appends DEF new
  <2>n. PICK n \in Nat \ {0} : n = Fresh
    BY <2>4
  <2>5. kind # "Iterator" /\ Has(n)' /\ Live(n)'
    BY <2>3, <2>4, <2>n DEF Kinds, Has, Live
  <2>6. /\ table' \in [Fds -> Nat] /\ table'[fd] = n
        /\ \A f \in Fds \ {fd} : table'[f] = table[f]
    BY <1>1, <2>1, <2>2, <2>4, <2>n DEF Typed
  <2>7. Shaped'
    <3> SUFFICES ASSUME NEW p \in DOMAIN objects \union {n}
                 PROVE  (IF objects[p].kind = "Iterator" THEN Iterates(p) ELSE Ends(p))'
      BY <2>4, <2>n DEF Shaped
    <3>1. CASE p = n
      BY <3>1, <2>2, <2>3, <2>4, <2>5, <2>n DEF Ends
    <3>2. CASE p \in DOMAIN objects /\ objects[p].kind = "Iterator"
      BY <3>2, <1>1, <2>4 DEF Shaped, Iterates
    <3>3. CASE p \in DOMAIN objects /\ objects[p].kind # "Iterator"
      BY <3>3, <1>1, <2>4 DEF Shaped, Ends
    <3> QED
      BY <3>1, <3>2, <3>3
  <2>8. Owner'
    <3> SUFFICES ASSUME NEW p \in DOMAIN objects \union {n}, objects'[p].kind # "Iterator", Has(p)'
                 PROVE  table'[objects'[p].fd] = p
      BY <2>4, <2>n DEF Owner
    <3>1. CASE p = n
      BY <3>1, <2>3, <2>4, <2>6, <2>n
    <3>2. CASE p \in DOMAIN objects
      <4>1. objects[p].kind # "Iterator" /\ Has(p)
        BY <3>2, <2>4
      <4>2. objects[p].fd \in Fds /\ table[objects[p].fd] = p
        BY <4>1, <3>2, <1>1 DEF Owner, Shaped, Ends
      <4>3. objects[p].fd # fd
        BY <4>2, <2>2, <3>2, <1>1, NoObjectZero
      <4> QED
        BY <4>2, <4>3, <3>2, <2>4, <2>6
    <3> QED
      BY <3>1, <3>2
  <2>9. Owned'
    <3> SUFFICES ASSUME NEW f \in Fds, NEW p \in Nat \ {0}, table'[f] = p
                 PROVE  p \in DOMAIN objects' /\ objects'[p].kind # "Iterator" /\ objects'[p].fd = f /\ Has(p)'
      BY DEF Owned
    <3>1. CASE f = fd
      BY <3>1, <2>3, <2>4, <2>5, <2>6, <2>n
    <3>2. CASE f # fd
      BY <3>2, <1>1, <2>4, <2>6 DEF Owned
    <3> QED
      BY <3>1, <3>2
  <2> QED
    BY <1>2, <2>4, <2>6, <2>7, <2>8, <2>9 DEF Owners, Typed
<1> QED
  BY <1>3, <1>4

\* A loop over a directory begins.
LEMMA IterStep == ASSUME Owners, NEW o \in DOMAIN objects, dir___iter__(o) PROVE Owners'
<1>1. Typed /\ Shaped /\ Owner /\ Owned
  BY DEF Owners
<1> DEFINE new == [Object("Iterator", o, o) EXCEPT !.pointer = "null"]
<1>2. /\ objects' = Append(objects, new) /\ table' = table /\ mode' = mode
      /\ objects[o].kind = "Dir" /\ objects[o].held
  BY DEF dir___iter__, IteratorData, Usable
<1>3. o \in Nat /\ o # 0
  BY <1>1, NoObjectZero
<1>4. /\ new \in Objects /\ new.of = o /\ new.kind = "Iterator" /\ new.fd = o
      /\ new.pointer = "null" /\ new.held = TRUE
  BY <1>3 DEF Object, Objects
<1> HIDE DEF new
<1>5. /\ objects' \in Seq(Objects) /\ DOMAIN objects' = DOMAIN objects \union {Fresh}
      /\ Fresh \in Nat \ {0} /\ Fresh \notin DOMAIN objects /\ objects'[Fresh] = new
      /\ \A p \in DOMAIN objects : objects'[p] = objects[p]
      /\ \A p \in DOMAIN objects : Live(p)' = Live(p) /\ Has(p)' = Has(p)
  BY <1>1, <1>2, <1>4, Appends
<1>6. Shaped'
  <2> SUFFICES ASSUME NEW p \in DOMAIN objects \union {Fresh}
               PROVE  (IF objects[p].kind = "Iterator" THEN Iterates(p) ELSE Ends(p))'
    BY <1>5 DEF Shaped
  <2>1. CASE p = Fresh
    BY <2>1, <1>2, <1>4, <1>5 DEF Iterates
  <2>2. CASE p \in DOMAIN objects /\ objects[p].kind = "Iterator"
    BY <2>2, <1>1, <1>5 DEF Shaped, Iterates
  <2>3. CASE p \in DOMAIN objects /\ objects[p].kind # "Iterator"
    BY <2>3, <1>1, <1>5 DEF Shaped, Ends
  <2> QED
    BY <2>1, <2>2, <2>3
<1>7. Owner'
  BY <1>1, <1>2, <1>4, <1>5 DEF Owner
<1>8. Owned'
  BY <1>1, <1>2, <1>5 DEF Owned
<1> QED
  BY <1>1, <1>2, <1>5, <1>6, <1>7, <1>8 DEF Owners, Typed

\* FileValue::close, by the program or by the destructor.
LEMMA FileCloseStep ==
  ASSUME Owners, NEW o \in DOMAIN objects, objects[o].kind = "File", NEW held \in BOOLEAN,
         held => objects[o].held, FileClose(o, held)
  PROVE  Owners'
<1>1. Typed /\ Shaped /\ objects[o].kind # "Iterator" /\ objects[o].kind # "Socket" /\ objects[o].kind # "Dir"
  BY DEF Owners
<1>2. mode' = mode /\ mode \in {"run", "undefined"} /\ objects' = Set(o, "null", TRUE, held)
  BY <1>1 DEF FileClose, Typed
<1>3. /\ DOMAIN objects' = DOMAIN objects /\ objects'[o].kind = "File" /\ objects'[o].fd = objects[o].fd
      /\ objects'[o].of = objects[o].of /\ objects'[o].pointer = "null" /\ objects'[o].closed = TRUE
  BY <1>1, <1>2, SetFields
<1>4. ~Has(o)' /\ (Has(o) <=> objects[o].pointer # "null")
  BY <1>1, <1>3 DEF Has, Shaped, Ends, Typed, Objects
<1>5. Ends(o)'
  BY <1>1, <1>3, <1>4 DEF Shaped, Ends
<1>6. table' = IF Has(o) /\ ~Has(o)' THEN Released(objects[o].fd) ELSE table
  BY <1>4 DEF FileClose
<1> QED
  BY <1>1, <1>2, <1>4, <1>5, <1>6, ChangesOne

\* dir_close, by the program, or as the destructor when nothing iterates.
LEMMA DirCloseStep ==
  ASSUME Owners, NEW o \in DOMAIN objects, objects[o].kind = "Dir", NEW held \in BOOLEAN, NEW by \in BOOLEAN,
         DirClose(o, held, by), \/ by
                                \/ ~held /\ ~IsIterated(o)
  PROVE  Owners'
<1>1. Typed /\ Shaped /\ objects[o].kind # "Iterator" /\ objects[o].kind # "Socket" /\ objects[o].kind # "File"
  BY DEF Owners
<1>2. CASE objects[o].pointer = "freed"
  BY <1>2, OnlyMode DEF DirClose
<1>3. CASE objects[o].pointer # "freed"
  <2>1. /\ mode' = mode /\ mode \in {"run", "undefined"} /\ objects' = Set(o, "freed", by, held)
        /\ table' = Released(objects[o].fd)
    BY <1>1, <1>3 DEF DirClose, Typed
  <2>2. /\ DOMAIN objects' = DOMAIN objects /\ objects'[o].kind = "Dir" /\ objects'[o].fd = objects[o].fd
        /\ objects'[o].of = objects[o].of /\ objects'[o].pointer = "freed" /\ objects'[o].closed = by
        /\ objects'[o].held = held
        /\ \A p \in DOMAIN objects \ {o} : objects'[p] = objects[p]
    BY <1>1, <2>1, SetFields
  <2>3. Has(o) /\ ~Has(o)'
    BY <1>1, <1>3, <2>2 DEF Has, Shaped, Ends
  <2>4. objects[o].of = 0 /\ o # 0
    BY <1>1, NoObjectZero DEF Shaped, Ends
  <2>5. by \/ ~Live(o)'
    BY <2>2, <2>4 DEF Live, IsIterated
  <2>6. Ends(o)'
    BY <1>1, <2>2, <2>3, <2>5 DEF Shaped, Ends
  <2> QED
    BY <1>1, <2>1, <2>3, <2>6, ChangesOne
<1> QED
  BY <1>2, <1>3

\* close(2) of a socket that was not closed before.
LEMMA SocketCloseStep ==
  ASSUME Owners, ~ClosesTwice, NEW o \in DOMAIN objects, sock_sock_close(o)
  PROVE  Owners'
<1>1. Typed /\ Shaped /\ Owner /\ objects[o].kind = "Socket" /\ ~objects[o].closed
  BY DEF Owners, sock_sock_close
<1>2. Has(o) /\ table[objects[o].fd] = o /\ o # 0 /\ objects[o].pointer = "open"
  BY <1>1, NoObjectZero DEF Has, Owner, Shaped, Ends
<1>3. /\ table' = Released(objects[o].fd) /\ mode' = mode /\ mode \in {"run", "undefined"}
      /\ objects' = Set(o, "open", TRUE, TRUE)
  BY <1>1, <1>2 DEF sock_sock_close, GETFD, Typed
<1>4. /\ DOMAIN objects' = DOMAIN objects /\ objects'[o].kind = "Socket" /\ objects'[o].fd = objects[o].fd
      /\ objects'[o].of = objects[o].of /\ objects'[o].pointer = "open" /\ objects'[o].closed = TRUE
  BY <1>1, <1>3, SetFields
<1>5. ~Has(o)' /\ Ends(o)'
  BY <1>1, <1>4 DEF Has, Shaped, Ends
<1> QED
  BY <1>1, <1>2, <1>3, <1>5, ChangesOne

\* sock_sock_DESTROY, and a directory that an iterator still needs.
LEMMA KeptStep ==
  ASSUME Owners, NEW o \in DOMAIN objects, objects[o].kind = "Socket" \/ (objects[o].kind = "Dir" /\ IsIterated(o)),
         Unheld(o)
  PROVE  Owners'
<1>1. Typed /\ Shaped /\ objects[o].kind # "Iterator" /\ objects[o] \in Objects
  BY DEF Owners, Typed
<1>2. /\ table' = table /\ mode' = mode /\ mode \in {"run", "undefined"}
      /\ objects[o].pointer \in {"open", "null", "freed"} /\ objects[o].closed \in BOOLEAN
      /\ objects' = Set(o, objects[o].pointer, objects[o].closed, FALSE)
  BY <1>1 DEF Unheld, Typed, Objects
<1>3. /\ DOMAIN objects' = DOMAIN objects /\ objects'[o].kind = objects[o].kind /\ objects'[o].fd = objects[o].fd
      /\ objects'[o].of = objects[o].of /\ objects'[o].pointer = objects[o].pointer
      /\ objects'[o].closed = objects[o].closed
      /\ \A p \in DOMAIN objects \ {o} : objects'[p] = objects[p]
  BY <1>1, <1>2, SetFields
<1>4. objects[o].of = 0 /\ o # 0
  BY <1>1, NoObjectZero DEF Shaped, Ends
<1>5. Has(o)' = Has(o)
  BY <1>3 DEF Has
<1>6. objects[o].kind = "Dir" => Live(o) /\ Live(o)'
  BY <1>3, <1>4 DEF Live, IsIterated
<1>7. Ends(o)'
  BY <1>1, <1>3, <1>5, <1>6 DEF Shaped, Ends
<1> QED
  BY <1>1, <1>2, <1>5, <1>7, ChangesOne

\* What a dropped iterator leaves: its directory changes in its pointer at most.
LEMMA IteratorGone ==
  ASSUME Owners, NEW o \in DOMAIN objects, objects[o].kind = "Iterator", Unheld(o), ~LastOfDir(o)
  PROVE  Owners'
<1>1. Typed /\ Shaped /\ Owner /\ Owned /\ objects[o] \in Objects
  BY DEF Owners, Typed
<1>2. /\ table' = table /\ mode' = mode /\ mode \in {"run", "undefined"}
      /\ objects[o].pointer \in {"open", "null", "freed"} /\ objects[o].closed \in BOOLEAN
      /\ objects' = Set(o, objects[o].pointer, objects[o].closed, FALSE)
  BY <1>1 DEF Unheld, Typed, Objects
<1>3. /\ objects' \in Seq(Objects) /\ DOMAIN objects' = DOMAIN objects
      /\ \A p \in DOMAIN objects : /\ objects'[p].kind = objects[p].kind
                                   /\ objects'[p].fd = objects[p].fd
                                   /\ objects'[p].of = objects[p].of
      /\ objects'[o].pointer = objects[o].pointer /\ ~objects'[o].held
      /\ \A p \in DOMAIN objects \ {o} : objects'[p] = objects[p]
  BY <1>1, <1>2, SetFields
<1>4. \A p \in DOMAIN objects : objects[p].kind # "Iterator" => p # o /\ Has(p)' = Has(p)
  BY <1>3 DEF Has
<1>5. ASSUME NEW p \in DOMAIN objects, objects[p].kind # "Iterator" PROVE Live(p)' = Live(p)
  <2>1. p # 0 /\ objects'[p] = objects[p]
    BY <1>1, <1>3, <1>5, NoObjectZero
  <2>2. CASE objects[o].of # p
    BY <2>1, <2>2, <1>3 DEF Live
  <2>3. CASE objects[o].of = p
    <3>1. objects[p].held \/ \E j \in DOMAIN objects \ {o} : objects[j].of = p /\ objects[j].held
      BY <2>1, <2>3 DEF LastOfDir
    <3> QED
      BY <3>1, <2>1, <1>3 DEF Live
  <2> QED
    BY <2>2, <2>3
<1>6. Shaped'
  <2> SUFFICES ASSUME NEW p \in DOMAIN objects PROVE (IF objects[p].kind = "Iterator" THEN Iterates(p) ELSE Ends(p))'
    BY <1>3 DEF Shaped
  <2>1. CASE objects[p].kind = "Iterator"
    <3>1. objects'[p].pointer = objects[p].pointer
      BY <1>3
    <3> QED
      BY <3>1, <2>1, <1>1, <1>3 DEF Shaped, Iterates
  <2>2. CASE objects[p].kind # "Iterator"
    BY <2>2, <1>1, <1>3, <1>4, <1>5 DEF Shaped, Ends
  <2> QED
    BY <2>1, <2>2
<1>7. Owner'
  BY <1>1, <1>2, <1>3, <1>4 DEF Owner
<1>8. Owned'
  BY ZenonT(40), <1>1, <1>2, <1>3, <1>4 DEF Owned
<1> QED
  BY <1>1, <1>2, <1>3, <1>6, <1>7, <1>8 DEF Owners, Typed

\* The last iterator of a directory that the program has dropped takes the directory along.
LEMMA DirectoryGone ==
  ASSUME Owners, NEW o \in DOMAIN objects, objects[o].kind = "Iterator", LastOfDir(o),
         objects[objects[o].of].pointer # "freed", mode' = mode,
         table' = Released(objects[objects[o].of].fd),
         objects' = [objects EXCEPT ![objects[o].of].pointer = "freed", ![o].held = FALSE]
  PROVE  Owners'
<1>1. Typed /\ Shaped /\ Owner /\ Owned
  BY DEF Owners
<1>2. PICK d \in DOMAIN objects : d = objects[o].of /\ objects[d].kind = "Dir" /\ d # o /\ d # 0
  BY <1>1, NoObjectZero DEF Shaped, Iterates
<1>3. objects[d] \in Objects /\ objects[o] \in Objects /\ objects \in Seq(Objects)
  BY <1>1, <1>2 DEF Typed
<1> DEFINE directory == [objects[d] EXCEPT !.pointer = "freed"]
           iterator == [objects[o] EXCEPT !.held = FALSE]
<1>4. /\ directory \in Objects /\ iterator \in Objects
      /\ directory.kind = objects[d].kind /\ directory.fd = objects[d].fd /\ directory.of = objects[d].of
      /\ directory.held = objects[d].held /\ directory.closed = objects[d].closed /\ directory.pointer = "freed"
      /\ iterator.kind = objects[o].kind /\ iterator.fd = objects[o].fd /\ iterator.of = objects[o].of
      /\ iterator.pointer = objects[o].pointer /\ iterator.closed = objects[o].closed /\ iterator.held = FALSE
  BY <1>3 DEF Objects
<1>5. /\ objects' \in Seq(Objects) /\ DOMAIN objects' = DOMAIN objects
      /\ objects'[d] = directory /\ objects'[o] = iterator
      /\ \A p \in DOMAIN objects \ {d, o} : objects'[p] = objects[p]
  <2>1. objects' = [[objects EXCEPT ![d] = directory] EXCEPT ![o] = iterator]
    <3>1. objects' = [[objects EXCEPT ![d].pointer = "freed"] EXCEPT ![o].held = FALSE]
      BY <1>2
    <3>2. [objects EXCEPT ![d].pointer = "freed"] = [objects EXCEPT ![d] = directory]
      BY <1>3
    <3>3. [objects EXCEPT ![d] = directory][o] = objects[o]
      BY <1>2, <1>3
    <3> QED
      BY <3>1, <3>2, <3>3
  <2> HIDE DEF directory, iterator
  <2> DEFINE middle == [objects EXCEPT ![d] = directory]
  <2>2. /\ middle \in Seq(Objects) /\ DOMAIN middle = DOMAIN objects /\ middle[d] = directory
        /\ \A p \in DOMAIN objects \ {d} : middle[p] = objects[p]
    BY <1>3, <1>4
  <2>3. objects' = [middle EXCEPT ![o] = iterator]
    BY <2>1
  <2> HIDE DEF middle
  <2>4. objects' \in Seq(Objects) /\ DOMAIN objects' = DOMAIN objects
    <3>1. /\ [middle EXCEPT ![o] = iterator] \in Seq(Objects)
          /\ DOMAIN [middle EXCEPT ![o] = iterator] = DOMAIN middle
      BY <1>4, <2>2, Replaced
    <3> QED
      BY <3>1, <2>2, <2>3
  <2>5. objects'[o] = iterator /\ \A p \in DOMAIN objects \ {o} : objects'[p] = middle[p]
    BY <2>2, <2>3
  <2> QED
    BY <1>2, <2>2, <2>4, <2>5
<1> HIDE DEF directory, iterator
<1>6. /\ \A p \in DOMAIN objects : /\ objects'[p].kind = objects[p].kind
                                   /\ objects'[p].fd = objects[p].fd
                                   /\ objects'[p].of = objects[p].of
                                   /\ p # d => objects'[p].pointer = objects[p].pointer
                                   /\ p # o => objects'[p].held = objects[p].held
                                   /\ objects'[p].closed = objects[p].closed
      /\ objects'[d].pointer = "freed" /\ objects'[o].held = FALSE
  BY ZenonT(40), <1>2, <1>4, <1>5
<1>7. \A p \in DOMAIN objects : objects[p].kind # "Iterator" =>
        p # o /\ (p # d => Has(p)' = Has(p) /\ Live(p)' = Live(p))
  <2> SUFFICES ASSUME NEW p \in DOMAIN objects, objects[p].kind # "Iterator", p # d
               PROVE  p # o /\ Has(p)' = Has(p) /\ Live(p)' = Live(p)
    OBVIOUS
  <2>1. p # o /\ Has(p)' = Has(p)
    BY ZenonT(40), <1>6 DEF Has
  <2>2. \A i \in DOMAIN objects : (objects'[i].of = p /\ objects'[i].held) <=> (objects[i].of = p /\ objects[i].held)
    <3> SUFFICES ASSUME NEW i \in DOMAIN objects, i # o
                 PROVE  (objects'[i].of = p /\ objects'[i].held) <=> (objects[i].of = p /\ objects[i].held)
      BY <1>2, <1>6
    <3> QED
      BY ZenonT(40), <1>6
  <2> QED
    BY <2>1, <2>2, <1>5, <1>6 DEF Live
<1>8. Has(d) /\ ~Has(d)' /\ ~Live(d)'
  <2>1. ~objects'[d].held
    BY <1>2, <1>6 DEF LastOfDir
  <2>2. \A i \in DOMAIN objects : ~(objects'[i].of = d /\ objects'[i].held)
    BY <1>2, <1>6 DEF LastOfDir
  <2>3. ~Live(d)'
    BY <2>1, <2>2, <1>5 DEF Live
  <2>4. Has(d) /\ ~Has(d)'
    BY <1>1, <1>2, <1>6 DEF Has, Shaped, Ends
  <2> QED
    BY <2>3, <2>4
<1>9. objects[d].fd \in Fds /\ table[objects[d].fd] = d /\ Ends(d)
  BY <1>1, <1>2, <1>8 DEF Shaped, Ends, Owner
<1>10. /\ table' \in [Fds -> Nat] /\ table'[objects[d].fd] = 0
       /\ \A f \in Fds : f # objects[d].fd => table'[f] = table[f]
  BY <1>1, <1>2, <1>9 DEF Released, Typed
<1>11. Shaped'
  <2> SUFFICES ASSUME NEW p \in DOMAIN objects PROVE (IF objects[p].kind = "Iterator" THEN Iterates(p) ELSE Ends(p))'
    BY <1>5 DEF Shaped
  <2>1. CASE objects[p].kind = "Iterator"
    <3>1. objects'[p].pointer = objects[p].pointer /\ objects'[p].of = objects[p].of
          /\ objects'[p].fd = objects[p].fd /\ objects'[p].kind = objects[p].kind
      BY <2>1, <1>2, <1>6
    <3>2. Iterates(p)
      BY <2>1, <1>1 DEF Shaped
    <3>3. objects'[objects[p].of].kind = "Dir"
      BY <3>2, <1>6 DEF Iterates
    <3> QED
      BY <3>1, <3>2, <3>3, <2>1, <1>5 DEF Iterates
  <2>2. CASE p = d
    BY <2>2, <1>2, <1>6, <1>8, <1>9 DEF Ends
  <2>3. CASE objects[p].kind # "Iterator" /\ p # d
    <3>1. Ends(p) /\ Has(p)' = Has(p) /\ Live(p)' = Live(p) /\ p # o
      BY <2>3, <1>1, <1>7 DEF Shaped
    <3>2. objects'[p].pointer = objects[p].pointer /\ objects'[p].of = objects[p].of
          /\ objects'[p].fd = objects[p].fd /\ objects'[p].kind = objects[p].kind
          /\ objects'[p].held = objects[p].held /\ objects'[p].closed = objects[p].closed
      BY <3>1, <2>3, <1>6
    <3> HIDE DEF Live, Has
    <3> QED
      BY <3>1, <3>2, <2>3 DEF Ends
  <2> QED
    BY <2>1, <2>2, <2>3
<1>12. Owner'
  <2> SUFFICES ASSUME NEW p \in DOMAIN objects, objects'[p].kind # "Iterator", Has(p)'
               PROVE  table'[objects'[p].fd] = p
    BY <1>5 DEF Owner
  <2>1. p # d /\ objects[p].kind # "Iterator" /\ Has(p) /\ objects'[p].fd = objects[p].fd
    BY <1>6, <1>7, <1>8
  <2>2. table[objects[p].fd] = p /\ objects[p].fd \in Fds
    BY <2>1, <1>1 DEF Owner, Shaped, Ends
  <2> QED
    BY <2>1, <2>2, <1>9, <1>10
<1>13. Owned'
  <2> SUFFICES ASSUME NEW f \in Fds, NEW p \in Nat \ {0}, table'[f] = p
               PROVE  p \in DOMAIN objects' /\ objects'[p].kind # "Iterator" /\ objects'[p].fd = f /\ Has(p)'
    BY DEF Owned
  <2>1. f # objects[d].fd /\ table[f] = p
    BY <1>10
  <2>2. p \in DOMAIN objects /\ objects[p].kind # "Iterator" /\ objects[p].fd = f /\ Has(p)
    BY <2>1, <1>1 DEF Owned
  <2> QED
    BY <2>1, <2>2, <1>5, <1>6, <1>7, <1>8
<1> QED
  BY <1>1, <1>5, <1>10, <1>11, <1>12, <1>13 DEF Owners, Typed

\* The last variable goes.
LEMMA DropStep == ASSUME Owners, NEW o \in DOMAIN objects, Drop(o) PROVE Owners'
<1>1. Typed /\ Shaped /\ objects[o].held /\ mode = "run" /\ objects[o] \in Objects
  BY DEF Owners, Drop, Usable, Running, Typed
<1>2. objects[o].kind \in {"File", "Dir", "Socket", "Iterator"}
  BY <1>1 DEF Objects, Kinds
<1>3. CASE objects[o].kind = "File"
  <2>1. FileClose(o, FALSE)
    BY <1>3 DEF Drop, DestroyFile
  <2> QED
    BY <2>1, <1>3, FileCloseStep
<1>4. CASE objects[o].kind = "Dir" /\ IsIterated(o)
  <2>1. Unheld(o)
    BY <1>4 DEF Drop
  <2> QED
    BY <2>1, <1>4, KeptStep
<1>5. CASE objects[o].kind = "Dir" /\ ~IsIterated(o)
  <2>1. DirClose(o, FALSE, objects[o].closed)
    BY <1>5 DEF Drop, DestroyDir
  <2>2. objects[o].closed \in BOOLEAN
    BY <1>1 DEF Objects
  <2> QED
    BY <2>1, <2>2, <1>5, DirCloseStep
<1>6. CASE objects[o].kind = "Socket"
  <2>1. Unheld(o)
    BY <1>6 DEF Drop, sock_sock_DESTROY, Unheld
  <2>2. objects[o].kind = "Socket" \/ (objects[o].kind = "Dir" /\ IsIterated(o))
    BY <1>6
  <2> QED
    BY <2>1, <2>2, KeptStep
<1>7. CASE objects[o].kind = "Iterator" /\ ~LastOfDir(o)
  <2>1. Unheld(o)
    BY <1>7 DEF Drop
  <2> QED
    BY <2>1, <1>7, IteratorGone
<1>8. CASE objects[o].kind = "Iterator" /\ LastOfDir(o)
  <2>1. CASE objects[objects[o].of].pointer = "freed"
    <3>1. mode' = "undefined" /\ UNCHANGED << table, objects >>
      BY <2>1, <1>8 DEF Drop
    <3> QED
      BY <3>1, OnlyMode
  <2>2. CASE objects[objects[o].of].pointer # "freed"
    <3>1. /\ table' = Released(objects[objects[o].of].fd) /\ mode' = mode
          /\ objects' = [objects EXCEPT ![objects[o].of].pointer = "freed", ![o].held = FALSE]
      BY <2>2, <1>8 DEF Drop
    <3> QED
      BY <3>1, <2>2, <1>8, DirectoryGone
  <2> QED
    BY <2>1, <2>2
<1> QED
  BY <1>2, <1>3, <1>4, <1>5, <1>6, <1>7, <1>8

-----------------------------------------------------------------------------
LEMMA OwnersNext == ASSUME Owners, ~ClosesTwice, [Next]_vars PROVE Owners'
<1>1. CASE UNCHANGED vars
  BY <1>1, OnlyMode DEF vars, Owners, Typed
<1>2. CASE File_open \/ Dir_new \/ sock_socket
  BY <1>2, OpenedStep DEF File_open, Dir_new, sock_socket, Kinds
<1>3. ASSUME NEW o \in DOMAIN objects, sock_sock_accept(o) PROVE Owners'
  BY <1>3, OpenedStep DEF sock_sock_accept, Kinds
<1>4. ASSUME NEW o \in DOMAIN objects, dir___iter__(o) PROVE Owners'
  BY <1>4, IterStep
<1>5. ASSUME NEW o \in DOMAIN objects, file_close(o) PROVE Owners'
  BY <1>5, FileCloseStep DEF file_close, Usable
<1>6. ASSUME NEW o \in DOMAIN objects, dir_close(o) PROVE Owners'
  BY <1>6, DirCloseStep DEF dir_close
<1>7. ASSUME NEW o \in DOMAIN objects, sock_sock_close(o) PROVE Owners'
  BY <1>7, SocketCloseStep
<1>8. ASSUME NEW o \in DOMAIN objects, Drop(o) PROVE Owners'
  BY <1>8, DropStep
<1>9. ASSUME NEW o \in DOMAIN objects, dir_read(o) \/ dir_Iterator___next__(o) PROVE Owners'
  BY <1>9, OnlyMode DEF dir_read, dir_Iterator___next__, Reads
<1> QED
  BY <1>1, <1>2, <1>3, <1>4, <1>5, <1>6, <1>7, <1>8, <1>9 DEF Next

\* What the owners keep is what they promise.
LEMMA OwnersServe == ASSUME Owners PROVE OwnDescriptor /\ NoneLost
<1>1. OwnDescriptor
  <2> SUFFICES ASSUME NEW o \in DOMAIN objects, Live(o), ~objects[o].closed, objects[o].kind # "Iterator"
               PROVE  table[objects[o].fd] = o
    BY DEF OwnDescriptor
  <2>1. Typed /\ Shaped /\ Owner
    BY DEF Owners
  <2>2. objects[o].kind \in {"File", "Dir", "Socket"}
    <3>1. objects[o] \in Objects
      BY <2>1 DEF Typed
    <3> QED
      BY <3>1 DEF Objects, Kinds
  <2>3. Has(o)
    BY <2>1, <2>2 DEF Shaped, Ends, Has
  <2> QED
    BY <2>1, <2>3 DEF Owner
<1>2. NoneLost
  <2> SUFFICES ASSUME NEW fd \in Fds, table[fd] # 0
               PROVE  \/ Live(table[fd]) /\ ~objects[table[fd]].closed
                      \/ objects[table[fd]].kind = "Socket" /\ ~objects[table[fd]].closed
    BY DEF NoneLost, Owners, Typed
  <2>1. Typed /\ Shaped /\ Owned
    BY DEF Owners
  <2>2. PICK o \in Nat \ {0} : o = table[fd]
    BY <2>1 DEF Typed
  <2>3. o \in DOMAIN objects /\ objects[o].kind # "Iterator" /\ Has(o)
    BY <2>1, <2>2 DEF Owned
  <2>4. objects[o].kind \in {"File", "Dir", "Socket"}
    <3>1. objects[o] \in Objects
      BY <2>1, <2>3 DEF Typed
    <3> QED
      BY <3>1, <2>3 DEF Objects, Kinds
  <2> QED
    BY <2>1, <2>2, <2>3, <2>4 DEF Shaped, Ends, Has, Live
<1> QED
  BY <1>1, <1>2

\* FileValue, Dir and Socket: as long as no socket is closed twice, an object that is used and was
\* not closed has the descriptor it opened, no other's, and none is lost but those of sockets.
THEOREM OwnersCorrect == ASSUME ~ClosesTwice PROVE Spec => [](OwnDescriptor /\ NoneLost)
BY OwnersInit, OwnersNext, OwnersServe, PTL DEF Spec

\* dir___iter__: a directory a loop goes over is open, whoever has dropped it, unless it was closed.
THEOREM IterationCorrect == ASSUME ~ClosesTwice PROVE Spec => []IterationIsSafe
<1>1. ASSUME Owners PROVE IterationIsSafe
  <2> SUFFICES ASSUME NEW i \in DOMAIN objects, objects[i].kind = "Iterator", objects[i].held
               PROVE  objects[objects[i].fd].pointer = "open" \/ objects[objects[i].fd].closed
    BY DEF IterationIsSafe
  <2>1. Typed /\ Shaped
    BY <1>1 DEF Owners
  <2>2. PICK d \in DOMAIN objects : d = objects[i].fd /\ d = objects[i].of /\ objects[d].kind = "Dir"
    BY <2>1 DEF Shaped, Iterates
  <2>3. Live(d) /\ Ends(d)
    BY <2>1, <2>2 DEF Live, Shaped
  <2> QED
    BY <2>2, <2>3 DEF Ends, Has
<1> QED
  BY OwnersInit, OwnersNext, <1>1, PTL DEF Spec

-----------------------------------------------------------------------------
(* Files.  A stream holds back some of what the writes mean; when it gives  *)
(* it away, by whatever way, the file is what they mean.                   *)

FileStreams == [fp : {"absent", "open", "null"}, mode : {"rb", "w", "a", "r+"}, pos : Nat, out : Seq(Nat), eof : BOOLEAN]

FileTyped ==
  /\ disk \in Seq(Nat) /\ meant \in Seq(Nat)
  /\ files \in [{1, 2} -> FileStreams]
  /\ file_mode \in {"run", "undefined"}

\* A stream by which the file is being written.
Writer(f) == files[f].fp = "open" /\ files[f].mode # "rb"

\* What the writes mean is in the file once the stream gives away what it holds back.
HeldBack ==
  /\ \A f \in {1, 2} : IF Writer(f) THEN meant = Fi!Flushed(f) ELSE files[f].out = << >>
  /\ \A f, g \in {1, 2} : Writer(f) /\ Writer(g) => f = g
  /\ (\A f \in {1, 2} : ~Writer(f)) => disk = meant

FilesKeep == FileTyped /\ HeldBack /\ Fi!ClosedOnce

-----------------------------------------------------------------------------
(* The bytes of a text over those of a file. *)

\* The byte at place k.
ByteAt(c, p, t, k) == IF k > p /\ k <= p + Len(t) THEN t[k - p] ELSE IF k <= Len(c) THEN c[k] ELSE 0

LEMMA SameBytes ==
  ASSUME NEW s \in Seq(Nat), NEW t \in Seq(Nat), Len(s) = Len(t), \A k \in 1..Len(t) : s[k] = t[k]
  PROVE  s = t
OBVIOUS

LEMMA OverlayIs ==
  ASSUME NEW c \in Seq(Nat), NEW p \in Nat, NEW t \in Seq(Nat)
  PROVE  /\ Fi!Overlay(c, p, t) \in Seq(Nat)
         /\ t = << >> => Fi!Overlay(c, p, t) = c
         /\ t # << >> => Len(Fi!Overlay(c, p, t)) = (IF p + Len(t) > Len(c) THEN p + Len(t) ELSE Len(c))
         /\ \A k \in 1..Len(Fi!Overlay(c, p, t)) : Fi!Overlay(c, p, t)[k] = ByteAt(c, p, t, k)
<1> DEFINE n == IF t = << >> THEN Len(c) ELSE IF p + Len(t) > Len(c) THEN p + Len(t) ELSE Len(c)
           o == Fi!Overlay(c, p, t)
<1>1. n \in Nat
  OBVIOUS
<1>2. o = [k \in 1..n |-> ByteAt(c, p, t, k)]
  BY DEF Fi!Overlay, ByteAt
<1>3. \A k \in 1..n : ByteAt(c, p, t, k) \in Nat
  <2> TAKE k \in 1..n
  <2>1. k \in Nat \ {0}
    BY <1>1
  <2>2. CASE k > p /\ k <= p + Len(t)
    <3>1. k - p \in 1..Len(t) /\ t[k - p] \in Nat
      BY <2>1, <2>2
    <3> QED
      BY <2>2, <3>1 DEF ByteAt
  <2>3. CASE ~(k > p /\ k <= p + Len(t))
    <3>1. k <= Len(c) => c[k] \in Nat
      BY <2>1
    <3> QED
      BY <2>3, <3>1 DEF ByteAt
  <2> QED
    BY <2>2, <2>3
<1>4. o \in Seq(Nat) /\ Len(o) = n /\ \A k \in 1..n : o[k] = ByteAt(c, p, t, k)
  <2> HIDE DEF n, o
  <2> QED
    BY <1>1, <1>2, <1>3
<1>5. ASSUME t = << >>
      PROVE  o = c
  <2>1. n = Len(c) /\ \A k \in 1..n : ByteAt(c, p, t, k) = c[k]
    BY <1>5 DEF ByteAt
  <2>2. o \in Seq(Nat) /\ Len(o) = Len(c) /\ \A k \in 1..Len(c) : o[k] = c[k]
    BY <1>4, <2>1
  <2> HIDE DEF o
  <2> QED
    BY <2>2, SameBytes
<1> QED
  BY <1>4, <1>5

LEMMA OverlaySeq == \A c, t \in Seq(Nat), p \in Nat : Fi!Overlay(c, p, t) \in Seq(Nat)
BY OverlayIs

LEMMA OverlayNone == \A c \in Seq(Nat), p \in Nat : Fi!Overlay(c, p, << >>) = c
<1> TAKE c \in Seq(Nat), p \in Nat
<1>1. << >> \in Seq(Nat)
  OBVIOUS
<1> QED
  BY <1>1, OverlayIs

\* Two texts, one after the other.
LEMMA OverlayTwice ==
  ASSUME NEW c \in Seq(Nat), NEW p \in Nat, NEW o \in Seq(Nat), NEW t \in Seq(Nat)
  PROVE  Fi!Overlay(Fi!Overlay(c, p, o), p + Len(o), t) = Fi!Overlay(c, p, o \o t)
<1>1. o \o t \in Seq(Nat) /\ Len(o \o t) = Len(o) + Len(t) /\ p + Len(o) \in Nat
  OBVIOUS
<1>2. CASE o = << >>
  <2>1. p + Len(o) = p /\ o \o t = t
    BY <1>2
  <2> QED
    BY <1>2, <2>1, OverlayNone
<1>3. CASE t = << >>
  <2>1. o \o t = o
    BY <1>3
  <2>2. Fi!Overlay(c, p, o) \in Seq(Nat)
    BY OverlaySeq
  <2> QED
    BY <1>1, <1>3, <2>1, <2>2, OverlayNone
<1>4. CASE o # << >> /\ t # << >>
  <2>1. PICK a : a = Fi!Overlay(c, p, o)
    OBVIOUS
  <2>2. PICK q \in Nat : q = p + Len(o)
    OBVIOUS
  <2>3. PICK u \in Seq(Nat) : u = o \o t
    BY <1>1
  <2>4. PICK b : b = Fi!Overlay(a, q, t)
    OBVIOUS
  <2>5. PICK d : d = Fi!Overlay(c, p, u)
    OBVIOUS
  <2>6. Len(o) > 0 /\ Len(t) > 0 /\ u # << >> /\ Len(u) = Len(o) + Len(t)
    BY <1>4, <2>3
  <2>7. a \in Seq(Nat)
    BY <2>1, OverlayIs
  <2>8. Len(a) = (IF q > Len(c) THEN q ELSE Len(c))
    BY <1>4, <2>1, <2>2, OverlayIs
  <2>9. \A k \in 1..Len(a) : a[k] = ByteAt(c, p, o, k)
    BY <2>1, OverlayIs
  <2>10. b \in Seq(Nat)
    BY <2>4, <2>7, OverlayIs
  <2>11. Len(b) = (IF q + Len(t) > Len(a) THEN q + Len(t) ELSE Len(a))
    BY <1>4, <2>4, <2>7, OverlayIs
  <2>12. \A k \in 1..Len(b) : b[k] = ByteAt(a, q, t, k)
    BY <2>4, <2>7, OverlayIs
  <2>13. d \in Seq(Nat)
    BY <2>5, OverlayIs
  <2>14. Len(d) = (IF p + Len(u) > Len(c) THEN p + Len(u) ELSE Len(c))
    BY <2>5, <2>6, OverlayIs
  <2>15. \A k \in 1..Len(d) : d[k] = ByteAt(c, p, u, k)
    BY <2>5, OverlayIs
  <2>16. Len(b) = Len(d) /\ Len(a) <= Len(b)
    <3>1. Len(a) \in Nat /\ Len(c) \in Nat /\ Len(t) \in Nat /\ Len(o) \in Nat /\ Len(u) \in Nat
      BY <2>7
    <3>2. p + Len(u) = q + Len(t)
      BY <2>2, <2>6, <3>1
    <3>3. Len(d) = (IF q + Len(t) > Len(c) THEN q + Len(t) ELSE Len(c))
      BY <2>14, <3>2
    <3>4. CASE q > Len(c)
      BY <2>6, <2>8, <2>11, <3>1, <3>3, <3>4
    <3>5. CASE ~(q > Len(c))
      BY <2>6, <2>8, <2>11, <3>1, <3>3, <3>5
    <3> QED
      BY <3>4, <3>5
  <2>17. \A k \in 1..Len(d) : b[k] = d[k]
    <3> TAKE k \in 1..Len(d)
    <3>1. b[k] = ByteAt(a, q, t, k) /\ d[k] = ByteAt(c, p, u, k)
      BY <2>12, <2>15, <2>16
    <3>2. k <= Len(a) => a[k] = ByteAt(c, p, o, k)
      BY <2>7, <2>9, <2>13
    <3>3. k \in Nat \ {0} /\ Len(a) \in Nat /\ Len(c) \in Nat /\ Len(t) \in Nat /\ Len(o) \in Nat
      BY <2>7, <2>13
    <3>4. CASE k > p /\ k <= q
      <4>1. k - p \in 1..Len(o) /\ k <= Len(a) /\ ~(k > q) /\ k <= p + Len(u)
        BY SMTT(40), <2>2, <2>6, <2>8, <3>3, <3>4
      <4>2. u[k - p] = o[k - p]
        BY <2>3, <4>1
      <4>3. ByteAt(c, p, u, k) = u[k - p] /\ ByteAt(c, p, o, k) = o[k - p] /\ ByteAt(a, q, t, k) = a[k]
        BY <2>2, <3>4, <4>1 DEF ByteAt
      <4> QED
        BY <3>1, <3>2, <4>1, <4>2, <4>3
    <3>5. CASE k > q /\ k <= q + Len(t)
      <4>1. k - q \in 1..Len(t) /\ k > p /\ k <= p + Len(u) /\ k - p = Len(o) + (k - q)
        BY <2>2, <2>6, <3>3, <3>5
      <4>2. u[Len(o) + (k - q)] = t[k - q]
        BY <2>3, <4>1
      <4>3. ByteAt(c, p, u, k) = u[k - p] /\ ByteAt(a, q, t, k) = t[k - q]
        BY <3>5, <4>1 DEF ByteAt
      <4> QED
        BY <3>1, <4>1, <4>2, <4>3
    <3>6. CASE ~(k > p /\ k <= q) /\ ~(k > q /\ k <= q + Len(t))
      <4>1. ~(k > p /\ k <= p + Len(u)) /\ ~(k > p /\ k <= p + Len(o))
        BY <2>2, <2>6, <3>3, <3>6
      <4>2. ByteAt(c, p, u, k) = (IF k <= Len(c) THEN c[k] ELSE 0) /\ ByteAt(c, p, o, k) = (IF k <= Len(c) THEN c[k] ELSE 0)
        BY <4>1 DEF ByteAt
      <4>3. ByteAt(a, q, t, k) = (IF k <= Len(a) THEN a[k] ELSE 0)
        BY <3>6 DEF ByteAt
      <4>4. k <= Len(c) => k <= Len(a)
        BY <2>2, <2>8, <3>3
      <4> QED
        BY <3>1, <3>2, <4>2, <4>3, <4>4
    <3> QED
      BY <3>4, <3>5, <3>6
  <2>18. b = d
    BY <2>10, <2>13, <2>16, <2>17
  <2> QED
    BY <2>1, <2>2, <2>3, <2>4, <2>5, <2>18
<1> QED
  BY <1>2, <1>3, <1>4

-----------------------------------------------------------------------------
(* What one step does to the streams. *)

LEMMA StreamChanges ==
  ASSUME FileTyped, NEW f \in {1, 2}, NEW s \in FileStreams, files' = [files EXCEPT ![f] = s]
  PROVE  /\ files' \in [{1, 2} -> FileStreams] /\ files'[f] = s
         /\ \A g \in {1, 2} \ {f} : files'[g] = files[g]
BY DEF FileTyped

\* What the kernel gets from a stream is a file again.
LEMMA FlushedTyped ==
  ASSUME FileTyped, NEW f \in {1, 2}
  PROVE  /\ Fi!Flushed(f) \in Seq(Nat) /\ Fi!WritesAt(f, disk) \in Nat /\ Fi!AfterFlush(f) \in FileStreams
         /\ Fi!AfterFlush(f).fp = files[f].fp /\ Fi!AfterFlush(f).mode = files[f].mode
         /\ Fi!AfterFlush(f).out = << >> /\ Fi!AfterFlush(f).eof = files[f].eof
<1>1. files[f] \in FileStreams /\ disk \in Seq(Nat)
  BY DEF FileTyped
<1>2. files[f].out \in Seq(Nat) /\ files[f].pos \in Nat
  BY <1>1 DEF FileStreams
<1>3. Fi!WritesAt(f, disk) \in Nat
  BY <1>1, <1>2 DEF Fi!WritesAt
<1>4. Fi!Flushed(f) \in Seq(Nat)
  BY <1>1, <1>2, <1>3, OverlaySeq DEF Fi!Flushed
<1>5. PICK n \in Nat : n = (IF files[f].out = << >> THEN files[f].pos ELSE Fi!WritesAt(f, disk) + Len(files[f].out))
  BY <1>2, <1>3
<1>6. Fi!AfterFlush(f) = [[files[f] EXCEPT !.out = << >>] EXCEPT !.pos = n]
  BY <1>1, <1>5 DEF Fi!AfterFlush, FileStreams
<1>7. PICK s \in FileStreams : s = files[f]
  BY <1>1
<1>8. Fi!AfterFlush(f) = [[s EXCEPT !.out = << >>] EXCEPT !.pos = n]
  BY <1>6, <1>7
<1>9. /\ Fi!AfterFlush(f) \in FileStreams
      /\ Fi!AfterFlush(f).fp = s.fp /\ Fi!AfterFlush(f).mode = s.mode
      /\ Fi!AfterFlush(f).out = << >> /\ Fi!AfterFlush(f).eof = s.eof
  <2>1. << >> \in Seq(Nat)
    OBVIOUS
  <2> QED
    BY <1>8, <2>1 DEF FileStreams
<1> QED
  BY <1>3, <1>4, <1>7, <1>9

\* A stream that holds nothing back leaves the file as it is.
LEMMA NothingHeld ==
  ASSUME FileTyped, NEW f \in {1, 2}, files[f].out = << >>
  PROVE  Fi!Flushed(f) = disk
<1>1. Fi!WritesAt(f, disk) \in Nat /\ disk \in Seq(Nat)
  BY FlushedTyped DEF FileTyped
<1> QED
  BY <1>1, OverlayNone DEF Fi!Flushed

\* A step of a stream that does not write the file.
LEMMA OnlyReads ==
  ASSUME FilesKeep, NEW f \in {1, 2}, NEW s \in FileStreams, files' = [files EXCEPT ![f] = s],
         ~Writer(f), s.fp # "open" \/ s.mode = "rb", s.out = << >>, UNCHANGED << disk, meant, file_mode >>
  PROVE  FilesKeep'
<1>1. FileTyped /\ HeldBack
  BY DEF FilesKeep
<1>2. files' \in [{1, 2} -> FileStreams] /\ files'[f] = s /\ \A g \in {1, 2} \ {f} : files'[g] = files[g]
  BY <1>1, StreamChanges
<1>3. FileTyped' /\ Fi!ClosedOnce'
  BY <1>1, <1>2 DEF FileTyped, FilesKeep, Fi!ClosedOnce
<1>4. \A g \in {1, 2} : Writer(g)' <=> Writer(g)
  BY <1>2 DEF Writer
<1>5. \A g \in {1, 2} : Writer(g) => Fi!Flushed(g)' = Fi!Flushed(g)
  BY <1>2 DEF Fi!Flushed, Fi!WritesAt, Fi!Overlay
<1>6. HeldBack'
  <2>1. \A g \in {1, 2} : IF Writer(g)' THEN meant' = Fi!Flushed(g)' ELSE files'[g].out = << >>
    BY <1>1, <1>2, <1>4, <1>5 DEF HeldBack
  <2>2. \A g, h \in {1, 2} : Writer(g)' /\ Writer(h)' => g = h
    BY <1>1, <1>4 DEF HeldBack
  <2>3. (\A g \in {1, 2} : ~Writer(g)') => disk' = meant'
    BY <1>1, <1>4 DEF HeldBack
  <2> QED
    BY <2>1, <2>2, <2>3 DEF HeldBack
<1> QED
  BY <1>3, <1>6 DEF FilesKeep

\* After a step the stream f writes the file, alone.
LEMMA WritesOn ==
  ASSUME FilesKeep, NEW f \in {1, 2}, NEW s \in FileStreams, files' = [files EXCEPT ![f] = s],
         \A g \in {1, 2} \ {f} : ~Writer(g), s.fp = "open", s.mode # "rb",
         disk' \in Seq(Nat), meant' \in Seq(Nat), UNCHANGED file_mode,
         meant' = Fi!Overlay(disk', IF s.mode = "a" THEN Len(disk') ELSE s.pos, s.out)
  PROVE  FilesKeep'
<1>1. FileTyped /\ HeldBack
  BY DEF FilesKeep
<1>2. files' \in [{1, 2} -> FileStreams] /\ files'[f] = s /\ \A g \in {1, 2} \ {f} : files'[g] = files[g]
  BY <1>1, StreamChanges
<1>3. FileTyped' /\ Fi!ClosedOnce'
  BY <1>1, <1>2 DEF FileTyped, FilesKeep, Fi!ClosedOnce
<1>4. Writer(f)' /\ \A g \in {1, 2} \ {f} : ~Writer(g)'
  BY <1>2 DEF Writer
<1>5. meant' = Fi!Flushed(f)'
  BY <1>2 DEF Fi!Flushed, Fi!WritesAt, Fi!Overlay
<1>6. \A g \in {1, 2} \ {f} : files'[g].out = << >>
  BY <1>1, <1>2 DEF HeldBack
<1>7. HeldBack'
  BY <1>4, <1>5, <1>6 DEF HeldBack
<1> QED
  BY <1>3, <1>7 DEF FilesKeep

\* After a step of the stream that wrote the file nobody does.
LEMMA WritesNoMore ==
  ASSUME FilesKeep, NEW f \in {1, 2}, NEW s \in FileStreams, files' = [files EXCEPT ![f] = s],
         \A g \in {1, 2} \ {f} : ~Writer(g), s.fp # "open", s.out = << >>,
         disk' \in Seq(Nat), meant' = disk', UNCHANGED file_mode
  PROVE  FilesKeep'
<1>1. FileTyped /\ HeldBack
  BY DEF FilesKeep
<1>2. files' \in [{1, 2} -> FileStreams] /\ files'[f] = s /\ \A g \in {1, 2} \ {f} : files'[g] = files[g]
  BY <1>1, StreamChanges
<1>3. FileTyped' /\ Fi!ClosedOnce'
  BY <1>1, <1>2 DEF FileTyped, FilesKeep, Fi!ClosedOnce
<1>4. \A g \in {1, 2} : ~Writer(g)'
  BY <1>2 DEF Writer
<1>5. \A g \in {1, 2} : files'[g].out = << >>
  BY <1>1, <1>2 DEF HeldBack
<1>6. HeldBack'
  BY <1>4, <1>5 DEF HeldBack
<1> QED
  BY <1>3, <1>6 DEF FilesKeep

\* The only writer.
LEMMA Alone == ASSUME FilesKeep, NEW f \in {1, 2}, Writer(f) PROVE \A g \in {1, 2} \ {f} : ~Writer(g)
BY DEF FilesKeep, HeldBack

LEMMA FilesSame ==
  ASSUME FilesKeep, UNCHANGED << disk, meant, files >>, file_mode' = file_mode \/ (UsesClosed /\ file_mode' = "undefined")
  PROVE  FilesKeep'
<1>1. FileTyped' /\ Fi!ClosedOnce'
  BY DEF FilesKeep, FileTyped, Fi!ClosedOnce
<1>2. HeldBack'
  BY DEF FilesKeep, HeldBack, Writer, Fi!Flushed, Fi!WritesAt, Fi!Overlay
<1> QED
  BY <1>1, <1>2 DEF FilesKeep

-----------------------------------------------------------------------------
(* The operations. *)

LEMMA StreamTyped == \A m \in {"rb", "w", "a", "r+"} : Fi!Stream(m, 0) \in FileStreams
<1>1. << >> \in Seq(Nat)
  OBVIOUS
<1> QED
  BY <1>1 DEF Fi!Stream, FileStreams

LEMMA NoStreamTyped == Fi!NoStream \in FileStreams /\ Fi!NoStream.fp = "absent" /\ Fi!NoStream.out = << >>
<1>1. PICK s \in FileStreams : s = Fi!Stream("rb", 0)
  BY StreamTyped
<1>2. s.out = << >>
  BY <1>1 DEF Fi!Stream
<1>3. Fi!NoStream = [s EXCEPT !.fp = "absent"]
  BY <1>1 DEF Fi!NoStream
<1> QED
  BY <1>2, <1>3 DEF FileStreams

LEMMA FilesInit == ASSUME Fi!Init PROVE FilesKeep
<1>1. disk \in Seq(Nat) /\ meant \in Seq(Nat) /\ disk = meant
  <2>1. disk \in {<< >>, << 0, 200 >>} /\ meant = disk
    BY DEF Fi!Init
  <2>2. << >> \in Seq(Nat) /\ << 0, 200 >> \in Seq(Nat)
    OBVIOUS
  <2> QED
    BY <2>1, <2>2
<1>2. Fi!NoStream \in FileStreams /\ Fi!NoStream.fp = "absent" /\ Fi!NoStream.out = << >>
  BY NoStreamTyped
<1>3. files \in [{1, 2} -> FileStreams] /\ \A f \in {1, 2} : files[f] = Fi!NoStream
  BY <1>2 DEF Fi!Init, Fi!Objects
<1>4. FileTyped /\ Fi!ClosedOnce
  BY <1>1, <1>3 DEF Fi!Init, FileTyped, Fi!ClosedOnce
<1>5. HeldBack
  BY <1>1, <1>2, <1>3 DEF HeldBack, Writer
<1> QED
  BY <1>4, <1>5 DEF FilesKeep

LEMMA FileOpenStep ==
  ASSUME Fi!FilesAssumption, FilesKeep, NEW f \in {1, 2}, NEW m \in FileModes, Fi!File_open(f, m)
  PROVE  FilesKeep'
<1>1. m \in {"rb", "w", "a", "r+"}
  BY DEF Fi!FilesAssumption
<1>2. disk \in Seq(Nat) /\ meant \in Seq(Nat) /\ files[f].fp = "absent" /\ ~Writer(f)
  BY DEF FilesKeep, FileTyped, Fi!File_open, Writer
<1>3. PICK s \in FileStreams : s = Fi!Stream(m, 0)
  BY <1>1, StreamTyped
<1>4. s.fp = "open" /\ s.mode = m /\ s.out = << >> /\ s.pos = 0
  BY <1>3 DEF Fi!Stream
<1>5. files' = [files EXCEPT ![f] = s] /\ UNCHANGED file_mode
  BY <1>3 DEF Fi!File_open
<1>6. CASE m = "rb"
  <2>1. UNCHANGED << disk, meant >>
    BY <1>6 DEF Fi!File_open
  <2> QED
    BY <1>2, <1>4, <1>5, <1>6, <2>1, OnlyReads
<1>7. CASE m # "rb"
  <2>1. \A g \in {1, 2} : ~Writer(g)
    BY <1>7 DEF Fi!File_open, Fi!Objects, Fi!Writable, Writer
  <2>2. disk = meant
    BY <2>1 DEF FilesKeep, HeldBack
  <2>3. disk' = (IF m = "w" THEN << >> ELSE disk) /\ meant' = (IF m = "w" THEN << >> ELSE meant)
    BY DEF Fi!File_open
  <2>4. disk' \in Seq(Nat) /\ meant' = disk'
    BY <1>2, <2>2, <2>3
  <2>5. meant' = Fi!Overlay(disk', IF s.mode = "a" THEN Len(disk') ELSE s.pos, s.out)
    <3>1. (IF s.mode = "a" THEN Len(disk') ELSE s.pos) \in Nat
      BY <1>4, <2>4
    <3> QED
      BY <1>4, <2>4, <3>1, OverlayNone
  <2> QED
    BY <1>4, <1>5, <1>7, <2>1, <2>4, <2>5, WritesOn
<1> QED
  BY <1>6, <1>7

\* What the stream held back is written and s is what becomes of it: closed, dropped, or a stream
\* that holds nothing back.
LEMMA Empties ==
  ASSUME FilesKeep, NEW f \in {1, 2}, files[f].fp = "open", NEW s \in FileStreams, files' = [files EXCEPT ![f] = s],
         s.out = << >>, s.fp = "open" => s.mode = files[f].mode,
         disk' = Fi!Flushed(f), UNCHANGED << meant, file_mode >>
  PROVE  FilesKeep'
<1>1. FileTyped /\ HeldBack
  BY DEF FilesKeep
<1>2. disk' \in Seq(Nat)
  BY <1>1, FlushedTyped
<1>3. CASE Writer(f)
  <2>1. meant' = disk' /\ \A g \in {1, 2} \ {f} : ~Writer(g)
    BY <1>1, <1>3, Alone DEF HeldBack
  <2>2. CASE s.fp = "open"
    <3>1. (IF s.mode = "a" THEN Len(disk') ELSE s.pos) \in Nat
      BY <1>2 DEF FileStreams
    <3>2. meant' = Fi!Overlay(disk', IF s.mode = "a" THEN Len(disk') ELSE s.pos, s.out)
      BY <1>2, <2>1, <3>1, OverlayNone
    <3> QED
      BY <1>2, <1>3, <2>1, <2>2, <3>2, WritesOn DEF Writer
  <2>3. CASE s.fp # "open"
    BY <1>2, <2>1, <2>3, WritesNoMore
  <2> QED
    BY <2>2, <2>3
<1>4. CASE ~Writer(f)
  <2>1. disk' = disk
    BY <1>1, <1>4, NothingHeld DEF HeldBack
  <2>2. s.fp # "open" \/ s.mode = "rb"
    BY <1>4 DEF Writer
  <2> QED
    BY <1>4, <2>1, <2>2, OnlyReads
<1> QED
  BY <1>3, <1>4

LEMMA FileCloses == ASSUME FilesKeep, NEW f \in {1, 2}, Fi!file_close(f) PROVE FilesKeep'
<1>1. FileTyped /\ files[f] \in FileStreams /\ meant' = meant /\ Fi!Close(f) /\ files[f].fp # "absent"
  BY DEF FilesKeep, FileTyped, Fi!file_close
<1>2. CASE files[f].fp = "open"
  <2>1. disk' = Fi!Flushed(f) /\ files' = [files EXCEPT ![f] = Fi!Closed(f)] /\ UNCHANGED file_mode
    BY <1>1, <1>2 DEF Fi!Close
  <2>2. PICK a \in FileStreams : a = Fi!AfterFlush(f) /\ a.out = << >>
    BY <1>1, FlushedTyped
  <2>3. Fi!Closed(f) = [a EXCEPT !.fp = "null"]
    BY <2>2 DEF Fi!Closed
  <2>4. Fi!Closed(f) \in FileStreams /\ Fi!Closed(f).fp = "null" /\ Fi!Closed(f).out = << >>
    BY <2>2, <2>3 DEF FileStreams
  <2> QED
    BY <1>1, <1>2, <2>1, <2>4, Empties
<1>3. CASE files[f].fp = "null"
  <2>1. UNCHANGED << disk, files, file_mode >>
    BY <1>1, <1>3 DEF Fi!Close
  <2> QED
    BY <1>1, <2>1, FilesSame
<1> QED
  BY <1>1, <1>2, <1>3 DEF FileStreams

LEMMA FileDropped == ASSUME FilesKeep, NEW f \in {1, 2}, Fi!Drop(f) PROVE FilesKeep'
<1>1. FileTyped /\ files[f] \in FileStreams /\ meant' = meant /\ Fi!Destroyed(f)
  BY DEF FilesKeep, FileTyped, Fi!Drop
<1>2. files[f].fp # "freed"
  BY <1>1 DEF FileStreams
<1>3. /\ disk' = (IF files[f].fp = "open" THEN Fi!Flushed(f) ELSE disk)
      /\ files' = [files EXCEPT ![f] = Fi!NoStream] /\ UNCHANGED file_mode
  BY <1>1, <1>2 DEF Fi!Destroyed
<1>4. Fi!NoStream \in FileStreams /\ Fi!NoStream.fp = "absent" /\ Fi!NoStream.out = << >>
  BY NoStreamTyped
<1>5. CASE files[f].fp = "open"
  BY <1>1, <1>3, <1>4, <1>5, Empties
<1>6. CASE files[f].fp # "open"
  <2>1. disk' = disk /\ ~Writer(f)
    BY <1>3, <1>6 DEF Writer
  <2> QED
    BY <1>1, <1>3, <1>4, <2>1, OnlyReads
<1> QED
  BY <1>5, <1>6

\* A stream that is closed is given to stdio only by programs that use it then.
LEMMA NotOpen ==
  ASSUME FilesKeep, UsesClosed, file_mode' = "undefined", UNCHANGED << disk, platter, meant, files, last >>
  PROVE  FilesKeep'
BY FilesSame

LEMMA LargerBase == ASSUME NEW S, S \subseteq Nat, NEW n \in Seq(S) PROVE n \in Seq(Nat)
<1>1. Len(n) \in Nat /\ \A k \in 1..Len(n) : n[k] \in Nat
  <2>1. \A k \in 1..Len(n) : n[k] \in S
    OBVIOUS
  <2>2. \A e \in S : e \in Nat
    OBVIOUS
  <2>3. Len(n) \in Nat
    OBVIOUS
  <2> QED
    BY <2>1, <2>2, <2>3
<1>2. n = [k \in 1..Len(n) |-> n[k]]
  OBVIOUS
<1>3. PICK m \in Nat : m = Len(n)
  BY <1>1
<1>4. PICK q : q = [k \in 1..m |-> n[k]]
  OBVIOUS
<1>5. q \in Seq(Nat)
  BY <1>1, <1>3, <1>4
<1> QED
  BY <1>2, <1>3, <1>4, <1>5

LEMMA TextTyped == ASSUME Fi!FilesAssumption, NEW t \in FileTexts PROVE t \in Seq(Nat)
<1>1. PICK B : B = 0..255
  OBVIOUS
<1>2. t \in Seq(B)
  BY <1>1 DEF Fi!FilesAssumption
<1>3. B \subseteq Nat
  BY <1>1
<1> QED
  BY <1>2, <1>3, LargerBase

LEMMA FileWrites == ASSUME FilesKeep, NEW f \in {1, 2}, NEW t \in Seq(Nat), Fi!file_write(f, t) PROVE FilesKeep'
<1>1. FileTyped /\ HeldBack /\ files[f] \in FileStreams
  BY DEF FilesKeep, FileTyped
<1>2. CASE files[f].fp # "open"
  BY <1>2, NotOpen DEF Fi!file_write, Fi!FP
<1>3. CASE files[f].fp = "open" /\ files[f].mode = "rb"
  <2>1. UNCHANGED << disk, meant, files, file_mode >>
    BY <1>3 DEF Fi!file_write, Fi!FP, Fi!Write, Fi!Writable
  <2> QED
    BY <2>1, FilesSame
<1>4. CASE Writer(f)
  <2>1. Fi!Write(f, t) /\ UNCHANGED file_mode /\ files[f].fp = "open" /\ files[f].mode # "rb"
    BY <1>4 DEF Fi!file_write, Fi!FP, Writer
  <2>2. PICK out \in Seq(Nat), o \in Seq(Nat) : o = files[f].out /\ out = o \o t
    <3>1. files[f].out \in Seq(Nat)
      BY <1>1 DEF FileStreams
    <3>2. PICK o \in Seq(Nat) : o = files[f].out
      BY <3>1
    <3>3. o \o t \in Seq(Nat)
      OBVIOUS
    <3> QED
      BY <3>2, <3>3
  <2>3. PICK p \in Nat : p = Fi!WritesAt(f, disk)
    BY <1>1, FlushedTyped
  <2>4. meant = Fi!Overlay(disk, p, o) /\ disk \in Seq(Nat) /\ meant \in Seq(Nat)
    BY <1>1, <1>4, <2>2, <2>3 DEF HeldBack, Fi!Flushed, FileTyped
  <2>5. Fi!WritesAt(f, meant) + (IF files[f].mode = "a" THEN 0 ELSE Len(files[f].out)) = p + Len(o)
    <3>1. CASE files[f].mode = "a"
      <4>1. p = Len(disk) /\ Fi!WritesAt(f, meant) = Len(meant)
        BY <2>3, <3>1 DEF Fi!WritesAt
      <4>2. Len(meant) = p + Len(o)
        <5>1. CASE o = << >>
          BY <2>4, <4>1, <5>1, OverlayNone
        <5>2. CASE o # << >>
          <6>1. Len(meant) = (IF p + Len(o) > Len(disk) THEN p + Len(o) ELSE Len(disk)) /\ Len(o) > 0
            BY <2>4, <5>2, OverlayIs
          <6> QED
            BY <2>4, <4>1, <6>1
        <5> QED
          BY <5>1, <5>2
      <4> QED
        BY <3>1, <4>1, <4>2
    <3>2. CASE files[f].mode # "a"
      <4>1. p = files[f].pos /\ Fi!WritesAt(f, meant) = files[f].pos
        BY <2>3, <3>2 DEF Fi!WritesAt
      <4> QED
        BY <2>2, <3>2, <4>1
    <3> QED
      BY <3>1, <3>2
  <2>6. meant' = Fi!Overlay(meant, p + Len(o), t)
    BY <2>1, <2>5 DEF Fi!Write, Fi!Writable
  <2>7. meant' = Fi!Overlay(disk, p, out)
    <3>1. Fi!Overlay(Fi!Overlay(disk, p, o), p + Len(o), t) = Fi!Overlay(disk, p, o \o t)
      BY <2>4, OverlayTwice
    <3> QED
      BY <2>2, <2>4, <2>6, <3>1
  <2>8. meant' \in Seq(Nat)
    BY <2>4, <2>7, OverlaySeq
  <2>9. \A g \in {1, 2} \ {f} : ~Writer(g)
    BY <1>4, Alone
  <2>10. CASE Len(out) <= StreamBuffer
    <3>1. files' = [files EXCEPT ![f].out = out] /\ UNCHANGED disk
      BY <2>1, <2>2, <2>10 DEF Fi!Write, Fi!Writable
    <3>2. PICK s \in FileStreams : s = [files[f] EXCEPT !.out = out]
      BY <1>1 DEF FileStreams
    <3>3. files' = [files EXCEPT ![f] = s]
      BY <3>1, <3>2
    <3>4. s.fp = "open" /\ s.mode = files[f].mode /\ s.pos = files[f].pos /\ s.out = out
      BY <1>1, <2>1, <3>2 DEF FileStreams
    <3>5. meant' = Fi!Overlay(disk', IF s.mode = "a" THEN Len(disk') ELSE s.pos, s.out)
      BY <2>3, <2>7, <3>1, <3>4 DEF Fi!WritesAt
    <3> QED
      BY <2>1, <2>4, <2>8, <2>9, <3>1, <3>3, <3>4, <3>5, WritesOn
  <2>11. CASE ~(Len(out) <= StreamBuffer)
    <3>1. /\ disk' = Fi!Overlay(disk, p, out)
          /\ files' = [files EXCEPT ![f].out = << >>, ![f].pos = p + Len(out)]
      BY <2>1, <2>2, <2>3, <2>11 DEF Fi!Write, Fi!Writable
    <3>2. PICK s \in FileStreams : s = [[files[f] EXCEPT !.out = << >>] EXCEPT !.pos = p + Len(out)]
      <4>1. << >> \in Seq(Nat) /\ p + Len(out) \in Nat
        OBVIOUS
      <4>2. [files[f] EXCEPT !.out = << >>] \in FileStreams
        BY <1>1, <4>1 DEF FileStreams
      <4> QED
        BY <4>1, <4>2 DEF FileStreams
    <3>3. files' = [files EXCEPT ![f] = s]
      <4>1. f \in DOMAIN files
        BY <1>1 DEF FileTyped
      <4> QED
        BY <3>1, <3>2, <4>1
    <3>4. s.fp = "open" /\ s.mode = files[f].mode /\ s.out = << >>
      BY <1>1, <2>1, <3>2 DEF FileStreams
    <3>5. meant' = Fi!Overlay(disk', IF s.mode = "a" THEN Len(disk') ELSE s.pos, s.out)
      <4>1. meant' = disk' /\ disk' \in Seq(Nat)
        BY <2>7, <2>8, <3>1
      <4>2. (IF s.mode = "a" THEN Len(disk') ELSE s.pos) \in Nat
        BY <4>1 DEF FileStreams
      <4> QED
        BY <3>4, <4>1, <4>2, OverlayNone
    <3>6. disk' \in Seq(Nat)
      BY <2>7, <2>8, <3>1
    <3> QED
      BY <2>1, <2>8, <2>9, <3>3, <3>4, <3>5, <3>6, WritesOn
  <2> QED
    BY <2>10, <2>11
<1> QED
  BY <1>2, <1>3, <1>4 DEF Writer

LEMMA FileFlushes == ASSUME FilesKeep, NEW f \in {1, 2}, Fi!file_flush(f) PROVE FilesKeep'
<1>1. FileTyped /\ files[f] \in FileStreams
  BY DEF FilesKeep, FileTyped
<1>2. CASE files[f].fp # "open"
  BY <1>2, NotOpen DEF Fi!file_flush, Fi!FP
<1>3. CASE files[f].fp = "open"
  <2>1. disk' = Fi!Flushed(f) /\ files' = [files EXCEPT ![f] = Fi!AfterFlush(f)] /\ UNCHANGED << meant, file_mode >>
    BY <1>3 DEF Fi!file_flush, Fi!FP
  <2>2. /\ Fi!AfterFlush(f) \in FileStreams /\ Fi!AfterFlush(f).out = << >> /\ Fi!AfterFlush(f).mode = files[f].mode
    BY <1>1, FlushedTyped
  <2> QED
    BY <1>3, <2>1, <2>2, Empties
<1> QED
  BY <1>2, <1>3

LEMMA FileSeeks ==
  ASSUME Fi!FilesAssumption, FilesKeep, NEW f \in {1, 2}, NEW offset \in Offsets, NEW w \in {"SEEK_SET", "SEEK_CUR", "SEEK_END"},
         Fi!file_seek(f, offset, w)
  PROVE  FilesKeep'
<1>1. FileTyped /\ files[f] \in FileStreams /\ offset \in Int
  BY DEF FilesKeep, FileTyped, Fi!FilesAssumption
<1>2. CASE files[f].fp # "open"
  BY <1>2, NotOpen DEF Fi!file_seek, Fi!FP
<1>3. CASE files[f].fp = "open"
  <2>1. PICK a \in FileStreams : a = Fi!AfterFlush(f) /\ a.out = << >> /\ a.mode = files[f].mode
    BY <1>1, FlushedTyped
  <2>2. Fi!Whence(f, w) \in Int
    <3>1. Fi!Flushed(f) \in Seq(Nat) /\ a.pos \in Nat
      BY <1>1, FlushedTyped DEF FileStreams
    <3>2. CASE w = "SEEK_SET"
      BY <3>2 DEF Fi!Whence
    <3>3. CASE w = "SEEK_CUR"
      BY <2>1, <3>1, <3>3 DEF Fi!Whence
    <3>4. CASE w = "SEEK_END"
      BY <3>1, <3>4 DEF Fi!Whence
    <3> QED
      BY <3>2, <3>3, <3>4
  <2>3. PICK to \in Int : to = Fi!Whence(f, w) + offset
    BY <1>1, <2>2
  <2>4. /\ disk' = Fi!Flushed(f) /\ UNCHANGED << meant, file_mode >>
        /\ files' = [files EXCEPT ![f] = IF to < 0 THEN a ELSE [a EXCEPT !.pos = to, !.eof = FALSE]]
    BY <1>3, <2>1, <2>3 DEF Fi!file_seek, Fi!FP
  <2>5. CASE to < 0
    BY <1>3, <2>1, <2>4, <2>5, Empties
  <2>6. CASE ~(to < 0)
    <3>1. to \in Nat
      BY <2>6
    <3>2. PICK s \in FileStreams : s = [[a EXCEPT !.pos = to] EXCEPT !.eof = FALSE]
      BY <3>1 DEF FileStreams
    <3>3. s.out = << >> /\ s.mode = files[f].mode
      BY <2>1, <3>2 DEF FileStreams
    <3>4. files' = [files EXCEPT ![f] = s]
      BY <2>4, <2>6, <3>2
    <3> QED
      BY <1>3, <2>4, <3>3, <3>4, Empties
  <2> QED
    BY <2>5, <2>6
<1> QED
  BY <1>2, <1>3

\* Reading needs a stream that holds nothing back.
LEMMA FileReads == ASSUME FilesKeep, NEW f \in {1, 2}, Fi!file_getc(f) \/ Fi!file_slurp(f) PROVE FilesKeep'
<1>1. FileTyped /\ HeldBack /\ files[f] \in FileStreams /\ files[f].out = << >>
  BY DEF FilesKeep, FileTyped, Fi!file_getc, Fi!file_slurp, Fi!MayRead
<1>2. CASE files[f].fp # "open"
  BY <1>2, NotOpen DEF Fi!file_getc, Fi!file_slurp, Fi!FP
<1>3. CASE files[f].fp = "open"
  <2>1. UNCHANGED << disk, meant, file_mode >>
    BY <1>3 DEF Fi!file_getc, Fi!file_slurp, Fi!FP
  <2>2. PICK s \in FileStreams : files' = [files EXCEPT ![f] = s] /\ s.out = << >> /\ s.fp = "open" /\ s.mode = files[f].mode
    <3>1. PICK n \in Nat, e \in BOOLEAN : files' = [files EXCEPT ![f] = [[files[f] EXCEPT !.pos = n] EXCEPT !.eof = e]]
      <4>1. files[f].pos \in Nat /\ files[f].eof \in BOOLEAN /\ Len(disk) \in Nat /\ f \in DOMAIN files
        BY <1>1 DEF FileStreams, FileTyped
      <4>2. \A n \in Nat : n + 1 \in Nat
        OBVIOUS
      <4>3. files = [files EXCEPT ![f] = [[files[f] EXCEPT !.pos = files[f].pos] EXCEPT !.eof = files[f].eof]]
        BY <1>1 DEF FileStreams, FileTyped
      <4>4. CASE UNCHANGED files
        BY <4>1, <4>3, <4>4
      <4>5. CASE files' = [files EXCEPT ![f].eof = TRUE]
        <5>1. files' = [files EXCEPT ![f] = [[files[f] EXCEPT !.pos = files[f].pos] EXCEPT !.eof = TRUE]]
          BY <1>1, <4>1, <4>5 DEF FileStreams, FileTyped
        <5> QED
          BY <4>1, <5>1
      <4>6. CASE files' = [files EXCEPT ![f].pos = @ + 1]
        <5>1. files' = [files EXCEPT ![f] = [[files[f] EXCEPT !.pos = files[f].pos + 1] EXCEPT !.eof = files[f].eof]]
          BY <1>1, <4>1, <4>6 DEF FileStreams, FileTyped
        <5> QED
          BY <4>1, <4>2, <5>1
      <4>7. CASE files' = [files EXCEPT ![f].eof = TRUE, ![f].pos = IF Fi!Ends(f) THEN @ ELSE Len(disk)]
        <5>1. PICK n \in Nat : n = (IF Fi!Ends(f) THEN files[f].pos ELSE Len(disk))
          BY <4>1
        <5>2. files' = [files EXCEPT ![f] = [[files[f] EXCEPT !.pos = n] EXCEPT !.eof = TRUE]]
          BY <1>1, <4>1, <4>7, <5>1 DEF FileStreams, FileTyped
        <5> QED
          BY <5>2
      <4>8. CASE Fi!file_getc(f)
        <5>1. CASE ~Fi!Readable(f)
          BY <1>3, <4>4, <4>8, <5>1 DEF Fi!file_getc, Fi!FP
        <5>2. CASE Fi!Readable(f) /\ Fi!Ends(f)
          BY <1>3, <4>5, <4>8, <5>2 DEF Fi!file_getc, Fi!FP
        <5>3. CASE Fi!Readable(f) /\ ~Fi!Ends(f)
          BY <1>3, <4>6, <4>8, <5>3 DEF Fi!file_getc, Fi!FP
        <5> QED
          BY <5>1, <5>2, <5>3
      <4>9. CASE Fi!file_slurp(f)
        BY <1>3, <4>4, <4>7, <4>9 DEF Fi!file_slurp, Fi!FP
      <4> QED
        BY <4>8, <4>9
    <3>2. PICK s \in FileStreams : s = [[files[f] EXCEPT !.pos = n] EXCEPT !.eof = e]
      BY <1>1 DEF FileStreams
    <3>3. s.out = << >> /\ s.fp = "open" /\ s.mode = files[f].mode
      BY <1>1, <1>3, <3>2 DEF FileStreams
    <3> QED
      BY <3>1, <3>2, <3>3
  <2>3. disk' = Fi!Flushed(f)
    BY <1>1, <2>1, NothingHeld
  <2> QED
    BY <1>3, <2>1, <2>2, <2>3, Empties
<1> QED
  BY <1>2, <1>3

LEMMA FileTells == ASSUME FilesKeep, NEW f \in {1, 2}, Fi!file_tell(f) \/ Fi!file_sync(f) PROVE FilesKeep'
<1>1. CASE files[f].fp = "open"
  <2>1. UNCHANGED << disk, meant, files, file_mode >>
    BY <1>1 DEF Fi!file_tell, Fi!file_sync, Fi!FP
  <2> QED
    BY <2>1, FilesSame
<1>2. CASE files[f].fp # "open"
  BY <1>2, NotOpen DEF Fi!file_tell, Fi!file_sync, Fi!FP
<1> QED
  BY <1>1, <1>2

\* Every step of the files keeps what the files keep.
LEMMA FilesNext == ASSUME Fi!FilesAssumption, FilesKeep, [Fi!Next]_fileVars PROVE FilesKeep'
<1>1. CASE UNCHANGED fileVars
  BY <1>1, FilesSame DEF fileVars
<1>2. CASE Fi!Next
  <2>1. PICK f \in {1, 2} :
          \/ \E m \in FileModes : Fi!File_open(f, m)
          \/ Fi!file_close(f) \/ Fi!Drop(f) \/ (\E t \in FileTexts : Fi!file_write(f, t)) \/ Fi!file_flush(f)
          \/ Fi!file_getc(f) \/ Fi!file_slurp(f) \/ Fi!file_tell(f) \/ Fi!file_sync(f)
          \/ \E o \in Offsets, w \in {"SEEK_SET", "SEEK_CUR", "SEEK_END"} : Fi!file_seek(f, o, w)
    BY <1>2 DEF Fi!Next, Fi!Objects
  <2>2. CASE \E m \in FileModes : Fi!File_open(f, m)
    BY <2>2, FileOpenStep
  <2>3. CASE Fi!file_close(f) \/ Fi!Drop(f)
    BY <2>3, FileCloses, FileDropped
  <2>4. CASE \E t \in FileTexts : Fi!file_write(f, t)
    BY <2>4, TextTyped, FileWrites
  <2>5. CASE Fi!file_flush(f)
    BY <2>5, FileFlushes
  <2>6. CASE Fi!file_getc(f) \/ Fi!file_slurp(f)
    BY <2>6, FileReads
  <2>7. CASE Fi!file_tell(f) \/ Fi!file_sync(f)
    BY <2>7, FileTells
  <2>8. CASE \E o \in Offsets, w \in {"SEEK_SET", "SEEK_CUR", "SEEK_END"} : Fi!file_seek(f, o, w)
    BY <2>8, FileSeeks
  <2> QED
    BY <2>1, <2>2, <2>3, <2>4, <2>5, <2>6, <2>7, <2>8
<1> QED
  BY <1>1, <1>2

\* What the files keep is what they promise.
LEMMA FilesServe == ASSUME FilesKeep PROVE Fi!ClosedIsWritten /\ Fi!ClosedOnce
<1>1. (\A f \in Fi!Objects : files[f].fp = "open" => ~Fi!Writable(f)) => \A f \in {1, 2} : ~Writer(f)
  BY DEF Fi!Objects, Fi!Writable, Writer
<1> QED
  BY <1>1 DEF FilesKeep, HeldBack, Fi!ClosedIsWritten

\* Every byte of the file is a character.
LEMMA GetcGives == ASSUME FilesKeep, [Fi!Next]_fileVars PROVE Fi!GetcStep
<1> SUFFICES ASSUME NEW f \in {1, 2}, Fi!file_getc(f), file_mode' = "run", Fi!Readable(f)
             PROVE  last' = IF Fi!Ends(f) THEN Fi!Undef ELSE << disk[files[f].pos + 1] >>
  BY DEF Fi!GetcStep, Fi!Objects
<1>1. files[f].fp = "open"
  BY DEF Fi!file_getc, Fi!FP
<1>2. CASE Fi!Ends(f)
  BY <1>1, <1>2 DEF Fi!file_getc, Fi!FP, Fi!Returns
<1>3. CASE ~Fi!Ends(f)
  <2>1. last' = (IF Fi!IsCharacter(disk[files[f].pos + 1]) THEN << disk[files[f].pos + 1] >> ELSE Fi!Threw)
    BY <1>1, <1>3 DEF Fi!file_getc, Fi!FP, Fi!Returns
  <2>2. files[f] \in FileStreams /\ disk \in Seq(Nat)
    BY DEF FilesKeep, FileTyped
  <2>3. disk[files[f].pos + 1] \in Nat
    <3>1. PICK k \in Nat : k = files[f].pos + 1
      BY <2>2 DEF FileStreams
    <3>2. files[f].pos \in Nat /\ ~(files[f].pos >= Len(disk)) /\ Len(disk) \in Nat
      BY <1>3, <2>2 DEF Fi!Ends, FileStreams
    <3>3. k \in 1..Len(disk)
      BY <3>1, <3>2
    <3>4. disk[k] \in Nat
      BY <2>2, <3>3
    <3> QED
      BY <3>1, <3>4
  <2>4. Fi!IsCharacter(disk[files[f].pos + 1])
    BY <2>3 DEF Fi!IsCharacter
  <2> QED
    BY <1>3, <2>1, <2>4
<1> QED
  BY <1>2, <1>3

-----------------------------------------------------------------------------
(* Sockets.  What the peer has sent is in the kernel, in the buffer of the *)
(* reader or given to the program, in order and once.                      *)

\* A socket is connected once, and the address that the kernel has been given was the one made last.
SocketConnects ==
  /\ peer = "absent" => inbox = << >> /\ sent = 0 /\ got = << >> /\ bbuf = << >>
  /\ peer # "absent" => sock \in {"connected", "closed"}
  /\ call = "none" => bbuf = << >>
  /\ call = "reading" => sock = "connected"
  /\ sock = "connected" => peer # "absent"

\* The stream.
SocketTyped ==
  /\ inbox \in Seq(Nat) /\ got \in Seq(Nat) /\ bbuf \in Seq(Nat) /\ sent \in Nat
  /\ call \in {"none", "reading"}
  /\ rest \in Seq(So!ToSet(Message)) /\ taken \in Seq(So!ToSet(Message))

SocketAddress ==
  /\ littleEndian \in BOOLEAN
  /\ address # So!None => /\ asked[1] \in DOMAIN HostAddress /\ asked[2] \in Ports
                          /\ address = So!SockaddrBytes(asked[2], HostAddress[asked[1]])
  /\ given # So!None => given = address /\ sock \notin {"none", "fresh"}

SocketsKeep == SocketTyped /\ SocketConnects /\ SocketAddress /\ So!StreamKept /\ So!WritesMessage

LEMMA SocketsInit == ASSUME So!SocketsAssumption, So!Init PROVE SocketsKeep
<1>1. Message \in Seq(So!ToSet(Message))
  BY DEF So!SocketsAssumption
<1>2. got \o bbuf \o inbox = [k \in 1..0 |-> k]
  BY DEF So!Init
<1> QED BY <1>1, <1>2 DEF So!Init, SocketsKeep, SocketTyped, SocketConnects, SocketAddress, So!StreamKept, So!WritesMessage, So!None

LEMMA PeerSendsStep == ASSUME SocketsKeep, So!PeerSends PROVE SocketsKeep'
<1>1. inbox \in Seq(Nat) /\ got \in Seq(Nat) /\ bbuf \in Seq(Nat) /\ sent \in Nat
  BY DEF SocketsKeep, SocketTyped
<1>2. got \o bbuf \o inbox = [k \in 1..sent |-> k]
  BY DEF SocketsKeep, So!StreamKept, So!PeerSends
<1>3. sent' = sent + 1 /\ inbox' = Append(inbox, sent + 1) /\ got' = got /\ bbuf' = bbuf
  BY DEF So!PeerSends, So!reading
<1>4. got \o bbuf \o Append(inbox, sent + 1) = Append(got \o bbuf \o inbox, sent + 1)
  BY <1>1
<1>5. Append([k \in 1..sent |-> k], sent + 1) = [k \in 1..sent + 1 |-> k]
  <2> DEFINE s == [k \in 1..sent |-> k]
             t == [k \in 1..sent + 1 |-> k]
  <2>1. s \in Seq(Nat) /\ Len(s) = sent /\ \A k \in 1..sent : s[k] = k
    BY <1>1
  <2>2. t \in Seq(Nat) /\ Len(t) = sent + 1 /\ \A k \in 1..sent + 1 : t[k] = k
    BY <1>1
  <2> HIDE DEF s, t
  <2>3. Append(s, sent + 1) \in Seq(Nat) /\ Len(Append(s, sent + 1)) = sent + 1
        /\ \A k \in 1..sent + 1 : Append(s, sent + 1)[k] = k
    BY <1>1, <2>1
  <2>4. Append(s, sent + 1) = t
    BY <2>2, <2>3
  <2> QED BY <2>4 DEF s, t
<1>6. So!StreamKept'
  BY <1>2, <1>3, <1>4, <1>5 DEF So!StreamKept
<1>7. SocketTyped' /\ SocketConnects' /\ SocketAddress' /\ So!WritesMessage'
  BY <1>1 DEF SocketsKeep, SocketTyped, SocketConnects, SocketAddress, So!WritesMessage, So!PeerSends, So!naming, So!reading,
       So!writing, So!SockaddrBytes, So!InMemory, So!NetworkOrder
<1> QED BY <1>6, <1>7 DEF SocketsKeep

\* A step that leaves bytes and names alone.
LEMMA SocketsSame ==
  ASSUME SocketsKeep, UNCHANGED << littleEndian, asked, address, given, sock, peer, inbox, sent, got, call, bbuf, rest, taken >>
  PROVE  SocketsKeep'
BY DEF SocketsKeep, SocketTyped, SocketConnects, SocketAddress, So!StreamKept, So!WritesMessage,
       So!SockaddrBytes, So!InMemory, So!NetworkOrder

LEMMA SockaddrStep ==
  ASSUME So!SocketsAssumption, SocketsKeep, NEW port \in Ports, NEW host, So!sock_sockaddr_in(port, host)
  PROVE  SocketsKeep'
<1>1. /\ sock \in {"none", "fresh"} /\ UNCHANGED << littleEndian, given, sock >>
      /\ UNCHANGED << peer, inbox, sent, got, call, bbuf, rest, taken >>
  BY DEF So!sock_sockaddr_in, So!network, So!reading, So!writing
<1>2. SocketTyped' /\ SocketConnects' /\ So!StreamKept' /\ So!WritesMessage'
  BY <1>1 DEF SocketsKeep, SocketTyped, SocketConnects, So!StreamKept, So!WritesMessage
<1>3. SocketAddress'
  <2>1. CASE host \in DOMAIN HostAddress
    <3>1. address' = So!SockaddrBytes(port, HostAddress[host]) /\ asked' = << host, port >>
      <4>1. host # EmptyHost
        BY <2>1 DEF So!SocketsAssumption
      <4> QED BY <2>1, <4>1 DEF So!sock_sockaddr_in
    <3>2. asked'[1] = host /\ asked'[2] = port
      BY <3>1
    <3>3. So!SockaddrBytes(port, HostAddress[host])' = So!SockaddrBytes(port, HostAddress[host])
      BY <1>1 DEF So!SockaddrBytes, So!InMemory, So!NetworkOrder
    <3>4. address' = So!SockaddrBytes(asked[2], HostAddress[asked[1]])'
      BY <1>1, <3>1, <3>2 DEF So!SockaddrBytes, So!InMemory, So!NetworkOrder
    <3> QED BY <1>1, <2>1, <3>2, <3>4 DEF SocketsKeep, SocketAddress
  <2>2. CASE host \notin DOMAIN HostAddress
    <3>1. UNCHANGED << address, asked >>
      <4>1. CASE host = EmptyHost
        BY <2>2, <4>1 DEF So!sock_sockaddr_in
      <4>2. CASE host # EmptyHost
        BY <2>2, <4>2 DEF So!sock_sockaddr_in
      <4> QED BY <4>1, <4>2
    <3> QED BY <1>1, <3>1 DEF SocketsKeep, SocketAddress, So!SockaddrBytes, So!InMemory, So!NetworkOrder
  <2> QED BY <2>1, <2>2
<1> QED BY <1>2, <1>3 DEF SocketsKeep

\* Setting up and closing: no byte moves.
LEMMA SetsUp ==
  ASSUME SocketsKeep,
         So!sock_socket \/ So!sock_sock_bind \/ So!sock_sock_connect \/ So!sock_sock_listen
           \/ So!sock_sock_accept \/ So!sock_sock_close
  PROVE  SocketsKeep'
<1>1. UNCHANGED << littleEndian, asked, address, inbox, sent, got, call, bbuf, rest, taken >>
  <2>1. CASE So!sock_socket
    BY <2>1 DEF So!sock_socket, So!Refused, So!naming, So!network, So!reading, So!writing
  <2>2. CASE So!sock_sock_bind
    BY <2>2 DEF So!sock_sock_bind, So!Refused, So!naming, So!network, So!reading, So!writing
  <2>3. CASE So!sock_sock_connect
    BY <2>3 DEF So!sock_sock_connect, So!Refused, So!naming, So!network, So!reading, So!writing
  <2>4. CASE So!sock_sock_listen
    BY <2>4 DEF So!sock_sock_listen, So!Refused, So!naming, So!network, So!reading, So!writing
  <2>5. CASE So!sock_sock_accept
    BY <2>5 DEF So!sock_sock_accept, So!Refused, So!naming, So!network, So!reading, So!writing
  <2>6. CASE So!sock_sock_close
    BY <2>6 DEF So!sock_sock_close, So!Refused, So!naming, So!network, So!reading, So!writing
  <2> QED BY <2>1, <2>2, <2>3, <2>4, <2>5, <2>6
<1>2. /\ given' = given \/ (address # So!None /\ given' = address /\ sock' \notin {"none", "fresh"})
      /\ sock \notin {"none", "fresh"} => sock' \notin {"none", "fresh"}
      /\ peer' = peer \/ (sock \notin {"connected", "closed"} /\ sock' = "connected" /\ peer' = "open")
      /\ sock \in {"connected", "closed"} => sock' \in {"connected", "closed"}
      /\ call = "none" /\ (sock' = "connected" => sock = "connected" \/ peer' = "open")
  <2>1. CASE So!sock_socket
    BY <2>1 DEF So!sock_socket, So!Refused, So!naming, So!network, So!reading, So!writing, So!Ready
  <2>2. CASE So!sock_sock_bind
    BY <2>2 DEF So!sock_sock_bind, So!Refused, So!naming, So!network, So!reading, So!writing, So!Ready
  <2>3. CASE So!sock_sock_connect
    BY <2>3 DEF So!sock_sock_connect, So!Refused, So!naming, So!network, So!reading, So!writing, So!Ready
  <2>4. CASE So!sock_sock_listen
    BY <2>4 DEF So!sock_sock_listen, So!Refused, So!naming, So!network, So!reading, So!writing, So!Ready
  <2>5. CASE So!sock_sock_accept
    BY <2>5 DEF So!sock_sock_accept, So!Refused, So!naming, So!network, So!reading, So!writing, So!Ready
  <2>6. CASE So!sock_sock_close
    BY <2>6 DEF So!sock_sock_close, So!Refused, So!naming, So!network, So!reading, So!writing, So!Ready
  <2> QED BY <2>1, <2>2, <2>3, <2>4, <2>5, <2>6
<1>3. SocketTyped'
  BY <1>1 DEF SocketsKeep, SocketTyped
<1>4. SocketConnects'
  BY <1>1, <1>2 DEF SocketsKeep, SocketConnects
<1>5. SocketAddress'
  <2>1. So!SockaddrBytes(asked[2], HostAddress[asked[1]])' = So!SockaddrBytes(asked[2], HostAddress[asked[1]])
    BY <1>1 DEF So!SockaddrBytes, So!InMemory, So!NetworkOrder
  <2> QED BY <1>1, <1>2, <2>1 DEF SocketsKeep, SocketAddress
<1>6. So!StreamKept' /\ So!WritesMessage'
  BY <1>1, <1>2 DEF SocketsKeep, So!StreamKept, So!WritesMessage, SocketConnects
<1> QED BY <1>3, <1>4, <1>5, <1>6 DEF SocketsKeep

LEMMA PeerLeaves == ASSUME SocketsKeep, So!PeerCloses \/ So!PeerResets PROVE SocketsKeep'
<1>1. /\ UNCHANGED << littleEndian, asked, address, given, sock, sent, got, call, bbuf, rest, taken >>
      /\ peer = "open" /\ peer' \in {"closed", "reset"}
      /\ inbox' = inbox \/ (inbox' = << >> /\ peer' = "reset")
  <2>1. CASE So!PeerCloses
    BY <2>1 DEF So!PeerCloses, So!naming, So!reading, So!writing
  <2>2. CASE So!PeerResets
    BY <2>2 DEF So!PeerResets, So!naming, So!reading, So!writing
  <2> QED BY <2>1, <2>2
<1>2. SocketAddress'
  BY <1>1 DEF SocketsKeep, SocketAddress, So!SockaddrBytes, So!InMemory, So!NetworkOrder
<1>3. SocketTyped'
  <2>1. SocketTyped
    BY DEF SocketsKeep
  <2>2. inbox' \in Seq(Nat)
    <3>1. CASE inbox' = inbox
      BY <2>1, <3>1 DEF SocketTyped
    <3>2. CASE inbox' = << >>
      BY <3>2
    <3> QED BY <1>1, <3>1, <3>2
  <2> QED BY <1>1, <2>1, <2>2 DEF SocketTyped
<1>4. SocketConnects'
  BY <1>1 DEF SocketsKeep, SocketConnects
<1>5. So!StreamKept' /\ So!WritesMessage'
  BY <1>1 DEF SocketsKeep, So!StreamKept, So!WritesMessage
<1> QED BY <1>2, <1>3, <1>4, <1>5 DEF SocketsKeep

\* A text in two pieces.
LEMMA TwoPieces ==
  ASSUME NEW S, NEW s \in Seq(S), NEW a \in Seq(S), NEW b \in Seq(S), Len(s) = Len(a) + Len(b),
         \A i \in 1..Len(a) : a[i] = s[i], \A i \in 1..Len(b) : b[i] = s[Len(a) + i]
  PROVE  a \o b = s
<1>1. a \o b \in Seq(S) /\ Len(a \o b) = Len(s)
  OBVIOUS
<1>2. \A i \in 1..Len(s) : (a \o b)[i] = s[i]
  <2> TAKE i \in 1..Len(s)
  <2>1. CASE i \in 1..Len(a)
    BY <2>1
  <2>2. CASE i \notin 1..Len(a)
    <3>1. i - Len(a) \in 1..Len(b) /\ i = Len(a) + (i - Len(a))
      BY <2>2
    <3>2. b[i - Len(a)] = s[i]
      BY <3>1
    <3> QED BY <2>2, <3>1, <3>2
  <2> QED BY <2>1, <2>2
<1> QED BY <1>1, <1>2

\* A piece of a text and what is left of it.
LEMMA Splits ==
  ASSUME NEW S, NEW s \in Seq(S), NEW k \in 0..Len(s)
  PROVE  /\ SubSeq(s, 1, k) \in Seq(S) /\ SubSeq(s, k + 1, Len(s)) \in Seq(S)
         /\ SubSeq(s, 1, k) \o SubSeq(s, k + 1, Len(s)) = s
<1> DEFINE a == SubSeq(s, 1, k)
           b == SubSeq(s, k + 1, Len(s))
<1>1. a \in Seq(S) /\ Len(a) = k /\ \A i \in 1..Len(a) : a[i] = s[i]
  OBVIOUS
<1>2. b \in Seq(S) /\ Len(b) = Len(s) - k /\ \A i \in 1..Len(b) : b[i] = s[k + i]
  OBVIOUS
<1> HIDE DEF a, b
<1>3. a \o b = s
  <2>1. Len(s) = Len(a) + Len(b) /\ \A i \in 1..Len(b) : b[i] = s[Len(a) + i]
    BY <1>1, <1>2
  <2> QED BY <1>1, <1>2, <2>1, TwoPieces
<1> QED BY <1>1, <1>2, <1>3 DEF a, b

LEMMA Regroup ==
  ASSUME NEW S, NEW a \in Seq(S), NEW b \in Seq(S), NEW c \in Seq(S)
  PROVE  (a \o b) \o c = a \o (b \o c)
OBVIOUS

LEMMA RegroupBytes == \A a, b, c \in Seq(Nat) : (a \o b) \o c = a \o (b \o c)
BY Regroup

\* Bytes go from the kernel to the program.
LEMMA BytesRead ==
  ASSUME SocketsKeep, NEW k, k \in 0..Len(inbox), inbox' = SubSeq(inbox, k + 1, Len(inbox)),
         got' \o bbuf' = got \o bbuf \o SubSeq(inbox, 1, k),
         got' \in Seq(Nat), bbuf' \in Seq(Nat), call' \in {"none", "reading"}, call' = "none" => bbuf' = << >>,
         sock = "connected",
         UNCHANGED << littleEndian, asked, address, given, sock, peer, sent, rest, taken >>
  PROVE  SocketsKeep'
<1>1. inbox \in Seq(Nat) /\ got \in Seq(Nat) /\ bbuf \in Seq(Nat)
  BY DEF SocketsKeep, SocketTyped
<1>2. inbox' \in Seq(Nat) /\ SubSeq(inbox, 1, k) \in Seq(Nat) /\ SubSeq(inbox, 1, k) \o inbox' = inbox
  BY <1>1, Splits
<1>3. SocketTyped'
  BY <1>2 DEF SocketsKeep, SocketTyped
<1>4. SocketConnects'
  BY DEF SocketsKeep, SocketConnects
<1>5. SocketAddress'
  BY DEF SocketsKeep, SocketAddress, So!SockaddrBytes, So!InMemory, So!NetworkOrder
<1>6. got' \o bbuf' \o inbox' = got \o bbuf \o inbox
  <2>1. got \o bbuf \in Seq(Nat)
    BY <1>1
  <2>2. (got \o bbuf) \o SubSeq(inbox, 1, k) \o inbox' = (got \o bbuf) \o (SubSeq(inbox, 1, k) \o inbox')
    BY <1>2, <2>1, RegroupBytes, Zenon
  <2> QED BY <1>2, <2>2
<1>7. So!StreamKept' /\ So!WritesMessage'
  BY <1>6 DEF SocketsKeep, So!StreamKept, So!WritesMessage
<1>8. SocketTyped' /\ SocketConnects' /\ SocketAddress' /\ So!StreamKept' /\ So!WritesMessage'
  BY <1>3, <1>4, <1>5, <1>7
<1> QED
  BY <1>8 DEF SocketsKeep

\* The pieces that a read(2) takes.
LEMMA PiecesFit ==
  ASSUME SocketsKeep, NEW n \in Nat, NEW k \in So!Pieces(n)
  PROVE  k \in 1..Len(inbox)
BY DEF So!Pieces

LEMMA ReadBegins == ASSUME SocketsKeep, So!sock_read PROVE SocketsKeep'
<1>1. UNCHANGED << littleEndian, asked, address, given, sock, peer, inbox, sent, got, rest, taken >> /\ call' = "reading" /\ sock = "connected"
  BY DEF So!sock_read, So!naming, So!network, So!writing
<1>2. bbuf' = bbuf
  BY DEF So!sock_read, So!Ready, SocketsKeep, SocketConnects
<1>3. SocketTyped' /\ SocketConnects'
  BY <1>1, <1>2 DEF SocketsKeep, SocketTyped, SocketConnects
<1>4. SocketAddress' /\ So!StreamKept' /\ So!WritesMessage'
  BY <1>1, <1>2 DEF SocketsKeep, SocketAddress, So!StreamKept, So!WritesMessage, So!SockaddrBytes, So!InMemory, So!NetworkOrder
<1> QED
  BY <1>3, <1>4 DEF SocketsKeep

\* A read(2) that fails loses what the call has, which counts only after a reset.
LEMMA ReadFails ==
  ASSUME SocketsKeep, So!Fails, call' = "none", bbuf' = << >>,
         UNCHANGED << littleEndian, asked, address, given, sock, peer, inbox, sent, got, rest, taken >>
  PROVE  SocketsKeep'
<1>1. SocketTyped' /\ SocketConnects'
  BY DEF SocketsKeep, SocketTyped, SocketConnects
<1>2. SocketAddress' /\ So!StreamKept' /\ So!WritesMessage'
  BY DEF SocketsKeep, SocketAddress, So!StreamKept, So!WritesMessage, So!SockaddrBytes, So!InMemory, So!NetworkOrder, So!Fails
<1> QED
  BY <1>1, <1>2 DEF SocketsKeep

LEMMA ReadsOn == ASSUME So!SocketsAssumption, SocketsKeep, So!ReadStep PROVE SocketsKeep'
<1>1. UNCHANGED << littleEndian, asked, address, given, sock, peer, sent, rest, taken >>
  BY DEF So!ReadStep, So!naming, So!writing
<1>2. inbox \in Seq(Nat) /\ got \in Seq(Nat) /\ bbuf \in Seq(Nat)
  BY DEF SocketsKeep, SocketTyped
<1>3. CASE So!Fails /\ call' = "none" /\ bbuf' = << >> /\ UNCHANGED << inbox, got >>
  BY <1>1, <1>3, ReadFails
<1>4. ASSUME NEW k \in (IF So!AtEnd THEN {0} ELSE So!Pieces(ReadBuffer)),
             IF So!EndsLoop(k) THEN So!Returns(So!Gathered(SubSeq(inbox, 1, k)))
                               ELSE bbuf' = So!Gathered(SubSeq(inbox, 1, k)) /\ UNCHANGED << got, call >>,
             inbox' = SubSeq(inbox, k + 1, Len(inbox)), call = "reading"
      PROVE  SocketsKeep'
  <2>1. k \in 0..Len(inbox)
    BY <1>2, <1>4 DEF So!Pieces, So!AtEnd
  <2>2. SubSeq(inbox, 1, k) \in Seq(Nat)
    BY <1>2, <2>1
  <2>3. got' \in Seq(Nat) /\ bbuf' \in Seq(Nat) /\ call' \in {"none", "reading"} /\ (call' = "none" => bbuf' = << >>)
    <3>1. bbuf \o SubSeq(inbox, 1, k) \in Seq(Nat)
      BY <1>2, <2>2
    <3>2. CASE So!EndsLoop(k)
      <4>1. got' = got \o (bbuf \o SubSeq(inbox, 1, k)) /\ bbuf' = << >> /\ call' = "none"
        BY <1>4, <3>2 DEF So!Returns, So!Gathered
      <4> QED
        BY <1>2, <3>1, <4>1
    <3>3. CASE ~So!EndsLoop(k)
      BY <1>2, <1>4, <3>1, <3>3 DEF So!Gathered
    <3> QED
      BY <3>2, <3>3
  <2>4. got' \o bbuf' = got \o bbuf \o SubSeq(inbox, 1, k)
    <3>1. CASE So!EndsLoop(k)
      <4>1. got' = got \o (bbuf \o SubSeq(inbox, 1, k)) /\ bbuf' = << >>
        BY <1>4, <3>1 DEF So!Returns, So!Gathered
      <4>2. got' \o bbuf' = got'
        BY <2>3, <4>1
      <4>3. (got \o bbuf) \o SubSeq(inbox, 1, k) = got \o (bbuf \o SubSeq(inbox, 1, k))
        BY <1>2, <2>2, RegroupBytes, Zenon
      <4> QED
        BY <4>1, <4>2, <4>3
    <3>2. CASE ~So!EndsLoop(k)
      <4>1. got' = got /\ bbuf' = bbuf \o SubSeq(inbox, 1, k)
        BY <1>4, <3>2 DEF So!Gathered
      <4>2. (got \o bbuf) \o SubSeq(inbox, 1, k) = got \o (bbuf \o SubSeq(inbox, 1, k))
        BY <1>2, <2>2, RegroupBytes, Zenon
      <4> QED
        BY <4>1, <4>2
    <3> QED
      BY <3>1, <3>2
  <2>5. sock = "connected"
    BY <1>4 DEF SocketsKeep, SocketConnects
  <2> QED
    BY <1>1, <1>4, <2>1, <2>3, <2>4, <2>5, BytesRead
<1> QED
  BY <1>3, <1>4 DEF So!ReadStep

LEMMA ReadsSome ==
  ASSUME So!SocketsAssumption, SocketsKeep, NEW n \in Lengths, So!ReadLength(n)
  PROVE  SocketsKeep'
<1>1. UNCHANGED << littleEndian, asked, address, given, sock, peer, sent, rest, taken, call, bbuf >>
  BY DEF So!ReadLength, So!naming, So!writing
<1>2. inbox \in Seq(Nat) /\ got \in Seq(Nat) /\ bbuf = << >> /\ call = "none" /\ sock = "connected"
  BY DEF SocketsKeep, SocketTyped, SocketConnects, So!ReadLength, So!Ready
<1>3. CASE UNCHANGED << got, inbox >>
  BY <1>1, <1>3, SocketsSame
<1>4. ASSUME NEW k \in (IF So!AtEnd \/ n = 0 THEN {0} ELSE So!Pieces(n)),
             got' = got \o SubSeq(inbox, 1, k), inbox' = SubSeq(inbox, k + 1, Len(inbox))
      PROVE  SocketsKeep'
  <2>1. k \in 0..Len(inbox)
    BY <1>2, <1>4 DEF So!Pieces
  <2>2. SubSeq(inbox, 1, k) \in Seq(Nat)
    BY <1>2, <2>1
  <2>3. got' \in Seq(Nat) /\ bbuf' = << >> /\ bbuf' \in Seq(Nat) /\ call' = "none"
    BY <1>1, <1>2, <1>4, <2>2
  <2>4. got' \o bbuf' = got \o bbuf \o SubSeq(inbox, 1, k)
    <3>1. got' \o bbuf' = got'
      BY <2>3
    <3>2. got \o bbuf = got
      BY <1>2
    <3> QED
      BY <1>4, <3>1, <3>2
  <2> QED
    BY <1>1, <1>2, <1>4, <2>1, <2>3, <2>4, BytesRead
<1> QED
  BY <1>3, <1>4 DEF So!ReadLength

LEMMA Writes == ASSUME SocketsKeep, So!sock_write PROVE SocketsKeep'
<1>1. UNCHANGED << littleEndian, asked, address, given, sock, peer, inbox, sent, got, call, bbuf >>
  BY DEF So!sock_write, So!naming, So!network, So!reading
<1>2. rest \in Seq(So!ToSet(Message)) /\ taken \in Seq(So!ToSet(Message)) /\ taken \o rest = Message
  BY DEF SocketsKeep, SocketTyped, So!WritesMessage
<1>3. CASE UNCHANGED << rest, taken >>
  BY <1>1, <1>3, SocketsSame
<1>4. ASSUME NEW k \in DOMAIN rest, taken' = taken \o SubSeq(rest, 1, k),
             rest' = SubSeq(rest, So!Written(rest, k) + 1, Len(rest))
      PROVE  SocketsKeep'
  <2> DEFINE S == So!ToSet(Message)
  <2>1. k \in 0..Len(rest) /\ rest' = SubSeq(rest, k + 1, Len(rest))
    BY <1>2, <1>4 DEF So!Written
  <2>2. SubSeq(rest, 1, k) \in Seq(S) /\ rest' \in Seq(S) /\ SubSeq(rest, 1, k) \o rest' = rest
    BY <1>2, <2>1, Splits
  <2>3. taken' \in Seq(S)
    BY <1>2, <1>4, <2>2
  <2>4. taken' \o rest' = taken \o (SubSeq(rest, 1, k) \o rest')
    <3>1. \A a, b, c \in Seq(S) : (a \o b) \o c = a \o (b \o c)
      BY Regroup
    <3> HIDE DEF S
    <3> QED
      BY <1>2, <1>4, <2>2, <3>1, ZenonT(40) DEF S
  <2>5. So!WritesMessage'
    BY <1>2, <2>2, <2>4 DEF So!WritesMessage
  <2>6. SocketTyped' /\ SocketConnects'
    BY <1>1, <2>2, <2>3 DEF SocketsKeep, SocketTyped, SocketConnects
  <2>7. SocketAddress' /\ So!StreamKept'
    BY <1>1 DEF SocketsKeep, SocketAddress, So!StreamKept, So!SockaddrBytes, So!InMemory, So!NetworkOrder
  <2> QED
    BY <2>5, <2>6, <2>7 DEF SocketsKeep
<1> QED
  BY <1>3, <1>4 DEF So!sock_write, So!writing

LEMMA SocketsNext == ASSUME So!SocketsAssumption, SocketsKeep, [So!Next]_sockVars PROVE SocketsKeep'
<1>1. ASSUME NEW host \in So!Hosts, NEW port \in Ports, So!sock_sockaddr_in(port, host)
      PROVE  SocketsKeep'
  BY <1>1, SockaddrStep
<1>2. CASE \/ So!sock_socket \/ So!sock_sock_bind \/ So!sock_sock_connect \/ So!sock_sock_listen
           \/ So!sock_sock_accept \/ So!sock_sock_close
  BY <1>2, SetsUp
<1>3. CASE So!PeerSends
  BY <1>3, PeerSendsStep
<1>4. CASE So!PeerCloses \/ So!PeerResets
  BY <1>4, PeerLeaves
<1>5. CASE So!sock_read
  BY <1>5, ReadBegins
<1>6. CASE So!ReadStep
  BY <1>6, ReadsOn
<1>7. ASSUME NEW n \in Lengths, So!ReadLength(n)
      PROVE  SocketsKeep'
  BY <1>7, ReadsSome
<1>8. CASE So!sock_write
  BY <1>8, Writes
<1>9. CASE UNCHANGED sockVars
  BY <1>9, SocketsSame DEF sockVars
<1> QED
  BY <1>1, <1>2, <1>3, <1>4, <1>5, <1>6, <1>7, <1>8, <1>9 DEF So!Next

\* Two reversals of the bytes of a number give it again, as none does.
LEMMA Reversed == ASSUME NEW S, NEW s \in Seq(S) PROVE So!Reverse(So!Reverse(s)) = s
<1>1. So!Reverse(s) \in Seq(S) /\ Len(So!Reverse(s)) = Len(s) /\ \A i \in 1..Len(s) : So!Reverse(s)[i] = s[Len(s) - i + 1]
  BY DEF So!Reverse
<1> DEFINE r == So!Reverse(s)
<1>2. So!Reverse(r) \in Seq(S) /\ Len(So!Reverse(r)) = Len(r) /\ \A i \in 1..Len(r) : So!Reverse(r)[i] = r[Len(r) - i + 1]
  <2> HIDE DEF r
  <2>1. r \in Seq(S)
    BY <1>1 DEF r
  <2> QED
    BY <2>1 DEF So!Reverse
<1>3. \A i \in 1..Len(s) : So!Reverse(r)[i] = s[i]
  <2> TAKE i \in 1..Len(s)
  <2> HIDE DEF r
  <2>1. Len(r) - i + 1 \in 1..Len(s) /\ Len(s) - (Len(r) - i + 1) + 1 = i
    BY <1>1 DEF r
  <2> QED
    BY <1>1, <1>2, <2>1 DEF r
<1> QED
  BY <1>1, <1>2, <1>3

\* A function on 1..4 is a sequence.
LEMMA IsSequence == ASSUME NEW n \in Nat, NEW S, NEW f \in [1..n -> S] PROVE f \in Seq(S) /\ Len(f) = n
OBVIOUS

LEMMA FourBytes == ASSUME NEW S, NEW f \in [1..4 -> S] PROVE f \in Seq(S) /\ Len(f) = 4
<1>1. PICK n \in Nat : n = 4
  OBVIOUS
<1>2. f \in [1..n -> S]
  BY <1>1
<1> QED
  BY <1>1, <1>2, IsSequence

LEMMA PortsAreNumbers == ASSUME So!SocketsAssumption PROVE Ports \subseteq Int
<1>1. \A p \in Ports : p \in 0..256 * 256 - 1
  BY DEF So!SocketsAssumption
<1>2. \A p \in 0..256 * 256 - 1 : p \in Int
  BY SMTT(40)
<1> QED
  BY <1>1, <1>2

\* The address of a port and a host, on machines of either order.
LEMMA AddressBytes ==
  ASSUME So!SocketsAssumption, littleEndian \in BOOLEAN, NEW host \in DOMAIN HostAddress, NEW port \in Ports
  PROVE  So!SockaddrBytes(port, HostAddress[host]) = So!PortNumber(port) \o HostAddress[host]
<1>0. \A h \in DOMAIN HostAddress : HostAddress[h] \in [1..4 -> 0..255]
  BY DEF So!SocketsAssumption
<1>1. HostAddress[host] \in [1..4 -> 0..255]
  BY <1>0
<1>2. HostAddress[host] \in Seq(0..255) /\ Len(HostAddress[host]) = 4
  BY <1>1, FourBytes
<1> DEFINE ip == HostAddress[host]
           four == So!HostNumber(ip)
<1>3. four \in Seq(0..255) /\ four = ip
  <2> HIDE DEF ip
  <2>1. ip \in Seq(0..255) /\ Len(ip) = 4 /\ ip[1] \in 0..255 /\ ip[2] \in 0..255 /\ ip[3] \in 0..255 /\ ip[4] \in 0..255
    BY <1>1, <1>2 DEF ip
  <2>2. four \in Seq(0..255) /\ Len(four) = 4 /\ four[1] = ip[1] /\ four[2] = ip[2] /\ four[3] = ip[3] /\ four[4] = ip[4]
    BY <2>1 DEF So!HostNumber
  <2> HIDE DEF four
  <2>3. \A i \in 1..4 : i = 1 \/ i = 2 \/ i = 3 \/ i = 4
    OBVIOUS
  <2>4. \A i \in 1..4 : four[i] = ip[i]
    BY <2>2, <2>3
  <2> QED
    BY <2>1, <2>2, <2>4
<1>4. So!PortNumber(port) \in Seq(Int)
  <2>1. port \in Int
    BY PortsAreNumbers
  <2> QED
    BY <2>1 DEF So!PortNumber
<1>5. So!Reverse(So!Reverse(So!PortNumber(port))) = So!PortNumber(port)
  BY <1>4, Reversed
<1>6. So!Reverse(So!Reverse(four)) = four
  <2> HIDE DEF four
  <2> QED
    BY <1>3, Reversed
<1>7. So!InMemory(So!NetworkOrder(So!PortNumber(port))) = So!PortNumber(port)
  BY <1>5 DEF So!InMemory, So!NetworkOrder
<1>8. So!InMemory(So!NetworkOrder(four)) = ip
  <2> HIDE DEF four
  <2> QED
    BY <1>3, <1>6 DEF So!InMemory, So!NetworkOrder
<1> QED
  BY <1>7, <1>8 DEF So!SockaddrBytes

LEMMA SocketsServe ==
  ASSUME So!SocketsAssumption, SocketsKeep
  PROVE  So!GivenWhatWasAsked /\ So!StreamKept /\ So!WritesMessage
<1>1. ASSUME given # So!None
      PROVE  given = So!PortNumber(asked[2]) \o HostAddress[asked[1]]
  <2>1. given = address /\ address # So!None /\ littleEndian \in BOOLEAN
    BY <1>1 DEF SocketsKeep, SocketAddress
  <2>2. asked[1] \in DOMAIN HostAddress /\ asked[2] \in Ports /\ address = So!SockaddrBytes(asked[2], HostAddress[asked[1]])
    BY <2>1 DEF SocketsKeep, SocketAddress
  <2> QED
    BY <2>1, <2>2, AddressBytes
<1> QED
  BY <1>1 DEF So!GivenWhatWasAsked, SocketsKeep

\* read() without a length ends where the stream does.
LEMMA ReadEnds == ASSUME So!SocketsAssumption, SocketsKeep, [So!Next]_sockVars PROVE So!ReadEndsStep
<1> SUFFICES ASSUME call = "reading", call' = "none" PROVE peer # "open" /\ inbox' = << >>
  BY DEF So!ReadEndsStep
<1>1. inbox \in Seq(Nat)
  BY DEF SocketsKeep, SocketTyped
<1>2. CASE So!ReadStep
  <2>1. CASE So!Fails /\ UNCHANGED inbox
    BY <2>1 DEF So!Fails
  <2>2. ASSUME NEW k \in (IF So!AtEnd THEN {0} ELSE So!Pieces(ReadBuffer)), So!EndsLoop(k),
               inbox' = SubSeq(inbox, k + 1, Len(inbox))
        PROVE  peer # "open" /\ inbox' = << >>
    <3>1. k = 0 /\ So!AtEnd
      BY <1>1, <2>2 DEF So!EndsLoop, So!Pieces
    <3> QED
      BY <2>2, <3>1 DEF So!AtEnd
  <2>3. ASSUME NEW k \in (IF So!AtEnd THEN {0} ELSE So!Pieces(ReadBuffer)), ~So!EndsLoop(k), UNCHANGED << got, call >>
        PROVE  FALSE
    BY <2>3
  <2> QED
    BY <1>2, <2>1, <2>2, <2>3 DEF So!ReadStep
<1>3. CASE \E host \in So!Hosts, port \in Ports : So!sock_sockaddr_in(port, host)
  BY <1>3 DEF So!sock_sockaddr_in, So!Ready
<1>4. CASE \/ So!sock_socket \/ So!sock_sock_bind \/ So!sock_sock_connect \/ So!sock_sock_listen
           \/ So!sock_sock_accept \/ So!sock_sock_close
  BY <1>4 DEF So!sock_socket, So!sock_sock_bind, So!sock_sock_connect, So!sock_sock_listen, So!sock_sock_accept,
              So!sock_sock_close, So!Ready
<1>5. CASE So!PeerSends \/ So!PeerCloses \/ So!PeerResets
  BY <1>5 DEF So!PeerSends, So!PeerCloses, So!PeerResets, So!reading
<1>6. CASE So!sock_read \/ (\E n \in Lengths : So!ReadLength(n)) \/ So!sock_write
  BY <1>6 DEF So!sock_read, So!ReadLength, So!sock_write, So!Ready
<1>7. CASE UNCHANGED sockVars
  BY <1>7 DEF sockVars
<1> QED
  BY <1>2, <1>3, <1>4, <1>5, <1>6, <1>7 DEF So!Next

-----------------------------------------------------------------------------
(* The parts together: PartsSpec moves one of them and leaves the others. *)

StreamsKeep == FilesKeep /\ SocketsKeep

LEMMA PartsBegin == PartsInit => Owners /\ StreamsKeep
BY PartsAssumption, OwnersInit, FilesInit, SocketsInit DEF PartsInit, StreamsKeep

LEMMA PartMoves ==
  ASSUME [PartsNext]_<< part, vars, fileVars, sockVars >>
  PROVE  [Next]_vars /\ [Fi!Next]_fileVars /\ [So!Next]_sockVars
BY DEF PartsNext, HandlesStep, FilesStep, SocketsStep

LEMMA StreamsNext ==
  ASSUME StreamsKeep, [PartsNext]_<< part, vars, fileVars, sockVars >>
  PROVE  StreamsKeep'
BY PartMoves, PartsAssumption, FilesNext, SocketsNext DEF StreamsKeep

\* FileValue, Socket and Dir: nothing open is lost by a program that closes no socket twice; the file
\* is what was written, in any mode, for any texts, offsets and buffer, once nothing writes it; a
\* socket is connected where it was asked to, in both byte orders; its reads give each byte of the
\* stream once and in order, and its writes the message.
THEOREM NothingLostCorrect == ASSUME ~ClosesTwice PROVE PartsSpec => []NothingLost
<1>1. ASSUME Owners, StreamsKeep
      PROVE  NothingLost
  BY <1>1, PartsAssumption, OwnersServe, FilesServe, SocketsServe DEF StreamsKeep, NothingLost
<1>2. ASSUME Owners, [PartsNext]_<< part, vars, fileVars, sockVars >>
      PROVE  Owners'
  BY <1>2, PartMoves, OwnersNext
<1> QED
  BY PartsBegin, StreamsNext, <1>1, <1>2, PTL DEF PartsSpec

\* file_getc gives every byte of the file, 0 and 255 too, and undef at its end only; read() of a socket
\* without a length ends where the stream does.
THEOREM ReadsToTheEndCorrect == PartsSpec => ReadsToTheEnd
<1>1. ASSUME StreamsKeep, [PartsNext]_<< part, vars, fileVars, sockVars >>
      PROVE  (part = "files" => Fi!GetcStep) /\ (part = "sockets" => So!ReadEndsStep)
  BY <1>1, PartMoves, PartsAssumption, GetcGives, ReadEnds DEF StreamsKeep
<1> QED
  BY PartsBegin, StreamsNext, <1>1, PTL DEF PartsSpec, ReadsToTheEnd
=============================================================================
