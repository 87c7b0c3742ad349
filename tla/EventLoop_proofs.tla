-------------------------- MODULE EventLoop_proofs --------------------------
(***************************************************************************)
(* Programs that wait for a request before they make another of its kind:  *)
(* each event runs the function that was passed for it, for any number of  *)
(* handles.  Texts of any length come back from their escaped forms.       *)
(***************************************************************************)
EXTENDS MCEvents, WellFoundedInduction, TLAPS

Slots == Functions \union {NULL}

Handles == [kind : Kinds, link : {"none", "connecting", "listening", "connected"},
            state : {"open", "closing", "closed", "deleted"}, active : SUBSET Events,
            cb : [Events -> Slots], passed : [Events -> Slots]]

Typed == handles \in Seq(Handles) /\ req \in [Requests -> Nat]

\* What _uv_data has is what the program passed.
SlotsAsPassed == \A h \in DOMAIN handles : handles[h].cb = handles[h].passed

\* A static request belongs to the one handle that waits for it.
OneInFlight == \A h \in DOMAIN handles, r \in Requests : r \in handles[h].active => req[r] = h

Own == Typed /\ SlotsAsPassed /\ OneInFlight

\* One element of a sequence is replaced.
LEMMA Replaced ==
  ASSUME NEW S, NEW s \in Seq(S), NEW n \in DOMAIN s, NEW x \in S
  PROVE  /\ [s EXCEPT ![n] = x] \in Seq(S) /\ DOMAIN [s EXCEPT ![n] = x] = DOMAIN s
         /\ [s EXCEPT ![n] = x][n] = x
         /\ \A j \in DOMAIN s \ {n} : [s EXCEPT ![n] = x][j] = s[j]
OBVIOUS

\* A handle changes: it waits for no request it has not waited for, or for one nobody else waits for.
LEMMA Updates ==
  ASSUME Own, NEW h \in DOMAIN handles, NEW new \in Handles, handles' = [handles EXCEPT ![h] = new],
         new.cb = new.passed, req' \in [Requests -> Nat],
         \A r \in Requests :
           \/ req'[r] = req[r] /\ (r \in new.active => r \in handles[h].active)
           \/ req'[r] = h /\ ~InFlight(r)
  PROVE  Own'
<1>1. handles \in Seq(Handles) /\ SlotsAsPassed /\ OneInFlight
  BY DEF Own, Typed
<1>2. /\ handles' \in Seq(Handles) /\ DOMAIN handles' = DOMAIN handles /\ handles'[h] = new
      /\ \A g \in DOMAIN handles \ {h} : handles'[g] = handles[g]
  BY <1>1, Replaced
<1>3. SlotsAsPassed'
  BY <1>1, <1>2 DEF SlotsAsPassed
<1>4. OneInFlight'
  <2> SUFFICES ASSUME NEW g \in DOMAIN handles, NEW r \in Requests, r \in handles'[g].active
               PROVE  req'[r] = g
    BY <1>2 DEF OneInFlight
  <2>1. CASE g = h
    <3>1. \/ req'[r] = h
          \/ req'[r] = req[r] /\ r \in handles[h].active
      BY <2>1, <1>2
    <3> QED
      BY <3>1, <2>1, <1>1 DEF OneInFlight
  <2>2. CASE g # h
    <3>1. r \in handles[g].active
      BY <2>2, <1>2
    <3> QED
      BY <3>1, <1>1 DEF OneInFlight, InFlight
  <2> QED
    BY <2>1, <2>2
<1> QED
  BY <1>2, <1>3, <1>4 DEF Own, Typed

\* Nothing of the handles changes.
LEMMA Others == ASSUME Own, UNCHANGED << handles, req >> PROVE Own'
BY DEF Own, Typed, SlotsAsPassed, OneInFlight

LEMMA OwnInit == Init => Own
<1> SUFFICES ASSUME Init PROVE Own
  OBVIOUS
<1>1. handles \in Seq(Handles) /\ DOMAIN handles = {}
  <2>1. handles = << >>
    BY DEF Init
  <2>2. << >> \in Seq(Handles) /\ Len(<< >>) = 0
    OBVIOUS
  <2> QED
    BY <2>1, <2>2
<1>2. req \in [Requests -> Nat]
  BY DEF Init
<1> QED
  BY <1>1, <1>2 DEF Own, Typed, SlotsAsPassed, OneInFlight

\* A new handle waits for nothing.
LEMMA MadeStep == ASSUME Own, NEW kd, NEW link \in {"none", "connected"}, Made(kd, link), req' = req PROVE Own'
<1> DEFINE new == Handle(kd, link)
<1>1. handles \in Seq(Handles) /\ req \in [Requests -> Nat] /\ SlotsAsPassed /\ OneInFlight
  BY DEF Own, Typed
<1>2. handles' = Append(handles, new) /\ kd \in Kinds
  BY DEF Made
<1>3. new \in Handles /\ new.active = {} /\ new.cb = new.passed
  BY <1>2 DEF Handle, Handles, Slots
<1> HIDE DEF new
<1>4. /\ handles' \in Seq(Handles) /\ DOMAIN handles' = DOMAIN handles \union {Len(handles) + 1}
      /\ handles'[Len(handles) + 1] = new
      /\ \A h \in DOMAIN handles : handles'[h] = handles[h]
  BY <1>1, <1>2, <1>3
<1>5. SlotsAsPassed'
  BY <1>1, <1>3, <1>4 DEF SlotsAsPassed
<1>6. OneInFlight'
  BY <1>1, <1>3, <1>4 DEF OneInFlight
<1> QED
  BY <1>1, <1>4, <1>5, <1>6 DEF Own, Typed

\* A function is passed for an event.
LEMMA RegisteredStep ==
  ASSUME Own, NEW h \in DOMAIN handles, NEW event \in Events, NEW f \in Slots,
         NEW link \in {"none", "connecting", "listening", "connected"},
         handles' = Registered(h, event, f, link),
         \/ event \notin Requests /\ req' = req
         \/ event \in Requests /\ req' = [req EXCEPT ![event] = h] /\ ~InFlight(event)
  PROVE  Own'
<1> DEFINE old == handles[h]
           new == [old EXCEPT !.cb = [old.cb EXCEPT ![event] = f], !.passed = [old.passed EXCEPT ![event] = f],
                              !.active = old.active \union {event}, !.link = link]
<1>1. old \in Handles /\ req \in [Requests -> Nat] /\ old.cb = old.passed
  BY DEF Own, Typed, SlotsAsPassed
<1>2. handles' = [handles EXCEPT ![h] = new]
  BY DEF Registered, Slot
<1>3. new \in Handles /\ new.active = old.active \union {event} /\ new.cb = new.passed
  BY <1>1 DEF Handles
<1>4. h \in Nat
  BY DEF Own, Typed
<1>5. req' \in [Requests -> Nat]
  BY <1>1, <1>4
<1>6. \A r \in Requests : \/ req'[r] = req[r] /\ (r \in new.active => r \in old.active)
                          \/ req'[r] = h /\ ~InFlight(r)
  BY <1>1, <1>3
<1> HIDE DEF new
<1> QED
  BY <1>2, <1>3, <1>5, <1>6, Updates

\* A handle waits for less than before.
LEMMA LessStep ==
  ASSUME Own, NEW h \in DOMAIN handles, NEW new \in Handles, handles' = [handles EXCEPT ![h] = new],
         new.cb = new.passed, new.active \subseteq handles[h].active \union {"close"}, req' = req
  PROVE  Own'
<1>1. req' \in [Requests -> Nat]
  BY DEF Own, Typed
<1>2. \A r \in Requests : req'[r] = req[r] /\ (r \in new.active => r \in handles[h].active)
  BY DEF Requests
<1> QED
  BY <1>1, <1>2, Updates

\* What is known of one handle.
LEMMA OneHandle ==
  ASSUME Own, NEW h \in DOMAIN handles
  PROVE  /\ handles \in Seq(Handles) /\ h \in Nat /\ handles[h] \in Handles
         /\ handles[h].cb = handles[h].passed /\ req \in [Requests -> Nat]
BY DEF Own, Typed, SlotsAsPassed

\* Less is asked for, or another state or link is reached.
LEMMA ChangedStep ==
  ASSUME Own, NEW h \in DOMAIN handles, NEW active \in SUBSET Events,
         active \subseteq handles[h].active \union {"close"},
         NEW state \in {"open", "closing", "closed", "deleted"},
         NEW link \in {"none", "connecting", "listening", "connected"},
         handles' = [handles EXCEPT ![h] = [handles[h] EXCEPT !.active = active, !.state = state, !.link = link]],
         req' = req
  PROVE  Own'
<1> DEFINE new == [handles[h] EXCEPT !.active = active, !.state = state, !.link = link]
<1>1. handles[h] \in Handles /\ handles[h].cb = handles[h].passed
  BY OneHandle
<1>2. new \in Handles /\ new.active = active /\ new.cb = new.passed
  BY <1>1 DEF Handles
<1>3. handles' = [handles EXCEPT ![h] = new]
  OBVIOUS
<1> HIDE DEF new
<1> QED
  BY <1>2, <1>3, LessStep

LEMMA StopsStep == ASSUME Own, NEW h \in DOMAIN handles, NEW event \in Events, Stops(h, event) PROVE Own'
<1> DEFINE old == handles[h]
<1>1. old \in Handles
  BY OneHandle
<1>2. handles' = [handles EXCEPT ![h] = [old EXCEPT !.active = old.active \ {event},
                                                     !.state = old.state, !.link = old.link]]
  BY <1>1 DEF Stops, Handles
<1>3. /\ old.active \ {event} \in SUBSET Events /\ old.state \in {"open", "closing", "closed", "deleted"}
      /\ old.link \in {"none", "connecting", "listening", "connected"}
  BY <1>1 DEF Handles
<1>4. req' = req
  BY DEF Stops
<1> HIDE DEF old
<1> QED
  BY <1>2, <1>3, <1>4, ChangedStep DEF old

LEMMA ClosingStep ==
  ASSUME Own, NEW h \in DOMAIN handles, NEW f \in Slots, handles' = Closing(h, f), req' = req
  PROVE  Own'
<1> DEFINE old == handles[h]
           new == [old EXCEPT !.state = "closing", !.active = {"close"},
                              !.cb = [old.cb EXCEPT !["close"] = f],
                              !.passed = [old.passed EXCEPT !["close"] = f]]
<1>1. old \in Handles /\ old.cb = old.passed
  BY OneHandle
<1>2. handles' = [handles EXCEPT ![h] = new]
  BY DEF Closing
<1>3. new \in Handles /\ new.active = {"close"} /\ new.cb = new.passed
  BY <1>1 DEF Handles, Events
<1> HIDE DEF new
<1> QED
  BY <1>2, <1>3, LessStep

LEMMA DestroyStep == ASSUME Own, NEW h \in DOMAIN handles, _uv_DESTROY(h) PROVE Own'
<1> DEFINE old == handles[h]
<1>1. old \in Handles
  BY OneHandle
<1>2. CASE handles' = handles
  BY <1>2, Others DEF _uv_DESTROY
<1>3. CASE handles' = [handles EXCEPT ![h].state = "deleted", ![h].active = {}]
  <2>1. handles' = [handles EXCEPT ![h] = [old EXCEPT !.active = {}, !.state = "deleted", !.link = old.link]]
    BY <1>1, <1>3 DEF Handles
  <2>2. old.link \in {"none", "connecting", "listening", "connected"} /\ req' = req
    BY <1>1 DEF Handles, _uv_DESTROY
  <2> HIDE DEF old
  <2> QED
    BY <2>1, <2>2, ChangedStep DEF old
<1> QED
  BY <1>2, <1>3 DEF _uv_DESTROY

\* The event that ends what a handle waits for.
LEMMA EventStep == ASSUME Own, NEW h \in DOMAIN handles, NEW e \in Events, Event(h, e) PROVE Own'
<1> DEFINE old == handles[h]
<1>1. old \in Handles
  BY OneHandle
<1>2. handles' = AfterEvent(h, e)
  BY DEF Event
<1> req' = req
  BY DEF Event
<1>3. /\ old.active \ {e} \in SUBSET Events /\ old.state \in {"open", "closing", "closed", "deleted"}
      /\ old.link \in {"none", "connecting", "listening", "connected"}
  BY <1>1 DEF Handles
<1>4. CASE e = "connect"
  <2>1. handles' = [handles EXCEPT ![h] = [old EXCEPT !.active = old.active \ {e}, !.state = old.state,
                                                       !.link = "connected"]]
    BY <1>1, <1>2, <1>4 DEF AfterEvent, Handles
  <2> HIDE DEF old
  <2> QED
    BY <2>1, <1>3, ChangedStep DEF old
<1>5. CASE e = "write"
  <2>1. handles' = [handles EXCEPT ![h] = [old EXCEPT !.active = old.active \ {e}, !.state = old.state,
                                                       !.link = old.link]]
    BY <1>1, <1>2, <1>5 DEF AfterEvent, Handles
  <2> HIDE DEF old
  <2> QED
    BY <2>1, <1>3, ChangedStep DEF old
<1>6. CASE e = "close"
  <2>1. handles' = [handles EXCEPT ![h] = [old EXCEPT !.active = {}, !.state = "closed", !.link = old.link]]
    BY <1>1, <1>2, <1>6 DEF AfterEvent, Handles
  <2>2. {} \in SUBSET Events /\ {} \subseteq old.active \union {"close"}
        /\ "closed" \in {"open", "closing", "closed", "deleted"}
    OBVIOUS
  <2> HIDE DEF old
  <2> QED
    BY <2>1, <2>2, <1>3, ChangedStep DEF old
<1>7. CASE e \notin {"connect", "write", "close"}
  BY <1>2, <1>7, Others DEF AfterEvent
<1> QED
  BY <1>4, <1>5, <1>6, <1>7

-----------------------------------------------------------------------------
(* Every step keeps the requests with their owners. *)

\* The actions that ask for an event with a function.
LEMMA AsksStep ==
  ASSUME Own, OneRequest, NEW h \in DOMAIN handles, NEW f \in Slots,
         \/ _uv_timer_start(h, f) \/ _uv_idle_start(h, f) \/ _uv_read(h, f)
         \/ _uv_tcp_connect(h, f) \/ _uv_listen(h, f)
  PROVE  Own'
<1>1. handles[h].link \in {"none", "connecting", "listening", "connected"}
  BY OneHandle DEF Handles
<1>2. ASSUME NEW e \in Events \ Requests, Starts(h, e, f) PROVE Own'
  BY <1>1, <1>2, RegisteredStep DEF Starts
<1>3. CASE _uv_timer_start(h, f)
  BY <1>2, <1>3 DEF _uv_timer_start, Events, Requests
<1>4. CASE _uv_idle_start(h, f)
  BY <1>2, <1>4 DEF _uv_idle_start, Events, Requests
<1>5. CASE _uv_read(h, f)
  BY <1>2, <1>5 DEF _uv_read, Events, Requests
<1>6. CASE _uv_tcp_connect(h, f)
  <2>1. handles' = Registered(h, "connect", f, "connecting") /\ req' = [req EXCEPT !["connect"] = h]
        /\ ~InFlight("connect")
    BY <1>6 DEF _uv_tcp_connect
  <2>2. "connect" \in Events /\ "connect" \in Requests
    BY DEF Events, Requests
  <2> QED
    BY <2>1, <2>2, RegisteredStep
<1>7. CASE _uv_listen(h, f)
  <2>1. handles' = Registered(h, "connection", f, "listening") /\ req' = req
    BY <1>7 DEF _uv_listen
  <2>2. "connection" \in Events /\ "connection" \notin Requests
    BY DEF Events, Requests
  <2> QED
    BY <2>1, <2>2, RegisteredStep
<1> QED
  BY <1>3, <1>4, <1>5, <1>6, <1>7

LEMMA WriteStep ==
  ASSUME Own, OneRequest, NEW h \in DOMAIN handles, NEW text, NEW f \in Slots, _uv_write(h, text, f)
  PROVE  Own'
<1>1. CASE f = NULL
  BY <1>1, Others DEF _uv_write
<1>2. CASE f # NULL
  <2>1. /\ handles' = Registered(h, "write", f, "connected") /\ req' = [req EXCEPT !["write"] = h]
        /\ ~InFlight("write")
    BY <1>2 DEF _uv_write
  <2>2. "write" \in Events /\ "write" \in Requests
    BY DEF Events, Requests
  <2> QED
    BY <2>1, <2>2, RegisteredStep
<1> QED
  BY <1>1, <1>2

LEMMA OwnNext == ASSUME Own, OneRequest, [Next]_vars PROVE Own'
<1>1. CASE UNCHANGED vars
  BY <1>1, Others DEF vars
<1>2. CASE _uv_timer_new \/ _uv_idle_new \/ _uv_tcp_new
  BY <1>2, MadeStep DEF _uv_timer_new, _uv_idle_new, _uv_tcp_new
<1>3. CASE _uv_loop_unref \/ _uv_loop_ref \/ _uv_loop_run \/ uv_run_returns \/ Return
  BY <1>3, Others DEF _uv_loop_unref, _uv_loop_ref, _uv_loop_run, uv_run_returns, Return
<1>4. ASSUME NEW h \in DOMAIN handles, _uv_timer_stop(h) \/ _uv_idle_stop(h) PROVE Own'
  BY <1>4, StopsStep DEF _uv_timer_stop, _uv_idle_stop, Events
<1>5. ASSUME NEW h \in DOMAIN handles, _uv_accept(h) PROVE Own'
  BY <1>5, MadeStep DEF _uv_accept
<1>6. ASSUME NEW h \in DOMAIN handles, _uv_DESTROY(h) PROVE Own'
  BY <1>6, DestroyStep
<1>7. ASSUME NEW h \in DOMAIN handles, NEW e \in Events, Event(h, e) PROVE Own'
  BY <1>7, EventStep
<1>8. ASSUME NEW h \in DOMAIN handles, NEW f \in Slots, _uv_timer_start(h, f) PROVE Own'
  BY <1>8, AsksStep
<1>9. ASSUME NEW h \in DOMAIN handles, NEW f \in {"other", NULL},
             \/ _uv_idle_start(h, f) \/ _uv_tcp_connect(h, f) \/ _uv_listen(h, f)
             \/ _uv_read(h, f) \/ _uv_close(h, f)
             \/ \E t \in Texts : _uv_write(h, t, f)
      PROVE  Own'
  <2>1. f \in Slots
    BY DEF Slots, Functions
  <2>2. CASE _uv_close(h, f)
    BY <2>1, <2>2, ClosingStep DEF _uv_close
  <2>3. CASE \E t \in Texts : _uv_write(h, t, f)
    BY <2>1, <2>3, WriteStep
  <2>4. CASE _uv_idle_start(h, f) \/ _uv_tcp_connect(h, f) \/ _uv_listen(h, f) \/ _uv_read(h, f)
    BY <2>1, <2>4, AsksStep
  <2> QED
    BY <1>9, <2>2, <2>3, <2>4
<1> QED
  BY <1>1, <1>2, <1>3, <1>4, <1>5, <1>6, <1>7, <1>8, <1>9 DEF Next, Slots

-----------------------------------------------------------------------------
(* The theorem. *)

\* Each event of libuv runs the function the program passed for it, however many sockets
\* there are, if it waits for the one connect_req (uv.cc:196) and the one write_req
\* (uv.cc:226) before it makes another.
THEOREM RunsOwnCorrect == ASSUME OneRequest PROVE Spec => RunsOwn
<1>1. ASSUME Own, NEW h \in DOMAIN handles, NEW e \in Events, Event(h, e)
      PROVE  current'[3] = handles[current'[1]].passed[current'[2]]
  <2>1. DataOf(h, e) = h
    BY <1>1 DEF Own, OneInFlight, Event, DataOf
  <2>2. handles[h].cb = handles[h].passed
    BY <1>1, OneHandle
  <2>3. current' = << h, e, handles[h].cb[e] >>
    BY <1>1, <2>1 DEF Event, CalledBack
  <2> QED
    BY <2>2, <2>3
<1>2. Own => \A h \in DOMAIN handles, e \in Events :
                Event(h, e) => current'[3] = handles[current'[1]].passed[current'[2]]
  BY <1>1
<1>3. Own /\ [Next]_vars => Own'
  BY OwnNext
<1> QED
  BY <1>2, <1>3, OwnInit, PTL DEF Spec, RunsOwn

-----------------------------------------------------------------------------
(* Texts and their escaped forms. *)

LEMMA LeastNat ==
  ASSUME NEW T \in SUBSET Nat, T # {}
  PROVE  \E x \in T : \A y \in T : x <= y
<1> DEFINE R == OpToRel(<, Nat)
<1>1. PICK x \in T : \A y \in T : ~(<< y, x >> \in R)
  BY NatLessThanWellFounded, WFMin
<1>2. x \in Nat /\ \A y \in T : y \in Nat /\ ~(y < x)
  BY <1>1 DEF OpToRel
<1> QED
  BY <1>2

Byte == 0..255

\* The escaped form of a byte.
Escaped(c) ==
  IF Uri!nu_isuric(c) THEN << Uri!Percent, Uri!nu_hex_char(Uri!High(c)), Uri!nu_hex_char(Uri!Low(c)) >> ELSE << c >>

\* Two digits of a byte, whose sign is taken off.
LEMMA DigitsOf ==
  ASSUME NEW c \in Byte
  PROVE  Uri!High(c) \in 0..15 /\ Uri!Low(c) \in 0..15 /\ c = Uri!High(c) * 16 + Uri!Low(c)
<1> DEFINE d == Uri!Signed(c)
<1>1. d \in Int /\ (c < 128 => d = c) /\ (~(c < 128) => d = c - 256)
  BY DEF Uri!Signed, Byte
<1> HIDE DEF d
<1> DEFINE q == d \div 16
           r == d % 16
<1>2. q \in Int /\ r \in 0..15 /\ d = 16 * q + r
  BY <1>1, SMTT(40)
<1>3. Uri!Low(c) = r /\ Uri!High(c) = q % 16
  BY DEF Uri!Low, Uri!High, d
<1> HIDE DEF q, r
<1>4. c < 128 => q \in 0..7
  BY <1>1, <1>2 DEF Byte
<1>5. ~(c < 128) => q \in -8..-1
  BY <1>1, <1>2 DEF Byte
<1>6. q \in 0..7 => q % 16 = q
  BY SMTT(40)
<1>7. q \in -8..-1 => q % 16 = q + 16
  BY SMTT(40)
<1> QED
  BY <1>1, <1>2, <1>3, <1>4, <1>5, <1>6, <1>7 DEF Byte

LEMMA HexComesBack ==
  ASSUME NEW n \in 0..15
  PROVE  /\ Uri!nu_hex_char(n) \in Byte \ {0} /\ Uri!nu_unhex(Uri!nu_hex_char(n)) = n
BY DEF Uri!nu_hex_char, Uri!nu_unhex, Uri!Zero, Uri!Digits, Byte
LEMMA EscapedIs ==
  ASSUME NEW c \in Byte
  PROVE  LET t == Escaped(c) IN
         /\ t \in Seq(Byte)
         /\ \/ Len(t) = 1 /\ t[1] = c /\ c # Uri!Percent
            \/ /\ Len(t) = 3 /\ t[1] = Uri!Percent /\ t[2] # 0 /\ t[3] # 0
               /\ (Uri!nu_unhex(t[2]) * 16 + Uri!nu_unhex(t[3])) % 256 = c
<1> DEFINE h == Uri!High(c)
           l == Uri!Low(c)
           a == Uri!nu_hex_char(h)
           b == Uri!nu_hex_char(l)
           t == Escaped(c)
<1>1. h \in 0..15 /\ l \in 0..15 /\ c = h * 16 + l
  BY DigitsOf
<1> HIDE DEF h, l
<1>2. a \in Byte /\ a # 0 /\ Uri!nu_unhex(a) = h /\ b \in Byte /\ b # 0 /\ Uri!nu_unhex(b) = l
  BY <1>1, HexComesBack
<1>3. Uri!Percent \in Byte
  BY DEF Uri!Percent, Byte
<1>4. CASE Uri!nu_isuric(c)
  <2>1. t = << Uri!Percent, a, b >>
    BY <1>4 DEF Escaped, h, l
  <2> HIDE DEF t, a, b
  <2>2. t \in Seq(Byte) /\ Len(t) = 3 /\ t[1] = Uri!Percent /\ t[2] = a /\ t[3] = b
    BY <1>2, <1>3, <2>1
  <2>3. (h * 16 + l) % 256 = c
    BY <1>1 DEF Byte
  <2> QED
    BY <1>2, <2>2, <2>3 DEF t
<1>5. CASE ~Uri!nu_isuric(c)
  <2>1. t = << c >>
    BY <1>5 DEF Escaped
  <2>2. c # Uri!Percent
    BY <1>5 DEF Uri!nu_isuric, Uri!Plain, Uri!Letters, Uri!Capitals, Uri!Digits, Uri!Percent
  <2> HIDE DEF t
  <2> QED
    BY <2>1, <2>2 DEF t
<1> QED
  BY <1>4, <1>5

\* f gives the escaped forms of the first n bytes.
Escapes(f, s, n) ==
  f = [m \in 0..n |-> IF m = 0 THEN << >> ELSE f[m-1] \o Escaped(s[m])]

LEMMA EscapesExist ==
  ASSUME NEW s, NEW n \in Nat
  PROVE  \E f : Escapes(f, s, n)
<1> DEFINE T == {m \in Nat : ~\E f : Escapes(f, s, m)}
<1> SUFFICES ASSUME T # {} PROVE FALSE
  OBVIOUS
<1>1. PICK k \in T : \A m \in T : k <= m
  <2>1. T \in SUBSET Nat
    OBVIOUS
  <2> HIDE DEF T
  <2> QED
    BY <2>1, LeastNat
<1>2. k \in Nat /\ ~\E f : Escapes(f, s, k)
  OBVIOUS
<1>3. k # 0
  <2>1. Escapes([m \in 0..0 |-> << >>], s, 0)
    BY DEF Escapes
  <2> QED
    BY <1>2, <2>1
<1>4. k - 1 \in Nat /\ k - 1 \notin T
  BY <1>1, <1>2, <1>3, SMTT(40)
<1>5. PICK f : Escapes(f, s, k - 1)
  BY <1>4
<1> DEFINE last == f[k-1] \o Escaped(s[k])
           g == [m \in 0..k |-> IF m = k THEN last ELSE f[m]]
<1> HIDE DEF last
<1>6. g[k] = last /\ \A m \in 0..k - 1 : g[m] = f[m]
  BY <1>2
<1>7. g = [m \in 0..k |-> g[m]]
  OBVIOUS
<1> HIDE DEF g
<1>8. k - 1 \in 0..k - 1 /\ 0 \in 0..k - 1
  BY <1>2, <1>3
<1>9. \A m \in 0..k : g[m] = IF m = 0 THEN << >> ELSE g[m-1] \o Escaped(s[m])
  <2> TAKE m \in 0..k
  <2>1. CASE m = 0
    <3>1. f[0] = << >>
      BY <1>5, <1>8 DEF Escapes
    <3> QED
      BY <1>6, <1>8, <2>1, <3>1
  <2>2. CASE m = k
    BY <1>3, <1>6, <1>8, <2>2 DEF last
  <2>3. CASE m # 0 /\ m # k
    <3>1. m \in 0..k - 1 /\ m - 1 \in 0..k - 1
      BY <1>2, <2>3
    <3>2. f[m] = f[m-1] \o Escaped(s[m])
      BY <1>5, <2>3, <3>1 DEF Escapes
    <3> QED
      BY <1>6, <2>3, <3>1, <3>2
  <2> QED
    BY <2>1, <2>2, <2>3
<1>10. Escapes(g, s, k)
  BY <1>7, <1>9, Zenon DEF Escapes
<1> QED
  BY <1>2, <1>10

\* nu_escape_uri puts the escaped forms of the bytes one behind the other.
LEMMA EscapeIs ==
  ASSUME NEW s \in Seq(Byte)
  PROVE  \E f : Escapes(f, s, Len(s)) /\ Uri!nu_escape_uri(s) = f[Len(s)]
<1> DEFINE l == Len(s)
           f == CHOOSE g : g = [m \in 0..l |->
                  IF m = 0 THEN << >>
                  ELSE g[m-1] \o IF Uri!nu_isuric(s[m])
                                 THEN << Uri!Percent, Uri!nu_hex_char(Uri!High(s[m])), Uri!nu_hex_char(Uri!Low(s[m])) >>
                                 ELSE << s[m] >>]
<1>1. l \in Nat
  OBVIOUS
<1>2. Uri!nu_escape_uri(s) = f[l]
  BY DEF Uri!nu_escape_uri
<1>3. f = CHOOSE g : Escapes(g, s, l)
  BY Zenon DEF Escapes, Escaped
<1> HIDE DEF f
<1>4. Escapes(f, s, l)
  BY <1>1, <1>3, EscapesExist
<1> QED
  BY <1>2, <1>4

LEMMA ConcatBytes ==
  ASSUME NEW s \in Seq(Byte), NEW t \in Seq(Byte)
  PROVE  /\ s \o t \in Seq(Byte) /\ Len(s \o t) = Len(s) + Len(t)
         /\ \A j \in 1..Len(s) : (s \o t)[j] = s[j]
         /\ \A j \in 1..Len(t) : (s \o t)[Len(s) + j] = t[j]
OBVIOUS

\* Text f[m] goes on from text f[m-1] with the escaped form of byte m.
GoesOn(f, s, m) ==
  /\ f[m-1] \in Seq(Byte) /\ f[m] \in Seq(Byte) /\ Len(f[m]) = Len(f[m-1]) + Len(Escaped(s[m]))
  /\ \A j \in 1..Len(f[m-1]) : f[m][j] = f[m-1][j]
  /\ \A j \in 1..Len(Escaped(s[m])) : f[m][Len(f[m-1]) + j] = Escaped(s[m])[j]

LEMMA EscapesGoOn ==
  ASSUME NEW s \in Seq(Byte), NEW f, Escapes(f, s, Len(s))
  PROVE  f[0] = << >> /\ \A m \in 1..Len(s) : GoesOn(f, s, m)
<1> DEFINE n == Len(s)
<1>1. n \in Nat /\ \A m \in 1..n : s[m] \in Byte
  OBVIOUS
<1> HIDE DEF n
<1>2. f = [m \in 0..n |-> IF m = 0 THEN << >> ELSE f[m-1] \o Escaped(s[m])]
  BY DEF Escapes, n
<1>3. f[0] = << >>
  <2>1. 0 \in 0..n
    BY <1>1
  <2> QED
    BY <1>2, <2>1
<1>4. ASSUME NEW m \in 1..n PROVE f[m] = f[m-1] \o Escaped(s[m]) /\ m - 1 \in 0..n
  <2> DEFINE g(k) == IF k = 0 THEN << >> ELSE f[k-1] \o Escaped(s[k])
  <2>1. f = [k \in 0..n |-> g(k)]
    BY <1>2, Zenon
  <2>2. m \in 0..n /\ m # 0 /\ m - 1 \in 0..n
    BY <1>1
  <2>3. f[m] = g(m)
    <3> HIDE DEF g
    <3> QED
      BY <2>1, <2>2
  <2> QED
    BY <2>2, <2>3
<1>5. \A m \in 0..n : f[m] \in Seq(Byte)
  <2> DEFINE T == {m \in 0..n : f[m] \notin Seq(Byte)}
  <2> SUFFICES ASSUME T # {} PROVE FALSE
    OBVIOUS
  <2>1. PICK k \in T : \A m \in T : k <= m
    <3>1. T \in SUBSET Nat
      BY <1>1
    <3> HIDE DEF T
    <3> QED
      BY <3>1, LeastNat
  <2>2. k # 0
    <3>1. << >> \in Seq(Byte) /\ f[k] \notin Seq(Byte)
      OBVIOUS
    <3> QED
      BY <1>3, <3>1, Zenon
  <2>3. k \in 1..n
    BY <1>1, <2>2
  <2>4. f[k-1] \in Seq(Byte)
    <3>1. k - 1 \in 0..n /\ ~(k <= k - 1)
      BY <1>1, <2>3
    <3>2. k - 1 \notin T
      BY <2>1, <3>1
    <3> QED
      BY <3>1, <3>2, Zenon
  <2>5. Escaped(s[k]) \in Seq(Byte)
    BY <1>1, <2>3, EscapedIs
  <2>6. f[k] \in Seq(Byte)
    BY <1>4, <2>3, <2>4, <2>5, ConcatBytes
  <2> QED
    BY <2>6
<1>6. ASSUME NEW m \in 1..n PROVE GoesOn(f, s, m)
  <2> DEFINE a == f[m-1]
             b == Escaped(s[m])
             c == f[m]
  <2>1. a \in Seq(Byte) /\ b \in Seq(Byte) /\ c = a \o b /\ c \in Seq(Byte)
    <3>1. m \in 0..n
      BY <1>1
    <3> QED
      BY <1>1, <1>4, <1>5, <3>1, EscapedIs
  <2> HIDE DEF a, b, c
  <2>2. /\ Len(c) = Len(a) + Len(b) /\ (\A j \in 1..Len(a) : c[j] = a[j])
        /\ \A j \in 1..Len(b) : c[Len(a) + j] = b[j]
    BY <2>1, ConcatBytes
  <2> QED
    BY <2>1, <2>2 DEF GoesOn, a, b, c
<1> QED
  BY <1>3, <1>6 DEF n

\* What is escaped stays as it is.
Begun(t, u) == Len(t) <= Len(u) /\ \A j \in 1..Len(t) : u[j] = t[j]

LEMMA EscapesStay ==
  ASSUME NEW s \in Seq(Byte), NEW f, \A m \in 1..Len(s) : GoesOn(f, s, m), NEW k \in 1..Len(s)
  PROVE  \A m \in k..Len(s) : Begun(f[k], f[m])
<1> DEFINE n == Len(s)
<1>1. n \in Nat /\ k \in Nat /\ k # 0 /\ k <= n
  OBVIOUS
<1>2. \A m \in 1..n : GoesOn(f, s, m)
  OBVIOUS
<1> HIDE DEF n
<1> DEFINE T == {m \in k..n : ~Begun(f[k], f[m])}
<1> SUFFICES ASSUME T # {} PROVE FALSE
  BY DEF n
<1>3. PICK a \in T : \A m \in T : a <= m
  <2>1. T \in SUBSET Nat
    BY <1>1
  <2> HIDE DEF T
  <2> QED
    BY <2>1, LeastNat
<1>4. f[k] \in Seq(Byte) /\ Len(f[k]) \in Nat
  <2>1. f[k] \in Seq(Byte)
    BY <1>1, <1>2 DEF GoesOn
  <2> QED
    BY <2>1
<1>5. a # k
  <2>1. Begun(f[k], f[k])
    BY <1>4 DEF Begun
  <2> QED
    BY <2>1
<1>6. a \in 1..n /\ a - 1 \in k..n /\ ~(a <= a - 1)
  BY <1>1, <1>5
<1>7. Begun(f[k], f[a-1])
  BY <1>3, <1>6
<1>8. GoesOn(f, s, a)
  BY <1>2, <1>6
<1>9. Len(f[a-1]) \in Nat /\ Len(Escaped(s[a])) \in Nat
  <2>1. f[a-1] \in Seq(Byte) /\ s[a] \in Byte
    BY <1>6, <1>8 DEF GoesOn, n
  <2>2. Escaped(s[a]) \in Seq(Byte)
    BY <2>1, EscapedIs
  <2> QED
    BY <2>1, <2>2
<1> DEFINE x == f[k]
           y == f[a-1]
           z == f[a]
           e == Escaped(s[a])
<1>10. /\ Len(x) \in Nat /\ Len(y) \in Nat /\ Len(e) \in Nat /\ Len(z) = Len(y) + Len(e)
       /\ Len(x) <= Len(y) /\ (\A j \in 1..Len(x) : y[j] = x[j]) /\ (\A j \in 1..Len(y) : z[j] = y[j])
  BY <1>4, <1>7, <1>8, <1>9 DEF GoesOn, Begun
<1> HIDE DEF x, y, z, e
<1>11. Begun(x, z)
  BY <1>10 DEF Begun
<1> QED
  BY <1>11 DEF x, z

\* What the digits behind a % give.
DigitsAt(e, n) == (Uri!HexAt(e, n + 1) * 16 + Uri!HexAt(e, n + 2)) % 256

\* g gives what the text from a place on becomes, for the places from a on.
Decoded(g, e, n) ==
  IF n > Len(e) THEN << >>
  ELSE IF e[n] = Uri!Percent THEN << DigitsAt(e, n) >> \o g[n+3]
  ELSE << e[n] >> \o g[n+1]

Unescapes(g, e, a) == g = [n \in a..Len(e) + 3 |-> Decoded(g, e, n)]

LEMMA UnescapesExist ==
  ASSUME NEW e \in Seq(Byte)
  PROVE  \E g : Unescapes(g, e, 1)
<1> DEFINE l == Len(e)
           T == {k \in 0..l + 3 : ~\E g : Unescapes(g, e, l + 4 - k)}
<1>1. l \in Nat
  OBVIOUS
<1>2. ASSUME T # {} PROVE FALSE
  <2>1. PICK k \in T : \A m \in T : k <= m
    <3>1. T \in SUBSET Nat
      BY <1>1
    <3> HIDE DEF T
    <3> QED
      BY <1>2, <3>1, LeastNat
  <2>2. k \in 0..l + 3 /\ ~\E g : Unescapes(g, e, l + 4 - k)
    OBVIOUS
  <2> HIDE DEF l
  <2>3. k # 0
    <3> SUFFICES ASSUME k = 0 PROVE FALSE
      OBVIOUS
    <3> DEFINE none == [n \in {} |-> 0]
    <3>1. l + 4 - k = l + 4 /\ (l + 4)..l + 3 = {}
      BY <1>1
    <3>2. Unescapes(none, e, l + 4)
      BY <3>1 DEF Unescapes, l
    <3> QED
      BY <2>2, <3>1, <3>2
  <2>4. PICK a \in 1..l + 3 : a = l + 4 - k
    BY <1>1, <2>2, <2>3
  <2>5. k - 1 \in 0..l + 3 /\ ~(k <= k - 1) /\ l + 4 - (k - 1) = a + 1
    BY <1>1, <2>2, <2>3, <2>4
  <2>6. k - 1 \notin T
    BY <2>1, <2>5
  <2>7. PICK f : Unescapes(f, e, a + 1)
    BY <2>5, <2>6 DEF l
  <2> DEFINE first == Decoded(f, e, a)
             g == [n \in a..l + 3 |-> IF n = a THEN first ELSE f[n]]
  <2> HIDE DEF first
  <2>8. g[a] = first /\ \A n \in a + 1..l + 3 : g[n] = f[n]
    BY <1>1, <2>4
  <2>9. g = [n \in a..l + 3 |-> g[n]]
    OBVIOUS
  <2> HIDE DEF g
  <2>10. ASSUME NEW n \in a..l + 3 PROVE Decoded(g, e, n) = Decoded(f, e, n)
    <3>1. ~(n > l) => n + 3 \in a + 1..l + 3 /\ n + 1 \in a + 1..l + 3
      BY <1>1, <2>4
    <3> QED
      BY <2>8, <3>1 DEF Decoded, l
  <2>11. ASSUME NEW n \in a..l + 3 PROVE g[n] = Decoded(g, e, n)
    <3>1. CASE n = a
      BY <2>8, <2>10, <3>1 DEF first
    <3>2. CASE n # a
      <4>1. n \in a + 1..l + 3
        BY <1>1, <2>4, <3>2
      <4> DEFINE h(m) == Decoded(f, e, m)
      <4>2. f = [m \in a + 1..l + 3 |-> h(m)]
        BY <2>7 DEF Unescapes, l
      <4> HIDE DEF h
      <4>3. f[n] = h(n)
        BY <4>1, <4>2
      <4> QED
        BY <2>8, <2>10, <4>1, <4>3 DEF h
    <3> QED
      BY <3>1, <3>2
  <2>12. Unescapes(g, e, a)
    <3>1. g = [n \in a..l + 3 |-> Decoded(g, e, n)]
      BY <2>9, <2>11, Zenon
    <3> QED
      BY <3>1 DEF Unescapes, l
  <2> QED
    BY <2>2, <2>4, <2>12
<1>3. l + 3 \in 0..l + 3 /\ l + 4 - (l + 3) = 1
  BY <1>1
<1>4. \E g : Unescapes(g, e, l + 4 - (l + 3))
  <2>1. l + 3 \notin T
    BY <1>2
  <2> HIDE DEF l
  <2> QED
    BY <1>3, <2>1
<1> HIDE DEF l
<1> QED
  BY <1>3, <1>4

LEMMA UnescapeIs ==
  ASSUME NEW e \in Seq(Byte)
  PROVE  \E g : /\ \A n \in 1..Len(e) + 3 : g[n] = Decoded(g, e, n)
                /\ Uri!nu_unescape_uri(e) = g[1]
<1> DEFINE g == CHOOSE f : f = [n \in 1..Len(e) + 3 |->
                  IF n > Len(e) THEN << >>
                  ELSE IF e[n] = Uri!Percent
                  THEN << (Uri!HexAt(e, n + 1) * 16 + Uri!HexAt(e, n + 2)) % 256 >> \o f[n+3]
                  ELSE << e[n] >> \o f[n+1]]
<1>1. Uri!nu_unescape_uri(e) = g[1]
  BY DEF Uri!nu_unescape_uri
<1>2. g = CHOOSE f : Unescapes(f, e, 1)
  BY Zenon DEF Unescapes, Decoded, DigitsAt
<1> HIDE DEF g
<1>3. Unescapes(g, e, 1)
  BY <1>2, UnescapesExist
<1>4. \A n \in 1..Len(e) + 3 : g[n] = Decoded(g, e, n)
  <2> DEFINE h(m) == Decoded(g, e, m)
  <2>1. g = [m \in 1..Len(e) + 3 |-> h(m)]
    BY <1>3 DEF Unescapes
  <2> HIDE DEF h
  <2>2. \A n \in 1..Len(e) + 3 : g[n] = h(n)
    BY <2>1
  <2> QED
    BY <2>2 DEF h
<1> QED
  BY <1>1, <1>4

\* The bytes behind the first n.
Rest(s, n) == SubSeq(s, n + 1, Len(s))

LEMMA RestIs ==
  ASSUME NEW s \in Seq(Byte)
  PROVE  /\ Rest(s, Len(s)) = << >> /\ Rest(s, 0) = s
         /\ \A n \in 1..Len(s) : Rest(s, n - 1) = << s[n] >> \o Rest(s, n)
<1>1. Rest(s, Len(s)) = << >>
  BY DEF Rest
<1>2. Rest(s, 0) = s
  BY DEF Rest
<1>3. ASSUME NEW n \in 1..Len(s) PROVE Rest(s, n - 1) = << s[n] >> \o Rest(s, n)
  <2> DEFINE a == Rest(s, n - 1)
             r == Rest(s, n)
             b == << s[n] >> \o r
             l == Len(s)
  <2>1. l \in Nat /\ n \in Nat /\ n # 0 /\ n <= l /\ s[n] \in Byte /\ n - 1 + 1 = n
    OBVIOUS
  <2>2. a \in Seq(Byte) /\ Len(a) = l - n + 1 /\ \A j \in 1..l - n + 1 : a[j] = s[n + j - 1]
    BY <2>1 DEF Rest
  <2>3. r \in Seq(Byte) /\ Len(r) = l - n /\ \A j \in 1..l - n : r[j] = s[n + j]
    BY <2>1 DEF Rest
  <2> HIDE DEF a, r
  <2> DEFINE one == << s[n] >>
  <2>4. one \in Seq(Byte) /\ Len(one) = 1 /\ one[1] = s[n]
    BY <2>1
  <2>5. b = one \o r
    OBVIOUS
  <2> HIDE DEF one, b
  <2>6. b \in Seq(Byte) /\ Len(b) = 1 + (l - n) /\ b[1] = one[1] /\ \A j \in 1..l - n : b[1 + j] = r[j]
    <3>1. /\ b \in Seq(Byte) /\ Len(b) = Len(one) + Len(r) /\ (\A j \in 1..Len(one) : b[j] = one[j])
          /\ \A j \in 1..Len(r) : b[Len(one) + j] = r[j]
      BY <2>3, <2>4, <2>5, ConcatBytes
    <3>2. 1 \in 1..Len(one)
      BY <2>4
    <3> QED
      BY <2>3, <2>4, <3>1, <3>2
  <2> HIDE DEF l
  <2>7. ASSUME NEW j \in 1..l - n + 1 PROVE a[j] = b[j]
    <3>1. CASE j = 1
      <4>1. n + 1 - 1 = n
        BY <2>1
      <4> QED
        BY <2>2, <2>4, <2>6, <3>1, <4>1
    <3>2. CASE j # 1
      <4>1. PICK k \in 1..l - n : j = 1 + k
        <5>1. j - 1 \in 1..l - n /\ j = 1 + (j - 1)
          BY <2>1, <3>2
        <5> QED
          BY <5>1
      <4>2. n + j - 1 = n + k
        BY <2>1, <4>1
      <4> QED
        BY <2>2, <2>3, <2>6, <4>1, <4>2
    <3> QED
      BY <3>1, <3>2
  <2>8. Len(a) = Len(b) /\ DOMAIN a = 1..Len(a) /\ DOMAIN b = 1..Len(b) /\ Len(a) = l - n + 1
    BY <2>1, <2>2, <2>6
  <2>9. a = b
    BY <2>2, <2>6, <2>7, <2>8
  <2> QED
    BY <2>9 DEF a, b, r, one
<1> QED
  BY <1>1, <1>2, <1>3

Before(c, t) == << c >> \o t

\* From the place of an escaped form on, the bytes from there on come back.
LEMMA OneBack ==
  ASSUME NEW s \in Seq(Byte), NEW f, \A m \in 1..Len(s) : GoesOn(f, s, m), NEW e, e = f[Len(s)],
         NEW g, \A n \in 1..Len(e) + 3 : g[n] = Decoded(g, e, n),
         NEW k \in 1..Len(s)
  PROVE  g[Len(f[k-1]) + 1] = Before(s[k], g[Len(f[k]) + 1])
<1> DEFINE a == Len(f[k-1])
           t == Escaped(s[k])
<1>1. GoesOn(f, s, k) /\ s[k] \in Byte
  OBVIOUS
<1>2. a \in Nat /\ Len(f[k]) = a + Len(t) /\ \A j \in 1..Len(t) : f[k][a + j] = t[j]
  BY <1>1 DEF GoesOn
<1>3. /\ t \in Seq(Byte)
      /\ \/ Len(t) = 1 /\ t[1] = s[k] /\ s[k] # Uri!Percent
         \/ /\ Len(t) = 3 /\ t[1] = Uri!Percent /\ t[2] # 0 /\ t[3] # 0
            /\ (Uri!nu_unhex(t[2]) * 16 + Uri!nu_unhex(t[3])) % 256 = s[k]
  BY <1>1, EscapedIs
<1>4. Begun(f[k], e)
  <2>1. Len(s) \in k..Len(s)
    OBVIOUS
  <2> QED
    BY <2>1, EscapesStay
<1>5. e \in Seq(Byte) /\ Len(e) \in Nat
  <2>1. Len(s) \in 1..Len(s)
    OBVIOUS
  <2>2. e \in Seq(Byte)
    BY <2>1 DEF GoesOn
  <2> QED
    BY <2>2
<1> HIDE DEF a, t
<1>6. a + Len(t) <= Len(e) /\ \A j \in 1..Len(t) : e[a + j] = t[j]
  <2>1. a + Len(t) <= Len(e)
    BY <1>2, <1>4 DEF Begun
  <2>2. ASSUME NEW j \in 1..Len(t) PROVE e[a + j] = t[j]
    <3>1. Len(t) \in Nat /\ a + j \in 1..Len(f[k])
      BY <1>2, <1>3
    <3> QED
      BY <1>2, <1>4, <3>1 DEF Begun
  <2> QED
    BY <2>1, <2>2
<1> DEFINE n == a + 1
<1>7. n \in 1..Len(e) + 3 /\ Len(t) >= 1 /\ ~(n > Len(e)) /\ e[n] = t[1]
  <2>1. Len(t) \in {1, 3}
    BY <1>3
  <2>2. 1 \in 1..Len(t)
    <3>1. \A d \in {1, 3} : 1 \in 1..d
      OBVIOUS
    <3> QED
      BY <2>1, <3>1
  <2> QED
    BY <1>2, <1>5, <1>6, <2>1, <2>2
<1>8. g[n] = Decoded(g, e, n)
  BY <1>7
<1> HIDE DEF n
<1>9. CASE Len(t) = 1 /\ t[1] = s[k] /\ s[k] # Uri!Percent
  <2>1. n + 1 = Len(f[k]) + 1
    BY <1>2, <1>9 DEF n
  <2>2. g[n] = << s[k] >> \o g[n+1]
    BY <1>7, <1>8, <1>9 DEF Decoded
  <2> QED
    BY <2>1, <2>2 DEF n, a, Before
<1>10. CASE /\ Len(t) = 3 /\ t[1] = Uri!Percent /\ t[2] # 0 /\ t[3] # 0
            /\ (Uri!nu_unhex(t[2]) * 16 + Uri!nu_unhex(t[3])) % 256 = s[k]
  <2>1. n + 3 = Len(f[k]) + 1 /\ n + 1 = a + 2 /\ n + 2 = a + 3 /\ ~(n + 1 > Len(e)) /\ ~(n + 2 > Len(e))
    BY <1>2, <1>5, <1>6, <1>10 DEF n
  <2>2. e[n+1] = t[2] /\ e[n+2] = t[3]
    <3>1. 2 \in 1..Len(t) /\ 3 \in 1..Len(t)
      BY <1>10
    <3> QED
      BY <1>6, <2>1, <3>1
  <2>3. DigitsAt(e, n) = s[k]
    <3>1. Uri!HexAt(e, n + 1) = Uri!nu_unhex(t[2]) /\ Uri!HexAt(e, n + 2) = Uri!nu_unhex(t[3])
      BY <1>10, <2>1, <2>2 DEF Uri!HexAt
    <3> QED
      BY <1>10, <3>1 DEF DigitsAt
  <2>4. g[n] = << s[k] >> \o g[n+3]
    BY <1>7, <1>8, <1>10, <2>3 DEF Decoded
  <2> QED
    BY <2>1, <2>4 DEF n, a, Before
<1> QED
  BY <1>3, <1>9, <1>10

\* Every text comes back.
LEMMA TextComesBack ==
  ASSUME NEW s \in Seq(Byte)
  PROVE  Uri!nu_unescape_uri(Uri!nu_escape_uri(s)) = s
<1>1. PICK f : Escapes(f, s, Len(s)) /\ Uri!nu_escape_uri(s) = f[Len(s)]
  BY EscapeIs
<1> DEFINE l == Len(s)
           e == f[l]
<1>2. f[0] = << >> /\ \A m \in 1..l : GoesOn(f, s, m)
  BY <1>1, EscapesGoOn
<1>3. l \in Nat
  OBVIOUS
<1>4. e \in Seq(Byte)
  <2>1. CASE l = 0
    <3>1. << >> \in Seq(Byte)
      OBVIOUS
    <3> QED
      BY <1>2, <2>1, <3>1, Zenon
  <2>2. CASE l # 0
    <3>1. l \in 1..l
      BY <1>3, <2>2
    <3> QED
      BY <1>2, <3>1 DEF GoesOn
  <2> QED
    BY <2>1, <2>2
<1>5. PICK g : (\A n \in 1..Len(e) + 3 : g[n] = Decoded(g, e, n)) /\ Uri!nu_unescape_uri(e) = g[1]
  BY <1>4, UnescapeIs
<1> DEFINE Back(k) == g[Len(f[k]) + 1] = Rest(s, k)
<1>6. Back(l)
  <2>1. Len(e) + 1 \in 1..Len(e) + 3 /\ Len(e) + 1 > Len(e)
    BY <1>4
  <2>2. g[Len(e) + 1] = << >>
    <3> HIDE DEF e
    <3> QED
      BY <1>5, <2>1 DEF Decoded
  <2> QED
    BY <2>2, RestIs
<1>7. ASSUME NEW k \in 1..l, Back(k) PROVE Back(k - 1)
  <2>1. g[Len(f[k-1]) + 1] = Before(s[k], g[Len(f[k]) + 1])
    <3> DEFINE x == e
    <3>1. /\ x = f[Len(s)] /\ (\A n \in 1..Len(x) + 3 : g[n] = Decoded(g, x, n))
          /\ (\A m \in 1..Len(s) : GoesOn(f, s, m)) /\ k \in 1..Len(s)
      BY <1>2, <1>5
    <3> HIDE DEF x, e, l, Back
    <3> QED
      BY <3>1, OneBack
  <2> QED
    BY <1>7, <2>1, RestIs DEF Before
<1> HIDE DEF Back
<1>8. Back(0)
  <2> DEFINE T == {d \in 0..l : ~Back(l - d)}
  <2>1. ASSUME T # {} PROVE FALSE
    <3>1. PICK d \in T : \A m \in T : d <= m
      <4>1. T \in SUBSET Nat
        BY <1>3
      <4> HIDE DEF T
      <4> QED
        BY <2>1, <4>1, LeastNat
    <3>2. d \in 0..l /\ ~Back(l - d)
      OBVIOUS
    <3> HIDE DEF l
    <3>3. d # 0
      <4>1. l - 0 = l
        BY <1>3
      <4> QED
        BY <1>6, <3>2, <4>1
    <3>4. PICK k \in 1..l : k = l - (d - 1)
      BY <1>3, <3>2, <3>3
    <3>5. d - 1 \in 0..l /\ ~(d <= d - 1) /\ l - d = k - 1
      BY <1>3, <3>2, <3>3, <3>4
    <3>6. d - 1 \notin T
      BY <3>1, <3>5
    <3>7. Back(k)
      BY <3>4, <3>5, <3>6
    <3> QED
      BY <1>7, <3>2, <3>5, <3>7 DEF l
  <2>2. l \in 0..l /\ l - l = 0
    BY <1>3
  <2>3. l \notin T
    BY <2>1
  <2> HIDE DEF l
  <2> QED
    BY <2>2, <2>3
<1>9. Len(f[0]) + 1 = 1
  BY <1>2
<1> QED
  BY <1>1, <1>5, <1>8, <1>9, RestIs DEF Back

\* Characters that need no escape, and %.
PlainText(t) == \A n \in DOMAIN t : t[n] \in Uri!Plain \cup {Uri!Percent}

LEMMA EscapedPlain ==
  ASSUME NEW c \in Byte
  PROVE  PlainText(Escaped(c))
<1>1. \A n \in 0..15 : Uri!nu_hex_char(n) \in Uri!Plain
  BY DEF Uri!nu_hex_char, Uri!Plain, Uri!Letters, Uri!Digits, Uri!Zero
<1>2. Uri!High(c) \in 0..15 /\ Uri!Low(c) \in 0..15
  BY DigitsOf
<1> DEFINE a == Uri!nu_hex_char(Uri!High(c))
           b == Uri!nu_hex_char(Uri!Low(c))
           p == Uri!Percent
<1>3. a \in Uri!Plain /\ b \in Uri!Plain
  BY <1>1, <1>2
<1>4. CASE Uri!nu_isuric(c)
  <2>1. Escaped(c) = << p, a, b >>
    BY <1>4 DEF Escaped
  <2> HIDE DEF a, b, p
  <2> QED
    BY <1>3, <2>1 DEF PlainText, p
<1>5. CASE ~Uri!nu_isuric(c)
  <2>1. Escaped(c) = << c >> /\ c \in Uri!Plain
    BY <1>5 DEF Escaped, Uri!nu_isuric
  <2> QED
    BY <2>1 DEF PlainText
<1> QED
  BY <1>4, <1>5

LEMMA TextPlain ==
  ASSUME NEW s \in Seq(Byte)
  PROVE  PlainText(Uri!nu_escape_uri(s))
<1>1. PICK f : Escapes(f, s, Len(s)) /\ Uri!nu_escape_uri(s) = f[Len(s)]
  BY EscapeIs
<1> DEFINE l == Len(s)
<1>2. l \in Nat /\ f[0] = << >> /\ \A m \in 1..l : GoesOn(f, s, m)
  BY <1>1, EscapesGoOn
<1>3. PlainText(f[0])
  BY <1>2 DEF PlainText
<1>4. ASSUME NEW m \in 1..l, PlainText(f[m-1]) PROVE PlainText(f[m])
  <2> DEFINE a == f[m-1]
             b == f[m]
             t == Escaped(s[m])
  <2>1. s[m] \in Byte /\ GoesOn(f, s, m)
    BY <1>2
  <2>2. t \in Seq(Byte) /\ PlainText(t) /\ PlainText(a)
    BY <1>4, <2>1, EscapedIs, EscapedPlain
  <2>3. /\ a \in Seq(Byte) /\ b \in Seq(Byte) /\ Len(b) = Len(a) + Len(t)
        /\ (\A j \in 1..Len(a) : b[j] = a[j]) /\ (\A j \in 1..Len(t) : b[Len(a) + j] = t[j])
    BY <2>1 DEF GoesOn
  <2> HIDE DEF a, b, t
  <2>4. /\ DOMAIN a = 1..Len(a) /\ DOMAIN b = 1..Len(b) /\ DOMAIN t = 1..Len(t)
        /\ Len(a) \in Nat /\ Len(t) \in Nat
    BY <2>2, <2>3
  <2>5. ASSUME NEW n \in 1..Len(b) PROVE b[n] \in Uri!Plain \cup {Uri!Percent}
    <3>1. CASE n \in 1..Len(a)
      BY <2>2, <2>3, <2>4, <3>1 DEF PlainText
    <3>2. CASE n \notin 1..Len(a)
      <4>1. PICK j \in 1..Len(t) : n = Len(a) + j
        <5>1. n - Len(a) \in 1..Len(t) /\ n = Len(a) + (n - Len(a))
          BY <2>3, <2>4, <3>2
        <5> QED
          BY <5>1
      <4> QED
        BY <2>2, <2>3, <2>4, <4>1 DEF PlainText
    <3> QED
      BY <3>1, <3>2
  <2> QED
    BY <2>4, <2>5 DEF PlainText, b
<1> DEFINE T == {m \in 0..l : ~PlainText(f[m])}
<1>5. ASSUME T # {} PROVE FALSE
  <2>1. PICK m \in T : \A k \in T : m <= k
    <3>1. T \in SUBSET Nat
      BY <1>2
    <3> HIDE DEF T
    <3> QED
      BY <1>5, <3>1, LeastNat
  <2>2. m \in 0..l /\ ~PlainText(f[m])
    OBVIOUS
  <2> HIDE DEF l
  <2>3. m \in 1..l /\ m - 1 \in 0..l /\ ~(m <= m - 1)
    BY <1>2, <1>3, <2>2
  <2>4. m - 1 \notin T
    BY <2>1, <2>3
  <2>5. PlainText(f[m-1])
    BY <2>3, <2>4
  <2> QED
    BY <1>4, <2>2, <2>3, <2>5
<1>6. l \in 0..l /\ l \notin T
  BY <1>2, <1>5
<1>7. PlainText(f[l])
  BY <1>6
<1> QED
  BY <1>1, <1>7

\* The text has come back.
TextsBack == src \in Seq(Byte) /\ back = src /\ PlainText(escaped)

\* nu_escape_uri, nu_unescape_uri (nanouri.h:84-126): every text of any length,
\* with the bytes above 127, % and 0, comes back from its escaped form, which
\* holds plain characters and % only.
THEOREM ComesBackCorrect == PartsSpec => []ComesBack
<1>1. PartsInit => TextsBack
  <2>1. << >> \in Seq(Byte) /\ PlainText(<< >>)
    BY DEF PlainText
  <2> QED
    BY <2>1 DEF PartsInit, Uri!Init, TextsBack
<1>2. ASSUME TextsBack, Uri!Next PROVE TextsBack'
  <2>1. PICK c \in Byte : src' = Append(src, c)
    BY <1>2 DEF Uri!Next, Byte
  <2>2. src' \in Seq(Byte)
    BY <1>2, <2>1 DEF TextsBack
  <2>3. escaped' = Uri!nu_escape_uri(src') /\ back' = Uri!nu_unescape_uri(escaped')
    BY <1>2 DEF Uri!Next
  <2>4. back' = src' /\ PlainText(escaped')
    BY <2>2, <2>3, TextComesBack, TextPlain
  <2> QED
    BY <2>2, <2>4 DEF TextsBack
<1>3. ASSUME TextsBack, [PartsNext]_<< part, vars, httpVars, escapesVars >> PROVE TextsBack'
  <2>1. CASE EscapesStep
    BY <1>2, <1>3, <2>1 DEF EscapesStep
  <2>2. CASE LoopStep \/ LinesStep \/ PathsStep
    <3>1. UNCHANGED escapesVars
      BY <2>2 DEF LoopStep, LinesStep, PathsStep
    <3> QED
      BY <1>3, <3>1 DEF escapesVars, TextsBack, PlainText
  <2>3. CASE UNCHANGED << part, vars, httpVars, escapesVars >>
    BY <1>3, <2>3 DEF escapesVars, TextsBack, PlainText
  <2> QED
    BY <1>3, <2>1, <2>2, <2>3 DEF PartsNext
<1>4. TextsBack => ComesBack
  BY DEF TextsBack, ComesBack, Uri!ComesBack, PlainText
<1> QED
  BY <1>1, <1>3, <1>4, PTL DEF PartsSpec

=============================================================================
