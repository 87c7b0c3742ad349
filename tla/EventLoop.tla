------------------------------ MODULE EventLoop ------------------------------
(***************************************************************************)
(* The bindings to libuv (ext/UV): handles that a program makes, starts    *)
(* and closes, before it runs the loop and in the functions the loop       *)
(* calls, and the requests and buffers the bindings keep for them.         *)
(***************************************************************************)
EXTENDS Integers, Sequences, FiniteSets

CONSTANTS
  Kinds,         \* of handles: "Timer", "Idle", "TCP"
  Texts,         \* what programs write
  OneRequest,    \* whether they wait for a request before they make another of its kind
  WritesUndef,   \* whether they pass undef for the function of a write
  Count,         \* from which the function of a timer counts down
  MaxHandles     \* bound

ASSUME EventLoopAssumption ==
  /\ Kinds \subseteq {"Timer", "Idle", "TCP"}
  /\ {OneRequest, WritesUndef} \subseteq BOOLEAN /\ {Count, MaxHandles} \subseteq Nat

VARIABLES
  handles,   \* in the order they were made
  refs,      \* of the loop: it runs as long as there are some
  running,   \* no: before; waiting: in uv_run; callback: in a function it called; done: after
  current,   \* << handle, event, function >> of the event that is handled
  req,       \* event -> handle: the static uv_connect_t and uv_write_t
  buf,       \* the static uv_buf_t: the text it was made for
  wrote,     \* history: the text that was to be written last, and what was given to the kernel
  left,      \* whether callbacks have left values on the operand stack
  count,     \* $count of the program
  mode       \* run or aborted (by an assertion of the bindings or of libuv)

vars == << handles, refs, running, current, req, buf, wrote, left, count, mode >>

Events == {"timer", "idle", "connect", "connection", "read", "write", "close"}
Requests == {"connect", "write"}
Functions == {"countdown", "other"}
NULL == "NULL"
None == << >>

\* cb: the slots of _uv_data; passed: history, the function the program passed last for the event.
Handle(kind, link) ==
  [kind |-> kind, link |-> link, state |-> "open", active |-> {},
   cb |-> [e \in Events |-> NULL], passed |-> [e \in Events |-> NULL]]

Init ==
  /\ handles = << >> /\ refs = 0 /\ running = "no" /\ current = None
  /\ req = [r \in Requests |-> 0] /\ buf = "not made" /\ wrote = None
  /\ left = FALSE /\ count = Count /\ mode = "run"

\* The program has control before uv_run and in callbacks.
Program == mode = "run" /\ running \in {"no", "callback"}

Open(h, kind) == Program /\ handles[h].kind = kind /\ handles[h].state = "open"

-----------------------------------------------------------------------------
(* Handles. *)

\* Each handle has the loop run for it.
Made(kind, link) ==
  /\ Program /\ kind \in Kinds /\ Len(handles) < MaxHandles
  /\ handles' = Append(handles, Handle(kind, link)) /\ refs' = refs + 1

_uv_timer_new == Made("Timer", "none") /\ UNCHANGED << running, current, req, buf, wrote, left, count, mode >>
_uv_idle_new  == Made("Idle", "none")  /\ UNCHANGED << running, current, req, buf, wrote, left, count, mode >>
_uv_tcp_new   == Made("TCP", "none")   /\ UNCHANGED << running, current, req, buf, wrote, left, count, mode >>

\* Mutant: connect keeps its function where listen keeps its own.
SlotOfListen(event) == IF event = "connect" THEN "connection" ELSE event

\* connect_cb, connection_cb, read_cb, ... of _uv_data.
Slot(event) == event

\* The function is stored, NULL for what is no function, and the event is asked for.
Registered(h, event, f, link) ==
  LET old == handles[h]
  IN  [handles EXCEPT ![h] =
         [old EXCEPT !.cb = [old.cb EXCEPT ![Slot(event)] = f],
                     !.passed = [old.passed EXCEPT ![event] = f],
                     !.active = old.active \union {event}, !.link = link]]

Starts(h, event, f) ==
  /\ handles' = Registered(h, event, f, handles[h].link)
  /\ UNCHANGED << refs, running, current, req, buf, wrote, left, count, mode >>

_uv_timer_start(h, f) == Open(h, "Timer") /\ Starts(h, "timer", f)
_uv_idle_start(h, f)  == Open(h, "Idle") /\ Starts(h, "idle", f)

Stops(h, event) ==
  /\ handles' = [handles EXCEPT ![h].active = @ \ {event}]
  /\ UNCHANGED << refs, running, current, req, buf, wrote, left, count, mode >>

_uv_timer_stop(h) == Open(h, "Timer") /\ "timer" \in handles[h].active /\ Stops(h, "timer")
_uv_idle_stop(h)  == Open(h, "Idle") /\ "idle" \in handles[h].active /\ Stops(h, "idle")

InFlight(r) == \E h \in DOMAIN handles : r \in handles[h].active

\* The request is the same for all.
_uv_tcp_connect(h, f) ==
  /\ Open(h, "TCP") /\ handles[h].link = "none" /\ (OneRequest => ~InFlight("connect"))
  /\ handles' = Registered(h, "connect", f, "connecting") /\ req' = [req EXCEPT !["connect"] = h]
  /\ UNCHANGED << refs, running, current, buf, wrote, left, count, mode >>

\* With bind, which calls nothing back.
_uv_listen(h, f) ==
  /\ Open(h, "TCP") /\ handles[h].link = "none"
  /\ handles' = Registered(h, "connection", f, "listening")
  /\ UNCHANGED << refs, running, current, req, buf, wrote, left, count, mode >>

_uv_accept(h) ==
  /\ Open(h, "TCP") /\ running = "callback" /\ current[1] = h /\ current[2] = "connection"
  /\ Made("TCP", "connected") /\ UNCHANGED << running, current, req, buf, wrote, left, count, mode >>

_uv_read(h, f) == Open(h, "TCP") /\ handles[h].link = "connected" /\ Starts(h, "read", f)

\* The static buffer is made for the first text and for no other.
Buffer(text) == IF buf = "not made" THEN text ELSE buf

\* Asserts that there is a function, and then asks whether there is one.
_uv_write(h, text, f) ==
  /\ Open(h, "TCP") /\ handles[h].link = "connected" /\ (OneRequest => ~InFlight("write"))
  /\ IF f = NULL THEN mode' = "aborted" /\ UNCHANGED << handles, req, buf, wrote >>
     ELSE /\ handles' = Registered(h, "write", f, "connected")
          /\ req' = [req EXCEPT !["write"] = h]
          /\ buf' = Buffer(text) /\ wrote' = << text, Buffer(text) >> /\ UNCHANGED mode
  /\ UNCHANGED << refs, running, current, left, count >>

\* Nothing but the end of the closing is called back from now on.
Closing(h, f) ==
  LET old == handles[h]
  IN  [handles EXCEPT ![h] =
         [old EXCEPT !.state = "closing", !.active = {"close"},
                     !.cb = [old.cb EXCEPT !["close"] = f],
                     !.passed = [old.passed EXCEPT !["close"] = f]]]

_uv_close(h, f) ==
  /\ Program /\ handles[h].state = "open"
  /\ handles' = Closing(h, f)
  /\ UNCHANGED << refs, running, current, req, buf, wrote, left, count, mode >>

\* uv_close asserts that the handle is not closed yet; the memory goes at once.  Programs
\* keep their handles while the loop runs.
_uv_DESTROY(h) ==
  /\ mode = "run" /\ running = "done" /\ handles[h].state # "deleted"
  /\ IF handles[h].state = "open"
     THEN handles' = [handles EXCEPT ![h].state = "deleted", ![h].active = {}] /\ UNCHANGED mode
     ELSE mode' = "aborted" /\ UNCHANGED handles
  /\ UNCHANGED << refs, running, current, req, buf, wrote, left, count >>

-----------------------------------------------------------------------------
(* The loop. *)

_uv_loop_unref ==
  /\ Program /\ refs > 0 /\ refs' = refs - 1
  /\ UNCHANGED << handles, running, current, req, buf, wrote, left, count, mode >>

_uv_loop_ref ==
  /\ Program /\ refs < MaxHandles /\ refs' = refs + 1
  /\ UNCHANGED << handles, running, current, req, buf, wrote, left, count, mode >>

_uv_loop_run ==
  /\ mode = "run" /\ running = "no" /\ running' = "waiting"
  /\ UNCHANGED << handles, refs, current, req, buf, wrote, left, count, mode >>

Waiting == mode = "run" /\ running = "waiting"

uv_run_returns ==
  /\ Waiting /\ refs = 0 /\ running' = "done"
  /\ UNCHANGED << handles, refs, current, req, buf, wrote, left, count, mode >>

\* Whose _uv_data the callback reads: that of the handle of the request, if it is one.
DataOf(h, event) == IF event \in Requests THEN req[event] ELSE h

\* What an event leaves of a handle: requests and closing end.
AfterEvent(h, event) ==
  CASE event = "connect" -> [handles EXCEPT ![h].active = @ \ {event}, ![h].link = "connected"]
    [] event = "write"   -> [handles EXCEPT ![h].active = @ \ {event}]
    [] event = "close"   -> [handles EXCEPT ![h].active = {}, ![h].state = "closed"]
    [] OTHER             -> handles

\* Mutant: functions are taken for NULL.
CallsNone(h, event, f) == current' = << h, event, f >> /\ running' = "waiting"

\* if (callback != NULL)
CalledBack(h, event, f) ==
  current' = << h, event, f >> /\ running' = IF f = NULL THEN "waiting" ELSE "callback"

\* __uv_timer_cb, __uv_tcp_connect_cb and the others: the status, the bytes or undef is
\* pushed and the function called, if there is one.
Event(h, event) ==
  /\ Waiting /\ refs > 0 /\ event \in handles[h].active
  /\ handles' = AfterEvent(h, event)
  /\ refs' = IF event = "close" THEN refs - 1 ELSE refs
  /\ LET f == handles[DataOf(h, event)].cb[event]
     IN  /\ CalledBack(h, event, f)
         /\ count' = IF f = "countdown" /\ count > 0 THEN count - 1 ELSE count
  /\ UNCHANGED << req, buf, wrote, left, mode >>

\* When $count has come to 0 the countdown has called unref.
RefsAfterBody == IF current[3] = "countdown" /\ count = 0 /\ refs > 0 THEN refs - 1 ELSE refs

\* The function returns a value, which the bindings leave where it is.
Return ==
  /\ mode = "run" /\ running = "callback"
  /\ running' = "waiting" /\ left' = TRUE /\ refs' = RefsAfterBody /\ current' = None
  /\ UNCHANGED << handles, req, buf, wrote, count, mode >>

Next ==
  \/ _uv_timer_new \/ _uv_idle_new \/ _uv_tcp_new
  \/ _uv_loop_unref \/ _uv_loop_ref \/ _uv_loop_run \/ uv_run_returns \/ Return
  \/ \E h \in DOMAIN handles :
       \/ _uv_timer_stop(h) \/ _uv_idle_stop(h) \/ _uv_accept(h) \/ _uv_DESTROY(h)
       \/ \E e \in Events : Event(h, e)
       \/ \E f \in Functions \union {NULL} : _uv_timer_start(h, f)
       \/ \E f \in {"other", NULL} :
            \/ _uv_idle_start(h, f) \/ _uv_tcp_connect(h, f) \/ _uv_listen(h, f)
            \/ _uv_read(h, f) \/ _uv_close(h, f)
            \/ (f # NULL \/ WritesUndef) /\ \E t \in Texts : _uv_write(h, t, f)

\* Functions return, the loop goes on, and in each of its rounds it looks at every timer.
TimerEvent(h) == h \in DOMAIN handles /\ Event(h, "timer")

Fairness ==
  /\ WF_vars(Return) /\ WF_vars(uv_run_returns)
  /\ \A h \in 1..MaxHandles : SF_vars(TimerEvent(h))

Spec == Init /\ [][Next]_vars /\ Fairness

-----------------------------------------------------------------------------
(* Properties. *)

\* An event of a handle runs the function passed for it (uv.cc:196, 226: also when several
\* sockets connect or write at a time).
RunsOwn ==
  [][\A h \in DOMAIN handles, e \in Events :
       Event(h, e) => current'[3] = handles[current'[1]].passed[current'[2]]]_vars

\* t/01_timer.tra: a loop with one reference and a timer that counts down and then calls
\* unref comes to its end, unless the program gets another reference or stops the timer.
CountdownEnds ==
  \A h \in 1..MaxHandles :
    LET Counts == /\ h \in DOMAIN handles /\ "timer" \in handles[h].active
                  /\ handles[h].passed["timer"] = "countdown" /\ refs = 1
    IN  (Counts /\ running = "waiting") ~> (running = "done" \/ ~Counts)

\* vm.h:136 "You must take a return value from stack top.": the loop leaves the operand
\* stack as it found it.
StackAsFound == running = "waiting" => ~left

\* eg/06_accept.t:17 writes every line it has read: each text is what is written.
WritesTheText == wrote # None => wrote[1] = wrote[2]

\* eg/06_accept.t:17 "$client.write($line, undef);": a write without a function is possible.
WriteNeedsNoFunction == mode = "aborted" => running = "done"
=============================================================================
