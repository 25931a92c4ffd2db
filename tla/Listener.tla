------------------------------- MODULE Listener -------------------------------
(***************************************************************************)
(* Listener (src/stream/listener.cpp): the constructor makes one           *)
(* StreamManager per hardware thread, start() starts them and runs the     *)
(* event loop on the calling thread until stop(), a CONNECT event accepts  *)
(* connections until doAccept returns 0 or -1 and hands each to the        *)
(* manager getManager picks round-robin with a static unsigned counter,    *)
(* and the destructor stops the managers and joins worker_thread.          *)
(* A queued connection is "inet", or "reset" when the peer went away       *)
(* before accept, so that doAccept sees no INET family and returns -1.     *)
(* The CONNECT event is taken to be level-triggered (epoll_manager.h is    *)
(* not in the repository).                                                 *)
(***************************************************************************)
EXTENDS Integers, Sequences, FiniteSets

CONSTANTS
    HardwareConcurrency, \* values std::thread::hardware_concurrency() may return
    CounterBits,         \* width of getManager's unsigned counter
    MaxConn              \* connections clients open in a behaviour, at most

VARIABLES
    size,       \* stream_manager_set.size()
    c,          \* getManager's static counter
    assigned,   \* connections handed to each manager
    backlog,    \* connections queued on the listening socket
    opened,     \* connections clients have opened
    is_running, \* Listener::is_running
    phase,      \* "constructed", "running", "returned", "terminated"
    accepting,  \* inside HandleEvent's do/while accept loop
    fault       \* "none", or the signal or abort that ended the process

vars == <<size, c, assigned, backlog, opened, is_running, phase, accepting, fault>>

Kinds == {"inet", "reset"}
Alive == fault = "none"

\* ++c % size, with c wrapping at 2^CounterBits; a size of 0 is SIGFPE.
GetManagerLocalCounter(cnt) == [c |-> 1, id |-> 1 % size]

GetManagerSigned(cnt) ==
    LET next == IF cnt + 1 >= 2 ^ (CounterBits - 1)
                THEN cnt + 1 - 2 ^ CounterBits ELSE cnt + 1
    IN  [c |-> next,
         id |-> IF next < 0 THEN -((-next) % size) ELSE next % size]

GetManager(cnt) ==
    LET next == (cnt + 1) % (2 ^ CounterBits)
    IN  [c |-> next, id |-> next % size]

Init ==
    /\ size \in HardwareConcurrency
    /\ c = 0
    /\ assigned = [m \in 0..(size - 1) |-> 0]
    /\ backlog = <<>>
    /\ opened = 0
    /\ is_running = FALSE
    /\ phase = "constructed"
    /\ accepting = FALSE
    /\ fault = "none"

\* A client connects; the kernel queues it on the listening socket.
Connect ==
    /\ opened < MaxConn
    /\ \E k \in Kinds : backlog' = Append(backlog, k)
    /\ opened' = opened + 1
    /\ UNCHANGED <<size, c, assigned, is_running, phase, accepting, fault>>

\* start(): start every manager, set is_running and enter doWork.
Start ==
    /\ Alive /\ phase = "constructed"
    /\ phase' = "running"
    /\ is_running' = TRUE
    /\ UNCHANGED <<size, c, assigned, backlog, opened, accepting, fault>>

\* loopOnce delivers CONNECT while a connection is queued.
HandleConnect ==
    /\ Alive /\ phase = "running" /\ is_running /\ ~accepting
    /\ backlog # <<>>
    /\ accepting' = TRUE
    /\ UNCHANGED <<size, c, assigned, backlog, opened, is_running, phase, fault>>

AcceptOneZeroIsFd ==
    /\ Alive /\ accepting
    /\ \/ /\ backlog = <<>>
          /\ UNCHANGED <<c, assigned, backlog, fault, accepting>>
       \/ /\ backlog # <<>> /\ Head(backlog) = "reset"
          /\ backlog' = Tail(backlog)
          /\ accepting' = FALSE
          /\ UNCHANGED <<c, assigned, fault>>
       \/ /\ backlog # <<>> /\ Head(backlog) = "inet"
          /\ backlog' = Tail(backlog)
          /\ IF size = 0
             THEN /\ fault' = "SIGFPE"
                  /\ UNCHANGED <<c, assigned, accepting>>
             ELSE LET g == GetManager(c)
                  IN  /\ c' = g.c
                      /\ assigned' = [assigned EXCEPT ![g.id] = @ + 1]
                      /\ UNCHANGED <<accepting, fault>>
    /\ UNCHANGED <<size, opened, is_running, phase>>

\* One doAccept of the loop: a new fd goes to getManager's pick and the loop
\* goes on; EAGAIN (0) or a closed peer (-1) ends the loop.
AcceptOne ==
    /\ Alive /\ accepting
    /\ \/ /\ backlog = <<>>
          /\ accepting' = FALSE
          /\ UNCHANGED <<c, assigned, backlog, fault>>
       \/ /\ backlog # <<>> /\ Head(backlog) = "reset"
          /\ backlog' = Tail(backlog)
          /\ accepting' = FALSE
          /\ UNCHANGED <<c, assigned, fault>>
       \/ /\ backlog # <<>> /\ Head(backlog) = "inet"
          /\ backlog' = Tail(backlog)
          /\ IF size = 0
             THEN /\ fault' = "SIGFPE"
                  /\ UNCHANGED <<c, assigned, accepting>>
             ELSE LET g == GetManager(c)
                  IN  /\ c' = g.c
                      /\ assigned' = [assigned EXCEPT ![g.id] = @ + 1]
                      /\ UNCHANGED <<accepting, fault>>
    /\ UNCHANGED <<size, opened, is_running, phase>>

\* stop(), from another thread: doWork leaves its loop after this event.
Stop ==
    /\ Alive /\ phase = "running" /\ is_running
    /\ is_running' = FALSE
    /\ UNCHANGED <<size, c, assigned, backlog, opened, phase, accepting, fault>>

LoopExit ==
    /\ Alive /\ phase = "running" /\ ~is_running /\ ~accepting
    /\ phase' = "returned"
    /\ UNCHANGED <<size, c, assigned, backlog, opened, is_running, accepting, fault>>

\* ~Listener: is_running = false, stop and delete every manager, then
\* worker_thread.join() on a thread that was never started, which throws
\* in a noexcept destructor: std::terminate.
Destroy ==
    /\ Alive /\ phase \in {"constructed", "returned"}
    /\ is_running' = FALSE
    /\ phase' = "terminated"
    /\ fault' = "terminate"
    /\ UNCHANGED <<size, c, assigned, backlog, opened, accepting>>

Next == Connect \/ Start \/ HandleConnect \/ AcceptOne \/ Stop \/ LoopExit \/ Destroy

\* Inside HandleEvent nothing blocks (the socket is non-blocking): the accept
\* loop's steps are weakly fair.  Clients, start(), stop() and the event
\* loop's wake-ups are not assumed to happen.
Spec == Init /\ [][Next]_vars /\ WF_vars(AcceptOne)

TypeOK ==
    /\ size \in HardwareConcurrency
    /\ c \in 0..(2 ^ CounterBits - 1)
    /\ assigned \in [0..(size - 1) -> 0..MaxConn]
    /\ backlog \in Seq(Kinds) /\ Len(backlog) <= MaxConn
    /\ opened \in 0..MaxConn
    /\ is_running \in BOOLEAN /\ accepting \in BOOLEAN
    /\ phase \in {"constructed", "running", "returned", "terminated"}
    /\ fault \in {"none", "SIGFPE", "terminate"}

\* getManager spreads accepted connections round-robin: at any time no
\* StreamManager has been handed two more connections than another.
Balanced ==
    \A i, j \in DOMAIN assigned : assigned[i] - assigned[j] <= 1

\* HandleEvent's accept loop ends: once the queue is empty doAccept returns
\* 0 and the do/while stops, so the event loop gets control back.
AcceptLoopEnds == accepting ~> (~accepting \/ ~Alive)

\* getManager never divides by a zero manager count: a connection is only
\* dispatched when the constructor made at least one StreamManager.
NoDivByZero == fault # "SIGFPE"

\* Destroying a Listener (after start() returned, or one never started)
\* releases it without ending the process.
CleanDestroy == fault # "terminate"
===============================================================================
