---------------------------- MODULE ControlPlane ----------------------------
(***************************************************************************)
(* The control plane of ctl::ControlManager (src/src/ctl/ControlManager.cpp) *)
(* composed with its command handler (CtlCommand):                         *)
(*   - the life cycle: the static instance, init, start, stop and the       *)
(*     destructor that calls stop() again when the program exits;           *)
(*   - the control thread: doWork's loop and one HandleEvent per poll:      *)
(*     CONNECT accepts one client, READ reads, parses, runs handleCommand   *)
(*     (CtlCommand!HandleCommand), writes the reply and closes;             *)
(*   - the process's fd table, which the control thread shares with the     *)
(*     rest of the proxy: another thread that opens and closes sockets      *)
(*     (a listener's accept, a worker's connect).  The kernel hands out the *)
(*     lowest free fd number.                                               *)
(* HandleEvent's READ case builds a Connection on the client fd; the       *)
(* connection is closed by the handler (::close or closeConnection) and    *)
(* again by ~Connection (connection.cpp:12-14), which closes socket_fd a   *)
(* second time.  The two closes are separate steps of the control thread:  *)
(* between them the fd number is free and another thread may be given it.  *)
(* The epoll_manager base class (loopOnce, addFd, deleteFd) is not in the  *)
(* repository: loopOnce is modelled as returning one ready event, or as    *)
(* returning with none, which it may or may not ever do (its timeout and   *)
(* trigger mode are unknown).  What a read returns and whether the request *)
(* parses are nondeterministic.                                            *)
(***************************************************************************)
EXTENDS CtlCommand, FiniteSets

CONSTANTS
    Fds,            \* fd numbers the process can be given, lowest first
    MaxClients      \* control clients that connect, in the whole behaviour

VARIABLES
    fdtab,      \* fd number -> who holds it open: "free" or its holder
    lfd,        \* the control listener's fd, -1 when listen failed
    backlog,    \* control clients waiting in the listen queue
    clients,    \* control clients that have connected so far
    conns,      \* accepted control fds registered for READ
    readable,   \* registered control fds with a request or EOF to read
    main,       \* where the main thread is in the ControlManager life cycle
    thread,     \* control_thread: "none", "check", "poll", "dtor", "done", "joined"
    is_running, \* ControlManager::is_running
    cur,        \* the fd ~Connection is about to close again, -1 when none
    other,      \* the fd the other thread holds, -1 when none
    fault       \* "terminate" once std::terminate has ended the process

loopVars == <<fdtab, lfd, backlog, clients, conns, readable, main, thread,
              is_running, cur, other, fault>>
allVars == <<vars, loopVars>>

NoFd == -1
Holders == {"free", "ctl_listen", "ctl_conn", "other"}
Free == {f \in Fds : fdtab[f] = "free"}
\* socket()/accept(): the kernel gives the lowest free fd number.
LowestFree == Min(Free)
Alive == fault = "none" /\ ~crashed

\* Connection::closeConnection: shutdown and close whatever fd number it holds.
CloseFd(f) == fdtab' = [fdtab EXCEPT ![f] = "free"]

\* The static unique_ptr instance and the constructor: is_running = false.
ControlInit ==
    /\ Init
    /\ fdtab = [f \in Fds |-> "free"]
    /\ lfd = NoFd /\ backlog = 0 /\ clients = 0
    /\ conns = {} /\ readable = {}
    /\ main = "new" /\ thread = "none" /\ is_running = FALSE
    /\ cur = NoFd /\ other = NoFd /\ fault = "none"

\* Connection::listen: socket() takes the lowest free fd, and bind() either
\* succeeds (then ::listen, its result unchecked) or fails, and the socket is
\* closed and socket_fd set to -1.  socket() fails when no fd is free.
Listen ==
    \/ /\ Free # {}
       /\ lfd' = LowestFree
       /\ fdtab' = [fdtab EXCEPT ![LowestFree] = "ctl_listen"]
    \/ /\ lfd' = NoFd
       /\ UNCHANGED fdtab

\* init: listen (its result ignored), handleAccept on the listener fd, and
\* return true.  A failed listen leaves fd -1 and nothing to accept on.
CtlInit ==
    /\ main = "new" /\ Alive
    /\ main' = "ready"
    /\ Listen
    /\ UNCHANGED <<vars, backlog, clients, conns, readable, thread, is_running, cur, other, fault>>

\* start: is_running = true, then the thread runs doWork.
Start ==
    /\ main = "ready" /\ Alive
    /\ main' = "running" /\ is_running' = TRUE /\ thread' = "check"
    /\ UNCHANGED <<vars, fdtab, lfd, backlog, clients, conns, readable, cur, other, fault>>

\* stop, its first statement: is_running = false.
StopBegin ==
    /\ main \in {"ready", "running"} /\ Alive
    /\ main' = "join" /\ is_running' = FALSE
    /\ UNCHANGED <<vars, fdtab, lfd, backlog, clients, conns, readable, thread, cur, other, fault>>

\* ~ControlManager at exit, whatever the main thread did before: stop().
Exit ==
    /\ main \in {"new", "ready", "running", "stopped"} /\ Alive
    /\ main' = "dtor" /\ is_running' = FALSE
    /\ UNCHANGED <<vars, fdtab, lfd, backlog, clients, conns, readable, thread, cur, other, fault>>

\* stop, control_thread.join(): waits for doWork to return; on a thread that
\* was never started or is already joined it throws std::system_error, which
\* ends the process (in the destructor, noexcept, through std::terminate).
Join ==
    /\ main \in {"join", "dtor"} /\ Alive
    /\ \/ /\ thread \in {"none", "joined"}
          /\ fault' = "terminate"
          /\ UNCHANGED <<main, thread>>
       \/ /\ thread = "done"
          /\ thread' = "joined"
          /\ main' = IF main = "join" THEN "stopped" ELSE "exited"
          /\ UNCHANGED fault
    /\ UNCHANGED <<vars, fdtab, lfd, backlog, clients, conns, readable, is_running, cur, other>>

\* doWork: while (is_running) loopOnce();
Check ==
    /\ thread = "check" /\ Alive
    /\ thread' = IF is_running THEN "poll" ELSE "done"
    /\ UNCHANGED <<vars, fdtab, lfd, backlog, clients, conns, readable, main, is_running, cur, other, fault>>

\* CONNECT without the new_fd > 0 test: a failed accept's -1 is registered.
AcceptEventNoCheck ==
    /\ thread = "poll" /\ Alive
    /\ lfd # NoFd /\ backlog > 0
    /\ LET new == IF Free = {} THEN NoFd ELSE LowestFree IN
       /\ fdtab' = IF new = NoFd THEN fdtab ELSE [fdtab EXCEPT ![new] = "ctl_conn"]
       /\ conns' = conns \cup {new}
    /\ backlog' = backlog - 1
    /\ thread' = "check"
    /\ UNCHANGED <<vars, lfd, clients, readable, main, is_running, cur, other, fault>>

\* HandleEvent CONNECT: one doAccept; a new fd > 0 is registered for READ.
AcceptEvent ==
    /\ thread = "poll" /\ Alive
    /\ lfd # NoFd /\ backlog > 0 /\ Free # {}
    /\ fdtab' = [fdtab EXCEPT ![LowestFree] = "ctl_conn"]
    /\ conns' = IF LowestFree > 0 THEN conns \cup {LowestFree} ELSE conns
    /\ backlog' = backlog - 1
    /\ thread' = "check"
    /\ UNCHANGED <<vars, lfd, clients, readable, main, is_running, cur, other, fault>>

\* READ whose parse-failure branch returns before deleteFd and the close.
ReadEventKeepFd(f) ==
    /\ thread = "poll" /\ Alive
    /\ f \in readable
    /\ \/ /\ UNCHANGED <<vars, conns, fdtab, cur>>
          /\ thread' = "check"
       \/ /\ \E m \in Methods, p \in Paths, body \in Bodies : HandleCommand(m, p, body)
          /\ conns' = conns \ {f}
          /\ CloseFd(f)
          /\ thread' = "dtor" /\ cur' = f
    /\ readable' = readable \ {f}
    /\ UNCHANGED <<lfd, backlog, clients, main, is_running, other, fault>>

\* HandleEvent READ on a control fd: a failed read closes; a request that
\* does not parse closes; one that parses goes to handleCommand and the
\* reply is written.  Every branch calls deleteFd and closes the fd, and the
\* Connection's destructor is left to close it once more.
ReadEvent(f) ==
    /\ thread = "poll" /\ Alive
    /\ f \in readable
    /\ \/ UNCHANGED vars                                      \* read or parse failed
       \/ \E m \in Methods, p \in Paths, body \in Bodies : HandleCommand(m, p, body)
    /\ conns' = conns \ {f}
    /\ readable' = readable \ {f}
    /\ CloseFd(f)
    /\ thread' = "dtor" /\ cur' = f
    /\ UNCHANGED <<lfd, backlog, clients, main, is_running, other, fault>>

\* loopOnce returns without an event ("this should not happends", line 116):
\* possible when no control fd is readable, whether or not a client waits
\* in the listen queue (an edge-triggered listener is not reported again).
Timeout ==
    /\ thread = "poll" /\ Alive
    /\ readable = {}
    /\ thread' = "check"
    /\ UNCHANGED <<vars, fdtab, lfd, backlog, clients, conns, readable, main, is_running, cur, other, fault>>

\* ~Connection at the end of the READ case: closeConnection on socket_fd.
ConnectionDtor ==
    /\ thread = "dtor" /\ Alive
    /\ CloseFd(cur)
    /\ thread' = "check" /\ cur' = NoFd
    /\ UNCHANGED <<vars, lfd, backlog, clients, conns, readable, main, is_running, other, fault>>

(* The rest of the system: control clients and another thread's sockets.  *)

\* A control client connects to the listening control socket.
ClientConnect ==
    /\ Alive /\ main # "exited"
    /\ lfd # NoFd /\ clients < MaxClients
    /\ backlog' = backlog + 1 /\ clients' = clients + 1
    /\ UNCHANGED <<vars, fdtab, lfd, conns, readable, main, thread, is_running, cur, other, fault>>

\* An accepted client sends its request (or hangs up): its fd is readable.
ClientSend(f) ==
    /\ Alive /\ main # "exited"
    /\ f \in conns \ readable
    /\ readable' = readable \cup {f}
    /\ UNCHANGED <<vars, fdtab, lfd, backlog, clients, conns, main, thread, is_running, cur, other, fault>>

\* Another thread accepts or opens a socket and is given the lowest free fd.
OtherOpen ==
    /\ Alive /\ main # "exited"
    /\ other = NoFd /\ Free # {}
    /\ fdtab' = [fdtab EXCEPT ![LowestFree] = "other"]
    /\ other' = LowestFree
    /\ UNCHANGED <<vars, lfd, backlog, clients, conns, readable, main, thread, is_running, cur, fault>>

\* That thread is done with its socket: closeConnection.
OtherClose ==
    /\ Alive /\ main # "exited"
    /\ other # NoFd
    /\ CloseFd(other)
    /\ other' = NoFd
    /\ UNCHANGED <<vars, lfd, backlog, clients, conns, readable, main, thread, is_running, cur, fault>>

\* HandleEvent on one event that loopOnce returned.
HandleEvent == AcceptEvent \/ (\E f \in Fds : ReadEvent(f))

Poll == HandleEvent \/ Timeout

ControlNext ==
    \/ CtlInit \/ Start \/ StopBegin \/ Exit \/ Join
    \/ Check \/ Poll \/ ConnectionDtor
    \/ ClientConnect \/ (\E f \in Fds : ClientSend(f)) \/ OtherOpen \/ OtherClose

\* The control thread is scheduled while it is runnable, loopOnce returns an
\* event that stays ready, and a join whose thread has returned returns:
\* weak fairness on their steps.  A return without an event is not assumed
\* ever to happen.  The main thread, the clients and the other thread may
\* stay idle for ever.
ControlFairness ==
    WF_allVars(Check) /\ WF_allVars(HandleEvent) /\ WF_allVars(ConnectionDtor) /\ WF_allVars(Join)

ControlSpec == ControlInit /\ [][ControlNext]_allVars /\ ControlFairness

-----------------------------------------------------------------------------

ControlTypeOK ==
    /\ TypeOK
    /\ fdtab \in [Fds -> Holders]
    /\ lfd \in Fds \cup {NoFd} /\ other \in Fds \cup {NoFd} /\ cur \in Fds \cup {NoFd}
    /\ backlog \in 0..MaxClients /\ clients \in 0..MaxClients
    /\ conns \subseteq Fds /\ readable \subseteq conns
    /\ main \in {"new", "ready", "running", "join", "stopped", "dtor", "exited"}
    /\ thread \in {"none", "check", "poll", "dtor", "done", "joined"}
    /\ is_running \in BOOLEAN /\ fault \in {"none", "terminate"}

\* No component loses an fd it holds to another's close: the other thread's
\* socket, every registered control connection and the control listener
\* stay open until their holder closes them.  HandleEvent's READ case and
\* ~Connection both close the client fd.
NoForeignClose ==
    /\ other # NoFd => fdtab[other] = "other"
    /\ \A f \in conns : fdtab[f] = "ctl_conn"
    /\ lfd # NoFd => fdtab[lfd] = "ctl_listen"

\* stop() returns, or the process ends: once is_running is cleared, doWork
\* leaves its loop and join() comes back (from the explicit stop or from
\* the destructor's).  doWork re-tests is_running only when loopOnce
\* returns, and nothing wakes it.
StopTerminates ==
    main \in {"join", "dtor"} ~> (main \in {"stopped", "exited"} \/ ~Alive)

\* A control client that has sent its request is served or dropped, with its
\* fd deregistered, unless the control thread has stopped first: HandleEvent
\* READ deregisters on every branch.
RequestSettled ==
    \A f \in Fds : f \in readable ~> (f \notin conns \/ thread \in {"done", "joined"} \/ ~Alive)

\* Every control connection the thread has accepted and not yet closed is
\* registered for READ, so it is read and closed: HandleEvent CONNECT
\* registers what doAccept returns when it is > 0.
NoLeakedConn == \A f \in Fds : fdtab[f] = "ctl_conn" => f \in conns

\* The process never ends in std::terminate from ControlManager::stop's join.
CleanExit == fault = "none"
====
