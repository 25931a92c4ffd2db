---------------------------- MODULE ConnectionIO ----------------------------
(***************************************************************************)
(* Connection::read and Connection::write on a non-blocking socket.  Each  *)
(* loop iteration is one recv or send call, whose result the kernel picks: *)
(* recv returns some of the pending bytes (at most the length asked for),  *)
(* 0 once the peer has closed, or -1 with EAGAIN or another errno; send    *)
(* takes some of the bytes asked for while the socket buffer has room,     *)
(* returns 0 when asked for 0 bytes, or -1.  The peer sends, closes and    *)
(* drains the socket buffer on its own.  Bytes are counted, not valued.    *)
(***************************************************************************)
EXTENDS Integers

CONSTANTS
    MAX_DATA_SIZE,  \* the size of read()'s stack buffer and of each recv
    MaxIncoming,    \* bytes the peer sends in a behaviour, at most
    Lengths,        \* lengths write() is called with
    SndBuf,         \* room in the socket's send buffer when drained
    MaxReads        \* read() calls in a behaviour, at most

VARIABLES
    incoming,   \* bytes the peer has sent in all
    pending,    \* bytes in the receive queue
    peer_open,  \* the peer has not closed
    r_pc,       \* read(): "idle", "loop", "done"
    r_size,     \* read()'s buffer_size
    overflow,   \* a recv wrote past the end of read()'s buffer
    w_pc,       \* write(): "idle", "loop", "done"
    w_len,      \* write()'s buffer_size argument
    w_sent,     \* write()'s sent
    room,       \* free room in the send buffer
    w_to,       \* the call is writeTo (from string_buffer), not write
    buffered,   \* string_buffer's length
    appended,   \* bytes read() has appended to string_buffer in all
    reads       \* read() calls so far

read_vars == <<r_pc, r_size, overflow, reads>>
write_vars == <<w_pc, w_len, w_sent, w_to>>
buf_vars == <<buffered, appended>>
vars == <<incoming, pending, peer_open, read_vars, room, write_vars, buf_vars>>

Min2(a, b) == IF a < b THEN a ELSE b

\* A Connection is used by one thread: a call starts only when none runs.
Idle == r_pc = "idle" /\ w_pc = "idle"

(***************************************************************************)
(* The peer.                                                               *)
(***************************************************************************)
PeerSend ==
    /\ peer_open
    /\ incoming < MaxIncoming
    /\ incoming' = incoming + 1
    /\ pending' = pending + 1
    /\ UNCHANGED <<peer_open, read_vars, room, write_vars, buf_vars>>

PeerClose ==
    /\ peer_open
    /\ peer_open' = FALSE
    /\ UNCHANGED <<incoming, pending, read_vars, room, write_vars, buf_vars>>

PeerDrain ==
    /\ room < SndBuf
    /\ room' = SndBuf
    /\ UNCHANGED <<incoming, pending, peer_open, read_vars, write_vars, buf_vars>>

(***************************************************************************)
(* Connection::read: recv(socket_fd, buffer + buffer_size, MAX_DATA_SIZE)  *)
(* until it returns 0 or -1; the bytes land at buffer_size onwards.  Then  *)
(* string_buffer << buffer.                                                *)
(***************************************************************************)
ReadStart ==
    /\ Idle
    /\ reads < MaxReads
    /\ r_pc' = "loop"
    /\ r_size' = 0
    /\ reads' = reads + 1
    /\ UNCHANGED <<incoming, pending, peer_open, overflow, room, write_vars, buf_vars>>

RecvData ==
    /\ r_pc = "loop"
    /\ pending > 0
    /\ \E count \in 1..Min2(pending, MAX_DATA_SIZE) :
          /\ overflow' = (overflow \/ r_size + count > MAX_DATA_SIZE)
          /\ r_size' = r_size + count
          /\ pending' = pending - count
    /\ UNCHANGED <<incoming, peer_open, r_pc, reads, room, write_vars, buf_vars>>

\* recv returns 0 (the peer closed) or -1 with EAGAIN: the queue is empty.
RecvEnd ==
    /\ r_pc = "loop"
    /\ pending = 0
    /\ r_pc' = "done"
    /\ UNCHANGED <<incoming, pending, peer_open, r_size, overflow, reads, room, write_vars, buf_vars>>

\* recv returns -1 with ECONNRESET: the peer has gone, data may be left.
RecvError ==
    /\ r_pc = "loop"
    /\ ~peer_open
    /\ r_pc' = "done"
    /\ UNCHANGED <<incoming, pending, peer_open, r_size, overflow, reads, room, write_vars, buf_vars>>

\* string_buffer << buffer reads the stack buffer as a NUL-terminated string,
\* but nothing terminates it: the bytes appended stop at the first zero byte,
\* which may lie inside the data or past it in uninitialised memory.
ReadReturn ==
    /\ r_pc = "done"
    /\ r_pc' = "idle"
    /\ \E n \in 0..(r_size + 1) :
          /\ appended' = appended + n
          /\ buffered' = buffered + n
    /\ UNCHANGED <<incoming, pending, peer_open, r_size, overflow, reads, room, write_vars>>

(***************************************************************************)
(* Connection::write(data, buffer_size) and Connection::writeTo(fd), the   *)
(* same loop: send(fd, data + sent, buffer_size - sent) until it returns 0 *)
(* or -1; writeTo sends string_buffer and then erases the sent bytes.      *)
(***************************************************************************)
StartLoop(len, to) ==
    /\ Idle
    /\ w_len' = len
    /\ w_to' = to
    /\ w_pc' = "loop"
    /\ w_sent' = 0
    /\ UNCHANGED <<incoming, pending, peer_open, read_vars, room, buf_vars>>

WriteStartNoReset ==
    /\ Idle
    /\ \E len \in Lengths : w_len' = len
    /\ w_to' = FALSE
    /\ w_pc' = "loop"
    /\ UNCHANGED <<incoming, pending, peer_open, read_vars, room, w_sent, buf_vars>>

WriteStart == \E len \in Lengths : StartLoop(len, FALSE)

WriteToStart == StartLoop(buffered, TRUE)

SendData ==
    /\ w_pc = "loop"
    /\ w_len - w_sent > 0
    /\ room > 0
    /\ \E count \in 1..Min2(w_len - w_sent, room) :
          /\ room' = room - count
          /\ w_sent' = w_sent + count
    /\ UNCHANGED <<incoming, pending, peer_open, read_vars, w_pc, w_len, w_to, buf_vars>>

SendZeroSpin ==
    /\ w_pc = "loop"
    /\ w_len - w_sent = 0
    /\ UNCHANGED vars

\* send is asked for 0 bytes once all are sent, and returns 0.
SendZero ==
    /\ w_pc = "loop"
    /\ w_len - w_sent = 0
    /\ w_pc' = "done"
    /\ UNCHANGED <<incoming, pending, peer_open, read_vars, room, w_len, w_sent, w_to, buf_vars>>

\* send returns -1 with EAGAIN: no room in the send buffer.
SendAgain ==
    /\ w_pc = "loop"
    /\ w_len - w_sent > 0
    /\ room = 0
    /\ w_pc' = "done"
    /\ UNCHANGED <<incoming, pending, peer_open, read_vars, room, w_len, w_sent, w_to, buf_vars>>

\* send returns -1 with EPIPE or ECONNRESET: the peer has gone.
SendError ==
    /\ w_pc = "loop"
    /\ ~peer_open
    /\ w_pc' = "done"
    /\ UNCHANGED <<incoming, pending, peer_open, read_vars, room, w_len, w_sent, w_to, buf_vars>>

\* writeTo's string_buffer.erase(sent) drops the bytes it has sent.
WriteReturn ==
    /\ w_pc = "done"
    /\ w_pc' = "idle"
    /\ buffered' = IF w_to THEN buffered - w_sent ELSE buffered
    /\ UNCHANGED <<incoming, pending, peer_open, read_vars, room, w_len, w_sent, w_to, appended>>

Init ==
    /\ incoming = 0
    /\ pending = 0
    /\ peer_open = TRUE
    /\ r_pc = "idle"
    /\ r_size = 0
    /\ overflow = FALSE
    /\ reads = 0
    /\ w_pc = "idle"
    /\ w_len = 0
    /\ w_sent = 0
    /\ room = SndBuf
    /\ w_to = FALSE
    /\ buffered = 0
    /\ appended = 0

ReadLoop == RecvData \/ RecvEnd \/ RecvError \/ ReadReturn
WriteLoop == SendData \/ SendZero \/ SendAgain \/ SendError \/ WriteReturn
Peer == PeerSend \/ PeerClose \/ PeerDrain

Next == ReadStart \/ ReadLoop \/ WriteStart \/ WriteToStart \/ WriteLoop \/ Peer

\* Once called, read() and write() run on the calling thread, which nothing
\* blocks (the socket is non-blocking): their loop steps are weakly fair.
\* Whether the program calls them, and what the peer does, is not.
Spec == Init /\ [][Next]_vars /\ WF_vars(ReadLoop) /\ WF_vars(WriteLoop)

TypeOK ==
    /\ incoming \in 0..MaxIncoming /\ pending \in 0..incoming
    /\ peer_open \in BOOLEAN
    /\ r_pc \in {"idle", "loop", "done"} /\ r_size \in 0..MaxIncoming
    /\ overflow \in BOOLEAN
    /\ w_pc \in {"idle", "loop", "done"} /\ w_sent \in 0..w_len
    /\ room \in 0..SndBuf
    /\ w_to \in BOOLEAN /\ reads \in 0..MaxReads
    /\ buffered \in Nat /\ appended \in Nat

\* Connection::write: every call returns; the loop ends on the send of the
\* remaining 0 bytes, on EAGAIN or on an error, whatever the peer does.
WriteTerminates == w_pc = "loop" ~> w_pc = "idle"

\* Connection::write (as ControlManager::HandleEvent uses it, ignoring the
\* result before closing): a write that returns has sent the whole response.
WriteComplete == w_pc = "done" => w_sent = w_len

\* Connection::read: once it returns, string_buffer has grown by exactly the
\* bytes recv took from the socket.
ReadAppendsReceived == r_pc = "idle" => appended = incoming - pending

\* Connection::read: recv never writes past the end of read()'s buffer.
NoBufferOverflow == ~overflow

====
