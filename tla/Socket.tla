------------------------------- MODULE Socket -------------------------------
(***************************************************************************)
(* Socket (include/mw/core/net/Socket.h, src/net/Socket.cpp): blocking     *)
(* calls with a timeout over asio.  A call starts one asynchronous         *)
(* operation and runs the io_context for the time allowed; if the          *)
(* operation's handler has not run by then, it closes the socket and runs  *)
(* the io_context until the handler has.  asio and the connection are      *)
(* external: bytes arrive in pieces, the peer may stop or close at any     *)
(* time, and an operation may complete just before its deadline, so that   *)
(* its handler reports success after the socket was closed.                *)
(***************************************************************************)
EXTENDS Integers, Sequences, SequencesExt

Newline == 10

VARIABLES
  call,       \* the call in progress, or NoCall
  run,        \* "out", "timed" (in run_for) or "drain" (in run, after close)
  done,       \* the operation: "pending", or with its handler queued: "ok", "error"
  open,       \* the socket is open
  buffer,     \* m_stringBuffer
  link,       \* the peer: "none", "up" or "closed"
  inflight,   \* bytes of the peer that are not read yet
  heard,      \* what the peer received, call by call
  sent,       \* history: the bytes the peer sent on this connection
  got         \* history: the bytes the calls returned

socketVars == <<call, run, done, open, buffer, link, inflight, heard, sent, got>>
connection == <<link, inflight, heard, sent, got>>

NoCall == [kind |-> "none", size |-> 0, message |-> "none"]
ConnectCall == [kind |-> "connect", size |-> 0, message |-> "none"]
AcceptCall == [kind |-> "accept", size |-> 0, message |-> "none"]
ReadCall(n) == [kind |-> "read", size |-> n, message |-> "none"]
LineCall == [kind |-> "line", size |-> 0, message |-> "none"]
WriteCall(m) == [kind |-> "write", size |-> 0, message |-> m]

SocketInit ==
  /\ call = NoCall /\ run = "out" /\ done = "pending"
  /\ open = FALSE /\ buffer = <<>>
  /\ link = "none" /\ inflight = <<>> /\ heard = <<>> /\ sent = <<>> /\ got = <<>>

\* The bytes up to and with the first newline of s; nothing if there is none.
Line(s) ==
  LET ends == {i \in DOMAIN s : s[i] = Newline}
  IN IF ends = {} THEN <<>> ELSE SubSeq(s, 1, CHOOSE i \in ends : \A j \in ends : i <= j)

\* Whether the bytes in the buffer complete call c.
Completes(c, s) ==
  \/ c.kind = "read" /\ Len(s) = c.size
  \/ c.kind = "line" /\ Line(s) # <<>>

\* The connection a new Socket starts with.
NewSocket ==
  /\ open' = FALSE /\ buffer' = <<>>
  /\ link' = "none" /\ inflight' = <<>> /\ heard' = <<>> /\ sent' = <<>> /\ got' = <<>>

\* Socket::Connect and Socket::Accept make a new Socket; the other calls use it.
Start(c) ==
  /\ run = "out"
  /\ c.kind = "read" => Len(buffer) < c.size
  /\ call' = c
  /\ run' = "timed"
  /\ IF c.kind \in {"connect", "accept"}
     THEN done' = "pending" /\ NewSocket
     ELSE /\ done' = (IF Completes(c, buffer) THEN "ok" ELSE IF open THEN "pending" ELSE "error")
          /\ UNCHANGED <<open, buffer, connection>>

\* Socket::Read when the buffer already holds enough.
ReadBuffered(n) ==
  /\ run = "out"
  /\ Len(buffer) >= n
  /\ got' = got \o SubSeq(buffer, 1, n)
  /\ buffer' = SubSeq(buffer, n + 1, Len(buffer))
  /\ UNCHANGED <<call, run, done, open, link, inflight, heard, sent>>

-----------------------------------------------------------------------------
\* asio and the peer.

InProgress == run = "timed" /\ done = "pending"

Connected ==
  /\ InProgress /\ call.kind = "connect"
  /\ done' = "ok" /\ open' = TRUE /\ link' = "up"
  /\ UNCHANGED <<call, run, buffer, inflight, heard, sent, got>>

\* A connection arrives at the acceptor, whose operation outlives the timeout.
Accepted ==
  /\ call.kind = "accept" /\ done = "pending"
  /\ done' = "ok" /\ link' = "up"
  /\ UNCHANGED <<call, run, open, buffer, inflight, heard, sent, got>>

\* async_read takes no more than it needs, async_read_until whatever there is.
Arrive(k) ==
  /\ InProgress /\ call.kind \in {"read", "line"}
  /\ k \in 1..Len(inflight)
  /\ call.kind = "read" => Len(buffer) + k <= call.size
  /\ buffer' = buffer \o SubSeq(inflight, 1, k)
  /\ inflight' = SubSeq(inflight, k + 1, Len(inflight))
  /\ done' = IF Completes(call, buffer') THEN "ok" ELSE "pending"
  /\ UNCHANGED <<call, run, open, link, heard, sent, got>>

Written ==
  /\ InProgress /\ call.kind = "write"
  /\ done' = "ok"
  /\ heard' = IF link = "up" THEN Append(heard, call.message) ELSE heard
  /\ UNCHANGED <<call, run, open, buffer, link, inflight, sent, got>>

\* Refused, reset, or at the end of the peer's bytes.
Fails ==
  /\ InProgress
  /\ \/ call.kind = "connect"
     \/ call.kind = "write" /\ link = "closed"
     \/ call.kind \in {"read", "line"} /\ link = "closed" /\ inflight = <<>>
  /\ done' = "error"
  /\ UNCHANGED <<call, run, open, buffer, connection>>

PeerSends(bytes) ==
  /\ link = "up"
  /\ inflight' = inflight \o bytes
  /\ sent' = sent \o bytes
  /\ UNCHANGED <<call, run, done, open, buffer, link, heard, got>>

PeerCloses ==
  /\ link = "up"
  /\ link' = "closed"
  /\ UNCHANGED <<call, run, done, open, buffer, inflight, heard, sent, got>>

-----------------------------------------------------------------------------
\* Mutant: the operation is not cancelled.
NeverCancelled ==
  /\ run = "timed"
  /\ run' = "drain"
  /\ UNCHANGED <<call, done, open, buffer, connection>>

\* Mutant: the caller goes on without waiting for the handler.
LeavesHandler ==
  /\ run = "timed"
  /\ run' = "out"
  /\ open' = FALSE
  /\ UNCHANGED <<call, done, buffer, connection>>

\* Socket::run: close cancels what is pending on the socket; an accept is pending on
\* the acceptor.
Timeout ==
  /\ run = "timed"
  /\ run' = "drain"
  /\ open' = FALSE
  /\ done' = IF done = "pending" /\ call.kind # "accept" THEN "error" ELSE done
  /\ UNCHANGED <<call, buffer, connection>>

\* What the call returns, with the newline of a line.
Taken ==
  IF call.kind = "read" THEN SubSeq(buffer, 1, call.size)
  ELSE IF call.kind = "line" THEN Line(buffer)
  ELSE <<>>

\* Mutant: Read clears the buffer.
ClearsBuffer(taken) == <<>>

\* m_stringBuffer.erase
Erased(taken) == SubSeq(buffer, Len(taken) + 1, Len(buffer))

\* The handler runs and the call returns or throws.
Finish(success) ==
  /\ run # "out" /\ done # "pending"
  /\ success = (done = "ok")
  /\ call' = NoCall /\ run' = "out" /\ done' = "pending"
  /\ open' = (open \/ (call.kind = "accept" /\ success))
  /\ IF success
     THEN got' = got \o Taken /\ buffer' = Erased(Taken)
     ELSE UNCHANGED <<got, buffer>>
  /\ UNCHANGED <<link, inflight, heard, sent>>
=============================================================================
