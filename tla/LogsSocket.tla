----------------------------- MODULE LogsSocket -----------------------------
(***************************************************************************)
(* One WebSocket log stream of the API: handleLogsWebSocketUpgrade of      *)
(* apps/api/src/logs/ws.ts, openProjectLogsStream of logs/service.ts and   *)
(* the follower of logs/runtime.ts.                                        *)
(*                                                                         *)
(* The handshake is suspended at each of its awaits.  From then on every   *)
(* callback runs to its end, the microtask that flushes the queue          *)
(* included, so a callback is one action: what its code does to the        *)
(* connection record, then Flush.  Lines are the numbers in which the      *)
(* follower prints them; the byte budget of the queue is counted in        *)
(* frames.                                                                 *)
(***************************************************************************)
EXTENDS Naturals, Sequences

CONSTANTS
  QueueLimit,   \* PROJECT_LOGS_STREAM_MAX_PENDING_BYTES, in frames
  MaxLines      \* bound on the lines the follower prints

ASSUME QueueLimitAssumption == QueueLimit \in Nat
ASSUME MaxLinesAssumption == MaxLines \in Nat

VARIABLES
  pc,        \* where the handshake is
  conn,      \* the variables of the handler, and what it did to the socket
  follower,  \* docker compose logs --follow; "failed": it has ended with an error
  out,       \* lines the follower has completed
  partial,   \* it has printed a part of the next line
  peer       \* the client's end of the TCP connection

serverVars == <<pc, conn, follower, out, partial, peer>>

None == "none"
Faults == {"failed", "overloaded"}
Frame(type, line) == [type |-> type, line |-> line]
Snapshot == Frame("snapshot", 0)
Line(i)  == Frame("line", i)
Fault(f) == Frame(f, 0)
Close    == Frame("close", 0)
Frames   == [type : {"snapshot", "line", "close"} \cup Faults, line : 0 .. MaxLines]

Connections ==
  [pending : Seq(1 .. MaxLines), terminal : {None} \cup Faults,
   closeAfterFlush : BOOLEAN, backpressured : BOOLEAN, streamStopped : BOOLEAN,
   socketClosed : BOOLEAN,
   wire : Seq(Frames),     \* every frame handed to socket.write and socket.end
   ended : BOOLEAN,        \* socket.end was called
   destroyed : BOOLEAN,    \* socket.destroyed
   closeDue : BOOLEAN,     \* 'close' is still to be emitted
   killed : BOOLEAN]       \* stop() of the follower was called

TypeOK ==
  /\ pc \in {"idle", "auth", "target", "tail", "streaming", "refused"}
  /\ conn \in Connections /\ Len(conn.pending) <= QueueLimit
  /\ follower \in {"none", "running", "ended", "failed"}
  /\ out \in 0 .. MaxLines /\ partial \in BOOLEAN
  /\ peer \in {"connected", "closing", "gone"}

SocketInit ==
  /\ pc = "idle" /\ follower = "none" /\ out = 0 /\ partial = FALSE
  /\ peer = "connected"
  /\ conn = [pending |-> <<>>, terminal |-> None, closeAfterFlush |-> FALSE,
             backpressured |-> FALSE, streamStopped |-> FALSE,
             socketClosed |-> FALSE, wire |-> <<>>, ended |-> FALSE,
             destroyed |-> FALSE, closeDue |-> FALSE, killed |-> FALSE]

-----------------------------------------------------------------------------
(* The functions of the handler, on the connection record.                 *)

\* The cleanup callback that stops the follower is there whenever a callback runs.
StopStream(c) ==
  IF c.streamStopped THEN c
  ELSE [c EXCEPT !.streamStopped = TRUE, !.pending = <<>>, !.terminal = None,
                 !.killed = TRUE]

DestroySocketSafely(c) ==
  IF c.socketClosed THEN c
  ELSE [StopStream(c) EXCEPT !.socketClosed = TRUE, !.ended = TRUE,
                             !.wire = Append(@, Close)]

QueueTerminal(c, fault) ==
  [StopStream(c) EXCEPT !.pending = <<>>, !.terminal = fault,
                        !.closeAfterFlush = TRUE]

QueueTerminalError(c) ==
  IF c.socketClosed \/ c.terminal # None THEN c ELSE QueueTerminal(c, "failed")

\* Mutant: an overload drops the queue and goes on.
QueueLinesDrops(c, first, last) ==
  IF c.streamStopped \/ c.socketClosed \/ c.terminal # None THEN c
  ELSE LET queue == c.pending \o [i \in 1 .. (last + 1 - first) |-> first + i - 1]
       IN  IF Len(queue) > QueueLimit THEN [c EXCEPT !.pending = <<>>]
           ELSE [c EXCEPT !.pending = queue]

\* Mutant: the budget is never compared.
QueueLinesUnbounded(c, first, last) ==
  IF c.streamStopped \/ c.socketClosed \/ c.terminal # None THEN c
  ELSE [c EXCEPT !.pending =
          @ \o [i \in 1 .. (last + 1 - first) |-> first + i - 1]]

\* queueLineFrame for the lines from first to last, one call after the other.
\* The call that exceeds the budget drops the queue, and later ones return.
QueueLines(c, first, last) ==
  IF c.streamStopped \/ c.socketClosed \/ c.terminal # None THEN c
  ELSE LET queue == c.pending \o [i \in 1 .. (last + 1 - first) |-> first + i - 1]
       IN  IF Len(queue) > QueueLimit THEN QueueTerminal(c, "overloaded")
           ELSE [c EXCEPT !.pending = queue]

\* The first n frames of the queue are written.
Written(c, n) ==
  [c EXCEPT !.wire = @ \o [i \in 1 .. n |-> Line(c.pending[i])],
            !.pending = SubSeq(@, n + 1, Len(@))]

\* The connections flushPendingEvents may leave behind: every write may be the
\* one that reports backpressure.
Flush(c) ==
  IF c.socketClosed \/ c.backpressured \/ c.destroyed THEN {c}
  ELSE IF c.closeAfterFlush /\ c.pending = <<>> /\ c.terminal = None
  THEN {DestroySocketSafely(c)}
  ELSE {[Written(c, n) EXCEPT !.backpressured = TRUE] : n \in 1 .. Len(c.pending)}
       \cup LET d == Written(c, Len(c.pending))
                e == [d EXCEPT !.terminal = None, !.closeAfterFlush = TRUE,
                               !.wire = Append(@, Fault(c.terminal))]
            IN  IF c.terminal = None THEN {d}
                ELSE {[e EXCEPT !.backpressured = TRUE], DestroySocketSafely(e)}

-----------------------------------------------------------------------------
(* The handshake.                                                          *)

\* The server emits 'upgrade' and awaits getCurrentUser.
Upgrade ==
  /\ pc = "idle" /\ pc' = "auth"
  /\ UNCHANGED <<conn, follower, out, partial, peer>>

\* catch: an HTTP answer ends the socket.
Refuse ==
  /\ pc \in {"auth", "target", "tail"} /\ pc' = "refused"
  /\ conn' = [conn EXCEPT !.ended = TRUE]
  /\ UNCHANGED <<follower, out, partial, peer>>

Authenticate ==
  /\ pc = "auth" /\ pc' = "target"
  /\ UNCHANGED <<conn, follower, out, partial, peer>>

ResolveTarget ==
  /\ pc = "target" /\ pc' = "tail"
  /\ UNCHANGED <<conn, follower, out, partial, peer>>

\* docker has answered with the tail: the follower is started, the upgrade and
\* the snapshot are written, and the listeners are attached.
OpenStream ==
  /\ pc = "tail" /\ pc' = "streaming"
  /\ follower' = "running"
  /\ \E full \in BOOLEAN :
       conn' = IF conn.destroyed THEN [conn EXCEPT !.backpressured = TRUE]
               ELSE [conn EXCEPT !.backpressured = full,
                                 !.wire = Append(@, Snapshot)]
  /\ UNCHANGED <<out, partial, peer>>

-----------------------------------------------------------------------------
(* The follower.                                                           *)

\* stdout 'data': the chunk completes the lines up to n, and may begin another.
FollowerPrints(n, more) ==
  /\ follower = "running"
  /\ n > out \/ (more /\ ~partial)
  /\ (IF more THEN n + 1 ELSE n) <= MaxLines
  /\ conn' \in Flush(QueueLines(conn, out + 1, n))
  /\ out' = n /\ partial' = more
  /\ UNCHANGED <<pc, follower, peer>>

\* 'error': docker could not be started.  The 'close' that follows does nothing.
FollowerErrors ==
  /\ follower = "running" /\ out = 0 /\ ~partial /\ ~conn.killed
  /\ follower' = "failed"
  /\ conn' \in Flush(QueueTerminalError(conn))
  /\ UNCHANGED <<pc, out, partial, peer>>

\* 'close' with an exit code: the rest of the output is a line, and a code other
\* than 0 an error, unless the follower was stopped.
FollowerCloses(success) ==
  /\ follower = "running"
  /\ LET last == IF partial THEN out + 1 ELSE out
         c == QueueLines(conn, out + 1, last)
         fails == ~success /\ ~c.killed
     IN  IF conn.killed
         THEN /\ follower' = "ended"
              /\ UNCHANGED <<conn, out, partial>>
         ELSE /\ follower' = IF fails THEN "failed" ELSE "ended"
              /\ conn' \in Flush(IF fails THEN QueueTerminalError(c) ELSE c)
              /\ out' = last /\ partial' = FALSE
  /\ UNCHANGED <<pc, peer>>

-----------------------------------------------------------------------------
(* The socket, once its listeners are attached.                            *)

\* Mutant: 'drain' does not schedule a flush.
OnDrainOnly ==
  /\ pc = "streaming" /\ conn.backpressured /\ ~conn.ended /\ ~conn.destroyed
  /\ conn' = [conn EXCEPT !.backpressured = FALSE]
  /\ UNCHANGED <<pc, follower, out, partial, peer>>

OnDrain ==
  /\ pc = "streaming" /\ conn.backpressured /\ ~conn.ended /\ ~conn.destroyed
  /\ conn' \in Flush([conn EXCEPT !.backpressured = FALSE])
  /\ UNCHANGED <<pc, follower, out, partial, peer>>

\* 'data' with a close frame, which the client sends once.
OnCloseFrame ==
  /\ pc = "streaming" /\ peer = "closing" /\ ~conn.socketClosed /\ ~conn.destroyed
  /\ conn' = DestroySocketSafely(conn)
  /\ UNCHANGED <<pc, follower, out, partial, peer>>

\* Mutant: 'end' is left to 'close'.
OnEndIgnored ==
  /\ pc = "streaming" /\ peer = "gone" /\ ~conn.socketClosed /\ ~conn.destroyed
  /\ UNCHANGED serverVars

\* 'end': the client is gone.  Our end of the socket stays open.
OnEnd ==
  /\ pc = "streaming" /\ peer = "gone" /\ ~conn.socketClosed /\ ~conn.destroyed
  /\ conn' = StopStream([conn EXCEPT !.socketClosed = TRUE])
  /\ UNCHANGED <<pc, follower, out, partial, peer>>

\* 'error': the connection was reset.
OnError ==
  /\ pc = "streaming" /\ ~conn.destroyed
  /\ conn' = StopStream([conn EXCEPT !.socketClosed = TRUE, !.destroyed = TRUE,
                                     !.closeDue = TRUE])
  /\ UNCHANGED <<pc, follower, out, partial, peer>>

\* preClose destroys every active socket, those still in their handshake too.
PreClose ==
  /\ pc \notin {"idle", "refused"} /\ ~conn.destroyed
  /\ conn' = [conn EXCEPT !.destroyed = TRUE, !.closeDue = TRUE]
  /\ UNCHANGED <<pc, follower, out, partial, peer>>

\* node destroys a socket both ends of which have ended.
BothEnded ==
  /\ pc = "streaming" /\ conn.ended /\ peer = "gone" /\ ~conn.destroyed
  /\ conn' = [conn EXCEPT !.destroyed = TRUE, !.closeDue = TRUE]
  /\ UNCHANGED <<pc, follower, out, partial, peer>>

\* 'close' is emitted, and nobody listens before the end of the handshake.
OnClose ==
  /\ conn.closeDue
  /\ conn' = IF pc = "streaming"
             THEN StopStream([conn EXCEPT !.socketClosed = TRUE, !.closeDue = FALSE])
             ELSE [conn EXCEPT !.closeDue = FALSE]
  /\ UNCHANGED <<pc, follower, out, partial, peer>>

Handshake == Refuse \/ Authenticate \/ ResolveTarget \/ OpenStream

FollowerStep ==
  \/ \E n \in out .. MaxLines, more \in BOOLEAN : FollowerPrints(n, more)
  \/ FollowerErrors
  \/ \E success \in BOOLEAN : FollowerCloses(success)

Events == OnDrain \/ OnCloseFrame \/ OnEnd \/ BothEnded \/ OnClose

ServerStep == Handshake \/ FollowerStep \/ Events \/ OnError \/ PreClose

-----------------------------------------------------------------------------
(* Properties.                                                             *)

\* What the stream promises to the client (README, "Logs baseline"): the
\* snapshot first, then the lines of the follower in order and without a gap,
\* then at most one error, then the close frame; whatever was queued, refused by
\* a full socket, dropped by an overload or overtaken by a close.
FramesInOrder ==
  conn.wire # <<>> =>
    \E n \in 0 .. MaxLines :
      \E rest \in {<<>>, <<Close>>} \cup {<<Fault(f)>> : f \in Faults}
                    \cup {<<Fault(f), Close>> : f \in Faults} :
        conn.wire = <<Snapshot>> \o [i \in 1 .. n |-> Line(i)] \o rest

\* The one way a stream is forgotten: the socket was destroyed, and 'close'
\* emitted, while the handshake was still awaiting.
Forgotten ==
  pc = "streaming" /\ conn.destroyed /\ ~conn.closeDue /\ ~conn.socketClosed

\* Disconnect and shutdown stop the Docker follower, also when they come before
\* the follower is started, unless 'close' came before the listener.
FollowerStops ==
  (pc = "streaming" /\ (peer # "connected" \/ conn.destroyed))
    ~> (conn.killed \/ Forgotten)

\* A follower that fails is reported to a client that stays and reads, also when
\* the socket was full at that moment.
FailureIsTold ==
  (follower = "failed")
    ~> \/ \E i \in 1 .. Len(conn.wire) : conn.wire[i].type \in Faults
       \/ peer # "connected" \/ conn.destroyed
=============================================================================
