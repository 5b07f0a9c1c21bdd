-------------------------- MODULE LogsStream_proofs --------------------------
(***************************************************************************)
(* Proofs about LogsStream, for any budget of the queue, any number of     *)
(* lines and any number of visible ones: the frames are in order, the tab  *)
(* shows the lines it was sent unless a frame overtook a render, and an    *)
(* error that is shown stays.  First those about the socket alone: what    *)
(* the functions of the handler do to a connection, and that every         *)
(* callback keeps the frames in order.                                     *)
(***************************************************************************)
EXTENDS LogsStream, SequenceTheorems, FiniteSetTheorems, TLAPS

-----------------------------------------------------------------------------
(* A connection in order.                                                  *)

FaultFrames == {Fault(f) : f \in Faults}

\* A stream that is stopped has lost its queue and its follower; only a stopped
\* one has an error to report or is closed.
StoppedIsStopped(c) ==
  /\ c.streamStopped => c.killed /\ c.pending = <<>>
  /\ c.terminal # None => c.streamStopped
  /\ c.closeAfterFlush => c.streamStopped
  /\ c.socketClosed => c.streamStopped

\* After n lines there is nothing more on the wire, an error, the close frame, or
\* an error and the close frame.
Rest(w, n) ==
  \/ Len(w) = n + 1
  \/ Len(w) = n + 2 /\ w[n + 2] \in FaultFrames \cup {Close}
  \/ Len(w) = n + 3 /\ w[n + 2] \in FaultFrames /\ w[n + 3] = Close

\* The wire holds n lines; the follower has completed m, and while the stream runs
\* the queue holds those between them.
Wired(c, m, n) ==
  /\ n + 1 <= Len(c.wire)
  /\ c.wire[1] = Snapshot
  /\ \A i \in 1 .. n : c.wire[i + 1] = Line(i)
  /\ Rest(c.wire, n)
  /\ ~c.streamStopped =>
       /\ Len(c.wire) = n + 1 /\ Len(c.pending) = m - n
       /\ \A i \in 1 .. m - n : c.pending[i] = n + i
  /\ ~c.socketClosed => \/ Len(c.wire) = n + 1
                        \/ Len(c.wire) = n + 2 /\ c.wire[n + 2] \in FaultFrames
  /\ ~c.socketClosed /\ c.terminal # None => Len(c.wire) = n + 1

Good(c, m) ==
  /\ c \in Connections /\ Len(c.pending) <= QueueLimit
  /\ StoppedIsStopped(c)
  /\ c.wire # <<>> => \E n \in 0 .. m : Wired(c, m, n)

\* Nothing is written before the snapshot, except on a destroyed socket: nowhere.
Writable(c) == c.wire # <<>> \/ c.destroyed

\* Before the stream is opened the connection is as it was made.
Unopened ==
  /\ conn.wire = <<>> /\ conn.pending = <<>> /\ conn.terminal = None
  /\ ~conn.streamStopped /\ ~conn.socketClosed /\ ~conn.closeAfterFlush
  /\ follower = "none" /\ out = 0 /\ ~partial

SocketInv ==
  /\ TypeOK
  /\ Good(conn, out)
  /\ pc = "streaming" => Writable(conn)
  /\ pc # "streaming" => Unopened
  /\ partial => out < MaxLines

\* The wire of d begins with the wire of c.
Extends(c, d) ==
  /\ Len(c.wire) <= Len(d.wire)
  /\ \A i \in 1 .. Len(c.wire) : d.wire[i] = c.wire[i]

-----------------------------------------------------------------------------
(* What the functions of the handler do.                                   *)

\* The values a connection is made of.
LEMMA FrameFacts ==
  /\ Snapshot \in Frames /\ Close \in Frames
  /\ \A f \in Faults : Fault(f) \in Frames
  /\ \A i \in 0 .. MaxLines : Line(i) \in Frames
  /\ \A i, j : Line(i) = Line(j) => i = j
  /\ \A i : Line(i) # Close /\ Line(i) \notin FaultFrames
  /\ Close \notin FaultFrames
  /\ \A i : Snapshot # Line(i)
  /\ Snapshot # Close /\ Snapshot \notin FaultFrames
BY MaxLinesAssumption
   DEF Frame, Frames, Snapshot, Line, Fault, Close, Faults, FaultFrames

\* The fields of a connection have their types.
LEMMA ConnFields ==
  ASSUME NEW c \in Connections
  PROVE  /\ c.pending \in Seq(1 .. MaxLines) /\ c.wire \in Seq(Frames)
         /\ c.terminal \in {None} \cup Faults
         /\ Len(c.pending) \in Nat /\ Len(c.wire) \in Nat
<1>1. c.pending \in Seq(1 .. MaxLines) /\ c.wire \in Seq(Frames)
      /\ c.terminal \in {None} \cup Faults
  BY DEF Connections
<1>2. Len(c.pending) \in Nat /\ Len(c.wire) \in Nat
  BY <1>1, LenProperties
<1> QED
  BY <1>1, <1>2

\* A wire of which nothing changed is extended.
LEMMA ExtendsSame ==
  ASSUME NEW c \in Connections, NEW d, d.wire = c.wire
  PROVE  Extends(c, d)
BY ConnFields DEF Extends

\* One frame more.
LEMMA ExtendsAppend ==
  ASSUME NEW c \in Connections, NEW d, NEW f \in Frames,
         d.wire = Append(c.wire, f)
  PROVE  /\ Extends(c, d)
         /\ d.wire \in Seq(Frames) /\ Len(d.wire) = Len(c.wire) + 1
         /\ d.wire[Len(c.wire) + 1] = f
<1>1. c.wire \in Seq(Frames) /\ Len(c.wire) \in Nat
  BY ConnFields
<1>2. /\ d.wire \in Seq(Frames) /\ Len(d.wire) = Len(c.wire) + 1
      /\ \A i \in 1 .. Len(c.wire) : d.wire[i] = c.wire[i]
      /\ d.wire[Len(c.wire) + 1] = f
  BY <1>1, AppendProperties
<1> QED
  BY <1>1, <1>2 DEF Extends

\* What comes later extends what came before.
LEMMA ExtendsTransitive ==
  ASSUME NEW c \in Connections, NEW d \in Connections, NEW e,
         Extends(c, d), Extends(d, e)
  PROVE  Extends(c, e)
BY ConnFields DEF Extends

\* StopStream drops the queue and the pending error, and leaves the wire alone.
LEMMA StopStreamSafe ==
  ASSUME NEW m \in Nat, NEW c, Good(c, m)
  PROVE  /\ Good(StopStream(c), m) /\ Extends(c, StopStream(c))
         /\ StopStream(c).wire = c.wire
         /\ StopStream(c).streamStopped /\ StopStream(c).killed
         /\ StopStream(c).socketClosed = c.socketClosed
         /\ StopStream(c).destroyed = c.destroyed
         /\ StopStream(c).pending = <<>>
<1> DEFINE d == StopStream(c)
<1>0. c \in Connections /\ StoppedIsStopped(c) /\ Len(c.pending) <= QueueLimit
  BY DEF Good
<1>1. CASE c.streamStopped
  <2>1. d = c
    BY <1>1 DEF StopStream
  <2> QED
    BY <2>1, <1>0, <1>1, ExtendsSame DEF StoppedIsStopped
<1>2. CASE ~c.streamStopped
  <2>1. d = [c EXCEPT !.streamStopped = TRUE, !.pending = <<>>, !.terminal = None,
                      !.killed = TRUE]
    BY <1>2 DEF StopStream
  <2>2. <<>> \in Seq(1 .. MaxLines) /\ Len(<<>>) = 0
    BY EmptySeq
  <2>3. d \in Connections
    BY <2>1, <2>2, <1>0 DEF Connections
  <2>4. /\ d.wire = c.wire /\ d.streamStopped /\ d.killed /\ d.pending = <<>>
        /\ d.terminal = None /\ d.socketClosed = c.socketClosed
        /\ d.closeAfterFlush = c.closeAfterFlush /\ d.destroyed = c.destroyed
    BY <2>1, <1>0 DEF Connections
  <2>5. StoppedIsStopped(d)
    BY <2>4 DEF StoppedIsStopped
  <2>6. ASSUME NEW n \in 0 .. m, Wired(c, m, n)  PROVE Wired(d, m, n)
    BY <2>4, <2>6 DEF Wired
  <2>7. Good(d, m)
    BY <2>2, <2>3, <2>4, <2>5, <2>6, QueueLimitAssumption DEF Good
  <2> HIDE DEF d
  <2> QED
    BY <2>4, <2>7, <1>0, ExtendsSame DEF d
<1> QED
  BY <1>1, <1>2

\* A socket is closed with a close frame, after which nothing is written.
LEMMA DestroySafe ==
  ASSUME NEW m \in Nat, NEW c, Good(c, m), c.wire # <<>>
  PROVE  /\ Good(DestroySocketSafely(c), m) /\ Extends(c, DestroySocketSafely(c))
         /\ DestroySocketSafely(c).wire # <<>>
         /\ DestroySocketSafely(c).socketClosed
<1> DEFINE s == StopStream(c)
           d == DestroySocketSafely(c)
<1>0. c \in Connections
  BY DEF Good
<1>1. CASE c.socketClosed
  <2>1. d = c
    BY <1>1 DEF DestroySocketSafely
  <2> QED
    BY <2>1, <1>0, <1>1, ExtendsSame
<1>2. CASE ~c.socketClosed
  <2>1. d = [s EXCEPT !.socketClosed = TRUE, !.ended = TRUE,
                      !.wire = Append(@, Close)]
    BY <1>2 DEF DestroySocketSafely
  <2>2. /\ Good(s, m) /\ s.wire = c.wire /\ s.streamStopped /\ s.killed
        /\ ~s.socketClosed
    BY <1>2, StopStreamSafe
  <2>3. s \in Connections /\ StoppedIsStopped(s)
        /\ Len(s.pending) <= QueueLimit
    BY <2>2 DEF Good
  <2> HIDE DEF s
  <2>4. /\ d.wire = Append(c.wire, Close) /\ d.streamStopped /\ d.killed
        /\ d.socketClosed /\ d.terminal = s.terminal /\ d.pending = s.pending
        /\ d.closeAfterFlush = s.closeAfterFlush
    BY <2>1, <2>2, <2>3 DEF Connections
  <2>5. /\ Extends(c, d) /\ d.wire \in Seq(Frames)
        /\ Len(d.wire) = Len(c.wire) + 1 /\ d.wire[Len(c.wire) + 1] = Close
    BY <2>4, <1>0, FrameFacts, ExtendsAppend
  <2>6. d \in Connections
    BY <2>1, <2>3, <2>4, <2>5 DEF Connections
  <2>7. StoppedIsStopped(d)
    BY <2>2, <2>3, <2>4 DEF StoppedIsStopped
  <2>8. PICK n \in 0 .. m : Wired(c, m, n)
    BY DEF Good
  <2>9. Len(c.wire) \in Nat
    BY <1>0, ConnFields
  <2> HIDE DEF d
  <2>10. \/ Len(c.wire) = n + 1
         \/ Len(c.wire) = n + 2 /\ c.wire[n + 2] \in FaultFrames
    BY <2>8, <1>2 DEF Wired
  <2>11. Rest(d.wire, n)
    <3>1. CASE Len(c.wire) = n + 1
      BY <3>1, <2>5 DEF Rest
    <3>2. CASE Len(c.wire) = n + 2 /\ c.wire[n + 2] \in FaultFrames
      BY <3>2, <2>5 DEF Rest, Extends
    <3> QED
      BY <2>10, <3>1, <3>2
  <2>12. /\ n + 1 <= Len(d.wire) /\ d.wire[1] = Snapshot
         /\ \A i \in 1 .. n : d.wire[i + 1] = Line(i)
    <3>1. /\ n + 1 <= Len(c.wire) /\ c.wire[1] = Snapshot
          /\ \A i \in 1 .. n : c.wire[i + 1] = Line(i)
      BY <2>8 DEF Wired
    <3>2. \A i \in 1 .. Len(c.wire) : d.wire[i] = c.wire[i]
      BY <2>5 DEF Extends
    <3>3. 1 \in 1 .. Len(c.wire) /\ \A i \in 1 .. n : i + 1 \in 1 .. Len(c.wire)
      BY <3>1, <2>9
    <3>4. \A i \in 1 .. n : d.wire[i + 1] = Line(i)
      BY <3>1, <3>2, <3>3
    <3>5. n + 1 <= Len(d.wire)
      BY <3>1, <2>5, <2>9
    <3> QED
      BY <3>1, <3>2, <3>3, <3>4, <3>5
  <2>13. Wired(d, m, n)
    BY <2>4, <2>11, <2>12 DEF Wired
  <2>14. Good(d, m)
    BY <2>3, <2>4, <2>6, <2>7, <2>13 DEF Good
  <2>15. d.wire # <<>>
    BY <2>5, <2>9, EmptySeq
  <2> QED
    BY <2>4, <2>5, <2>14, <2>15 DEF d
<1> QED
  BY <1>1, <1>2

\* An error replaces the queue of a stream that runs.
LEMMA QueueTerminalSafe ==
  ASSUME NEW m \in Nat, NEW c, Good(c, m), NEW f \in Faults,
         ~c.streamStopped
  PROVE  /\ Good(QueueTerminal(c, f), m) /\ Extends(c, QueueTerminal(c, f))
         /\ QueueTerminal(c, f).wire = c.wire
         /\ QueueTerminal(c, f).streamStopped
         /\ QueueTerminal(c, f).destroyed = c.destroyed
<1> DEFINE s == StopStream(c)
           d == QueueTerminal(c, f)
<1>1. /\ Good(s, m) /\ s.wire = c.wire /\ s.streamStopped /\ s.killed
      /\ s.socketClosed = c.socketClosed /\ s.destroyed = c.destroyed
      /\ s.pending = <<>>
  BY StopStreamSafe
<1>2. s \in Connections /\ StoppedIsStopped(s)
  BY <1>1 DEF Good
<1>3. d = [s EXCEPT !.pending = <<>>, !.terminal = f, !.closeAfterFlush = TRUE]
  BY DEF QueueTerminal
<1>4. c \in Connections /\ ~c.socketClosed
  BY DEF Good, StoppedIsStopped
<1> HIDE DEF s
<1>5. <<>> \in Seq(1 .. MaxLines) /\ Len(<<>>) = 0
  BY EmptySeq
<1>6. d \in Connections
  BY <1>2, <1>3, <1>5 DEF Connections
<1>7. /\ d.wire = c.wire /\ d.streamStopped /\ d.killed /\ d.pending = <<>>
      /\ d.terminal = f /\ d.socketClosed = c.socketClosed
      /\ d.destroyed = c.destroyed
  BY <1>1, <1>2, <1>3 DEF Connections
<1>8. StoppedIsStopped(d)
  BY <1>7 DEF StoppedIsStopped
<1>9. ASSUME NEW n \in 0 .. m, Wired(c, m, n)  PROVE Wired(d, m, n)
  BY <1>7, <1>9 DEF Wired
<1>10. Good(d, m)
  BY <1>5, <1>6, <1>7, <1>8, <1>9, QueueLimitAssumption DEF Good
<1> HIDE DEF d
<1> QED
  BY <1>4, <1>7, <1>10, ExtendsSame DEF d

\* An error of the follower is queued at most once, while it is not stopped.
LEMMA QueueTerminalErrorSafe ==
  ASSUME NEW m \in Nat, NEW c, Good(c, m), ~c.killed
  PROVE  /\ Good(QueueTerminalError(c), m) /\ Extends(c, QueueTerminalError(c))
         /\ QueueTerminalError(c).wire = c.wire
         /\ QueueTerminalError(c).destroyed = c.destroyed
<1>1. c \in Connections /\ ~c.streamStopped
  BY DEF Good, StoppedIsStopped
<1>2. CASE c.socketClosed \/ c.terminal # None
  BY <1>1, <1>2, ExtendsSame DEF QueueTerminalError
<1>3. CASE ~(c.socketClosed \/ c.terminal # None)
  BY <1>1, <1>3, QueueTerminalSafe DEF QueueTerminalError, Faults
<1> QED
  BY <1>2, <1>3

\* More lines may have been completed: a stopped stream does not hold them.
LEMMA StoppedAnyLines ==
  ASSUME NEW m \in Nat, NEW k \in Nat, m <= k, NEW c, Good(c, m), c.streamStopped
  PROVE  Good(c, k)
<1>1. ASSUME NEW n \in 0 .. m, Wired(c, m, n)  PROVE n \in 0 .. k /\ Wired(c, k, n)
  BY <1>1 DEF Wired
<1> QED
  BY <1>1 DEF Good

\* The lines that were completed are queued behind those that wait, in order; the
\* one that exceeds the budget stops the stream.
LEMMA QueueLinesSafe ==
  ASSUME NEW m \in 0 .. MaxLines, NEW k \in m .. MaxLines, NEW c, Good(c, m)
  PROVE  /\ Good(QueueLines(c, m + 1, k), k) /\ Extends(c, QueueLines(c, m + 1, k))
         /\ QueueLines(c, m + 1, k).wire = c.wire
         /\ QueueLines(c, m + 1, k).destroyed = c.destroyed
<1> DEFINE lines == [i \in 1 .. (k + 1 - (m + 1)) |-> (m + 1) + i - 1]
           queue == c.pending \o lines
           d == QueueLines(c, m + 1, k)
<1>0. m \in Nat /\ k \in Nat /\ m <= k /\ k <= MaxLines
  BY MaxLinesAssumption
<1>1. c \in Connections /\ StoppedIsStopped(c)
  BY DEF Good
<1>2. CASE c.streamStopped \/ c.socketClosed \/ c.terminal # None
  <2>1. d = c
    BY <1>2 DEF QueueLines
  <2>2. c.streamStopped
    BY <1>1, <1>2 DEF StoppedIsStopped
  <2>3. Good(c, k)
    BY <2>2, <1>0, StoppedAnyLines
  <2> HIDE DEF d
  <2> QED
    BY <2>1, <2>3, <1>1, ExtendsSame DEF d
<1>3. CASE ~(c.streamStopped \/ c.socketClosed \/ c.terminal # None)
  <2>1. d = IF Len(queue) > QueueLimit THEN QueueTerminal(c, "overloaded")
            ELSE [c EXCEPT !.pending = queue]
    BY <1>3 DEF QueueLines
  <2>2. /\ lines \in Seq(1 .. MaxLines) /\ Len(lines) = k - m
        /\ \A i \in 1 .. k - m : lines[i] = m + i
    <3>1. lines = [i \in 1 .. k - m |-> m + i]
      BY <1>0
    <3>2. [i \in 1 .. k - m |-> m + i] \in [1 .. k - m -> 1 .. MaxLines]
      <4>1. \A i \in 1 .. k - m : m + i \in 1 .. MaxLines
        BY <1>0, MaxLinesAssumption
      <4> QED
        BY <4>1
    <3>3. k - m \in Nat
      BY <1>0
    <3> HIDE DEF lines
    <3>4. lines \in Seq(1 .. MaxLines)
      BY <3>1, <3>2, <3>3, SeqDef
    <3>5. Len(lines) = k - m
      BY <3>1, <3>3
    <3> QED
      BY <3>1, <3>4, <3>5
  <2>3. c.pending \in Seq(1 .. MaxLines) /\ Len(c.pending) \in Nat
    BY <1>1, ConnFields
  <2> HIDE DEF lines
  <2>4. /\ queue \in Seq(1 .. MaxLines) /\ Len(queue) = Len(c.pending) + (k - m)
        /\ \A i \in 1 .. Len(c.pending) + (k - m) :
             queue[i] = IF i <= Len(c.pending) THEN c.pending[i]
                        ELSE lines[i - Len(c.pending)]
    <3>1. /\ queue \in Seq(1 .. MaxLines)
          /\ Len(queue) = Len(c.pending) + Len(lines)
          /\ \A i \in 1 .. Len(c.pending) + Len(lines) :
               queue[i] = IF i <= Len(c.pending) THEN c.pending[i]
                          ELSE lines[i - Len(c.pending)]
      BY <2>2, <2>3, ConcatProperties
    <3> HIDE DEF queue
    <3> QED
      BY <3>1, <2>2
  <2> HIDE DEF queue
  <2>5. CASE Len(queue) > QueueLimit
    <3>1. d = QueueTerminal(c, "overloaded") /\ "overloaded" \in Faults
      BY <2>1, <2>5 DEF Faults
    <3> HIDE DEF d
    <3>2. /\ Good(d, m) /\ Extends(c, d) /\ d.wire = c.wire /\ d.streamStopped
          /\ d.destroyed = c.destroyed
      BY <3>1, <1>0, <1>3, QueueTerminalSafe
    <3>3. Good(d, k)
      BY <3>2, <1>0, StoppedAnyLines
    <3> QED
      BY <3>2, <3>3 DEF d
  <2>6. CASE ~(Len(queue) > QueueLimit)
    <3>1. d = [c EXCEPT !.pending = queue]
      BY <2>1, <2>6
    <3> HIDE DEF d
    <3>2. d \in Connections
      BY <3>1, <2>4, <1>1 DEF Connections
    <3>3. /\ d.pending = queue /\ d.wire = c.wire /\ d.terminal = c.terminal
          /\ d.streamStopped = c.streamStopped /\ d.socketClosed = c.socketClosed
          /\ d.closeAfterFlush = c.closeAfterFlush /\ d.destroyed = c.destroyed
      BY <3>1, <1>1 DEF Connections
    <3>4. StoppedIsStopped(d)
      BY <3>3, <1>1, <1>3 DEF StoppedIsStopped
    <3>5. Len(queue) <= QueueLimit
      BY <2>6, <2>4, <2>3, <1>0, QueueLimitAssumption
    <3>6. ASSUME NEW n \in 0 .. m, Wired(c, m, n)
          PROVE  n \in 0 .. k /\ Wired(d, k, n)
      <4>1. /\ Len(c.wire) = n + 1 /\ Len(c.pending) = m - n
            /\ \A i \in 1 .. m - n : c.pending[i] = n + i
        BY <3>6, <1>3 DEF Wired
      <4>2. Len(d.pending) = k - n
        BY <4>1, <3>3, <2>4, <1>0
      <4>3. ASSUME NEW i \in 1 .. k - n  PROVE d.pending[i] = n + i
        <5>1. CASE i <= m - n
          BY <5>1, <4>1, <3>3, <2>4, <1>0
        <5>2. CASE ~(i <= m - n)
          <6>1. i - Len(c.pending) \in 1 .. k - m
            BY <5>2, <4>1, <1>0
          <6>2. queue[i] = lines[i - Len(c.pending)]
            BY <5>2, <4>1, <2>4, <1>0
          <6> QED
            BY <6>1, <6>2, <4>1, <2>2, <3>3, <1>0
        <5> QED
          BY <5>1, <5>2
      <4> QED
        BY <3>3, <3>6, <4>1, <4>2, <4>3, <1>0 DEF Wired
    <3>7. Good(d, k)
      BY <3>2, <3>3, <3>4, <3>5, <3>6 DEF Good
    <3> QED
      BY <3>3, <3>7, <1>1, ExtendsSame DEF d
  <2> QED
    BY <2>5, <2>6
<1> QED
  BY <1>2, <1>3

\* The first j frames of the queue go behind the lines on the wire.
LEMMA WrittenSafe ==
  ASSUME NEW m \in Nat, NEW c, Good(c, m), c.wire # <<>>,
         NEW j \in 0 .. Len(c.pending)
  PROVE  /\ Good(Written(c, j), m) /\ Extends(c, Written(c, j))
         /\ Written(c, j).wire # <<>>
         /\ \A field \in {"terminal", "streamStopped", "socketClosed"} :
              Written(c, j)[field] = c[field]
         /\ Len(Written(c, j).wire) = Len(c.wire) + j
         /\ Len(Written(c, j).pending) = Len(c.pending) - j
<1> DEFINE lines == [i \in 1 .. j |-> Line(c.pending[i])]
           d == Written(c, j)
<1>1. c \in Connections /\ StoppedIsStopped(c) /\ Len(c.pending) <= QueueLimit
  BY DEF Good
<1>2. /\ c.pending \in Seq(1 .. MaxLines) /\ Len(c.pending) \in Nat
      /\ c.wire \in Seq(Frames) /\ Len(c.wire) \in Nat
  BY <1>1, ConnFields
<1>3. j \in Nat /\ j <= Len(c.pending)
  BY <1>2
<1>4. lines \in Seq(Frames) /\ Len(lines) = j
  <2>1. \A i \in 1 .. j : c.pending[i] \in 0 .. MaxLines
    BY <1>2, <1>3, ElementOfSeq, MaxLinesAssumption
  <2>2. lines \in [1 .. j -> Frames]
    BY <2>1, FrameFacts
  <2> QED
    BY <2>2, <1>3, SeqDef
<1>5. d = [c EXCEPT !.wire = c.wire \o lines,
                    !.pending = SubSeq(c.pending, j + 1, Len(c.pending))]
  BY <1>1 DEF Written, Connections
<1>6. /\ SubSeq(c.pending, j + 1, Len(c.pending)) \in Seq(1 .. MaxLines)
      /\ Len(SubSeq(c.pending, j + 1, Len(c.pending))) = Len(c.pending) - j
      /\ \A i \in 1 .. Len(c.pending) - j :
           SubSeq(c.pending, j + 1, Len(c.pending))[i] = c.pending[j + i]
  <2>1. \A i \in (j + 1) .. Len(c.pending) : c.pending[i] \in 1 .. MaxLines
    <3>1. \A i \in (j + 1) .. Len(c.pending) : i \in 1 .. Len(c.pending)
      BY <1>2, <1>3
    <3> QED
      BY <3>1, <1>2, ElementOfSeq
  <2>2. j + 1 \in Int /\ Len(c.pending) \in Int
    BY <1>2, <1>3
  <2>3. /\ SubSeq(c.pending, j + 1, Len(c.pending)) \in Seq(1 .. MaxLines)
        /\ Len(SubSeq(c.pending, j + 1, Len(c.pending)))
             = IF j + 1 <= Len(c.pending) THEN Len(c.pending) - (j + 1) + 1 ELSE 0
        /\ \A i \in 1 .. Len(c.pending) - (j + 1) + 1 :
             SubSeq(c.pending, j + 1, Len(c.pending))[i] = c.pending[(j + 1) + i - 1]
    BY <2>1, <2>2, SubSeqProperties
  <2> DEFINE rest == SubSeq(c.pending, j + 1, Len(c.pending))
             p == c.pending
             n == Len(c.pending)
  <2>4. n \in Nat /\ j \in 0 .. n
    BY <1>2, <1>3
  <2>5. /\ rest \in Seq(1 .. MaxLines)
        /\ Len(rest) = IF j + 1 <= n THEN n - (j + 1) + 1 ELSE 0
        /\ \A i \in 1 .. n - (j + 1) + 1 : rest[i] = p[(j + 1) + i - 1]
    BY <2>3
  <2> HIDE DEF rest, p, n
  <2>6. Len(rest) = n - j
    BY <2>4, <2>5
  <2>7. ASSUME NEW i \in 1 .. n - j  PROVE rest[i] = p[j + i]
    <3>1. i \in 1 .. n - (j + 1) + 1 /\ (j + 1) + i - 1 = j + i
      BY <2>4
    <3> QED
      BY <3>1, <2>5
  <2> QED
    BY <2>5, <2>6, <2>7 DEF rest, p, n
<1> DEFINE left == SubSeq(c.pending, j + 1, Len(c.pending))
<1> HIDE DEF lines, left
<1>7. /\ c.wire \o lines \in Seq(Frames)
      /\ Len(c.wire \o lines) = Len(c.wire) + j
      /\ \A i \in 1 .. Len(c.wire) + j : (c.wire \o lines)[i]
           = IF i <= Len(c.wire) THEN c.wire[i] ELSE lines[i - Len(c.wire)]
  BY <1>2, <1>4, ConcatProperties
<1>8. /\ d.wire = c.wire \o lines /\ d.pending = left
      /\ d.terminal = c.terminal /\ d.streamStopped = c.streamStopped
      /\ d.socketClosed = c.socketClosed /\ d.closeAfterFlush = c.closeAfterFlush
      /\ d.killed = c.killed
  BY <1>1, <1>5 DEF Connections, left
<1>9. d \in Connections
  BY <1>1, <1>5, <1>6, <1>7 DEF Connections
<1> HIDE DEF d
<1>10. Extends(c, d)
  BY <1>2, <1>3, <1>7, <1>8 DEF Extends
<1>11. Len(d.pending) = Len(c.pending) - j
  BY <1>6, <1>8 DEF left
<1>12. StoppedIsStopped(d)
  <2>1. ASSUME c.streamStopped  PROVE d.pending = <<>>
    <3>1. c.pending = <<>>
      BY <2>1, <1>1 DEF StoppedIsStopped
    <3>2. Len(c.pending) = 0
      BY <3>1, EmptySeq
    <3>3. Len(c.pending) < j + 1 /\ j + 1 \in Int /\ Len(c.pending) \in Int
      BY <3>2, <1>3
    <3>4. left = <<>>
      BY <3>3, SubSeqEmpty DEF left
    <3> QED
      BY <3>4, <1>8
  <2> QED
    BY <2>1, <1>1, <1>8 DEF StoppedIsStopped
<1>13. PICK n \in 0 .. m : Wired(c, m, n)
  BY DEF Good
<1>14. CASE j = 0
  <2>1. /\ Len(d.wire) = Len(c.wire)
        /\ \A i \in 1 .. Len(c.wire) : d.wire[i] = c.wire[i]
    BY <1>14, <1>7, <1>8, <1>10, <1>2 DEF Extends
  <2>2. Len(d.pending) = Len(c.pending)
    BY <1>11, <1>14, <1>2
  <2>3. \A i \in 1 .. Len(c.pending) : d.pending[i] = c.pending[i]
    BY <1>14, <1>6, <1>8, <1>2 DEF left
  <2>4. d.wire = c.wire
    BY <2>1, <1>2, <1>7, <1>8, SeqEqual
  <2>5. d.pending = c.pending
    BY <2>2, <2>3, <1>2, <1>6, <1>8, SeqEqual DEF left
  <2>6. Wired(d, m, n)
    BY <2>4, <2>5, <1>8, <1>13 DEF Wired
  <2>7. Good(d, m)
    BY <2>5, <2>6, <1>9, <1>12, <1>1 DEF Good
  <2> QED
    BY <2>4, <2>7, <1>2, <1>8, <1>10, <1>11, <1>14 DEF d
<1>15. CASE j # 0
  <2>1. ~c.streamStopped
    BY <1>15, <1>1, <1>3, EmptySeq DEF StoppedIsStopped
  <2>2. /\ Len(c.wire) = n + 1 /\ Len(c.pending) = m - n
        /\ \A i \in 1 .. m - n : c.pending[i] = n + i
        /\ c.wire[1] = Snapshot
        /\ \A i \in 1 .. n : c.wire[i + 1] = Line(i)
    BY <2>1, <1>13 DEF Wired
  <2>3. n + j \in 0 .. m /\ Len(d.wire) = (n + j) + 1
        /\ Len(d.pending) = m - (n + j)
    BY <2>2, <1>2, <1>3, <1>7, <1>8, <1>11
  <2>4. \A i \in 1 .. j : lines[i] = Line(n + i)
    BY <2>2, <1>2, <1>3 DEF lines
  <2>5. d.wire[1] = Snapshot /\ \A i \in 1 .. n + j : d.wire[i + 1] = Line(i)
    <3>1. d.wire[1] = Snapshot
      BY <2>2, <1>2, <1>3, <1>7, <1>8
    <3>2. ASSUME NEW i \in 1 .. n + j  PROVE d.wire[i + 1] = Line(i)
      <4>1. CASE i <= n
        <5>1. i + 1 \in 1 .. Len(c.wire) + j /\ i + 1 <= Len(c.wire) /\ i \in 1 .. n
          BY <4>1, <2>2, <1>3
        <5>2. d.wire[i + 1] = c.wire[i + 1]
          BY <5>1, <1>7, <1>8
        <5> QED
          BY <5>1, <5>2, <2>2
      <4>2. CASE ~(i <= n)
        <5>1. d.wire[i + 1] = lines[i - n]
          <6>1. i + 1 \in 1 .. Len(c.wire) + j /\ ~(i + 1 <= Len(c.wire))
                /\ (i + 1) - Len(c.wire) = i - n
            BY <4>2, <2>2, <1>3
          <6> QED
            BY <6>1, <1>7, <1>8
        <5>2. i - n \in 1 .. j /\ n + (i - n) = i
          BY <4>2, <1>3
        <5> QED
          BY <5>1, <5>2, <2>4
      <4> QED
        BY <4>1, <4>2
    <3> QED
      BY <3>1, <3>2
  <2>6. \A i \in 1 .. m - (n + j) : d.pending[i] = (n + j) + i
    <3>1. ASSUME NEW i \in 1 .. m - (n + j)  PROVE d.pending[i] = (n + j) + i
      <4>1. i \in 1 .. Len(c.pending) - j /\ j + i \in 1 .. m - n
        BY <2>2, <1>3
      <4>2. d.pending[i] = c.pending[j + i]
        BY <4>1, <1>6, <1>8 DEF left
      <4> QED
        BY <4>1, <4>2, <2>2, <1>3
    <3> QED
      BY <3>1
  <2>7. Rest(d.wire, n + j)
    BY <2>3 DEF Rest
  <2>8. Wired(d, m, n + j)
    BY <2>3, <2>5, <2>6, <2>7 DEF Wired
  <2>9. Len(d.pending) <= QueueLimit
    BY <1>1, <1>2, <1>3, <1>11, QueueLimitAssumption
  <2>10. Good(d, m)
    BY <2>3, <2>8, <2>9, <1>9, <1>12 DEF Good
  <2>11. d.wire # <<>>
    BY <2>3, EmptySeq
  <2> QED
    BY <2>10, <2>11, <1>7, <1>8, <1>10, <1>11 DEF d
<1> QED
  BY <1>14, <1>15

\* Good says nothing of the other fields of a connection.
LEMMA GoodAlike ==
  ASSUME NEW m, NEW c, Good(c, m), NEW d \in Connections,
         d.pending = c.pending, d.terminal = c.terminal, d.wire = c.wire,
         d.closeAfterFlush = c.closeAfterFlush, d.streamStopped = c.streamStopped,
         d.socketClosed = c.socketClosed, d.killed = c.killed
  PROVE  Good(d, m) /\ Extends(c, d)
<1>1. c \in Connections /\ StoppedIsStopped(c) /\ Len(c.pending) <= QueueLimit
  BY DEF Good
<1>2. StoppedIsStopped(d)
  BY <1>1 DEF StoppedIsStopped
<1>3. ASSUME NEW n \in 0 .. m, Wired(c, m, n)  PROVE Wired(d, m, n)
  BY <1>3 DEF Wired
<1> QED
  BY <1>1, <1>2, <1>3, ExtendsSame DEF Good

\* A socket that is lost stops its stream.
LEMMA ClosedSafe ==
  ASSUME NEW m \in Nat, NEW c, Good(c, m), NEW d \in Connections,
         d.pending = c.pending, d.terminal = c.terminal, d.wire = c.wire,
         d.closeAfterFlush = c.closeAfterFlush, d.streamStopped = c.streamStopped,
         d.socketClosed, d.killed = c.killed
  PROVE  /\ Good(StopStream(d), m) /\ Extends(c, StopStream(d))
         /\ StopStream(d).wire = c.wire
         /\ StopStream(d).destroyed = d.destroyed
<1> DEFINE e == StopStream(d)
<1>1. c \in Connections /\ StoppedIsStopped(c)
  BY DEF Good
<1>2. /\ e \in Connections /\ e.wire = c.wire /\ e.destroyed = d.destroyed
      /\ e.streamStopped /\ e.killed /\ e.pending = <<>> /\ e.socketClosed
  <2>1. CASE d.streamStopped
    BY <2>1, <1>1 DEF StopStream, StoppedIsStopped
  <2>2. CASE ~d.streamStopped
    <3>1. e = [d EXCEPT !.streamStopped = TRUE, !.pending = <<>>,
                        !.terminal = None, !.killed = TRUE]
      BY <2>2 DEF StopStream
    <3>2. <<>> \in Seq(1 .. MaxLines)
      BY EmptySeq
    <3> QED
      BY <3>1, <3>2 DEF Connections
  <2> QED
    BY <2>1, <2>2
<1> HIDE DEF e
<1>3. StoppedIsStopped(e)
  BY <1>2 DEF StoppedIsStopped
<1>4. ASSUME NEW n \in 0 .. m, Wired(c, m, n)  PROVE Wired(e, m, n)
  BY <1>2, <1>4 DEF Wired
<1>5. Len(e.pending) <= QueueLimit
  BY <1>2, EmptySeq, QueueLimitAssumption
<1>6. Good(e, m)
  BY <1>2, <1>3, <1>4, <1>5 DEF Good
<1> QED
  BY <1>1, <1>2, <1>6, ExtendsSame DEF e

\* The error goes behind the last line, once the queue is written.
LEMMA FaultSafe ==
  ASSUME NEW m \in Nat, NEW c, Good(c, m), c.wire # <<>>,
         ~c.socketClosed, c.terminal # None, NEW d,
         d = [c EXCEPT !.terminal = None, !.closeAfterFlush = TRUE,
                       !.wire = Append(c.wire, Fault(c.terminal))]
  PROVE  Good(d, m) /\ d.wire # <<>> /\ Extends(c, d)
<1>1. c \in Connections /\ StoppedIsStopped(c) /\ Len(c.pending) <= QueueLimit
  BY DEF Good
<1>2. c.terminal \in Faults
  BY <1>1, ConnFields
<1>3. /\ d.pending = c.pending /\ d.terminal = None /\ d.closeAfterFlush
      /\ d.streamStopped = c.streamStopped /\ d.socketClosed = c.socketClosed
      /\ d.killed = c.killed /\ d.wire = Append(c.wire, Fault(c.terminal))
  BY <1>1 DEF Connections
<1>4. Fault(c.terminal) \in Frames /\ Fault(c.terminal) \in FaultFrames
  BY <1>2, FrameFacts DEF FaultFrames
<1>5. /\ Extends(c, d) /\ d.wire \in Seq(Frames)
      /\ Len(d.wire) = Len(c.wire) + 1
      /\ d.wire[Len(c.wire) + 1] = Fault(c.terminal)
  BY <1>1, <1>3, <1>4, ExtendsAppend
<1>6. d \in Connections
  BY <1>1, <1>3, <1>5 DEF Connections
<1>7. c.streamStopped
  BY <1>1 DEF StoppedIsStopped
<1>8. StoppedIsStopped(d)
  BY <1>1, <1>3, <1>7 DEF StoppedIsStopped
<1>9. PICK n \in 0 .. m : Wired(c, m, n)
  BY DEF Good
<1>10. /\ Len(c.wire) = n + 1 /\ c.wire[1] = Snapshot
       /\ \A i \in 1 .. n : c.wire[i + 1] = Line(i)
  BY <1>9 DEF Wired
<1>11. /\ Len(d.wire) = n + 2 /\ d.wire[n + 2] \in FaultFrames
       /\ d.wire[1] = Snapshot
       /\ \A i \in 1 .. n : d.wire[i + 1] = Line(i)
  <2>1. \A i \in 1 .. n + 1 : d.wire[i] = c.wire[i]
    BY <1>5, <1>10 DEF Extends
  <2>2. 1 \in 1 .. n + 1 /\ \A i \in 1 .. n : i + 1 \in 1 .. n + 1
    OBVIOUS
  <2> HIDE <1>3
  <2>3. d.wire[1] = Snapshot /\ \A i \in 1 .. n : d.wire[i + 1] = Line(i)
    BY <1>10, <2>1, <2>2
  <2>4. Len(d.wire) = n + 2 /\ (n + 1) + 1 = n + 2
    BY <1>5, <1>10
  <2>5. d.wire[n + 2] \in FaultFrames
    BY <1>4, <1>5, <1>10, <2>4
  <2> QED
    BY <2>3, <2>4, <2>5
<1>12. Wired(d, m, n)
  BY <1>3, <1>7, <1>11 DEF Wired, Rest
<1>13. d.wire # <<>>
  BY <1>11, EmptySeq
<1> QED
  BY <1>1, <1>3, <1>5, <1>6, <1>8, <1>12, <1>13 DEF Good

\* Whatever write reports backpressure, the frames stay in order.
LEMMA FlushSafe ==
  ASSUME NEW m \in Nat, NEW c, Good(c, m), Writable(c), NEW d \in Flush(c)
  PROVE  Good(d, m) /\ Writable(d) /\ Extends(c, d)
<1>1. c \in Connections /\ StoppedIsStopped(c)
  BY DEF Good
<1>2. CASE c.socketClosed \/ c.backpressured \/ c.destroyed
  <2>1. d = c
    BY <1>2 DEF Flush
  <2> QED
    BY <2>1, <1>1, ExtendsSame
<1>3. CASE ~(c.socketClosed \/ c.backpressured \/ c.destroyed)
  <2>1. c.wire # <<>>
    BY <1>3 DEF Writable
  <2>2. CASE c.closeAfterFlush /\ c.pending = <<>> /\ c.terminal = None
    <3>1. d = DestroySocketSafely(c)
      BY <1>3, <2>2 DEF Flush
    <3> QED
      BY <3>1, <2>1, DestroySafe DEF Writable
  <2>3. CASE ~(c.closeAfterFlush /\ c.pending = <<>> /\ c.terminal = None)
    <3> DEFINE w == Written(c, Len(c.pending))
               e == [w EXCEPT !.terminal = None, !.closeAfterFlush = TRUE,
                              !.wire = Append(w.wire, Fault(c.terminal))]
    <3>1. Len(c.pending) \in Nat
      BY <1>1, ConnFields
    <3>2. /\ Good(w, m) /\ Extends(c, w) /\ w.wire # <<>>
          /\ w.terminal = c.terminal /\ w.socketClosed = c.socketClosed
      <4>1. Len(c.pending) \in 0 .. Len(c.pending)
        BY <3>1
      <4> QED
        BY <4>1, <2>1, WrittenSafe
    <3>3. w \in Connections
      BY <3>2 DEF Good
    <3>4. \/ \E j \in 1 .. Len(c.pending) :
               d = [Written(c, j) EXCEPT !.backpressured = TRUE]
          \/ c.terminal = None /\ d = w
          \/ c.terminal # None
             /\ \/ d = [e EXCEPT !.backpressured = TRUE]
                \/ d = DestroySocketSafely(e)
      <4> HIDE DEF w
      <4>1. e = [w EXCEPT !.terminal = None, !.closeAfterFlush = TRUE,
                          !.wire = Append(@, Fault(c.terminal))]
        BY <3>3 DEF Connections
      <4> HIDE DEF e
      <4> QED
        BY <1>3, <2>3, <4>1 DEF Flush, w
    <3>5. CASE \E j \in 1 .. Len(c.pending) :
                 d = [Written(c, j) EXCEPT !.backpressured = TRUE]
      <4>1. PICK j \in 1 .. Len(c.pending) :
                   d = [Written(c, j) EXCEPT !.backpressured = TRUE]
        BY <3>5
      <4> DEFINE x == Written(c, j)
      <4>2. j \in 0 .. Len(c.pending)
        BY <3>1
      <4>3. Good(x, m) /\ Extends(c, x) /\ x.wire # <<>>
        BY <4>2, <2>1, WrittenSafe
      <4>4. x \in Connections
        BY <4>3 DEF Good
      <4> HIDE DEF x
      <4>5. d = [x EXCEPT !.backpressured = TRUE]
        BY <4>1 DEF x
      <4>6. /\ d \in Connections /\ d.pending = x.pending
            /\ d.terminal = x.terminal /\ d.wire = x.wire
            /\ d.closeAfterFlush = x.closeAfterFlush
            /\ d.streamStopped = x.streamStopped
            /\ d.socketClosed = x.socketClosed /\ d.killed = x.killed
        BY <4>4, <4>5 DEF Connections
      <4>7. Good(d, m) /\ Extends(x, d)
        BY <4>3, <4>6, GoodAlike
      <4> QED
        BY <4>3, <4>4, <4>6, <4>7, <1>1, ExtendsTransitive DEF Writable
    <3>6. CASE c.terminal = None /\ d = w
      BY <3>6, <3>2 DEF Writable
    <3>7. CASE /\ c.terminal # None
               /\ \/ d = [e EXCEPT !.backpressured = TRUE]
                  \/ d = DestroySocketSafely(e)
      <4> HIDE DEF w
      <4>1. e = [w EXCEPT !.terminal = None, !.closeAfterFlush = TRUE,
                          !.wire = Append(w.wire, Fault(w.terminal))]
        BY <3>2
      <4> HIDE DEF e
      <4>2. Good(e, m) /\ e.wire # <<>> /\ Extends(w, e)
        BY <4>1, <3>2, <3>7, <1>3, FaultSafe
      <4>3. e \in Connections /\ Extends(c, e)
        <5>1. e \in Connections
          BY <4>2 DEF Good
        <5> QED
          BY <5>1, <4>2, <3>2, <3>3, <1>1, ExtendsTransitive
      <4>4. CASE d = [e EXCEPT !.backpressured = TRUE]
        <5>1. /\ d \in Connections /\ d.pending = e.pending
              /\ d.terminal = e.terminal /\ d.wire = e.wire
              /\ d.closeAfterFlush = e.closeAfterFlush
              /\ d.streamStopped = e.streamStopped
              /\ d.socketClosed = e.socketClosed /\ d.killed = e.killed
          BY <4>3, <4>4 DEF Connections
        <5>2. Good(d, m) /\ Extends(e, d)
          BY <4>2, <5>1, GoodAlike
        <5> QED
          BY <4>2, <4>3, <5>1, <5>2, <1>1, ExtendsTransitive DEF Writable
      <4>5. CASE d = DestroySocketSafely(e)
        <5>1. Good(d, m) /\ Extends(e, d) /\ d.wire # <<>>
          BY <4>2, <4>5, DestroySafe
        <5> QED
          BY <5>1, <4>3, <1>1, ExtendsTransitive DEF Writable
      <4> QED
        BY <3>7, <4>4, <4>5
    <3> QED
      BY <3>4, <3>5, <3>6, <3>7
  <2> QED
    BY <2>2, <2>3
<1> QED
  BY <1>2, <1>3

-----------------------------------------------------------------------------
(* The steps.                                                              *)

\* What holds of the connection holds of a record like it, and of its writability.
LEMMA WritableSame ==
  ASSUME NEW c, NEW d, Writable(c), d.wire = c.wire, d.destroyed = c.destroyed
  PROVE  Writable(d)
BY DEF Writable

\* The connection is in order before the first step.
LEMMA SocketInitInv == SocketInit => SocketInv
<1> SUFFICES ASSUME SocketInit PROVE SocketInv
  OBVIOUS
<1>1. <<>> \in Seq(1 .. MaxLines) /\ <<>> \in Seq(Frames) /\ Len(<<>>) = 0
  BY EmptySeq
<1>2. conn \in Connections
  BY <1>1 DEF SocketInit, Connections
<1>3. /\ conn.pending = <<>> /\ conn.wire = <<>> /\ conn.terminal = None
      /\ ~conn.streamStopped /\ ~conn.socketClosed /\ ~conn.closeAfterFlush
  BY DEF SocketInit
<1>4. Good(conn, out)
  BY <1>1, <1>2, <1>3, QueueLimitAssumption DEF Good, StoppedIsStopped
<1>5. TypeOK
  <2>1. Len(conn.pending) <= QueueLimit /\ out \in 0 .. MaxLines
    BY <1>1, <1>3, QueueLimitAssumption, MaxLinesAssumption DEF SocketInit
  <2>2. partial \in BOOLEAN
    BY Zenon DEF SocketInit
  <2> QED
    BY <1>2, <2>1, <2>2 DEF SocketInit, TypeOK
<1> QED
  BY <1>3, <1>4, <1>5 DEF SocketInit, SocketInv, Unopened

\* What SocketInv says, in the form the steps use it.
LEMMA SocketFacts ==
  ASSUME SocketInv
  PROVE  /\ conn \in Connections /\ Good(conn, out)
         /\ out \in Nat /\ out <= MaxLines /\ MaxLines \in Nat
         /\ partial => out < MaxLines
         /\ follower # "none" => pc = "streaming"
         /\ pc = "streaming" => Writable(conn)
BY MaxLinesAssumption DEF SocketInv, TypeOK, Unopened

\* It is enough to look at the connection while the stream is open.
LEMMA StreamingInv ==
  ASSUME pc' = "streaming", Good(conn', out'), Writable(conn'),
         follower' \in {"none", "running", "ended", "failed"},
         out' \in 0 .. MaxLines, partial' \in BOOLEAN,
         partial' => out' < MaxLines,
         peer' \in {"connected", "closing", "gone"}
  PROVE  SocketInv'
BY DEF SocketInv, TypeOK, Good

\* The handshake writes nothing but the snapshot.
LEMMA HandshakeStep ==
  ASSUME SocketInv, Upgrade \/ Handshake
  PROVE  SocketInv' /\ Extends(conn, conn')
<1>1. conn \in Connections /\ TypeOK
  BY DEF SocketInv, TypeOK
<1>2. CASE Upgrade
  BY <1>1, <1>2, ExtendsSame DEF Upgrade, SocketInv, TypeOK, Unopened
<1>3. CASE Authenticate
  BY <1>1, <1>3, ExtendsSame DEF Authenticate, SocketInv, TypeOK, Unopened
<1>4. CASE ResolveTarget
  BY <1>1, <1>4, ExtendsSame DEF ResolveTarget, SocketInv, TypeOK, Unopened
<1>5. CASE Refuse
  <2>1. conn' = [conn EXCEPT !.ended = TRUE]
    BY <1>5 DEF Refuse
  <2>2. /\ conn' \in Connections /\ conn'.pending = conn.pending
        /\ conn'.terminal = conn.terminal /\ conn'.wire = conn.wire
        /\ conn'.closeAfterFlush = conn.closeAfterFlush
        /\ conn'.streamStopped = conn.streamStopped
        /\ conn'.socketClosed = conn.socketClosed /\ conn'.killed = conn.killed
    BY <1>1, <2>1 DEF Connections
  <2>3. Good(conn', out) /\ Extends(conn, conn')
    BY <2>2, GoodAlike DEF SocketInv
  <2>4. /\ pc # "streaming" /\ pc' = "refused"
        /\ UNCHANGED <<follower, out, partial, peer>>
    BY <1>5 DEF Refuse
  <2> QED
    BY <1>1, <2>2, <2>3, <2>4 DEF SocketInv, TypeOK, Unopened
<1>6. CASE OpenStream
  <2>1. /\ pc' = "streaming" /\ follower' = "running"
        /\ UNCHANGED <<out, partial, peer>>
    BY <1>6 DEF OpenStream
  <2>2. /\ conn.wire = <<>> /\ conn.pending = <<>> /\ conn.terminal = None
        /\ ~conn.streamStopped /\ ~conn.socketClosed /\ ~conn.closeAfterFlush
        /\ out = 0
    BY <1>6 DEF OpenStream, SocketInv, Unopened
  <2>3. PICK full \in BOOLEAN :
          conn' = IF conn.destroyed THEN [conn EXCEPT !.backpressured = TRUE]
                  ELSE [conn EXCEPT !.backpressured = full,
                                    !.wire = Append(@, Snapshot)]
    BY <1>6 DEF OpenStream
  <2>4. Good(conn', out) /\ Writable(conn') /\ Extends(conn, conn')
    <3>1. CASE conn.destroyed
      <4>1. /\ conn' \in Connections /\ conn'.pending = conn.pending
            /\ conn'.terminal = conn.terminal /\ conn'.wire = conn.wire
            /\ conn'.closeAfterFlush = conn.closeAfterFlush
            /\ conn'.streamStopped = conn.streamStopped
            /\ conn'.socketClosed = conn.socketClosed
            /\ conn'.killed = conn.killed /\ conn'.destroyed = conn.destroyed
        BY <1>1, <2>3, <3>1 DEF Connections
      <4> QED
        BY <3>1, <4>1, GoodAlike DEF SocketInv, Writable
    <3>2. CASE ~conn.destroyed
      <4>1. conn' = [conn EXCEPT !.backpressured = full,
                                 !.wire = Append(conn.wire, Snapshot)]
        BY <2>3, <3>2
      <4>2. /\ conn'.pending = conn.pending /\ conn'.terminal = conn.terminal
            /\ conn'.wire = Append(conn.wire, Snapshot)
            /\ conn'.closeAfterFlush = conn.closeAfterFlush
            /\ conn'.streamStopped = conn.streamStopped
            /\ conn'.socketClosed = conn.socketClosed
        BY <1>1, <4>1 DEF Connections
      <4>3. /\ Extends(conn, conn') /\ conn'.wire \in Seq(Frames)
            /\ Len(conn'.wire) = Len(conn.wire) + 1
            /\ conn'.wire[Len(conn.wire) + 1] = Snapshot
        BY <1>1, <4>2, FrameFacts, ExtendsAppend
      <4>4. conn' \in Connections
        <5> DEFINE w == Append(conn.wire, Snapshot)
        <5>1. w \in Seq(Frames)
          BY <4>2, <4>3
        <5> HIDE DEF w
        <5>2. conn' = [conn EXCEPT !.backpressured = full, !.wire = w]
          BY <4>1 DEF w
        <5> QED
          BY <1>1, <5>1, <5>2 DEF Connections
      <4>5. Len(conn.wire) = 0 /\ Len(conn'.pending) = 0
        BY <2>2, <4>2, EmptySeq
      <4>6. StoppedIsStopped(conn')
        BY <2>2, <4>2 DEF StoppedIsStopped
      <4>7. Len(conn'.wire) = 1 /\ conn'.wire[1] = Snapshot
        BY <4>3, <4>5
      <4>8. Wired(conn', 0, 0)
        BY <2>2, <4>2, <4>5, <4>7 DEF Wired, Rest
      <4>9. conn'.wire # <<>>
        BY <4>7, EmptySeq
      <4>10. Good(conn', 0)
        BY <4>4, <4>5, <4>6, <4>8, QueueLimitAssumption DEF Good
      <4> QED
        BY <2>2, <4>3, <4>9, <4>10 DEF Writable
    <3> QED
      BY <3>1, <3>2
  <2>5. Good(conn', out')
    BY <2>1, <2>4
  <2>6. /\ out' \in 0 .. MaxLines /\ partial' \in BOOLEAN
        /\ peer' \in {"connected", "closing", "gone"}
        /\ (partial' => out' < MaxLines)
    BY <2>1, <1>1 DEF TypeOK, SocketInv
  <2> QED
    BY <2>1, <2>4, <2>5, <2>6, StreamingInv
<1> QED
  BY <1>2, <1>3, <1>4, <1>5, <1>6 DEF Handshake

\* Lines are queued and flushed behind those the wire holds.
LEMMA FollowerStepInv ==
  ASSUME SocketInv, FollowerStep
  PROVE  SocketInv' /\ Extends(conn, conn')
<1>1. /\ conn \in Connections /\ Good(conn, out)
      /\ out \in Nat /\ out <= MaxLines /\ MaxLines \in Nat
      /\ (partial => out < MaxLines)
  BY SocketFacts
<1>2. follower = "running" /\ pc' = pc /\ peer' = peer
  BY DEF FollowerStep, FollowerPrints, FollowerErrors, FollowerCloses
<1>3. pc = "streaming" /\ Writable(conn)
  BY <1>2, SocketFacts
<1>4. peer \in {"connected", "closing", "gone"} /\ partial \in BOOLEAN
  BY DEF SocketInv, TypeOK
<1>5. CASE \E n \in out .. MaxLines, more \in BOOLEAN : FollowerPrints(n, more)
  <2>1. PICK n \in out .. MaxLines, more \in BOOLEAN : FollowerPrints(n, more)
    BY <1>5
  <2> DEFINE q == QueueLines(conn, out + 1, n)
  <2>2. /\ conn' \in Flush(q) /\ out' = n /\ partial' = more
        /\ (IF more THEN n + 1 ELSE n) <= MaxLines /\ follower' = follower
    BY <2>1 DEF FollowerPrints
  <2>3. /\ Good(q, n) /\ Extends(conn, q) /\ q.wire = conn.wire
        /\ q.destroyed = conn.destroyed
    BY <1>1, QueueLinesSafe
  <2> HIDE DEF q
  <2>4. Writable(q) /\ q \in Connections /\ n \in Nat /\ n <= MaxLines
    BY <2>3, <1>1, <1>3, WritableSame DEF Good
  <2>5. Good(conn', n) /\ Writable(conn') /\ Extends(q, conn')
    BY <2>2, <2>3, <2>4, FlushSafe
  <2>6. Extends(conn, conn')
    BY <2>3, <2>4, <2>5, <1>1, ExtendsTransitive
  <2>7. partial' => out' < MaxLines
    BY <2>2, <2>4, <1>1
  <2>8. partial' \in BOOLEAN
    BY <2>2
  <2> QED
    BY <1>1, <1>2, <1>3, <1>4, <2>2, <2>4, <2>5, <2>6, <2>7, <2>8, StreamingInv
<1>6. CASE FollowerErrors
  <2> DEFINE q == QueueTerminalError(conn)
  <2>1. /\ conn' \in Flush(q) /\ out' = out /\ partial' = partial
        /\ ~conn.killed /\ follower' = "failed"
    BY <1>6 DEF FollowerErrors
  <2>2. /\ Good(q, out) /\ Extends(conn, q) /\ q.wire = conn.wire
        /\ q.destroyed = conn.destroyed
    BY <1>1, <2>1, QueueTerminalErrorSafe
  <2> HIDE DEF q
  <2>3. Writable(q) /\ q \in Connections
    BY <2>2, <1>3, WritableSame DEF Good
  <2>4. Good(conn', out) /\ Writable(conn') /\ Extends(q, conn')
    BY <1>1, <2>1, <2>2, <2>3, FlushSafe
  <2>5. Extends(conn, conn')
    BY <2>2, <2>3, <2>4, <1>1, ExtendsTransitive
  <2> QED
    BY <1>1, <1>2, <1>3, <1>4, <2>1, <2>4, <2>5, StreamingInv
<1>7. CASE \E success \in BOOLEAN : FollowerCloses(success)
  <2>1. PICK success \in BOOLEAN : FollowerCloses(success)
    BY <1>7
  <2>2. CASE conn.killed
    <3>1. follower' = "ended" /\ UNCHANGED <<conn, out, partial>>
      BY <2>1, <2>2 DEF FollowerCloses
    <3> QED
      BY <1>1, <1>2, <1>3, <1>4, <3>1, ExtendsSame, StreamingInv
  <2>3. CASE ~conn.killed
    <3> DEFINE last == IF partial THEN out + 1 ELSE out
               c == QueueLines(conn, out + 1, last)
               fails == ~success /\ ~c.killed
               q == IF fails THEN QueueTerminalError(c) ELSE c
    <3>1. /\ follower' = IF fails THEN "failed" ELSE "ended"
          /\ conn' \in Flush(q) /\ out' = last /\ partial' = FALSE
      BY <2>1, <2>3 DEF FollowerCloses
    <3>2. last \in out .. MaxLines /\ last \in Nat /\ last <= MaxLines
      BY <1>1
    <3> HIDE DEF last
    <3>3. /\ Good(c, last) /\ Extends(conn, c) /\ c.wire = conn.wire
          /\ c.destroyed = conn.destroyed
      BY <1>1, <3>2, QueueLinesSafe
    <3>4. c \in Connections
      BY <3>3 DEF Good
    <3> HIDE DEF c
    <3>5. /\ Good(q, last) /\ Extends(c, q) /\ q.wire = c.wire
          /\ q.destroyed = c.destroyed
      BY <3>2, <3>3, <3>4, QueueTerminalErrorSafe, ExtendsSame
    <3>6. follower' \in {"none", "running", "ended", "failed"}
      BY <3>1
    <3> HIDE DEF q, fails
    <3>7. Writable(q) /\ q \in Connections
      BY <3>3, <3>5, <1>3, WritableSame DEF Good
    <3>8. Good(conn', last) /\ Writable(conn') /\ Extends(q, conn')
      BY <3>1, <3>2, <3>5, <3>7, FlushSafe
    <3>9. Extends(conn, conn')
      BY <3>3, <3>4, <3>5, <3>7, <3>8, <1>1, ExtendsTransitive
    <3>10. out' \in 0 .. MaxLines /\ partial' \in BOOLEAN /\ ~partial'
      <4>1. out' \in 0 .. MaxLines
        BY <3>1, <3>2, <1>1
      <4>2. partial' \in BOOLEAN /\ ~partial'
        BY <3>1, Zenon
      <4> QED
        BY <4>1, <4>2
    <3>11. Good(conn', out') /\ pc' = "streaming" /\ peer' \in {"connected", "closing", "gone"}
      BY <3>1, <3>8, <1>2, <1>3, <1>4
    <3> QED
      BY <3>6, <3>8, <3>9, <3>10, <3>11, StreamingInv
  <2> QED
    BY <2>2, <2>3
<1> QED
  BY <1>5, <1>6, <1>7 DEF FollowerStep

\* The listeners write nothing but the frames that wait and the close frame.
LEMMA EventsInv ==
  ASSUME SocketInv, Events \/ OnError \/ PreClose
  PROVE  SocketInv' /\ Extends(conn, conn')
<1>1. /\ conn \in Connections /\ Good(conn, out)
      /\ out \in Nat /\ out <= MaxLines /\ MaxLines \in Nat
      /\ (partial => out < MaxLines)
      /\ (pc = "streaming" => Writable(conn))
  BY SocketFacts
<1>2. UNCHANGED <<pc, follower, out, partial, peer>>
  BY DEF Events, OnDrain, OnCloseFrame, OnEnd, BothEnded, OnClose, OnError, PreClose
<1>3. /\ peer \in {"connected", "closing", "gone"} /\ partial \in BOOLEAN
      /\ follower \in {"none", "running", "ended", "failed"}
  BY DEF SocketInv, TypeOK
<1>4. ASSUME pc = "streaming", Good(conn', out), Writable(conn')
      PROVE  SocketInv'
  BY <1>1, <1>2, <1>3, <1>4, StreamingInv
<1>5. CASE OnDrain
  <2> DEFINE q == [conn EXCEPT !.backpressured = FALSE]
  <2>1. pc = "streaming" /\ conn' \in Flush(q)
    BY <1>5 DEF OnDrain
  <2>2. /\ q \in Connections /\ q.pending = conn.pending
        /\ q.terminal = conn.terminal /\ q.wire = conn.wire
        /\ q.closeAfterFlush = conn.closeAfterFlush
        /\ q.streamStopped = conn.streamStopped
        /\ q.socketClosed = conn.socketClosed /\ q.killed = conn.killed
        /\ q.destroyed = conn.destroyed
    BY <1>1 DEF Connections
  <2> HIDE DEF q
  <2>3. Good(q, out) /\ Writable(q) /\ Extends(conn, q)
    BY <1>1, <2>1, <2>2, GoodAlike, WritableSame
  <2>4. Good(conn', out) /\ Writable(conn') /\ Extends(q, conn')
    BY <1>1, <2>1, <2>3, FlushSafe
  <2> QED
    BY <1>1, <1>4, <2>1, <2>2, <2>3, <2>4, ExtendsTransitive
<1>6. CASE OnCloseFrame
  <2>1. /\ pc = "streaming" /\ ~conn.destroyed
        /\ conn' = DestroySocketSafely(conn)
    BY <1>6 DEF OnCloseFrame
  <2>2. conn.wire # <<>>
    BY <1>1, <2>1 DEF Writable
  <2>3. Good(conn', out) /\ Extends(conn, conn') /\ conn'.wire # <<>>
    BY <1>1, <2>1, <2>2, DestroySafe
  <2> QED
    BY <1>4, <2>1, <2>3 DEF Writable
<1>7. CASE OnEnd
  <2> DEFINE q == [conn EXCEPT !.socketClosed = TRUE]
  <2>1. pc = "streaming" /\ conn' = StopStream(q)
    BY <1>7 DEF OnEnd
  <2>2. /\ q \in Connections /\ q.pending = conn.pending
        /\ q.terminal = conn.terminal /\ q.wire = conn.wire
        /\ q.closeAfterFlush = conn.closeAfterFlush
        /\ q.streamStopped = conn.streamStopped
        /\ q.socketClosed /\ q.killed = conn.killed
        /\ q.destroyed = conn.destroyed
    BY <1>1 DEF Connections
  <2> HIDE DEF q
  <2>3. /\ Good(conn', out) /\ Extends(conn, conn') /\ conn'.wire = conn.wire
        /\ conn'.destroyed = conn.destroyed
    BY <1>1, <2>1, <2>2, ClosedSafe
  <2> QED
    BY <1>1, <1>4, <2>1, <2>3, WritableSame
<1>8. CASE OnError
  <2> DEFINE q == [conn EXCEPT !.socketClosed = TRUE, !.destroyed = TRUE,
                               !.closeDue = TRUE]
  <2>1. pc = "streaming" /\ conn' = StopStream(q)
    BY <1>8 DEF OnError
  <2>2. /\ q \in Connections /\ q.pending = conn.pending
        /\ q.terminal = conn.terminal /\ q.wire = conn.wire
        /\ q.closeAfterFlush = conn.closeAfterFlush
        /\ q.streamStopped = conn.streamStopped
        /\ q.socketClosed /\ q.killed = conn.killed /\ q.destroyed
    BY <1>1 DEF Connections
  <2> HIDE DEF q
  <2>3. /\ Good(conn', out) /\ Extends(conn, conn')
        /\ conn'.destroyed = q.destroyed
    BY <1>1, <2>1, <2>2, ClosedSafe
  <2> QED
    BY <1>4, <2>1, <2>2, <2>3 DEF Writable
<1>9. CASE PreClose \/ BothEnded
  <2>1. conn' = [conn EXCEPT !.destroyed = TRUE, !.closeDue = TRUE]
    BY <1>9 DEF PreClose, BothEnded
  <2>2. /\ conn' \in Connections /\ conn'.pending = conn.pending
        /\ conn'.terminal = conn.terminal /\ conn'.wire = conn.wire
        /\ conn'.closeAfterFlush = conn.closeAfterFlush
        /\ conn'.streamStopped = conn.streamStopped
        /\ conn'.socketClosed = conn.socketClosed /\ conn'.killed = conn.killed
        /\ conn'.destroyed
    BY <1>1, <2>1 DEF Connections
  <2>3. Good(conn', out) /\ Extends(conn, conn') /\ Writable(conn')
    BY <1>1, <2>2, GoodAlike DEF Writable
  <2>4. CASE pc = "streaming"
    BY <1>4, <2>3, <2>4
  <2>5. CASE pc # "streaming"
    BY <2>2, <2>3, <2>5, <1>2 DEF SocketInv, TypeOK, Unopened, Good
  <2> QED
    BY <2>3, <2>4, <2>5
<1>10. CASE OnClose
  <2>1. CASE pc = "streaming"
    <3> DEFINE q == [conn EXCEPT !.socketClosed = TRUE, !.closeDue = FALSE]
    <3>1. conn' = StopStream(q)
      BY <1>10, <2>1 DEF OnClose
    <3>2. /\ q \in Connections /\ q.pending = conn.pending
          /\ q.terminal = conn.terminal /\ q.wire = conn.wire
          /\ q.closeAfterFlush = conn.closeAfterFlush
          /\ q.streamStopped = conn.streamStopped
          /\ q.socketClosed /\ q.killed = conn.killed
          /\ q.destroyed = conn.destroyed
      BY <1>1 DEF Connections
    <3> HIDE DEF q
    <3>3. /\ Good(conn', out) /\ Extends(conn, conn') /\ conn'.wire = conn.wire
          /\ conn'.destroyed = conn.destroyed
      BY <1>1, <3>1, <3>2, ClosedSafe
    <3> QED
      BY <1>1, <1>4, <2>1, <3>3, WritableSame
  <2>2. CASE pc # "streaming"
    <3>1. conn' = [conn EXCEPT !.closeDue = FALSE]
      BY <1>10, <2>2 DEF OnClose
    <3>2. /\ conn' \in Connections /\ conn'.pending = conn.pending
          /\ conn'.terminal = conn.terminal /\ conn'.wire = conn.wire
          /\ conn'.closeAfterFlush = conn.closeAfterFlush
          /\ conn'.streamStopped = conn.streamStopped
          /\ conn'.socketClosed = conn.socketClosed
          /\ conn'.killed = conn.killed
      BY <1>1, <3>1 DEF Connections
    <3>3. Good(conn', out) /\ Extends(conn, conn')
      BY <1>1, <3>2, GoodAlike
    <3> QED
      BY <3>2, <3>3, <2>2, <1>2 DEF SocketInv, TypeOK, Unopened, Good
  <2> QED
    BY <2>1, <2>2
<1> QED
  BY <1>5, <1>6, <1>7, <1>8, <1>9, <1>10 DEF Events

\* Every step of the server keeps the connection in order, and what it has written
\* stays as it was written.
LEMMA ServerStepInv ==
  ASSUME SocketInv, Upgrade \/ ServerStep
  PROVE  SocketInv' /\ Extends(conn, conn')
BY HandshakeStep, FollowerStepInv, EventsInv DEF ServerStep

\* A step that leaves the server alone, the client's end of the connection excepted.
LEMMA PeerStepInv ==
  ASSUME SocketInv, UNCHANGED <<pc, conn, follower, out, partial>>,
         peer' \in {"connected", "closing", "gone"}
  PROVE  SocketInv' /\ Extends(conn, conn')
<1>1. conn \in Connections
  BY DEF SocketInv, TypeOK
<1>2. Extends(conn, conn')
  BY <1>1, ExtendsSame
<1> QED
  BY <1>2 DEF SocketInv, TypeOK, Unopened

\* A connection in order has its frames in order: the snapshot, the lines, and the
\* rest that a stream may leave.
LEMMA GoodInOrder == ASSUME SocketInv PROVE FramesInOrder
<1> SUFFICES ASSUME conn.wire # <<>>
             PROVE  \E n \in 0 .. MaxLines :
                      \E rest \in {<<>>, <<Close>>} \cup {<<Fault(f)>> : f \in Faults}
                                    \cup {<<Fault(f), Close>> : f \in Faults} :
                        conn.wire = <<Snapshot>> \o [i \in 1 .. n |-> Line(i)] \o rest
  BY DEF FramesInOrder
<1>1. /\ conn \in Connections /\ Good(conn, out)
      /\ out \in Nat /\ out <= MaxLines /\ MaxLines \in Nat
  BY SocketFacts
<1>2. conn.wire \in Seq(Frames) /\ Len(conn.wire) \in Nat
  BY <1>1, ConnFields
<1>3. PICK n \in 0 .. out : Wired(conn, out, n)
  BY <1>1 DEF Good
<1>4. n \in 0 .. MaxLines /\ n \in Nat
  BY <1>1
<1> DEFINE lines == [i \in 1 .. n |-> Line(i)]
           Rests == {<<>>, <<Close>>} \cup {<<Fault(f)>> : f \in Faults}
                      \cup {<<Fault(f), Close>> : f \in Faults}
<1>5. lines \in Seq(Frames) /\ Len(lines) = n /\ \A i \in 1 .. n : lines[i] = Line(i)
  <2>1. \A i \in 1 .. n : Line(i) \in Frames
    <3>1. \A i \in 1 .. n : i \in 0 .. MaxLines
      BY <1>1, <1>4
    <3> QED
      BY <3>1, FrameFacts
  <2>2. lines \in [1 .. n -> Frames]
    BY <2>1
  <2> QED
    BY <2>2, <1>4, SeqDef
<1> HIDE DEF lines
<1>6. <<Snapshot>> \in Seq(Frames) /\ Len(<<Snapshot>>) = 1 /\ <<Snapshot>>[1] = Snapshot
  BY FrameFacts
<1>7. /\ <<Snapshot>> \o lines \in Seq(Frames)
      /\ Len(<<Snapshot>> \o lines) = n + 1
      /\ \A i \in 1 .. n + 1 : (<<Snapshot>> \o lines)[i]
           = IF i <= 1 THEN Snapshot ELSE lines[i - 1]
  <2>1. /\ <<Snapshot>> \o lines \in Seq(Frames)
        /\ Len(<<Snapshot>> \o lines) = 1 + n
        /\ \A i \in 1 .. 1 + n : (<<Snapshot>> \o lines)[i]
             = IF i <= 1 THEN <<Snapshot>>[i] ELSE lines[i - 1]
    BY <1>5, <1>6, ConcatProperties
  <2> QED
    BY <2>1, <1>4, <1>6
<1> DEFINE head == <<Snapshot>> \o lines
<1>8. \A i \in 1 .. n + 1 : conn.wire[i] = head[i]
  <2>1. /\ conn.wire[1] = Snapshot
        /\ \A i \in 1 .. n : conn.wire[i + 1] = Line(i)
    BY <1>3 DEF Wired
  <2>2. ASSUME NEW i \in 1 .. n + 1  PROVE conn.wire[i] = head[i]
    <3>1. CASE i = 1
      BY <3>1, <2>1, <1>7
    <3>2. CASE i # 1
      <4>1. i - 1 \in 1 .. n /\ (i - 1) + 1 = i /\ ~(i <= 1)
        BY <3>2, <1>4
      <4>2. head[i] = lines[i - 1]
        BY <4>1, <1>7
      <4> QED
        BY <4>1, <4>2, <2>1, <1>5
    <3> QED
      BY <3>1, <3>2
  <2> QED
    BY <2>2
<1> HIDE DEF head
<1>9. head \in Seq(Frames) /\ Len(head) = n + 1
  BY <1>7 DEF head
<1>10. ASSUME NEW rest \in Rests, rest \in Seq(Frames),
              Len(conn.wire) = (n + 1) + Len(rest),
              \A i \in 1 .. Len(rest) : conn.wire[(n + 1) + i] = rest[i]
       PROVE  conn.wire = head \o rest
  <2>1. Len(rest) \in Nat
    BY <1>10, LenProperties
  <2>2. /\ head \o rest \in Seq(Frames)
        /\ Len(head \o rest) = (n + 1) + Len(rest)
        /\ \A i \in 1 .. (n + 1) + Len(rest) : (head \o rest)[i]
             = IF i <= n + 1 THEN head[i] ELSE rest[i - (n + 1)]
    <3>1. /\ head \o rest \in Seq(Frames)
          /\ Len(head \o rest) = Len(head) + Len(rest)
          /\ \A i \in 1 .. Len(head) + Len(rest) : (head \o rest)[i]
               = IF i <= Len(head) THEN head[i] ELSE rest[i - Len(head)]
      BY <1>9, <1>10, ConcatProperties
    <3> QED
      BY <3>1, <1>9
  <2>3. ASSUME NEW i \in 1 .. Len(conn.wire)
        PROVE  conn.wire[i] = (head \o rest)[i]
    <3>1. CASE i <= n + 1
      BY <3>1, <2>2, <1>8, <1>10
    <3>2. CASE ~(i <= n + 1)
      <4>1. i - (n + 1) \in 1 .. Len(rest) /\ (n + 1) + (i - (n + 1)) = i
        BY <3>2, <1>4, <1>10, <2>1
      <4>2. (head \o rest)[i] = rest[i - (n + 1)]
        BY <3>2, <2>2, <1>10
      <4> QED
        BY <4>1, <4>2, <1>10
    <3> QED
      BY <3>1, <3>2
  <2> QED
    BY <2>2, <2>3, <1>2, <1>10, SeqEqual
<1>11. \E rest \in Rests : conn.wire = head \o rest
  <2>0. Rest(conn.wire, n)
    BY <1>3 DEF Wired
  <2>1. CASE Len(conn.wire) = n + 1
    <3>1. <<>> \in Rests /\ <<>> \in Seq(Frames) /\ Len(<<>>) = 0
      BY EmptySeq
    <3>2. conn.wire = head \o <<>>
      <4> DEFINE none == <<>>
      <4>1. none \in Rests /\ none \in Seq(Frames) /\ Len(none) = 0
        BY <3>1
      <4> HIDE DEF none, Rests
      <4>2. conn.wire = head \o none
        <5>1. \A i \in 1 .. Len(none) : conn.wire[(n + 1) + i] = none[i]
          BY <4>1
        <5>2. Len(conn.wire) = (n + 1) + Len(none)
          BY <4>1, <2>1, <1>4
        <5> QED
          BY <5>1, <5>2, <4>1, <1>10
      <4> QED
        BY <4>2 DEF none
    <3> QED
      BY <3>1, <3>2
  <2>2. CASE Len(conn.wire) = n + 2 /\ conn.wire[n + 2] \in FaultFrames \cup {Close}
    <3> DEFINE g == conn.wire[n + 2]
               rest == <<g>>
    <3>1. rest \in Rests /\ g \in Frames
      BY <2>2, FrameFacts DEF FaultFrames
    <3>2. rest \in Seq(Frames) /\ Len(rest) = 1 /\ rest[1] = g
      BY <3>1
    <3> HIDE DEF rest, Rests
    <3>3. /\ Len(conn.wire) = (n + 1) + Len(rest)
          /\ \A i \in 1 .. Len(rest) : conn.wire[(n + 1) + i] = rest[i]
      <4>1. \A i \in 1 .. Len(rest) : i = 1 /\ (n + 1) + i = n + 2
        BY <3>2, <1>4
      <4> QED
        BY <4>1, <3>2, <2>2, <1>4
    <3> QED
      BY <3>1, <3>2, <3>3, <1>10
  <2>3. CASE Len(conn.wire) = n + 3 /\ conn.wire[n + 2] \in FaultFrames
             /\ conn.wire[n + 3] = Close
    <3> DEFINE g == conn.wire[n + 2]
               rest == <<g, Close>>
    <3>1. rest \in Rests /\ g \in Frames /\ Close \in Frames
      BY <2>3, FrameFacts DEF FaultFrames
    <3>2. rest \in Seq(Frames) /\ Len(rest) = 2 /\ rest[1] = g /\ rest[2] = Close
      BY <3>1
    <3> HIDE DEF rest, Rests
    <3>3. /\ Len(conn.wire) = (n + 1) + Len(rest)
          /\ \A i \in 1 .. Len(rest) : conn.wire[(n + 1) + i] = rest[i]
      <4>1. \A i \in 1 .. Len(rest) : \/ i = 1 /\ (n + 1) + i = n + 2
                                      \/ i = 2 /\ (n + 1) + i = n + 3
        BY <3>2, <1>4
      <4> QED
        BY <4>1, <3>2, <2>3, <1>4
    <3> QED
      BY <3>1, <3>2, <3>3, <1>10
  <2> QED
    BY <2>0, <2>1, <2>2, <2>3 DEF Rest
<1> QED
  BY <1>4, <1>11 DEF head, lines

-----------------------------------------------------------------------------
(* The inductive invariant.                                                *)

Values == -1 .. MaxLines

\* The types, without those of the connection.
TabOK ==
  /\ tab \in Tabs /\ Len(tab.lines) <= VisibleLimit /\ Len(tab.ref) <= VisibleLimit
  /\ socket \in {"none", "connecting", "open", "closing", "closed"}
  /\ got \in 0 .. Len(conn.wire)

HastyOK == hasty \in BOOLEAN

\* Nothing is read before the HTTP snapshot is there.
LoadingFirst == tab.loading => socket = "none" /\ got = 0

IInv ==
  /\ SocketInv /\ TabOK /\ HastyOK /\ LoadingFirst
  /\ ErrorStaysShown /\ ShownUnlessHasty

-----------------------------------------------------------------------------
(* The lines that are shown.                                               *)

\* Trimming keeps the last lines.
LEMMA TrimProperties ==
  ASSUME NEW S, NEW s \in Seq(S)
  PROVE  LET cut == IF Len(s) > VisibleLimit THEN Len(s) - VisibleLimit ELSE 0
         IN  /\ TrimProjectLogLines(s) \in Seq(S)
             /\ Len(TrimProjectLogLines(s)) = Len(s) - cut
             /\ Len(TrimProjectLogLines(s)) <= VisibleLimit
             /\ \A i \in 1 .. Len(s) - cut : TrimProjectLogLines(s)[i] = s[cut + i]
<1> DEFINE cut == IF Len(s) > VisibleLimit THEN Len(s) - VisibleLimit ELSE 0
           t == TrimProjectLogLines(s)
<1>1. Len(s) \in Nat /\ VisibleLimit \in Nat /\ VisibleLimit >= 1
  BY LenProperties, VisibleLimitAssumption
<1>2. cut \in Nat /\ cut <= Len(s) /\ Len(s) - cut <= VisibleLimit
  BY <1>1
<1>3. t = SubSeq(s, 1 + cut, Len(s))
  BY DEF TrimProjectLogLines
<1> HIDE DEF cut, t
<1>4. \A i \in (1 + cut) .. Len(s) : s[i] \in S
  <2>1. \A i \in (1 + cut) .. Len(s) : i \in 1 .. Len(s)
    BY <1>1, <1>2
  <2> QED
    BY <2>1, ElementOfSeq
<1>5. /\ t \in Seq(S)
      /\ Len(t) = IF 1 + cut <= Len(s) THEN Len(s) - (1 + cut) + 1 ELSE 0
      /\ \A i \in 1 .. Len(s) - (1 + cut) + 1 : t[i] = s[(1 + cut) + i - 1]
  <2>1. 1 + cut \in Int /\ Len(s) \in Int
    BY <1>1, <1>2
  <2> QED
    BY <2>1, <1>3, <1>4, SubSeqProperties
<1>6. /\ Len(t) = Len(s) - cut
      /\ \A i \in 1 .. Len(s) - cut : t[i] = s[cut + i]
  BY <1>1, <1>2, <1>5
<1>7. Len(t) <= VisibleLimit
  BY <1>2, <1>6
<1> QED
  BY <1>5, <1>6, <1>7 DEF cut, t

\* What is trimmed before a line is appended is trimmed after it too.
LEMMA TrimAppend ==
  ASSUME NEW S, NEW s \in Seq(S), NEW x \in S
  PROVE  TrimProjectLogLines(Append(TrimProjectLogLines(s), x))
           = TrimProjectLogLines(Append(s, x))
<1> DEFINE n == Len(s)
           t == TrimProjectLogLines(s)
           tx == Append(t, x)
           sx == Append(s, x)
           l == TrimProjectLogLines(tx)
           r == TrimProjectLogLines(sx)
           a == IF n > VisibleLimit THEN n - VisibleLimit ELSE 0
           b == IF n - a + 1 > VisibleLimit THEN n - a + 1 - VisibleLimit ELSE 0
           c == IF n + 1 > VisibleLimit THEN n + 1 - VisibleLimit ELSE 0
<1>1. n \in Nat /\ VisibleLimit \in Nat /\ VisibleLimit >= 1
  BY LenProperties, VisibleLimitAssumption
<1>2. t \in Seq(S) /\ Len(t) = n - a /\ \A i \in 1 .. n - a : t[i] = s[a + i]
  BY TrimProperties
<1>8. /\ a \in Nat /\ b \in Nat /\ c = a + b /\ a <= n /\ b <= n - a
      /\ b = IF n - a + 1 > VisibleLimit THEN n - a + 1 - VisibleLimit ELSE 0
      /\ c = IF n + 1 > VisibleLimit THEN n + 1 - VisibleLimit ELSE 0
  <2>1. b = IF n - a + 1 > VisibleLimit THEN n - a + 1 - VisibleLimit ELSE 0
    OBVIOUS
  <2>2. c = IF n + 1 > VisibleLimit THEN n + 1 - VisibleLimit ELSE 0
    OBVIOUS
  <2>3. a = IF n > VisibleLimit THEN n - VisibleLimit ELSE 0
    OBVIOUS
  <2> HIDE DEF a, b, c, n
  <2> QED
    BY <1>1, <2>1, <2>2, <2>3
<1> HIDE DEF t, n, a, b, c
<1>3. /\ tx \in Seq(S) /\ Len(tx) = Len(t) + 1
      /\ \A i \in 1 .. Len(t) : tx[i] = t[i]
      /\ tx[Len(t) + 1] = x
  BY <1>2, AppendProperties
<1>4. /\ sx \in Seq(S) /\ Len(sx) = n + 1
      /\ \A i \in 1 .. n : sx[i] = s[i]
      /\ sx[n + 1] = x
  BY AppendProperties DEF n
<1> HIDE DEF tx, sx
<1>5. Len(tx) = n - a + 1
  BY <1>2, <1>3
<1>6. /\ l \in Seq(S) /\ Len(l) = n - a + 1 - b
      /\ \A i \in 1 .. n - a + 1 - b : l[i] = tx[b + i]
  <2> DEFINE cut == IF Len(tx) > VisibleLimit THEN Len(tx) - VisibleLimit ELSE 0
  <2>1. /\ l \in Seq(S) /\ Len(l) = Len(tx) - cut
        /\ \A i \in 1 .. Len(tx) - cut : l[i] = tx[cut + i]
    BY <1>3, TrimProperties
  <2>2. cut = b
    BY <1>1, <1>3, <1>5, <1>8
  <2> HIDE DEF cut, l
  <2> QED
    BY <2>1, <2>2, <1>1, <1>5, <1>8
<1>7. /\ r \in Seq(S) /\ Len(r) = n + 1 - c
      /\ \A i \in 1 .. n + 1 - c : r[i] = sx[c + i]
  <2> DEFINE cut == IF Len(sx) > VisibleLimit THEN Len(sx) - VisibleLimit ELSE 0
  <2>1. /\ r \in Seq(S) /\ Len(r) = Len(sx) - cut
        /\ \A i \in 1 .. Len(sx) - cut : r[i] = sx[cut + i]
    BY <1>4, TrimProperties
  <2>2. cut = c
    BY <1>1, <1>4, <1>8
  <2> HIDE DEF cut, r
  <2> QED
    BY <2>1, <2>2, <1>1, <1>4, <1>8
<1> HIDE DEF l, r
<1>9. Len(l) = Len(r)
  <2>1. n - a + 1 - b = n + 1 - c
    BY <1>1, <1>8
  <2> QED
    BY <1>6, <1>7, <2>1
<1>10. ASSUME NEW i \in 1 .. Len(l)  PROVE l[i] = r[i]
  <2>1. /\ i \in 1 .. n - a + 1 - b /\ i \in 1 .. n + 1 - c
        /\ c + i = a + (b + i)
    BY <1>1, <1>6, <1>7, <1>8
  <2>2. l[i] = tx[b + i] /\ r[i] = sx[a + (b + i)]
    BY <2>1, <1>6, <1>7
  <2>3. CASE b + i <= n - a
    <3>1. b + i \in 1 .. n - a /\ a + (b + i) \in 1 .. n
      BY <2>1, <2>3, <1>1, <1>8
    <3>2. /\ tx[b + i] = t[b + i] /\ t[b + i] = s[a + (b + i)]
          /\ sx[a + (b + i)] = s[a + (b + i)]
      BY <3>1, <1>2, <1>3, <1>4
    <3> QED
      BY <2>2, <3>2
  <2>4. CASE ~(b + i <= n - a)
    <3>1. b + i = Len(t) + 1 /\ a + (b + i) = n + 1
      BY <2>1, <2>4, <1>1, <1>2, <1>8
    <3> QED
      BY <3>1, <2>2, <1>3, <1>4
  <2> QED
    BY <2>3, <2>4
<1>11. l = r
  BY <1>6, <1>7, <1>9, <1>10, SeqEqual
<1> QED
  BY <1>11 DEF l, r, tx, sx, t

\* The stream's tail and the first k lines.
FirstLines(k) == [i \in 1 .. k + 1 |-> i - 1]

\* FirstLines is what its name says.
LEMMA FirstLinesProperties ==
  ASSUME NEW k \in 0 .. MaxLines
  PROVE  /\ FirstLines(k) \in Seq(Values) /\ Len(FirstLines(k)) = k + 1
         /\ \A i \in 1 .. k + 1 : FirstLines(k)[i] = i - 1
<1>1. k \in Nat /\ k + 1 \in Nat /\ k <= MaxLines /\ MaxLines \in Nat
  BY MaxLinesAssumption
<1>2. \A i \in 1 .. k + 1 : i - 1 \in Values
  BY <1>1 DEF Values
<1>3. FirstLines(k) \in [1 .. k + 1 -> Values]
  BY <1>2 DEF FirstLines
<1>4. FirstLines(k) \in Seq(Values)
  BY <1>1, <1>3, SeqDef
<1> QED
  BY <1>1, <1>4 DEF FirstLines

\* The next line follows.
LEMMA FirstLinesAppend ==
  ASSUME NEW k \in Nat, k + 1 <= MaxLines
  PROVE  Append(FirstLines(k), k + 1) = FirstLines(k + 1)
<1>1. k \in 0 .. MaxLines /\ k + 1 \in 0 .. MaxLines /\ k + 1 \in Values
  BY MaxLinesAssumption DEF Values
<1>2. /\ FirstLines(k) \in Seq(Values) /\ Len(FirstLines(k)) = k + 1
      /\ \A i \in 1 .. k + 1 : FirstLines(k)[i] = i - 1
  BY <1>1, FirstLinesProperties
<1>3. /\ FirstLines(k + 1) \in Seq(Values) /\ Len(FirstLines(k + 1)) = k + 2
      /\ \A i \in 1 .. k + 2 : FirstLines(k + 1)[i] = i - 1
  <2>1. /\ FirstLines(k + 1) \in Seq(Values)
        /\ Len(FirstLines(k + 1)) = (k + 1) + 1
        /\ \A i \in 1 .. (k + 1) + 1 : FirstLines(k + 1)[i] = i - 1
    BY <1>1, FirstLinesProperties
  <2>2. (k + 1) + 1 = k + 2
    OBVIOUS
  <2> QED
    BY <2>1, <2>2
<1> DEFINE a == Append(FirstLines(k), k + 1)
<1>4. /\ a \in Seq(Values) /\ Len(a) = (k + 1) + 1
      /\ \A i \in 1 .. k + 1 : a[i] = FirstLines(k)[i]
      /\ a[(k + 1) + 1] = k + 1
  BY <1>1, <1>2, AppendProperties
<1> HIDE DEF a
<1>5. \A i \in 1 .. Len(a) : a[i] = FirstLines(k + 1)[i]
  <2>1. ASSUME NEW i \in 1 .. Len(a)  PROVE a[i] = FirstLines(k + 1)[i]
    <3>1. i \in 1 .. k + 2
      BY <1>4
    <3>2. CASE i \in 1 .. k + 1
      BY <3>1, <3>2, <1>2, <1>3, <1>4
    <3>3. CASE i = k + 2
      BY <3>1, <3>3, <1>3, <1>4
    <3> QED
      BY <3>1, <3>2, <3>3
  <2> QED
    BY <2>1
<1>6. Len(a) = Len(FirstLines(k + 1))
  BY <1>3, <1>4
<1> QED
  BY <1>3, <1>4, <1>5, <1>6, SeqEqual DEF a

-----------------------------------------------------------------------------
(* The frames that were read.                                              *)

\* LineFrames and Received, of any wire and any number of frames read from it.
LinesOf(w, g) == {i \in 1 .. g : w[i].type = "line"}
ReceivedOf(w, g) ==
  TrimProjectLogLines(
    StreamTail \o [i \in 1 .. Cardinality(LinesOf(w, g)) |-> w[i + 1].line])

\* Received is about the wire and the frames read, before and after a step.
LEMMA ReceivedIs ==
  Received = ReceivedOf(conn.wire, got) /\ Received' = ReceivedOf(conn'.wire, got')
BY DEF Received, ReceivedOf, LineFrames, LinesOf, TrimProjectLogLines

\* What the reader tells frames apart by.
LEMMA FrameTypes ==
  /\ Snapshot.type = "snapshot" /\ Close.type = "close"
  /\ \A i : Line(i).type = "line" /\ Line(i).line = i
  /\ \A f \in FaultFrames : f.type \in Faults
  /\ {"snapshot", "line", "close", None} \cap Faults = {}
BY DEF Frame, Snapshot, Close, Line, Fault, FaultFrames, Faults, None

\* Where each frame is.
LEMMA WireShape ==
  ASSUME NEW m \in 0 .. MaxLines, NEW n \in 0 .. m, NEW c, c \in Connections,
         Wired(c, m, n), NEW i \in 1 .. Len(c.wire)
  PROVE  \/ i = 1 /\ c.wire[i] = Snapshot
         \/ i \in 2 .. n + 1 /\ c.wire[i] = Line(i - 1)
         \/ i = n + 2 /\ c.wire[i] \in FaultFrames \cup {Close}
         \/ i = n + 3 /\ c.wire[i] = Close
<1>1. n \in Nat /\ Len(c.wire) \in Nat
  BY MaxLinesAssumption, ConnFields
<1>2. /\ c.wire[1] = Snapshot
      /\ \A j \in 1 .. n : c.wire[j + 1] = Line(j)
      /\ Rest(c.wire, n)
  BY DEF Wired
<1>3. CASE i = 1
  BY <1>2, <1>3
<1>4. CASE i \in 2 .. n + 1
  <2>1. i - 1 \in 1 .. n /\ (i - 1) + 1 = i
    BY <1>1, <1>4
  <2> QED
    BY <2>1, <1>2, <1>4
<1>5. CASE ~(i \in 1 .. n + 1)
  BY <1>1, <1>2, <1>5 DEF Rest
<1> QED
  BY <1>1, <1>3, <1>4, <1>5

\* After g frames the page should show the tail and the lines among them.
LEMMA ReadSoFar ==
  ASSUME NEW m \in 0 .. MaxLines, NEW n \in 0 .. m, NEW c, c \in Connections,
         Wired(c, m, n), NEW g \in 1 .. Len(c.wire)
  PROVE  LET k == IF g <= n + 1 THEN g - 1 ELSE n
         IN  ReceivedOf(c.wire, g) = TrimProjectLogLines(FirstLines(k))
<1> DEFINE k == IF g <= n + 1 THEN g - 1 ELSE n
           w == c.wire
<1>1. n \in Nat /\ g \in Nat /\ g >= 1 /\ Len(w) \in Nat /\ g <= Len(w)
      /\ n <= MaxLines /\ MaxLines \in Nat
  BY MaxLinesAssumption, ConnFields
<1>2. k \in Nat /\ k <= n /\ k + 1 <= g /\ k \in 0 .. MaxLines
      /\ (k = n \/ k + 1 = g)
  BY <1>1
<1> HIDE DEF k
<1>3. ASSUME NEW i \in 1 .. g  PROVE w[i].type = "line" <=> i \in 2 .. k + 1
  <2>1. i \in 1 .. Len(w) /\ i \in Nat
    BY <1>1
  <2>2. \/ i = 1 /\ w[i] = Snapshot
        \/ i \in 2 .. n + 1 /\ w[i] = Line(i - 1)
        \/ i = n + 2 /\ w[i] \in FaultFrames \cup {Close}
        \/ i = n + 3 /\ w[i] = Close
    BY <2>1, WireShape
  <2>3. CASE i = 1 /\ w[i] = Snapshot
    BY <2>3, <1>2, FrameTypes
  <2>4. CASE i \in 2 .. n + 1 /\ w[i] = Line(i - 1)
    <3>1. i \in 2 .. k + 1
      BY <2>1, <2>4, <1>1, <1>2
    <3> QED
      BY <2>4, <3>1, FrameTypes
  <2>5. CASE i \in {n + 2, n + 3} /\ w[i] \in FaultFrames \cup {Close}
    <3>1. i \notin 2 .. k + 1
      BY <2>5, <1>1, <1>2
    <3>2. w[i].type # "line"
      BY <2>5, FrameTypes
    <3> QED
      BY <3>1, <3>2
  <2> QED
    BY <2>2, <2>3, <2>4, <2>5
<1>4. LinesOf(w, g) = 2 .. k + 1
  <2>1. 2 .. k + 1 \subseteq 1 .. g
    BY <1>1, <1>2
  <2> QED
    BY <2>1, <1>3 DEF LinesOf
<1>5. Cardinality(LinesOf(w, g)) = k
  <2> DEFINE last == k + 1
  <2>1. 2 \in Int /\ last \in Int /\ last - 2 + 1 = k /\ (2 > last => k = 0)
    BY <1>2
  <2>2. LinesOf(w, g) = 2 .. last
    BY <1>4
  <2> HIDE DEF last
  <2>3. Cardinality(2 .. last) = IF 2 > last THEN 0 ELSE last - 2 + 1
    BY <2>1, FS_Interval
  <2> QED
    BY <2>1, <2>2, <2>3
<1> DEFINE lines == [i \in 1 .. k |-> w[i + 1].line]
<1>6. ASSUME NEW i \in 1 .. k  PROVE w[i + 1].line = i
  <2>1. /\ i + 1 \in 1 .. Len(w) /\ i + 1 \in 2 .. n + 1
        /\ (i + 1) - 1 = i /\ i + 1 # 1 /\ i + 1 # n + 2 /\ i + 1 # n + 3
    BY <1>1, <1>2
  <2>2. w[i + 1] = Line(i)
    BY <2>1, WireShape
  <2> QED
    BY <2>2, FrameTypes
<1>7. lines = [i \in 1 .. k |-> i]
  BY <1>6
<1>8. lines \in Seq(Values) /\ Len(lines) = k /\ \A i \in 1 .. k : lines[i] = i
  <2>1. \A i \in 1 .. k : i \in Values
    BY <1>1, <1>2 DEF Values
  <2>2. [i \in 1 .. k |-> i] \in [1 .. k -> Values]
    BY <2>1
  <2> HIDE DEF lines
  <2> QED
    BY <2>2, <1>2, <1>7, SeqDef
<1>9. StreamTail \in Seq(Values) /\ Len(StreamTail) = 1 /\ StreamTail[1] = 0
  <2>1. 0 \in Values
    BY <1>1 DEF Values
  <2> QED
    BY <2>1 DEF StreamTail
<1> DEFINE shown == StreamTail \o lines
<1> HIDE DEF lines
<1>10. /\ shown \in Seq(Values) /\ Len(shown) = k + 1
       /\ \A i \in 1 .. k + 1 : shown[i] = i - 1
  <2>1. /\ shown \in Seq(Values) /\ Len(shown) = Len(StreamTail) + Len(lines)
        /\ \A i \in 1 .. Len(StreamTail) + Len(lines) : shown[i]
             = IF i <= Len(StreamTail) THEN StreamTail[i]
               ELSE lines[i - Len(StreamTail)]
    BY <1>8, <1>9, ConcatProperties
  <2> HIDE DEF shown
  <2>2. Len(shown) = k + 1
    <3>1. Len(lines) = k /\ Len(StreamTail) = 1 /\ k \in Nat
      BY <1>2, <1>8, <1>9
    <3>2. Len(shown) = Len(StreamTail) + Len(lines)
      BY <2>1
    <3> QED
      BY <3>1, <3>2
  <2>3. ASSUME NEW i \in 1 .. k + 1  PROVE shown[i] = i - 1
    <3>1. shown[i] = IF i <= 1 THEN StreamTail[i] ELSE lines[i - 1]
      BY <2>1, <1>2, <1>8, <1>9
    <3>2. CASE i = 1
      BY <3>1, <3>2, <1>9
    <3>3. CASE i # 1
      <4>1. i - 1 \in 1 .. k /\ ~(i <= 1)
        BY <3>3, <1>2
      <4> QED
        BY <3>1, <4>1, <1>8
    <3> QED
      BY <3>2, <3>3
  <2> QED
    BY <2>1, <2>2, <2>3
<1> HIDE DEF shown
<1>11. shown = FirstLines(k)
  <2>1. /\ FirstLines(k) \in Seq(Values) /\ Len(FirstLines(k)) = k + 1
        /\ \A i \in 1 .. k + 1 : FirstLines(k)[i] = i - 1
    BY <1>2, FirstLinesProperties
  <2> QED
    BY <2>1, <1>10, SeqEqual
<1>12. ReceivedOf(w, g) = TrimProjectLogLines(shown)
  BY <1>5 DEF ReceivedOf, shown, lines
<1> QED
  BY <1>11, <1>12 DEF k

\* The next frame the reader applies, and the frames it has read before.
LEMMA NextFrame ==
  ASSUME NEW m \in 0 .. MaxLines, NEW n \in 0 .. m, NEW c, c \in Connections,
         Wired(c, m, n), NEW g \in Nat, g < Len(c.wire), c.wire[g + 1] # Close
  PROVE  /\ \/ g = 0 /\ c.wire[g + 1] = Snapshot
            \/ g \in 1 .. n /\ c.wire[g + 1] = Line(g)
            \/ g = n + 1 /\ c.wire[g + 1] \in FaultFrames
         /\ \A i \in 1 .. g : c.wire[i].type \notin Faults
<1>1. n \in Nat /\ Len(c.wire) \in Nat
  BY MaxLinesAssumption, ConnFields
<1>2. g + 1 \in 1 .. Len(c.wire)
  BY <1>1
<1>3. \/ g + 1 = 1 /\ c.wire[g + 1] = Snapshot
      \/ g + 1 \in 2 .. n + 1 /\ c.wire[g + 1] = Line((g + 1) - 1)
      \/ g + 1 = n + 2 /\ c.wire[g + 1] \in FaultFrames \cup {Close}
      \/ g + 1 = n + 3 /\ c.wire[g + 1] = Close
  BY <1>2, WireShape
<1>4. (g + 1) - 1 = g /\ (g + 1 \in 2 .. n + 1 => g \in 1 .. n)
      /\ (g + 1 = 1 => g = 0) /\ (g + 1 = n + 2 => g = n + 1)
  BY <1>1
<1>5. \/ g = 0 /\ c.wire[g + 1] = Snapshot
      \/ g \in 1 .. n /\ c.wire[g + 1] = Line(g)
      \/ g = n + 1 /\ c.wire[g + 1] \in FaultFrames
  BY <1>3, <1>4
<1>6. ASSUME NEW i \in 1 .. g  PROVE c.wire[i].type \notin Faults
  <2>1. i \in 1 .. Len(c.wire) /\ i # n + 2 /\ i # n + 3
    BY <1>1, <1>5
  <2>2. c.wire[i] = Snapshot \/ c.wire[i] = Line(i - 1)
    BY <2>1, WireShape
  <2> QED
    BY <2>2, FrameTypes
<1> QED
  BY <1>5, <1>6

-----------------------------------------------------------------------------
(* The steps.                                                              *)

\* What IInv says, in the form the steps use it.
LEMMA StreamFacts ==
  ASSUME IInv
  PROVE  /\ conn \in Connections /\ Good(conn, out) /\ out \in 0 .. MaxLines
         /\ tab \in Tabs /\ got \in Nat /\ got <= Len(conn.wire)
         /\ Len(conn.wire) \in Nat /\ VisibleLimit \in Nat /\ VisibleLimit >= 1
         /\ peer \in {"connected", "closing", "gone"}
<1>1. conn \in Connections /\ Good(conn, out) /\ out \in 0 .. MaxLines
      /\ peer \in {"connected", "closing", "gone"}
  BY DEF IInv, SocketInv, TypeOK
<1>2. Len(conn.wire) \in Nat
  BY <1>1, ConnFields
<1> QED
  BY <1>1, <1>2, VisibleLimitAssumption DEF IInv, TabOK

\* A step that reads no error and replaces none.
LEMMA KeepError ==
  ASSUME IInv, Extends(conn, conn'),
         \/ got' = got
         \/ got' = got + 1 /\ got + 1 <= Len(conn.wire)
            /\ conn.wire[got + 1].type \notin Faults,
         tab'.active => tab.active /\ (tab.error \in Faults => tab'.error = tab.error)
  PROVE  ErrorStaysShown'
<1> SUFFICES ASSUME tab'.active, NEW i \in 1 .. got', conn'.wire[i].type \in Faults
             PROVE  tab'.error = conn'.wire[i].type
  BY DEF ErrorStaysShown
<1>1. got \in Nat /\ got <= Len(conn.wire) /\ Len(conn.wire) \in Nat
  BY StreamFacts
<1>2. i \in 1 .. Len(conn.wire) /\ i \in 1 .. got'
  BY <1>1
<1>3. conn'.wire[i] = conn.wire[i]
  BY <1>2 DEF Extends
<1>4. i \in 1 .. got
  BY <1>1, <1>2, <1>3
<1>5. tab.error = conn.wire[i].type
  BY <1>3, <1>4 DEF IInv, ErrorStaysShown
<1> QED
  BY <1>3, <1>5

\* A step that reads nothing but the close frame, and shows no other lines.
LEMMA KeepShown ==
  ASSUME IInv, SocketInv', Extends(conn, conn'),
         \/ got' = got
         \/ got' = got + 1 /\ got + 1 <= Len(conn.wire) /\ conn.wire[got + 1] = Close,
         hasty' = hasty,
         tab'.active => tab.active /\ (got > 0 => tab'.lines = tab.lines)
  PROVE  ShownUnlessHasty'
<1>1. /\ conn \in Connections /\ Good(conn, out) /\ out \in 0 .. MaxLines
      /\ got \in Nat /\ got <= Len(conn.wire) /\ Len(conn.wire) \in Nat
  BY StreamFacts
<1> SUFFICES ASSUME ~hasty', tab'.active, got' > 0
             PROVE  tab'.lines = Received'
  BY DEF ShownUnlessHasty, TabAppends
<1>2. conn.wire # <<>>
  <2>1. Len(conn.wire) > 0
    BY <1>1
  <2> QED
    BY <2>1, EmptySeq
<1>3. PICK n \in 0 .. out : Wired(conn, out, n)
  BY <1>1, <1>2 DEF Good
<1>4. got > 0 /\ (got' = got + 1 => conn.wire[got + 1].type # "line")
  <2>1. conn.wire[1] = Snapshot
    BY <1>3 DEF Wired
  <2> QED
    BY <2>1, <1>1, FrameTypes
<1>5. tab'.lines = Received
  BY <1>4 DEF IInv, ShownUnlessHasty, TabAppends
<1>6. \A i \in 1 .. got : conn'.wire[i] = conn.wire[i]
  BY <1>1 DEF Extends
<1>7. LinesOf(conn'.wire, got') = LinesOf(conn.wire, got)
  <2>1. CASE got' = got
    BY <2>1, <1>6 DEF LinesOf
  <2>2. CASE got' = got + 1
    <3>1. got + 1 \in 1 .. Len(conn.wire)
      BY <2>2, <1>1
    <3>2. conn'.wire[got + 1] = conn.wire[got + 1]
      BY <3>1 DEF Extends
    <3>3. 1 .. got' = (1 .. got) \cup {got + 1}
      BY <2>2, <1>1
    <3> QED
      BY <3>2, <3>3, <2>2, <1>4, <1>6 DEF LinesOf
  <2> QED
    BY <2>1, <2>2
<1>8. [i \in 1 .. Cardinality(LinesOf(conn'.wire, got')) |-> conn'.wire[i + 1].line]
        = [i \in 1 .. Cardinality(LinesOf(conn.wire, got)) |-> conn.wire[i + 1].line]
  <2> DEFINE k == Cardinality(LinesOf(conn.wire, got))
  <2>1. k \in Nat /\ k + 1 <= got
    <3>1. LinesOf(conn.wire, got) \subseteq 2 .. got
      <4>1. conn.wire[1].type # "line"
        BY <1>3, FrameTypes DEF Wired
      <4> QED
        BY <4>1, <1>1 DEF LinesOf
    <3> DEFINE two == 2
    <3>2. IsFiniteSet(two .. got) /\ Cardinality(two .. got)
            = IF two > got THEN 0 ELSE got - two + 1
      <4>1. two \in Int /\ got \in Int
        BY <1>1
      <4> HIDE DEF two
      <4> QED
        BY <4>1, FS_Interval
    <3>3. Cardinality(2 .. got) = got - 1 /\ IsFiniteSet(2 .. got)
      BY <3>2, <1>1, <1>4
    <3> QED
      BY <3>1, <3>3, <1>1, FS_Subset, FS_CardinalityType
  <2> HIDE DEF k
  <2>2. \A i \in 1 .. k : conn'.wire[i + 1] = conn.wire[i + 1]
    <3>1. \A i \in 1 .. k : i + 1 \in 1 .. got
      BY <2>1, <1>1
    <3> QED
      BY <3>1, <1>6
  <2> QED
    BY <2>2, <1>7 DEF k
<1>9. Received' = Received
  BY <1>7, <1>8, ReceivedIs DEF ReceivedOf
<1> QED
  BY <1>5, <1>9

\* Before the first frame there is nothing to compare.
LEMMA NothingRead ==
  ASSUME got' = 0
  PROVE  ErrorStaysShown' /\ ShownUnlessHasty'
BY DEF ErrorStaysShown, ShownUnlessHasty, TabAppends

\* What the server does leaves the page alone.
LEMMA ServerStays ==
  ASSUME IInv, ServerStep /\ UNCHANGED tabVars
  PROVE  IInv'
<1>1. SocketInv' /\ Extends(conn, conn')
  BY ServerStepInv DEF IInv
<1>2. UNCHANGED <<tab, socket, got, hasty>>
  BY DEF tabVars
<1>3. ErrorStaysShown' /\ ShownUnlessHasty'
  BY <1>1, <1>2, KeepError, KeepShown
<1>4. got' \in 0 .. Len(conn'.wire)
  <2>1. Len(conn'.wire) \in Nat
    BY <1>1, ConnFields DEF SocketInv, TypeOK
  <2> QED
    BY <2>1, <1>1, <1>2, StreamFacts DEF Extends
<1> QED
  BY <1>1, <1>2, <1>3, <1>4 DEF IInv, TabOK, HastyOK, LoadingFirst

\* A step of the page or of its socket.
LEMMA PageStays ==
  ASSUME IInv, UNCHANGED <<pc, conn, follower, out, partial>>,
         peer' \in {"connected", "closing", "gone"}
  PROVE  SocketInv' /\ Extends(conn, conn')
BY PeerStepInv DEF IInv

\* The HTTP snapshot, or its failure.
LEMMA LoadedInv ==
  ASSUME IInv, Loaded \/ LoadFails
  PROVE  IInv'
<1>1. tab.loading /\ got = 0 /\ got' = got /\ hasty' = hasty
  BY DEF Loaded, LoadFails, IInv, LoadingFirst
<1>2. /\ tab \in Tabs /\ VisibleLimit \in Nat /\ VisibleLimit >= 1
      /\ Len(tab.lines) <= VisibleLimit /\ Len(tab.ref) <= VisibleLimit
      /\ peer \in {"connected", "closing", "gone"}
  BY StreamFacts DEF IInv, TabOK
<1>3. SocketInv'
  <2>1. CASE Upgrade
    BY <2>1, ServerStepInv DEF IInv
  <2>2. CASE UNCHANGED serverVars
    BY <2>2, <1>2, PageStays DEF serverVars
  <2> QED
    BY <2>1, <2>2 DEF Loaded, LoadFails
<1>4. ErrorStaysShown' /\ ShownUnlessHasty'
  BY <1>1, NothingRead
<1>5. got' \in 0 .. Len(conn'.wire)
  <2>1. Len(conn'.wire) \in Nat
    BY <1>3, ConnFields DEF SocketInv, TypeOK
  <2> QED
    BY <2>1, <1>1
<1>6. /\ HttpTail \in Seq(Values) /\ Len(HttpTail) = 1
      /\ <<>> \in Seq(Values) /\ Len(<<>>) = 0
  <2>1. -1 \in Values
    BY MaxLinesAssumption DEF Values
  <2> QED
    BY <2>1, EmptySeq DEF HttpTail
<1>7. /\ tab' \in Tabs /\ ~tab'.loading /\ tab'.ref = tab.ref
      /\ tab'.lines \in {tab.lines, HttpTail, <<>>}
  <2>1. CASE tab' = [tab EXCEPT !.loading = FALSE, !.lines = HttpTail]
    BY <2>1, <1>2, <1>6 DEF Tabs, Values
  <2>2. CASE tab' = [tab EXCEPT !.loading = FALSE]
    BY <2>2, <1>2 DEF Tabs
  <2>3. CASE tab' = [tab EXCEPT !.loading = FALSE, !.lines = <<>>, !.state = "idle",
                                !.error = "load"]
    BY <2>3, <1>2, <1>6 DEF Tabs, Values
  <2> QED
    BY <2>1, <2>2, <2>3 DEF Loaded, LoadFails
<1>8. Len(tab'.lines) <= VisibleLimit /\ Len(tab'.ref) <= VisibleLimit
  <2>1. CASE tab'.lines = tab.lines
    BY <2>1, <1>2, <1>7
  <2>2. CASE tab'.lines = HttpTail
    <3> HIDE DEF HttpTail
    <3> QED
      BY <2>2, <1>2, <1>6, <1>7
  <2>3. CASE tab'.lines = <<>>
    BY <2>3, <1>2, <1>7, EmptySeq
  <2> QED
    BY <2>1, <2>2, <2>3, <1>7
<1>9. socket' \in {"none", "connecting", "open", "closing", "closed"}
  BY DEF Loaded, LoadFails, IInv, TabOK
<1>10. TabOK' /\ LoadingFirst' /\ HastyOK'
  <2>1. HastyOK'
    BY <1>1, Zenon DEF IInv, HastyOK
  <2> QED
    BY <2>1, <1>5, <1>7, <1>8, <1>9 DEF TabOK, LoadingFirst
<1> QED
  BY <1>3, <1>4, <1>10 DEF IInv

\* A step that leaves the lines alone, reads at most the close frame, and replaces
\* no error of the stream.
LEMMA QuietInv ==
  ASSUME IInv,
         UNCHANGED <<pc, conn, follower, out, partial, hasty>>,
         peer' \in {"connected", "closing", "gone"},
         socket' \in {"none", "connecting", "open", "closing", "closed"},
         socket' = "none" => socket = "none",
         \/ got' = got
         \/ got' = got + 1 /\ got + 1 <= Len(conn.wire) /\ conn.wire[got + 1] = Close,
         tab' \in Tabs, tab'.lines = tab.lines, tab'.ref \in {tab.ref, tab.lines},
         tab'.active => tab.active, tab'.loading = tab.loading,
         tab'.active /\ tab.error \in Faults => tab'.error = tab.error,
         tab'.loading => socket' = "none" /\ got' = got
  PROVE  IInv'
<1>1. SocketInv' /\ Extends(conn, conn')
  BY PageStays
<1>2. ErrorStaysShown'
  BY <1>1, KeepError, FrameTypes
<1>3. ShownUnlessHasty'
  BY <1>1, KeepShown
<1>4. TabOK'
  <2>1. Len(tab'.lines) <= VisibleLimit /\ Len(tab'.ref) <= VisibleLimit
    BY DEF IInv, TabOK
  <2>2. got' \in 0 .. Len(conn'.wire)
    BY StreamFacts
  <2> QED
    BY <2>1, <2>2 DEF TabOK
<1>5. LoadingFirst' /\ HastyOK'
  <2>1. HastyOK'
    BY DEF IInv, HastyOK
  <2> QED
    BY <2>1 DEF IInv, LoadingFirst
<1> QED
  BY <1>1, <1>2, <1>3, <1>4, <1>5 DEF IInv

\* The socket opens, closes or fails, the page renders, and the reader leaves.
LEMMA SocketEventsInv ==
  ASSUME IInv, Opened \/ Closed \/ Dropped \/ Render \/ Leave \/ BrowserEnds
  PROVE  IInv'
<1>1. /\ tab \in Tabs /\ got \in Nat
      /\ peer \in {"connected", "closing", "gone"} /\ LoadingFirst
      /\ socket \in {"none", "connecting", "open", "closing", "closed"}
      /\ Len(conn.wire) \in Nat
  BY StreamFacts DEF IInv, TabOK
<1>2. CASE Opened
  <2>1. /\ socket = "connecting" /\ socket' = "open"
        /\ UNCHANGED <<pc, conn, follower, out, partial, hasty>>
        /\ peer' = peer /\ got' = got
    BY <1>2 DEF Opened, serverVars
  <2>2. /\ tab' \in Tabs /\ tab'.lines = tab.lines /\ tab'.ref = tab.ref
        /\ tab'.active = tab.active /\ tab'.loading = tab.loading
        /\ tab'.error = tab.error
    BY <1>1, <1>2 DEF Opened, Tabs
  <2>3. ~tab.loading
    BY <2>1, <1>1 DEF LoadingFirst
  <2> QED
    BY <1>1, <2>1, <2>2, <2>3, QuietInv
<1>3. CASE Closed
  <2>1. /\ socket' = "closed" /\ peer' = "gone" /\ socket # "none"
        /\ UNCHANGED <<pc, conn, follower, out, partial, hasty>>
        /\ \/ got' = got
           \/ got' = got + 1 /\ got < Len(conn.wire) /\ conn.wire[got + 1] = Close
    BY <1>3 DEF Closed
  <2>2. /\ tab' \in Tabs /\ tab'.lines = tab.lines /\ tab'.ref = tab.ref
        /\ tab'.active = tab.active /\ tab'.loading = tab.loading
        /\ tab'.error = tab.error
    BY <1>1, <1>3 DEF Closed, TabClosed, Tabs
  <2>3. ~tab.loading
    BY <2>1, <1>1 DEF LoadingFirst
  <2>4. got < Len(conn.wire) => got + 1 <= Len(conn.wire)
    BY <1>1
  <2> QED
    BY <1>1, <2>1, <2>2, <2>3, <2>4, QuietInv
<1>4. CASE Dropped
  <2>1. /\ socket' = "closed" /\ peer' = "gone" /\ socket # "none"
        /\ UNCHANGED <<pc, conn, follower, out, partial, hasty>> /\ got' = got
        /\ tab' \in {TabFailed, TabClosed}
    BY <1>4 DEF Dropped
  <2>2. /\ tab' \in Tabs /\ tab'.lines = tab.lines /\ tab'.ref = tab.ref
        /\ tab'.active = tab.active /\ tab'.loading = tab.loading
        /\ (tab.error # None => tab'.error = tab.error)
    <3>1. CASE tab' = TabClosed
      BY <3>1, <1>1 DEF TabClosed, Tabs
    <3>2. CASE tab' = TabFailed
      BY <3>2, <1>1 DEF TabFailed, Tabs
    <3> QED
      BY <3>1, <3>2, <2>1
  <2>3. ~tab.loading
    BY <2>1, <1>1 DEF LoadingFirst
  <2>4. tab.error \in Faults => tab.error # None
    BY DEF Faults, None
  <2> QED
    BY <1>1, <2>1, <2>2, <2>3, <2>4, QuietInv
<1>5. CASE Render
  <2>1. /\ socket' = socket /\ peer' = peer
        /\ UNCHANGED <<pc, conn, follower, out, partial, hasty>> /\ got' = got
    BY <1>5 DEF Render, serverVars
  <2>2. /\ tab' \in Tabs /\ tab'.lines = tab.lines /\ tab'.ref = tab.lines
        /\ tab'.active = tab.active /\ tab'.loading = tab.loading
        /\ tab'.error = tab.error
    BY <1>1, <1>5 DEF Render, Tabs
  <2>3. tab.loading => socket = "none"
    BY <1>1 DEF LoadingFirst
  <2> QED
    BY <1>1, <2>1, <2>2, <2>3, QuietInv
<1>6. CASE Leave
  <2>1. /\ UNCHANGED <<pc, conn, follower, out, partial, hasty>> /\ got' = got
        /\ tab' = [tab EXCEPT !.active = FALSE]
        /\ CASE socket = "connecting" -> socket' = "closed" /\ peer' = "gone"
             [] socket = "open" -> socket' = "closing" /\ peer' = "closing"
             [] OTHER -> UNCHANGED <<socket, peer>>
    BY <1>6 DEF Leave
  <2>2. /\ socket' \in {"none", "connecting", "open", "closing", "closed"}
        /\ peer' \in {"connected", "closing", "gone"}
        /\ (socket' = "none" <=> socket = "none")
    <3>1. CASE socket = "connecting"
      BY <3>1, <2>1
    <3>2. CASE socket = "open"
      BY <3>2, <2>1
    <3>3. CASE socket \notin {"connecting", "open"}
      BY <3>3, <2>1, <1>1
    <3> QED
      BY <3>1, <3>2, <3>3
  <2>3. /\ tab' \in Tabs /\ tab'.lines = tab.lines /\ tab'.ref = tab.ref
        /\ ~tab'.active /\ tab'.loading = tab.loading
    BY <2>1, <1>1 DEF Tabs
  <2>4. tab.loading => socket = "none"
    BY <1>1 DEF LoadingFirst
  <2> QED
    BY <2>1, <2>2, <2>3, <2>4, QuietInv
<1>7. CASE BrowserEnds
  <2>1. /\ socket' = "closed" /\ peer' = "gone" /\ socket # "none"
        /\ UNCHANGED <<pc, conn, follower, out, partial, hasty>> /\ got' = got
        /\ tab' = [tab EXCEPT !.active = FALSE]
    BY <1>7 DEF BrowserEnds
  <2>2. /\ tab' \in Tabs /\ tab'.lines = tab.lines /\ tab'.ref = tab.ref
        /\ ~tab'.active /\ tab'.loading = tab.loading
    BY <2>1, <1>1 DEF Tabs
  <2>3. ~tab.loading
    BY <2>1, <1>1 DEF LoadingFirst
  <2> QED
    BY <2>1, <2>2, <2>3, QuietInv
<1> QED
  BY <1>2, <1>3, <1>4, <1>5, <1>6, <1>7

\* A frame is applied: the lines it leaves are those it should, if the last ones
\* were rendered, and only an error frame sets the error of the stream.
LEMMA MessageInv ==
  ASSUME IInv, Message
  PROVE  IInv'
<1>1. /\ conn \in Connections /\ Good(conn, out) /\ out \in 0 .. MaxLines
      /\ tab \in Tabs /\ got \in Nat /\ Len(conn.wire) \in Nat
      /\ VisibleLimit \in Nat /\ VisibleLimit >= 1
      /\ peer \in {"connected", "closing", "gone"}
      /\ Len(tab.lines) <= VisibleLimit /\ Len(tab.ref) <= VisibleLimit
  BY StreamFacts DEF IInv, TabOK
<1>2. /\ socket = "open" /\ got < Len(conn.wire) /\ conn.wire[got + 1] # Close
      /\ got' = got + 1 /\ socket' = socket
      /\ UNCHANGED <<pc, conn, follower, out, partial, peer>>
  BY DEF Message, serverVars
<1>3. SocketInv' /\ Extends(conn, conn')
  BY <1>1, <1>2, PageStays
<1>4. ~tab.loading
  BY <1>2 DEF IInv, LoadingFirst
<1>5. got' \in 0 .. Len(conn'.wire) /\ got' > 0 /\ got' \in 1 .. Len(conn.wire)
  BY <1>1, <1>2
<1>6. conn.wire # <<>>
  <2>1. Len(conn.wire) > 0
    BY <1>1, <1>2
  <2> QED
    BY <2>1, EmptySeq
<1>7. PICK n \in 0 .. out : Wired(conn, out, n)
  BY <1>1, <1>6 DEF Good
<1>8. n \in Nat /\ n <= MaxLines /\ MaxLines \in Nat
  BY <1>1, MaxLinesAssumption
<1> DEFINE frame == conn.wire[got + 1]
<1>9. /\ \/ got = 0 /\ frame = Snapshot
         \/ got \in 1 .. n /\ frame = Line(got)
         \/ got = n + 1 /\ frame \in FaultFrames
      /\ \A i \in 1 .. got : conn.wire[i].type \notin Faults
  BY <1>1, <1>2, <1>7, NextFrame
<1>10. CASE ~tab.active
  <2>1. UNCHANGED <<tab, hasty>>
    BY <1>10 DEF Message
  <2>2. ErrorStaysShown' /\ ShownUnlessHasty'
    BY <2>1, <1>10 DEF ErrorStaysShown, ShownUnlessHasty, TabAppends
  <2>3. TabOK' /\ LoadingFirst' /\ HastyOK'
    <3>1. HastyOK'
      BY <2>1 DEF IInv, HastyOK
    <3> QED
      BY <3>1, <2>1, <1>2, <1>4, <1>5 DEF IInv, TabOK, LoadingFirst
  <2> QED
    BY <1>3, <2>2, <2>3 DEF IInv
<1>11. CASE tab.active
  <2>1. /\ tab' = Applied(frame)
        /\ hasty' = (hasty \/ tab.ref # tab.lines)
    BY <1>11 DEF Message
  <2>2. HastyOK'
    BY <2>1, Zenon DEF IInv, HastyOK
  <2>3. tab.ref \in Seq(Values) /\ tab.lines \in Seq(Values)
    BY <1>1 DEF Tabs, Values
  <2>4. ~hasty' => ~hasty /\ tab.ref = tab.lines
    BY <2>1
  <2>5. ~hasty' /\ got > 0 => tab.ref = Received
    BY <2>4, <1>11 DEF IInv, ShownUnlessHasty, TabAppends
  <2> DEFINE before == IF got <= n + 1 THEN got - 1 ELSE n
             after == IF got' <= n + 1 THEN got' - 1 ELSE n
  <2>6. got > 0 => Received = TrimProjectLogLines(FirstLines(before))
    <3>1. got > 0 => got \in 1 .. Len(conn.wire)
      BY <1>1, <1>2
    <3> QED
      BY <3>1, <1>1, <1>7, ReadSoFar, ReceivedIs
  <2>7. Received' = TrimProjectLogLines(FirstLines(after))
    <3>1. ReceivedOf(conn.wire, got') = TrimProjectLogLines(FirstLines(after))
      BY <1>1, <1>5, <1>7, ReadSoFar
    <3> QED
      BY <3>1, <1>2, ReceivedIs
  <2>8. CASE got = 0 /\ frame = Snapshot
    <3>1. tab' = [tab EXCEPT !.lines = TrimProjectLogLines(StreamTail),
                             !.error = None]
      BY <2>1, <2>8, FrameTypes DEF Applied
    <3>2. StreamTail = FirstLines(0) /\ 0 \in 0 .. MaxLines
      <4>1. 0 \in 0 .. MaxLines
        BY <1>8
      <4>2. /\ FirstLines(0) \in Seq(Values) /\ Len(FirstLines(0)) = 0 + 1
            /\ \A i \in 1 .. 0 + 1 : FirstLines(0)[i] = i - 1
        BY <4>1, FirstLinesProperties
      <4>3. 0 \in Values
        BY <1>8 DEF Values
      <4>4. StreamTail \in Seq(Values) /\ Len(StreamTail) = 1 /\ StreamTail[1] = 0
        BY <4>3 DEF StreamTail
      <4>5. Len(FirstLines(0)) = 1 /\ FirstLines(0)[1] = 0
        BY <4>2
      <4>6. \A i \in 1 .. Len(StreamTail) : StreamTail[i] = FirstLines(0)[i]
        <5>1. \A i \in 1 .. Len(StreamTail) : i = 1
          BY <4>4
        <5> QED
          BY <5>1, <4>4, <4>5
      <4> QED
        BY <4>1, <4>2, <4>4, <4>5, <4>6, SeqEqual
    <3> DEFINE shown == TrimProjectLogLines(StreamTail)
    <3>3. shown \in Seq(Values) /\ Len(shown) <= VisibleLimit
      BY <3>2, FirstLinesProperties, TrimProperties
    <3>4. shown = Received'
      <4>1. after = 0
        BY <2>8, <1>2, <1>8
      <4> HIDE DEF after
      <4> QED
        BY <4>1, <3>2, <2>7
    <3> HIDE DEF shown
    <3>5. /\ tab' \in Tabs /\ tab'.lines = shown /\ tab'.ref = tab.ref
          /\ tab'.loading = tab.loading /\ tab'.active = tab.active
      BY <3>1, <3>3, <1>1 DEF Tabs, Values, shown
    <3>6. ErrorStaysShown'
      <4>1. \A i \in 1 .. got' : i = 1
        BY <2>8, <1>2
      <4>2. conn'.wire[1].type \notin Faults
        BY <2>8, <1>2, FrameTypes
      <4> QED
        BY <4>1, <4>2 DEF ErrorStaysShown
    <3>7. ShownUnlessHasty'
      BY <3>4, <3>5 DEF ShownUnlessHasty, TabAppends
    <3>8. TabOK' /\ LoadingFirst'
      BY <3>3, <3>5, <1>1, <1>2, <1>4, <1>5 DEF TabOK, LoadingFirst
    <3> QED
      BY <3>6, <3>7, <3>8, <2>2, <1>3 DEF IInv
  <2>9. CASE got \in 1 .. n /\ frame = Line(got)
    <3>1. tab' = [tab EXCEPT !.lines = TrimProjectLogLines(Append(tab.ref, got)),
                             !.error = None]
      <4>1. frame.type = "line" /\ frame.line = got
        BY <2>9, FrameTypes
      <4> QED
        BY <2>1, <4>1, FrameTypes DEF Applied
    <3> DEFINE shown == TrimProjectLogLines(Append(tab.ref, got))
    <3>2. got \in Values
      BY <2>9, <1>8 DEF Values
    <3>3. shown \in Seq(Values) /\ Len(shown) <= VisibleLimit
      <4>1. Append(tab.ref, got) \in Seq(Values)
        BY <3>2, <2>3, AppendProperties
      <4> QED
        BY <4>1, TrimProperties
    <3>4. ~hasty' => shown = Received'
      <4>1. /\ before = got - 1 /\ after = got /\ got - 1 \in Nat /\ got > 0
            /\ (got - 1) + 1 = got /\ got - 1 \in 0 .. MaxLines /\ got <= MaxLines
        BY <2>9, <1>1, <1>2, <1>8
      <4> DEFINE k == got - 1
      <4>2. /\ k \in Nat /\ k + 1 <= MaxLines /\ k \in 0 .. MaxLines /\ k + 1 = got
        BY <4>1
      <4>3. Received = TrimProjectLogLines(FirstLines(k))
        BY <4>1, <2>6
      <4>4. Received' = TrimProjectLogLines(FirstLines(k + 1))
        BY <4>1, <4>2, <2>7
      <4> HIDE DEF before, after, k
      <4>5. FirstLines(k) \in Seq(Values)
        BY <4>2, FirstLinesProperties
      <4>6. TrimProjectLogLines(Append(TrimProjectLogLines(FirstLines(k)), got))
              = TrimProjectLogLines(Append(FirstLines(k), got))
        BY <4>5, <3>2, TrimAppend
      <4>7. Append(FirstLines(k), got) = FirstLines(k + 1)
        BY <4>2, FirstLinesAppend
      <4> QED
        BY <4>1, <4>3, <4>4, <4>6, <4>7, <2>5
    <3> HIDE DEF shown
    <3>5. /\ tab' \in Tabs /\ tab'.lines = shown /\ tab'.ref = tab.ref
          /\ tab'.loading = tab.loading /\ tab'.active = tab.active
      BY <3>1, <3>3, <1>1 DEF Tabs, Values, shown
    <3>6. ErrorStaysShown'
      <4>1. \A i \in 1 .. got' : i \in 1 .. got \/ i = got + 1
        BY <1>1, <1>2
      <4>2. \A i \in 1 .. got' : conn'.wire[i].type \notin Faults
        BY <4>1, <2>9, <1>2, <1>9, FrameTypes
      <4> QED
        BY <4>2 DEF ErrorStaysShown
    <3>7. ShownUnlessHasty'
      BY <3>4, <3>5 DEF ShownUnlessHasty, TabAppends
    <3>8. TabOK' /\ LoadingFirst'
      BY <3>3, <3>5, <1>1, <1>2, <1>4, <1>5 DEF TabOK, LoadingFirst
    <3> QED
      BY <3>6, <3>7, <3>8, <2>2, <1>3 DEF IInv
  <2>10. CASE got = n + 1 /\ frame \in FaultFrames
    <3>1. frame.type \in Faults
      BY <2>10, FrameTypes
    <3>2. tab' = [tab EXCEPT !.lines = tab.ref, !.error = frame.type]
      BY <2>1, <3>1, FrameTypes DEF Applied
    <3>3. /\ tab' \in Tabs /\ tab'.lines = tab.ref /\ tab'.ref = tab.ref
          /\ tab'.loading = tab.loading /\ tab'.active = tab.active
          /\ tab'.error = frame.type
      BY <3>1, <3>2, <1>1 DEF Tabs
    <3>4. ~hasty' => tab.ref = Received'
      <4>1. before = n /\ after = n /\ got > 0
        BY <2>10, <1>2, <1>8
      <4> HIDE DEF before, after
      <4> QED
        BY <4>1, <2>5, <2>6, <2>7
    <3>5. ErrorStaysShown'
      <4>1. \A i \in 1 .. got' : i \in 1 .. got \/ i = got + 1
        BY <1>1, <1>2
      <4> QED
        BY <4>1, <3>3, <1>2, <1>9 DEF ErrorStaysShown
    <3>6. ShownUnlessHasty'
      BY <3>3, <3>4 DEF ShownUnlessHasty, TabAppends
    <3>7. TabOK' /\ LoadingFirst'
      BY <3>3, <1>1, <1>2, <1>4, <1>5 DEF TabOK, LoadingFirst
    <3> QED
      BY <3>5, <3>6, <3>7, <2>2, <1>3 DEF IInv
  <2> QED
    BY <2>8, <2>9, <2>10, <1>9
<1> QED
  BY <1>10, <1>11

\* Nothing happens.
LEMMA StutterInv == ASSUME IInv, UNCHANGED vars PROVE IInv'
<1>1. UNCHANGED <<pc, conn, follower, out, partial, peer>>
      /\ UNCHANGED <<tab, socket, got, hasty>>
  BY DEF vars, serverVars, tabVars
<1>2. SocketInv' /\ Extends(conn, conn')
  BY <1>1, PageStays, StreamFacts
<1>3. ErrorStaysShown' /\ ShownUnlessHasty'
  BY <1>1, <1>2, KeepError, KeepShown
<1> QED
  BY <1>1, <1>2, <1>3 DEF IInv, TabOK, HastyOK, LoadingFirst

-----------------------------------------------------------------------------
(* What holds in every state.                                              *)

\* The tab before it has asked for anything, and the connection before it exists.
LEMMA InitInv == StreamInit => IInv
<1> SUFFICES ASSUME StreamInit PROVE IInv
  OBVIOUS
<1>1. SocketInv
  BY SocketInitInv DEF StreamInit
<1>2. <<>> \in Seq(Values) /\ Len(<<>>) = 0
  BY EmptySeq
<1>3. tab \in Tabs /\ tab.lines = <<>> /\ tab.ref = <<>>
  BY <1>2 DEF StreamInit, Tabs, Values
<1>4. got \in 0 .. Len(conn.wire)
  <2>1. Len(conn.wire) \in Nat
    BY <1>1, ConnFields DEF SocketInv, TypeOK
  <2> QED
    BY <2>1 DEF StreamInit
<1>5. Len(tab.lines) <= VisibleLimit /\ Len(tab.ref) <= VisibleLimit
  BY <1>2, <1>3, VisibleLimitAssumption
<1>6. TabOK /\ LoadingFirst
  BY <1>3, <1>4, <1>5 DEF StreamInit, TabOK, LoadingFirst
<1>7. HastyOK
  BY Zenon DEF StreamInit, HastyOK
<1>8. ErrorStaysShown /\ ShownUnlessHasty
  BY DEF StreamInit, ErrorStaysShown, ShownUnlessHasty, TabAppends
<1> QED
  BY <1>1, <1>6, <1>7, <1>8 DEF IInv

\* IInv is inductive: the frames handed to the socket and those the page has
\* applied stay in step whatever the server, the network and the reader do
\* (logs/ws.ts, project-runtime-tabs.tsx).
THEOREM Inductive == StreamSpec => []IInv
<1>1. StreamInit => IInv
  BY InitInv
<1>2. IInv /\ [StreamNext]_vars => IInv'
  <2> SUFFICES ASSUME IInv, [StreamNext]_vars PROVE IInv'
    OBVIOUS
  <2>1. CASE Loaded \/ LoadFails
    BY <2>1, LoadedInv
  <2>2. CASE Browser
    BY <2>2, SocketEventsInv, MessageInv DEF Browser
  <2>3. CASE Leave \/ BrowserEnds
    BY <2>3, SocketEventsInv
  <2>4. CASE ServerStep /\ UNCHANGED tabVars
    BY <2>4, ServerStays
  <2>5. CASE UNCHANGED vars
    BY <2>5, StutterInv
  <2> QED
    BY <2>1, <2>2, <2>3, <2>4, <2>5 DEF StreamNext
<1> QED
  BY <1>1, <1>2, PTL DEF StreamSpec

\* Every variable has its type; the queue never exceeds its budget, and the page
\* never shows more lines than its limit.
THEOREM StreamTypesOK == StreamSpec => []StreamTypeOK
<1>1. IInv => StreamTypeOK
  BY DEF IInv, SocketInv, TabOK, HastyOK, StreamTypeOK
<1> QED
  BY <1>1, Inductive, PTL

\* The client is sent the snapshot, then the follower's lines in order and without
\* a gap, then at most one error, then the close frame (flushPendingEvents,
\* destroySocketSafely of logs/ws.ts), under any backpressure.
THEOREM FramesAlwaysInOrder == StreamSpec => []FramesInOrder
<1>1. IInv => FramesInOrder
  BY GoodInOrder DEF IInv
<1> QED
  BY <1>1, Inductive, PTL

\* The tab shows the last lines of what it was sent, in order, unless a frame came
\* before the render of the one before it (applyProjectLogsStreamMessage).
THEOREM AlwaysShownUnlessHasty == StreamSpec => []ShownUnlessHasty
<1>1. IInv => ShownUnlessHasty
  BY DEF IInv
<1> QED
  BY <1>1, Inductive, PTL

\* An error the stream reported is what the page says until the reader leaves: no
\* later frame clears it, and neither does the close of the socket.
THEOREM ErrorAlwaysStaysShown == StreamSpec => []ErrorStaysShown
<1>1. IInv => ErrorStaysShown
  BY DEF IInv
<1> QED
  BY <1>1, Inductive, PTL

\* What was handed to the socket is never taken back or reordered: the wire only
\* grows (socket.write and socket.end of logs/ws.ts).
THEOREM WireOnlyGrows == StreamSpec => [][Extends(conn, conn')]_vars
<1>1. IInv /\ [StreamNext]_vars => Extends(conn, conn')
  <2> SUFFICES ASSUME IInv, [StreamNext]_vars PROVE Extends(conn, conn')
    OBVIOUS
  <2>1. conn \in Connections
    BY StreamFacts
  <2>2. CASE UNCHANGED conn
    BY <2>1, <2>2, ExtendsSame
  <2>3. CASE Upgrade \/ ServerStep
    BY <2>3, ServerStepInv DEF IInv
  <2>4. \/ UNCHANGED conn \/ Upgrade \/ ServerStep
    BY DEF StreamNext, Loaded, LoadFails, Browser, Opened, Message, Closed, Dropped,
           Render, Leave, BrowserEnds, serverVars, vars
  <2> QED
    BY <2>2, <2>3, <2>4
<1> QED
  BY <1>1, Inductive, PTL DEF StreamSpec
=============================================================================
