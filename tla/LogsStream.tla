----------------------------- MODULE LogsStream -----------------------------
(***************************************************************************)
(* The log stream as its reader sees it: LogsSocket, the connection, and   *)
(* the effect of ProjectLogsTab (apps/web/src/project-runtime-tabs.tsx)    *)
(* that loads a snapshot over HTTP, opens the WebSocket and applies its    *)
(* frames (project-logs-stream.ts), for one service until the tab is left. *)
(*                                                                         *)
(* React renders when it likes: setLogLines changes what will be shown     *)
(* (lines), and logLinesRef follows in an effect after the render (ref).   *)
(***************************************************************************)
EXTENDS LogsSocket, Integers, FiniteSets

CONSTANT VisibleLimit   \* projectLogsVisibleLineLimit
ASSUME VisibleLimitAssumption == VisibleLimit \in Nat \ {0}

VARIABLES
  tab,     \* the state of the effect and of what it shows
  socket,  \* the browser's WebSocket
  got,     \* frames the browser has taken off the connection
  hasty    \* history: a frame was applied before the last one was rendered

tabVars == <<tab, socket, got, hasty>>
vars == <<serverVars, tabVars>>

\* The tail answered over HTTP, and the one of the stream's snapshot.
HttpTail   == <<-1>>
StreamTail == <<0>>

Tabs ==
  [active : BOOLEAN,         \* isActive of the effect
   loading : BOOLEAN,        \* getProjectLogs is awaited
   lines : Seq(-1 .. MaxLines), ref : Seq(-1 .. MaxLines),
   error : {None, "load", "connect"} \cup Faults,
   state : {"connecting", "live", "idle"}]

StreamTypeOK ==
  /\ TypeOK
  /\ tab \in Tabs /\ Len(tab.lines) <= VisibleLimit
  /\ socket \in {"none", "connecting", "open", "closing", "closed"}
  /\ got \in 0 .. Len(conn.wire)
  /\ hasty \in BOOLEAN

StreamInit ==
  /\ SocketInit
  /\ tab = [active |-> TRUE, loading |-> TRUE, lines |-> <<>>, ref |-> <<>>,
            error |-> None, state |-> "connecting"]
  /\ socket = "none" /\ got = 0 /\ hasty = FALSE

TrimProjectLogLines(lines) ==
  SubSeq(lines, 1 + (IF Len(lines) > VisibleLimit THEN Len(lines) - VisibleLimit
                     ELSE 0), Len(lines))

-----------------------------------------------------------------------------
(* The effect.                                                             *)

\* The HTTP snapshot is there: it is shown, and the WebSocket is opened.
Loaded ==
  /\ tab.loading
  /\ IF tab.active
     THEN /\ tab' = [tab EXCEPT !.loading = FALSE, !.lines = HttpTail]
          /\ socket' = "connecting"
          /\ Upgrade
     ELSE /\ tab' = [tab EXCEPT !.loading = FALSE]
          /\ UNCHANGED <<socket, serverVars>>
  /\ UNCHANGED <<got, hasty>>

\* catch
LoadFails ==
  /\ tab.loading
  /\ tab' = IF tab.active
            THEN [tab EXCEPT !.loading = FALSE, !.lines = <<>>, !.state = "idle",
                             !.error = "load"]
            ELSE [tab EXCEPT !.loading = FALSE]
  /\ UNCHANGED <<socket, got, hasty, serverVars>>

\* Mutant: a line is put in front of the others.
AppliedBackwards(frame) ==
  CASE frame.type = "snapshot" ->
         [tab EXCEPT !.lines = TrimProjectLogLines(StreamTail), !.error = None]
    [] frame.type = "line" ->
         [tab EXCEPT !.lines = TrimProjectLogLines(<<frame.line>> \o tab.ref),
                     !.error = None]
    [] frame.type \in Faults ->
         [tab EXCEPT !.lines = tab.ref, !.error = frame.type]

\* Mutant: the lines are not trimmed.
AppliedUntrimmed(frame) ==
  CASE frame.type = "snapshot" -> [tab EXCEPT !.lines = StreamTail, !.error = None]
    [] frame.type = "line" ->
         [tab EXCEPT !.lines = Append(tab.ref, frame.line), !.error = None]
    [] frame.type \in Faults ->
         [tab EXCEPT !.lines = tab.ref, !.error = frame.type]

\* applyProjectLogsStreamMessage, with currentLines from logLinesRef.
Applied(frame) ==
  CASE frame.type = "snapshot" ->
         [tab EXCEPT !.lines = TrimProjectLogLines(StreamTail), !.error = None]
    [] frame.type = "line" ->
         [tab EXCEPT !.lines = TrimProjectLogLines(Append(tab.ref, frame.line)),
                     !.error = None]
    [] frame.type \in Faults ->
         [tab EXCEPT !.lines = tab.ref, !.error = frame.type]

\* 'open'
Opened ==
  /\ socket = "connecting" /\ conn.wire # <<>>
  /\ socket' = "open"
  /\ tab' = IF tab.active THEN [tab EXCEPT !.state = "live"] ELSE tab
  /\ UNCHANGED <<got, hasty, serverVars>>

\* 'message'
Message ==
  /\ socket = "open" /\ got < Len(conn.wire) /\ conn.wire[got + 1] # Close
  /\ got' = got + 1
  /\ IF tab.active
     THEN /\ tab' = Applied(conn.wire[got + 1])
          /\ hasty' = (hasty \/ tab.ref # tab.lines)
     ELSE UNCHANGED <<tab, hasty>>
  /\ UNCHANGED <<socket, serverVars>>

\* Mutant: the end of the stream clears its error.
TabClosedClears ==
  IF tab.active THEN [tab EXCEPT !.state = "idle", !.error = None] ELSE tab

\* 'close'
TabClosed == IF tab.active THEN [tab EXCEPT !.state = "idle"] ELSE tab

\* 'error', before a 'close': an error that is shown stays.
TabFailed ==
  IF tab.active
  THEN [tab EXCEPT !.state = "idle",
                   !.error = IF @ = None THEN "connect" ELSE @]
  ELSE tab

\* The close frame of the server has come, and the connection is closed.
Closed ==
  /\ \/ /\ socket = "open" /\ got < Len(conn.wire)
        /\ conn.wire[got + 1] = Close
        /\ got' = got + 1
     \/ /\ socket = "closing" /\ conn.ended   \* frames are no longer read
        /\ UNCHANGED got
  /\ socket' = "closed" /\ peer' = "gone"
  /\ tab' = TabClosed
  /\ UNCHANGED <<hasty, pc, conn, follower, out, partial>>

\* The upgrade was refused, or the connection was lost; what was still under way
\* on it is lost too.
Dropped ==
  /\ socket \in {"connecting", "open", "closing"}
  /\ pc = "refused" \/ conn.destroyed
  /\ socket' = "closed" /\ peer' = "gone"
  /\ tab' \in IF socket = "connecting" THEN {TabFailed} ELSE {TabFailed, TabClosed}
  /\ UNCHANGED <<got, hasty, pc, conn, follower, out, partial>>

\* The page renders, and the effect copies the lines.
Render ==
  /\ tab.active /\ tab.ref # tab.lines
  /\ tab' = [tab EXCEPT !.ref = tab.lines]
  /\ UNCHANGED <<socket, got, hasty, serverVars>>

\* The cleanup: the reader leaves, or selects another service.  close() during the
\* handshake ends the connection, later it sends a close frame.
Leave ==
  /\ tab.active
  /\ tab' = [tab EXCEPT !.active = FALSE]
  /\ CASE socket = "connecting" -> socket' = "closed" /\ peer' = "gone"
       [] socket = "open" -> socket' = "closing" /\ peer' = "closing"
       [] OTHER -> UNCHANGED <<socket, peer>>
  /\ UNCHANGED <<got, hasty, pc, conn, follower, out, partial>>

\* The browser is gone without a word: its machine ends the connection.
BrowserEnds ==
  /\ socket \in {"connecting", "open", "closing"}
  /\ tab' = [tab EXCEPT !.active = FALSE]
  /\ socket' = "closed" /\ peer' = "gone"
  /\ UNCHANGED <<got, hasty, pc, conn, follower, out, partial>>

Browser == Opened \/ Message \/ Closed \/ Dropped \/ Render

StreamNext ==
  \/ Loaded \/ LoadFails \/ Browser \/ Leave \/ BrowserEnds
  \/ ServerStep /\ UNCHANGED tabVars

StreamSpec == StreamInit /\ [][StreamNext]_vars

\* node emits the events that are due, and the browser reads and renders.
Event(A) == A /\ UNCHANGED tabVars
FairStreamSpec ==
  /\ StreamSpec
  /\ WF_vars(Event(OnDrain)) /\ WF_vars(Event(OnEnd)) /\ WF_vars(Event(OnClose))
  /\ WF_vars(Event(OnCloseFrame)) /\ WF_vars(Event(BothEnded))
  /\ WF_vars(Browser)

-----------------------------------------------------------------------------
(* Properties.                                                             *)

\* What the frames taken so far should have left on the page: the snapshot's tail,
\* and the lines behind it (FramesInOrder).
LineFrames == {i \in 1 .. got : conn.wire[i].type = "line"}
Received ==
  TrimProjectLogLines(
    StreamTail \o [i \in 1 .. Cardinality(LineFrames) |-> conn.wire[i + 1].line])

\* The tab appends every line it receives to the visible ones.
TabAppends == tab.active /\ got > 0 => tab.lines = Received

\* It does, as long as it renders between two frames: a frame applied before the
\* render of the one before it starts from lines that are out of date.
ShownUnlessHasty == ~hasty => TabAppends

\* An error frame, once applied, stays on the page: no line, no 'close' and no
\* 'error' of the WebSocket comes after it that would clear or replace it.
ErrorStaysShown ==
  tab.active =>
    \A i \in 1 .. got : conn.wire[i].type \in Faults => tab.error = conn.wire[i].type
=============================================================================
