---------------------------- MODULE DeployRunner ----------------------------
(***************************************************************************)
(* createDeployCommandRunner of apps/api/src/deploy/runner.ts: one docker  *)
(* child, its timeout, its kill timer and its 'error' and 'close' events,  *)
(* on a discrete clock.                                                    *)
(*                                                                         *)
(* The child and its descendants are the environment: the child may ignore *)
(* SIGTERM (not SIGKILL), and a descendant that inherited stdout or stderr *)
(* may outlive it.  node emits 'close' only when the child has exited and  *)
(* nobody holds its pipes any more.  Work that is due is done before the   *)
(* clock ticks: one tick is longer than a turn of the event loop.          *)
(***************************************************************************)
EXTENDS Integers

CONSTANTS
  TimeoutMs,     \* input.timeoutMs, in ticks
  KillGraceMs,   \* killGraceMs, in ticks
  MaxTime        \* bound on the clock

ASSUME TimesAssumption ==
  /\ TimeoutMs \in Nat \ {0}
  /\ KillGraceMs \in Nat \ {0}
  /\ MaxTime \in Nat

Unset   == -1   \* a timer that is not armed
BySignal == -2  \* code of a child that a signal ended: null in node
SpawnErrno == -3 \* code 'close' carries when the child could not be spawned
NoResult == [exitCode |-> -9, timedOut |-> FALSE]

VARIABLES
  now,
  proc,          \* "running", "exited" or "unspawned"
  code,          \* what the child ended with
  held,          \* a descendant of the child holds its pipes
  errorPending,  \* 'error' is still to be emitted
  closed,        \* 'close' has been emitted
  timeoutTimer,  \* when timeoutTimer fires, or Unset
  killTimer,     \* when killTimer fires, or Unset
  killed,        \* SIGKILL was sent to the running child
  timedOut,
  settled,
  result

vars == <<now, proc, code, held, errorPending, closed, timeoutTimer, killTimer,
          killed, timedOut, settled, result>>

Codes == {0, 1, BySignal, SpawnErrno}

TypeOK ==
  /\ now \in 0 .. MaxTime
  /\ proc \in {"running", "exited", "unspawned"}
  /\ code \in Codes
  /\ held \in BOOLEAN /\ errorPending \in BOOLEAN /\ closed \in BOOLEAN
  /\ timeoutTimer \in {Unset, TimeoutMs}
  /\ killTimer \in {Unset} \cup 0 .. (TimeoutMs + KillGraceMs)
  /\ killed \in BOOLEAN /\ timedOut \in BOOLEAN /\ settled \in BOOLEAN
  /\ result \in {NoResult} \cup [exitCode : {0, 1, SpawnErrno},
                                 timedOut : BOOLEAN]

\* spawn() has returned: the child runs, or its failure is about to be emitted.
Init ==
  /\ now = 0
  /\ \/ proc = "running" /\ errorPending = FALSE /\ code = 0
     \/ proc = "unspawned" /\ errorPending = TRUE /\ code = SpawnErrno
  /\ held = FALSE
  /\ closed = FALSE
  /\ timeoutTimer = TimeoutMs
  /\ killTimer = Unset
  /\ killed = FALSE
  /\ timedOut = FALSE
  /\ settled = FALSE
  /\ result = NoResult

-----------------------------------------------------------------------------
(* The child                                                               *)

\* By itself, by SIGTERM or by SIGKILL; pipes may stay with a descendant.
ChildExits(c) ==
  /\ proc = "running"
  /\ killed => c = BySignal
  /\ proc' = "exited"
  /\ code' = c
  /\ held' \in BOOLEAN
  /\ UNCHANGED <<now, errorPending, closed, timeoutTimer, killTimer, killed,
                 timedOut, settled, result>>

DescendantsExit ==
  /\ held
  /\ held' = FALSE
  /\ UNCHANGED <<now, proc, code, errorPending, closed, timeoutTimer, killTimer,
                 killed, timedOut, settled, result>>

-----------------------------------------------------------------------------
(* The runner                                                              *)

\* resolve() and the two clearTimeout calls.
Settle(r) ==
  /\ settled' = TRUE
  /\ result' = r
  /\ timeoutTimer' = Unset
  /\ killTimer' = Unset

\* Mutant: every event settles.
FinishAlways(r) == Settle(r)

\* finish(): only the first call settles.
Finish(r) ==
  \/ ~settled /\ Settle(r)
  \/ settled /\ UNCHANGED <<settled, result, timeoutTimer, killTimer>>

OnError ==
  /\ errorPending
  /\ errorPending' = FALSE
  /\ Finish([exitCode |-> 1, timedOut |-> timedOut])
  /\ UNCHANGED <<now, proc, code, held, closed, killed, timedOut>>

\* Mutant: the timeout only kills, the code of the child decides.
ExitCodeOfChild == IF code = BySignal THEN 1 ELSE code

\* Mutant: timedOut ? 1 : code, without the default.
ExitCodeNoDefault == IF timedOut THEN 1 ELSE code

\* timedOut ? 1 : (code ?? 1)
ExitCode == IF timedOut \/ code = BySignal THEN 1 ELSE code

CloseIsDue ==
  /\ proc # "running"
  /\ ~held /\ ~errorPending /\ ~closed

OnClose ==
  /\ CloseIsDue
  /\ closed' = TRUE
  /\ Finish([exitCode |-> ExitCode, timedOut |-> timedOut])
  /\ UNCHANGED <<now, proc, code, held, errorPending, killed, timedOut>>

\* Sends SIGTERM, which the child may ignore, and arms the kill timer.
OnTimeout ==
  /\ timeoutTimer # Unset /\ now >= timeoutTimer
  /\ timeoutTimer' = Unset
  /\ timedOut' = TRUE
  /\ killTimer' = now + KillGraceMs
  /\ UNCHANGED <<now, proc, code, held, errorPending, closed, killed, settled,
                 result>>

\* Mutant: after the grace period SIGTERM is sent once more.
OnKillTimerTerm ==
  /\ killTimer # Unset /\ now >= killTimer
  /\ killTimer' = Unset
  /\ UNCHANGED <<now, proc, code, held, errorPending, closed, timeoutTimer,
                 killed, timedOut, settled, result>>

\* SIGKILL reaches the child only, never its descendants.
OnKillTimer ==
  /\ killTimer # Unset /\ now >= killTimer
  /\ killTimer' = Unset
  /\ killed' = (proc = "running" /\ ~settled)
  /\ UNCHANGED <<now, proc, code, held, errorPending, closed, timeoutTimer,
                 timedOut, settled, result>>

-----------------------------------------------------------------------------
(* Time                                                                    *)

\* A timer that has expired, an event to emit, a child that SIGKILL must end.
WorkIsDue ==
  \/ timeoutTimer # Unset /\ now >= timeoutTimer
  \/ killTimer # Unset /\ now >= killTimer
  \/ errorPending
  \/ CloseIsDue
  \/ killed /\ proc = "running"

Tick ==
  /\ now < MaxTime
  /\ ~WorkIsDue
  /\ now' = now + 1
  /\ UNCHANGED <<proc, code, held, errorPending, closed, timeoutTimer, killTimer,
                 killed, timedOut, settled, result>>

Next ==
  \/ \E c \in {0, 1, BySignal} : ChildExits(c)
  \/ DescendantsExit
  \/ OnError
  \/ OnClose
  \/ OnTimeout
  \/ OnKillTimer
  \/ Tick

Spec == Init /\ [][Next]_vars

-----------------------------------------------------------------------------
(* Properties                                                              *)

Deadline == TimeoutMs + KillGraceMs

\* Past the timeout and the grace period only a descendant that holds the pipes
\* can keep the command from returning: a child that ignores SIGTERM cannot.
OnlyPipesDelay == now > Deadline /\ ~settled => held \/ CloseIsDue

\* Success is reported exactly when the child ended with 0 and 'close' came
\* before the timeout did: a timeout is never reported as success, and neither is
\* a child that could not be spawned or was ended by a signal.
ResultIsTrue ==
  settled =>
    /\ result.exitCode = 0 <=> code = 0 /\ ~timedOut
    /\ result.timedOut => timedOut
    /\ timedOut => result.timedOut /\ result.exitCode = 1

\* 'error' and 'close' both arrive when spawn fails; the first one counts.
SettlesOnce == [][settled => UNCHANGED <<settled, result>>]_vars
=============================================================================
