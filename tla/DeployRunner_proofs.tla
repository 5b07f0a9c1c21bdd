------------------------ MODULE DeployRunner_proofs -------------------------
(***************************************************************************)
(* Proofs about DeployRunner, for every timeout and grace period: the      *)
(* promise settles once, with the truth, and past the deadline only a      *)
(* descendant that holds the pipes keeps it from settling.                 *)
(***************************************************************************)
EXTENDS DeployRunner, TLAPS

-----------------------------------------------------------------------------
(* The inductive invariant.                                                *)

\* A settled promise has no child to wait for, and no timer.
SettledIsOver ==
  settled => proc # "running" /\ timeoutTimer = Unset /\ killTimer = Unset

\* The three phases of a promise that has not settled: before the timeout, in the
\* grace period, and after the kill timer has fired, when a child that still
\* runs has just been sent SIGKILL.
Waiting  == /\ timeoutTimer = TimeoutMs /\ killTimer = Unset
            /\ ~timedOut /\ ~killed /\ now <= TimeoutMs
Grace    == /\ timeoutTimer = Unset /\ killTimer = Deadline
            /\ timedOut /\ ~killed /\ now <= Deadline
Overtime == /\ timeoutTimer = Unset /\ killTimer = Unset /\ timedOut
            /\ proc = "running" => killed /\ now <= Deadline

OnTime ==
  /\ ~settled => Waiting \/ Grace \/ Overtime
  /\ closed => settled
  /\ errorPending => now = 0 /\ proc = "unspawned"
  /\ code = SpawnErrno \/ proc # "unspawned"

IInv == TypeOK /\ SettledIsOver /\ ResultIsTrue /\ OnTime

\* The timers and the clock are natural numbers, the marks are not.
LEMMA Constants ==
  /\ TimeoutMs \in Nat /\ TimeoutMs > 0 /\ KillGraceMs \in Nat /\ KillGraceMs > 0
  /\ MaxTime \in Nat /\ Deadline \in Nat /\ Deadline > TimeoutMs
  /\ Unset \notin Nat /\ Unset # TimeoutMs /\ Unset # Deadline
BY TimesAssumption DEF Deadline, Unset

\* The runner starts in the first phase.
LEMMA InitIInv == Init => IInv
<1> SUFFICES ASSUME Init PROVE IInv OBVIOUS
<1>1. TypeOK
  <2>1. now \in 0 .. MaxTime
    BY Constants DEF Init
  <2>2. code \in Codes /\ proc \in {"running", "exited", "unspawned"}
    BY DEF Init, Codes
  <2>3. held \in BOOLEAN /\ errorPending \in BOOLEAN /\ closed \in BOOLEAN
    BY Zenon DEF Init
  <2>4. killed \in BOOLEAN /\ timedOut \in BOOLEAN /\ settled \in BOOLEAN
    BY Zenon DEF Init
  <2>5. /\ timeoutTimer \in {Unset, TimeoutMs}
        /\ killTimer \in {Unset} \cup 0 .. (TimeoutMs + KillGraceMs)
        /\ result \in {NoResult} \cup [exitCode : {0, 1, SpawnErrno}, timedOut : BOOLEAN]
    BY DEF Init
  <2> QED BY <2>1, <2>2, <2>3, <2>4, <2>5 DEF TypeOK
<1>2. SettledIsOver /\ ResultIsTrue
  BY DEF Init, SettledIsOver, ResultIsTrue
<1>3. OnTime
  BY Constants DEF Init, OnTime, Waiting
<1> QED BY <1>1, <1>2, <1>3 DEF IInv

\* The result that 'error' and 'close' report.
LEMMA FinishIsTrue ==
  ASSUME IInv, NEW c \in {0, 1, SpawnErrno}, Finish([exitCode |-> c, timedOut |-> timedOut]),
         c = 0 <=> code = 0 /\ ~timedOut, timedOut => c = 1, proc # "running",
         UNCHANGED <<code, timedOut, proc>>
  PROVE  SettledIsOver' /\ ResultIsTrue' /\ settled'
BY DEF IInv, TypeOK, Finish, Settle, SettledIsOver, ResultIsTrue, Unset

\* What they report has its type, whoever reports it.
LEMMA FinishTyped ==
  ASSUME TypeOK, NEW c \in {0, 1, SpawnErrno}, Finish([exitCode |-> c, timedOut |-> timedOut])
  PROVE  /\ settled' \in BOOLEAN
         /\ result' \in {NoResult} \cup [exitCode : {0, 1, SpawnErrno}, timedOut : BOOLEAN]
         /\ timeoutTimer' \in {Unset, TimeoutMs}
         /\ killTimer' \in {Unset} \cup 0 .. (TimeoutMs + KillGraceMs)
<1>1. CASE settled /\ UNCHANGED <<settled, result, timeoutTimer, killTimer>>
  BY <1>1 DEF TypeOK
<1>2. CASE Settle([exitCode |-> c, timedOut |-> timedOut])
  <2>1. [exitCode |-> c, timedOut |-> timedOut]
          \in [exitCode : {0, 1, SpawnErrno}, timedOut : BOOLEAN]
    BY DEF TypeOK
  <2> QED BY <1>2, <2>1 DEF Settle
<1> QED BY <1>1, <1>2 DEF Finish

\* Every event, and the clock, leads from phase to phase.
LEMMA StepIInv == IInv /\ [Next]_vars => IInv'
<1> SUFFICES ASSUME IInv, [Next]_vars PROVE IInv' OBVIOUS
<1> USE DEF IInv
<1>1. ASSUME NEW c \in {0, 1, BySignal}, ChildExits(c) PROVE IInv'
  BY <1>1, Constants DEF ChildExits, TypeOK, SettledIsOver, ResultIsTrue, OnTime, Waiting,
                         Grace, Overtime, Codes, Unset, Deadline
<1>2. CASE DescendantsExit
  BY <1>2 DEF DescendantsExit, TypeOK, SettledIsOver, ResultIsTrue, OnTime, Waiting, Grace,
              Overtime
<1>3. CASE OnError
  <2>1. proc = "unspawned" /\ code = SpawnErrno
    BY <1>3 DEF OnError, OnTime
  <2>2. SettledIsOver' /\ ResultIsTrue' /\ settled'
    BY <1>3, <2>1, FinishIsTrue DEF OnError, SpawnErrno
  <2>3. TypeOK'
    BY <1>3, FinishTyped DEF OnError, TypeOK
  <2>4. OnTime'
    BY <1>3, <2>2 DEF OnError, OnTime
  <2> QED BY <2>2, <2>3, <2>4
<1>4. CASE OnClose
  <2>1. proc # "running" /\ ExitCode \in {0, 1, SpawnErrno}
    BY <1>4 DEF OnClose, CloseIsDue, ExitCode, TypeOK, Codes
  <2>2. ExitCode = 0 <=> code = 0 /\ ~timedOut
    BY DEF ExitCode, BySignal
  <2>3. timedOut => ExitCode = 1
    BY DEF ExitCode
  <2>4. SettledIsOver' /\ ResultIsTrue' /\ settled'
    BY <1>4, <2>1, <2>2, <2>3, FinishIsTrue DEF OnClose
  <2>5. TypeOK'
    BY <1>4, <2>1, FinishTyped DEF OnClose, TypeOK
  <2>6. OnTime'
    BY <1>4, <2>4 DEF OnClose, OnTime
  <2> QED BY <2>4, <2>5, <2>6
<1>5. CASE OnTimeout
  <2>1. ~settled /\ Waiting /\ now = TimeoutMs
    BY <1>5, Constants DEF OnTimeout, SettledIsOver, OnTime, Waiting, Grace, Overtime, TypeOK
  <2>2. killTimer' = Deadline /\ now <= Deadline
    BY <1>5, <2>1, Constants DEF OnTimeout, Deadline
  <2>3. TypeOK'
    BY <1>5, <2>2, Constants DEF OnTimeout, TypeOK, Deadline
  <2>4. SettledIsOver' /\ ResultIsTrue'
    BY <1>5, <2>1 DEF OnTimeout, SettledIsOver, ResultIsTrue
  <2>5. OnTime'
    BY <1>5, <2>1, <2>2 DEF OnTimeout, OnTime, Waiting, Grace, Deadline
  <2> QED BY <2>3, <2>4, <2>5
<1>6. CASE OnKillTimer
  <2>1. ~settled /\ Grace /\ now = Deadline
    BY <1>6, Constants DEF OnKillTimer, SettledIsOver, OnTime, Waiting, Grace, Overtime, TypeOK
  <2>2. TypeOK' /\ SettledIsOver' /\ ResultIsTrue'
    BY <1>6, <2>1 DEF OnKillTimer, TypeOK, SettledIsOver, ResultIsTrue
  <2>3. OnTime'
    BY <1>6, <2>1, Constants DEF OnKillTimer, OnTime, Grace, Overtime, Deadline
  <2> QED BY <2>2, <2>3
<1>7. CASE Tick
  <2>1. TypeOK' /\ SettledIsOver' /\ ResultIsTrue'
    BY <1>7, Constants DEF Tick, TypeOK, SettledIsOver, ResultIsTrue
  <2>2. ASSUME ~settled PROVE (Waiting \/ Grace \/ Overtime)'
    BY <1>7, <2>2, Constants DEF Tick, WorkIsDue, TypeOK, OnTime, Waiting, Grace, Overtime,
                                 Deadline
  <2>3. OnTime'
    BY <1>7, <2>2 DEF Tick, WorkIsDue, OnTime
  <2> QED BY <2>1, <2>3
<1>8. CASE UNCHANGED vars
  BY <1>8 DEF vars, TypeOK, SettledIsOver, ResultIsTrue, OnTime, Waiting, Grace, Overtime
<1> QED BY <1>1, <1>2, <1>3, <1>4, <1>5, <1>6, <1>7, <1>8 DEF Next

\* Whatever the child does, all four parts hold.
THEOREM Inductive == Spec => []IInv
BY InitIInv, StepIInv, PTL DEF Spec

\* Every timer, flag and result of the runner keeps its type; in particular the
\* exit code a caller sees is a number although a signal leaves none.
THEOREM RunnerTyped == Spec => []TypeOK
BY Inductive, PTL DEF IInv

\* Success is reported exactly for a child that ended with 0 before the timeout.
THEOREM ResultAlwaysTrue == Spec => []ResultIsTrue
BY Inductive, PTL DEF IInv

\* After the timeout and the grace period a promise that has not settled waits
\* for a descendant that holds the pipes of the child, and for nothing else.
THEOREM OnlyPipesEverDelay == Spec => []OnlyPipesDelay
<1>1. IInv => OnlyPipesDelay
  <2> SUFFICES ASSUME IInv, now > Deadline, ~settled, ~held PROVE CloseIsDue
    BY DEF OnlyPipesDelay
  <2>1. now \in Nat /\ now # 0 /\ ~(now <= TimeoutMs) /\ ~(now <= Deadline)
    BY Constants DEF IInv, TypeOK
  <2>2. proc # "running" /\ ~errorPending /\ ~closed
    BY <2>1 DEF IInv, OnTime, Waiting, Grace, Overtime
  <2> QED BY <2>2 DEF CloseIsDue
<1> QED BY <1>1, Inductive, PTL

\* The first of 'error' and 'close' settles the promise, and nothing after it
\* changes the result.
THEOREM SettledOnce == Spec => SettlesOnce
<1>1. [Next]_vars => [settled => UNCHANGED <<settled, result>>]_vars
  BY DEF Next, vars, ChildExits, DescendantsExit, OnError, OnClose, OnTimeout, OnKillTimer,
         Tick, Finish
<1> QED BY <1>1, PTL DEF Spec, SettlesOnce
=============================================================================
