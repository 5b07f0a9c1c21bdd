------------------------------ MODULE WebClient ------------------------------
(***************************************************************************)
(* What the pages of the web application share (apps/web/src): the page    *)
(* that is mounted, its requests, and the access token they carry.         *)
(*                                                                         *)
(* A page sends requests and goes on; the API serves them in any order,    *)
(* and their answers come in any order.  One that is refused for an old    *)
(* token is sent again with a new one (performAuthorizedRequest), and the  *)
(* session that replaces the old one makes the page render again.          *)
(*                                                                         *)
(* React gathers the state changes of a handler and renders later, so a    *)
(* page has a step of its own that renders and runs the effects (dirty).   *)
(***************************************************************************)
EXTENDS Naturals, Sequences, SequencesExt

CONSTANTS
  MaxToken,     \* bound: tokens issued
  MaxFailures   \* bound: requests that fail
ASSUME ClientAssumption == MaxToken \in Nat /\ MaxFailures \in Nat

VARIABLES
  route,  \* the page that is mounted
  calls,  \* its requests, in the order they were made
  token,  \* the access token of the session the page renders with
  good,   \* the one the API accepts
  dirty,  \* a render is due
  failures

clientVars == <<route, calls, token, good, dirty, failures>>

Waiting == [st |-> "waiting"]
Ok(value) == [st |-> "ok", value |-> value]

\* fetch: late tells that the answer of a later request was taken before.
Call(op, arg) ==
  [op |-> op, arg |-> arg, token |-> token, res |-> Waiting, late |-> FALSE]

ClientTypeOK ==
  /\ token \in 0 .. MaxToken /\ good \in token .. MaxToken
  /\ dirty \in BOOLEAN /\ failures \in 0 .. MaxFailures
  /\ \A i \in DOMAIN calls :
       /\ calls[i].token \in 0 .. token /\ calls[i].late \in BOOLEAN
       /\ calls[i].res.st \in {"waiting", "read", "ok"}

ClientInit == calls = <<>> /\ token = 0 /\ good = 0 /\ dirty = TRUE
              /\ failures = 0

InFlight == { calls[i].op : i \in DOMAIN calls }

\* The requests without the i-th, whose answer was taken: those of its kind that
\* were made before it are late.
Without(i) ==
  RemoveAt([j \in DOMAIN calls |->
              IF j < i /\ calls[j].op = calls[i].op
              THEN [calls[j] EXCEPT !.late = TRUE] ELSE calls[j]], i)

Answered(i, res) == calls' = [calls EXCEPT ![i].res = res]

-----------------------------------------------------------------------------
(* The API and the connection to it.  A request may fail at any time: before   *)
(* the API has done its part, or after it, when the answer is lost.            *)

\* The i-th request is waiting, and its token is accepted.
Served(i, op) ==
  calls[i].op = op /\ calls[i].res.st = "waiting" /\ calls[i].token = good

\* Its answer is there.
Ready(i, op) ==
  calls[i].op = op /\ calls[i].res.st = "ok" /\ UNCHANGED failures

\* It is answered at once: what it reads is as it is then.
Read(i, op) == Served(i, op) /\ UNCHANGED failures

Fails(i, op) ==
  /\ calls[i].op = op
  /\ failures < MaxFailures /\ failures' = failures + 1

TokenExpires ==
  /\ good < MaxToken
  /\ good' = good + 1
  /\ UNCHANGED <<route, calls, token, dirty, failures>>

\* Mutant: the new session is used for the request, and not stored.
RetryUnstored(i) ==
  /\ calls[i].res.st = "waiting" /\ calls[i].token # good
  /\ dirty' = TRUE
  /\ calls' = [calls EXCEPT ![i].token = good]
  /\ UNCHANGED <<route, token, good, failures>>

\* 401, onAccessTokenExpired, and the request again; the page renders with the new
\* session.
Retry(i) ==
  /\ calls[i].res.st = "waiting" /\ calls[i].token # good
  /\ token' = good /\ dirty' = TRUE
  /\ calls' = [calls EXCEPT ![i].token = good]
  /\ UNCHANGED <<route, good, failures>>

Retries == \E i \in DOMAIN calls : Retry(i)
=============================================================================
