------------------------------ MODULE Session ------------------------------
(***************************************************************************)
(* Sign-in sessions, end to end: login, refresh and logout of              *)
(* apps/api/src/auth/service.ts, and the tabs of apps/web that hold a      *)
(* session in React state, copy it to localStorage, and refresh it when a  *)
(* guarded call is answered 401 (App.tsx, projects.ts).                    *)
(*                                                                         *)
(* A session is a pair of an access and a refresh token issued together,   *)
(* and known by the number it was issued under.  Access tokens expire;     *)
(* that a refresh token expires after 30 days is one of the faults.  Every *)
(* await of a call, in the browser and in the API, is a step.              *)
(***************************************************************************)
EXTENDS Naturals, FiniteSets

CONSTANTS
  Calls,      \* what the tabs do: each is one login, guarded call or logout
  Tabs,       \* browser tabs; all of one browser, so with one localStorage
  NoTab,      \* the tab of a call not made yet
  MaxFaults   \* bound on lost answers and failing queries

ASSUME CallsAssumption == IsFiniteSet(Calls)
ASSUME NoTabAssumption == NoTab \notin Tabs
ASSUME MaxFaultsAssumption == MaxFaults \in Nat

\* A call issues at most one session.  0 is no session.
Sessions == 0 .. Cardinality(Calls)

VARIABLES
  issued,     \* sessions issued so far
  live,       \* sessions whose refresh token row is not revoked
  expired,    \* sessions whose access token has expired
  login,      \* login[s]: the session the chain of refreshes to s began with
  loggedOut,  \* history: chains a logout has ended
  session,    \* session[t]: authSession of tab t
  storage,    \* the session in localStorage
  pc, tab,    \* where call c is, and in which tab
  held,       \* held[c]: the session c was started with
  got,        \* got[c]: the session c was answered with
  presented,  \* history: sessions sent to refresh or logout
  contended,  \* history: some session was sent twice
  faults

vars == <<issued, live, expired, login, loggedOut, session, storage, pc, tab,
          held, got, presented, contended, faults>>

rows    == <<issued, live, login, loggedOut>>
browser == <<session, storage>>
request == <<tab, held, got>>
history == <<presented, contended>>

Active == {"login", "sent", "find", "revoke", "create", "answered", "refused",
           "retry", "logoutFind", "logoutRevoke", "logoutEnd"}

TypeOK ==
  /\ issued \in Sessions
  /\ live \in SUBSET (1 .. issued)
  /\ expired \in SUBSET (1 .. issued)
  /\ login \in [Sessions -> 0 .. issued]
  /\ loggedOut \in SUBSET (1 .. issued)
  /\ session \in [Tabs -> 0 .. issued]
  /\ storage \in 0 .. issued
  /\ pc \in [Calls -> {"idle", "done"} \cup Active]
  /\ tab \in [Calls -> Tabs \cup {NoTab}]
  /\ held \in [Calls -> 0 .. issued]
  /\ got \in [Calls -> 0 .. issued]
  /\ presented \in SUBSET (1 .. issued)
  /\ contended \in BOOLEAN
  /\ faults \in 0 .. MaxFaults

Init ==
  /\ issued = 0 /\ live = {} /\ expired = {} /\ loggedOut = {}
  /\ login = [s \in Sessions |-> 0]
  /\ session = [t \in Tabs |-> 0]
  /\ storage = 0
  /\ pc = [c \in Calls |-> "idle"]
  /\ tab = [c \in Calls |-> NoTab]
  /\ held = [c \in Calls |-> 0]
  /\ got = [c \in Calls |-> 0]
  /\ presented = {} /\ contended = FALSE
  /\ faults = 0

-----------------------------------------------------------------------------
(* Helpers                                                                 *)

Goto(c, where) == pc' = [pc EXCEPT ![c] = where]

Fault == faults < MaxFaults /\ faults' = faults + 1

NoFault == UNCHANGED faults

\* Tab t calls with the session it holds.
Begin(c, t, where) ==
  /\ pc[c] = "idle"
  /\ tab' = [tab EXCEPT ![c] = t]
  /\ held' = [held EXCEPT ![c] = session[t]]
  /\ Goto(c, where)
  /\ UNCHANGED got

\* createAuthPayload: a new pair of tokens, and the row of the refresh token.
Issue(c, first) ==
  /\ issued' = issued + 1
  /\ live' = live \cup {issued'}
  /\ login' = [login EXCEPT ![issued'] = first]
  /\ got' = [got EXCEPT ![c] = issued']

\* setAuthSession, and the effect that copies the state to localStorage.
SetSession(t, s) ==
  /\ session' = [session EXCEPT ![t] = s]
  /\ storage' = s

\* c sends its refresh token to the API.
Present(c) ==
  /\ presented' = presented \cup {held[c]}
  /\ contended' = (contended \/ held[c] \in presented)

-----------------------------------------------------------------------------
(* login                                                                   *)

StartLogin(c, t) ==
  /\ session[t] = 0
  /\ Begin(c, t, "login")
  /\ UNCHANGED <<rows, expired, browser, history, faults>>

\* Wrong credentials change nothing, like a call that fails.
Login(c) ==
  /\ pc[c] = "login"
  /\ \/ /\ Issue(c, issued + 1)
        /\ Goto(c, "answered")
     \/ /\ Goto(c, "done")
        /\ UNCHANGED <<issued, live, login, got>>
  /\ UNCHANGED <<loggedOut, expired, browser, tab, held, history, faults>>

-----------------------------------------------------------------------------
(* A guarded call: performAuthorizedRequest                                *)

StartCall(c, t) ==
  /\ session[t] # 0
  /\ Begin(c, t, "sent")
  /\ UNCHANGED <<rows, expired, browser, history, faults>>

\* The guard accepts an access token until it expires, revoked or not.  After a
\* 401 handleAccessTokenExpired sends the refresh token it captured.
Answered(c) ==
  /\ pc[c] = "sent"
  /\ \/ /\ held[c] \notin expired
        /\ Goto(c, "done")
        /\ UNCHANGED history
     \/ /\ held[c] \in expired
        /\ Present(c)
        /\ Goto(c, "find")
  /\ UNCHANGED <<rows, expired, browser, request, faults>>

\* Mutant: only the session issued last can be refreshed.
FindLatest(c) ==
  /\ pc[c] = "find"
  /\ Goto(c, IF held[c] \in live /\ held[c] = issued THEN "revoke" ELSE "refused")
  /\ NoFault
  /\ UNCHANGED <<rows, expired, browser, request, history>>

\* refresh: the row must be there, not revoked and not expired, and its user be
\* there.
Find(c) ==
  /\ pc[c] = "find"
  /\ \/ held[c] \in live /\ Goto(c, "revoke") /\ NoFault
     \/ held[c] \notin live /\ Goto(c, "refused") /\ NoFault
     \/ Goto(c, "refused") /\ Fault
  /\ UNCHANGED <<rows, expired, browser, request, history>>

\* Mutant: the old refresh token is left as it is.
RevokeSkipped(c) ==
  /\ pc[c] = "revoke"
  /\ Goto(c, "create")
  /\ NoFault
  /\ UNCHANGED <<rows, expired, browser, request, history>>

\* refresh: the row found is revoked, whatever happened to it meanwhile.
Revoke(c) ==
  /\ pc[c] = "revoke"
  /\ \/ /\ live' = live \ {held[c]}
        /\ Goto(c, "create")
        /\ NoFault
     \/ /\ live' \in {live, live \ {held[c]}}
        /\ Goto(c, "refused")
        /\ Fault
  /\ UNCHANGED <<issued, login, loggedOut, expired, browser, request, history>>

\* Mutant: the row of the new refresh token is written best effort.
CreateBestEffort(c) ==
  /\ pc[c] = "create"
  /\ issued' = issued + 1
  /\ live' \in {live, live \cup {issued'}}
  /\ login' = [login EXCEPT ![issued'] = login[held[c]]]
  /\ got' = [got EXCEPT ![c] = issued']
  /\ Goto(c, "answered")
  /\ NoFault
  /\ UNCHANGED <<loggedOut, expired, browser, tab, held, history>>

\* refresh: the new row; the answer may be lost.
Create(c) ==
  /\ pc[c] = "create"
  /\ \/ /\ Issue(c, login[held[c]])
        /\ Goto(c, "answered")
        /\ NoFault
     \/ /\ Issue(c, login[held[c]]) \/ UNCHANGED <<issued, live, login, got>>
        /\ Goto(c, "refused")
        /\ Fault
  /\ UNCHANGED <<loggedOut, expired, browser, tab, held, history>>

\* A refresh or login has succeeded: the tab takes the session, whatever it
\* holds by now.
Accept(c) ==
  /\ pc[c] = "answered"
  /\ SetSession(tab[c], got[c])
  /\ Goto(c, "retry")
  /\ UNCHANGED <<rows, expired, request, history, faults>>

\* A refresh has failed: the tab drops its session, whatever it holds by now.
Refuse(c) ==
  /\ pc[c] = "refused"
  /\ SetSession(tab[c], 0)
  /\ Goto(c, "done")
  /\ UNCHANGED <<rows, expired, request, history, faults>>

\* The guarded call is sent again, once; after a login there is none.
Retry(c) ==
  /\ pc[c] = "retry"
  /\ Goto(c, "done")
  /\ UNCHANGED <<rows, expired, browser, request, history, faults>>

-----------------------------------------------------------------------------
(* logout                                                                  *)

\* Mutant: logout does not look whether the tab has a session.
StartLogoutAlways(c, t) ==
  /\ Begin(c, t, "logoutFind")
  /\ presented' = presented \cup {session[t]}
  /\ contended' = (contended \/ session[t] \in presented)
  /\ UNCHANGED <<rows, expired, browser, faults>>

StartLogout(c, t) ==
  /\ session[t] # 0
  /\ Begin(c, t, "logoutFind")
  /\ presented' = presented \cup {session[t]}
  /\ contended' = (contended \/ session[t] \in presented)
  /\ UNCHANGED <<rows, expired, browser, faults>>

LogoutFind(c) ==
  /\ pc[c] = "logoutFind"
  /\ \/ held[c] \in live /\ Goto(c, "logoutRevoke") /\ NoFault
     \/ held[c] \notin live /\ Goto(c, "logoutEnd") /\ NoFault
     \/ Goto(c, "logoutEnd") /\ Fault
  /\ UNCHANGED <<rows, expired, browser, request, history>>

LogoutRevoke(c) ==
  /\ pc[c] = "logoutRevoke"
  /\ \/ /\ live' = live \ {held[c]}
        /\ loggedOut' = loggedOut \cup {login[held[c]]}
        /\ NoFault
     \/ Fault /\ UNCHANGED <<live, loggedOut>>
  /\ Goto(c, "logoutEnd")
  /\ UNCHANGED <<issued, login, expired, browser, request, history>>

\* finally: the tab drops its session whatever the API answered.
LogoutEnd(c) ==
  /\ pc[c] = "logoutEnd"
  /\ SetSession(tab[c], 0)
  /\ Goto(c, "done")
  /\ UNCHANGED <<rows, expired, request, history, faults>>

-----------------------------------------------------------------------------
(* Time and the browser                                                    *)

\* 15 minutes pass.  It makes no difference to a session nobody can use any more.
Expire(s) ==
  /\ \/ s \in {storage} \cup {session[t] : t \in Tabs}
     \/ \E c \in Calls : pc[c] = "sent" /\ held[c] = s
  /\ expired' = expired \cup {s}
  /\ UNCHANGED <<rows, browser, pc, request, history, faults>>

\* A tab is opened, or reloaded: it takes what localStorage holds.
Load(t) ==
  /\ \A c \in Calls : tab[c] = t => pc[c] \notin Active
  /\ session' = [session EXCEPT ![t] = storage]
  /\ UNCHANGED <<rows, expired, storage, pc, request, history, faults>>

\* The tab selects another project for its metrics: the effect that copies the
\* state to localStorage runs again.
SelectProject(t) ==
  /\ storage' = session[t]
  /\ UNCHANGED <<rows, expired, session, pc, request, history, faults>>

Step(c) ==
  \/ Login(c)
  \/ Answered(c)
  \/ Find(c) \/ Revoke(c) \/ Create(c)
  \/ Accept(c) \/ Refuse(c) \/ Retry(c)
  \/ LogoutFind(c) \/ LogoutRevoke(c) \/ LogoutEnd(c)

Next ==
  \/ \E c \in Calls, t \in Tabs :
       StartLogin(c, t) \/ StartCall(c, t) \/ StartLogout(c, t)
  \/ \E c \in Calls : Step(c)
  \/ \E s \in 1 .. issued : Expire(s)
  \/ \E t \in Tabs : Load(t) \/ SelectProject(t)

Spec == Init /\ [][Next]_vars

-----------------------------------------------------------------------------
(* Properties                                                              *)

\* A session nobody has sent to refresh or logout can be refreshed, and so can
\* the one of localStorage: whatever overlaps and whatever gets lost, no tab is
\* left with a session that was revoked under another number.
UnsentIsLive ==
  \A s \in {session[t] : t \in Tabs} \cup {storage} :
    s # 0 /\ s \notin presented => s \in live

\* As long as no session is sent twice, one login has one refresh token at a
\* time that can be used, and none after the logout.
OneLivePerLogin ==
  ~contended =>
    \A s \in live :
      /\ login[s] \notin loggedOut
      /\ \A u \in live : login[u] = login[s] => u = s

\* As long as no session is sent twice and no answer gets lost, no refresh fails
\* and nobody has to log in again.
NoneRefused ==
  ~contended /\ faults = 0 => \A c \in Calls : pc[c] # "refused"

\* docs/STATUS.md: a refresh token rotates and the old token becomes invalid.  So
\* no session is exchanged for two.
Exchanged(s) ==
  {c \in Calls : held[c] = s /\ got[c] # 0}

RotatesOnce == \A s \in 1 .. issued : Cardinality(Exchanged(s)) <= 1
=============================================================================
