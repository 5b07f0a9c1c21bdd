--------------------------- MODULE Session_proofs ---------------------------
(***************************************************************************)
(* Proofs about Session, for any number of calls, tabs and faults: a       *)
(* session that was never sent to refresh or logout can be refreshed; and  *)
(* as long as no session is sent twice, one login has one refresh token    *)
(* that can be used, and no refresh is refused.                            *)
(***************************************************************************)
EXTENDS Session, FiniteSetTheorems, TLAPS

-----------------------------------------------------------------------------
(* The inductive invariant.                                                *)

\* The types, with the numbers of sessions bounded by what has been issued.
Types ==
  /\ issued \in Nat /\ 0 .. issued \subseteq Sessions
  /\ live \subseteq 1 .. issued /\ expired \subseteq 1 .. issued
  /\ loggedOut \subseteq 1 .. issued /\ presented \subseteq 1 .. issued
  /\ login \in [Sessions -> 0 .. issued]
  /\ session \in [Tabs -> 0 .. issued] /\ storage \in 0 .. issued
  /\ pc \in [Calls -> {"idle", "done"} \cup Active]
  /\ tab \in [Calls -> Tabs \cup {NoTab}]
  /\ held \in [Calls -> 0 .. issued] /\ got \in [Calls -> 0 .. issued]
  /\ faults \in 0 .. MaxFaults
Flags == contended \in BOOLEAN

\* Every session was issued to a call of its own, and belongs to a login.
Issuers == {c \in Calls : got[c] # 0}
IssuedOnce ==
  /\ issued <= Cardinality(Issuers)
  /\ \A c \in Calls : got[c] # 0 => pc[c] \in {"answered", "retry", "refused", "done"}
  /\ \A s \in 1 .. issued : login[s] # 0

\* The steps of a call that has sent its session to refresh or logout, and those
\* of them before it revokes it.
Asking  == {"find", "revoke", "logoutFind", "logoutRevoke"}
Sending == Asking \cup {"create", "logoutEnd"}

\* Without contention, what one call has sent no other sends.
SentIsPresented ==
  /\ \A c \in Calls : pc[c] \in Sending => held[c] \in presented
  /\ ~contended => \A c, d \in Calls :
       pc[c] \in Sending /\ pc[d] \in Sending /\ held[c] = held[d] => c = d

\* A session that can be refreshed, or whose row whoever revoked it had to send.
Accounted(s) == s = 0 \/ s \in live \/ s \in presented

\* What an answer brings, and what the browser holds, is accounted for.
AllAccounted ==
  /\ \A c \in Calls : pc[c] = "sent" => Accounted(held[c])
  /\ \A c \in Calls : pc[c] = "answered" => Accounted(got[c])
  /\ \A t \in Tabs : Accounted(session[t])
  /\ Accounted(storage)

\* Without contention a session stays live until the call that sent it revokes it.
AskedIsLive ==
  ~contended => \A c \in Calls : pc[c] \in Asking => held[c] \in live

\* Without contention a login has one token at a time: a live session, or a call
\* that has revoked its own and is about to create the next.
OneToken ==
  ~contended =>
    \A c \in Calls : pc[c] = "create" =>
      /\ login[held[c]] \notin loggedOut
      /\ \A s \in live : login[s] # login[held[c]]
      /\ \A d \in Calls : pc[d] = "create" /\ login[held[d]] = login[held[c]] => c = d

IInv ==
  /\ Types /\ Flags /\ IssuedOnce
  /\ SentIsPresented /\ AllAccounted /\ AskedIsLive
  /\ OneToken /\ OneLivePerLogin /\ NoneRefused

-----------------------------------------------------------------------------
(* Facts about the numbers of sessions, and the initial states.            *)

\* A call that has been issued no session leaves room for one more.
LEMMA RoomForOne ==
  ASSUME Types, IssuedOnce, NEW c \in Calls, got[c] = 0
  PROVE  0 .. issued + 1 \subseteq Sessions /\ issued + 1 <= Cardinality(Issuers \cup {c})
<1>1. IsFiniteSet(Issuers) /\ IsFiniteSet(Issuers \cup {c}) /\ Issuers \cup {c} \subseteq Calls
  BY CallsAssumption, FS_Subset DEF Issuers
<1>2. c \notin Issuers
  BY DEF Issuers
<1>3. Cardinality(Issuers \cup {c}) = Cardinality(Issuers) + 1
  BY <1>1, <1>2, FS_AddElement
<1>4. /\ Cardinality(Issuers) \in Nat /\ Cardinality(Calls) \in Nat
      /\ Cardinality(Issuers \cup {c}) <= Cardinality(Calls)
  BY <1>1, CallsAssumption, FS_Subset, FS_CardinalityType
<1> QED BY <1>3, <1>4 DEF Types, IssuedOnce, Sessions

\* Nobody holds a session before the first login.
LEMMA InitIInv == Init => IInv
<1> SUFFICES ASSUME Init PROVE IInv OBVIOUS
<1>1. Cardinality(Calls) \in Nat
  BY CallsAssumption, FS_CardinalityType
<1>2. Issuers = {} /\ Cardinality(Issuers) = 0
  BY FS_EmptySet DEF Init, Issuers
<1>3. 0 \in Sessions /\ 0 .. 0 = {0} /\ 1 .. 0 = {}
  BY <1>1 DEF Sessions
<1>6. /\ login \in [Sessions -> 0 .. 0] /\ session \in [Tabs -> 0 .. 0]
      /\ held \in [Calls -> 0 .. 0] /\ got \in [Calls -> 0 .. 0]
  BY <1>3 DEF Init
<1>8. Types
  BY <1>3, <1>6, MaxFaultsAssumption DEF Init, Types, Active
<1>9. Flags
  BY DEF Init, Flags
<1>7. IssuedOnce
  BY <1>2, <1>3 DEF Init, IssuedOnce
<1>4. SentIsPresented /\ AllAccounted /\ AskedIsLive
  BY DEF Init, SentIsPresented, AllAccounted, AskedIsLive, Accounted, Asking, Sending
<1>5. OneToken /\ OneLivePerLogin /\ NoneRefused
  BY DEF Init, OneToken, OneLivePerLogin, NoneRefused
<1> QED BY <1>4, <1>5, <1>7, <1>8, <1>9 DEF IInv

\* One more session, issued to c and belonging to the login with the number first.
LEMMA TypesGrow ==
  ASSUME Types, NEW c \in Calls, NEW first \in 0 .. issued + 1,
         0 .. issued + 1 \subseteq Sessions, Issue(c, first),
         UNCHANGED <<loggedOut, expired, session, storage, tab, held, presented>>,
         pc' \in [Calls -> {"idle", "done"} \cup Active], faults' \in 0 .. MaxFaults
  PROVE  Types'
<1>1. /\ issued' = issued + 1 /\ issued' \in Nat
      /\ 0 .. issued \subseteq 0 .. issued' /\ 1 .. issued \subseteq 1 .. issued'
      /\ issued' \in 1 .. issued' /\ first \in 0 .. issued' /\ issued' \in Sessions
  BY DEF Issue, Types
<1>2. live' \subseteq 1 .. issued'
  BY <1>1 DEF Issue, Types
<1>3. login' \in [Sessions -> 0 .. issued']
  BY <1>1 DEF Issue, Types
<1>4. got' \in [Calls -> 0 .. issued']
  BY <1>1 DEF Issue, Types
<1>5. /\ expired' \subseteq 1 .. issued' /\ loggedOut' \subseteq 1 .. issued'
      /\ presented' \subseteq 1 .. issued' /\ storage' \in 0 .. issued'
  BY <1>1 DEF Types
<1>6. session' \in [Tabs -> 0 .. issued'] /\ held' \in [Calls -> 0 .. issued']
  BY <1>1 DEF Types
<1> QED BY <1>1, <1>2, <1>3, <1>4, <1>5, <1>6 DEF Types

\* What is known of the session issued last.
LEMMA NewSession ==
  ASSUME Types, IssuedOnce, NEW c \in Calls, got[c] = 0, NEW first, Issue(c, first)
  PROVE  /\ issued' = issued + 1 /\ live' = live \cup {issued'} /\ login'[issued'] = first
         /\ \A s \in 0 .. issued : login'[s] = login[s]
<1>1. issued + 1 \in 0 .. issued + 1
  BY DEF Types
<1>2. issued + 1 \in Sessions
  BY <1>1, RoomForOne
<1> QED BY <1>2 DEF Types, Issue

\* A row leaves live only when its session is presented, and presented only
\* grows: what is accounted for stays so.
LEMMA StaysAccounted ==
  ASSUME NEW c \in Calls, held[c] \in presented, presented \subseteq presented',
         live \ {held[c]} \subseteq live', NEW s, Accounted(s)
  PROVE  Accounted(s)'
BY DEF Accounted

-----------------------------------------------------------------------------
(* One lemma per part: it holds after each action.                         *)

\* No call issues more than one session, so their numbers stay in bounds.
LEMMA StepTypes == IInv /\ [Next]_vars => Types'
<1> SUFFICES ASSUME IInv, [Next]_vars PROVE Types' OBVIOUS
<1> USE MaxFaultsAssumption DEF IInv, Types, Active
<1>1. ASSUME NEW c \in Calls, NEW t \in Tabs,
             StartLogin(c, t) \/ StartCall(c, t) \/ StartLogout(c, t)
      PROVE  Types'
  <2>1. CASE StartLogin(c, t)
    BY <2>1 DEF StartLogin, Begin, Goto, rows, browser, history
  <2>2. CASE StartCall(c, t)
    BY <2>2 DEF StartCall, Begin, Goto, rows, browser, history
  <2>3. CASE StartLogout(c, t)
    <3>1. session[t] \in 1 .. issued /\ presented' = presented \cup {session[t]}
      BY <2>3 DEF StartLogout
    <3> QED BY <2>3, <3>1 DEF StartLogout, Begin, Goto, rows, browser
  <2> QED BY <1>1, <2>1, <2>2, <2>3
<1>2. ASSUME NEW c \in Calls, Step(c) PROVE Types'
  <2>1. CASE Login(c)
    <3>1. got[c] = 0
      BY <2>1 DEF Login, IssuedOnce
    <3>2. 0 .. issued + 1 \subseteq Sessions
      BY <3>1, RoomForOne
    <3>3. CASE UNCHANGED <<issued, live, login, got>>
      BY <2>1, <3>3 DEF Login, Goto, browser, history
    <3>4. CASE Issue(c, issued + 1) /\ Goto(c, "answered")
      BY <2>1, <3>2, <3>4, TypesGrow DEF Login, Issue, Goto, browser, history
    <3> QED BY <2>1, <3>3, <3>4 DEF Login
  <2>2. CASE Answered(c)
    BY <2>2 DEF Answered, Present, Goto, rows, browser, request, history
  <2>3. CASE Find(c) BY <2>3 DEF Find, Goto, Fault, NoFault, rows, browser, request, history
  <2>4. CASE Revoke(c)
    <3>1. /\ live' \subseteq live /\ faults' \in 0 .. MaxFaults
          /\ UNCHANGED <<issued, login, loggedOut, expired, browser, request, history>>
          /\ pc' \in [Calls -> {"idle", "done"} \cup Active]
      BY <2>4 DEF Revoke, Goto, Fault, NoFault
    <3> QED BY <3>1 DEF browser, request, history
  <2>5. CASE Create(c)
    <3>1. got[c] = 0
      BY <2>5 DEF Create, IssuedOnce
    <3>2. 0 .. issued + 1 \subseteq Sessions
      BY <3>1, RoomForOne
    <3>3. login[held[c]] \in 0 .. issued + 1
      OBVIOUS
    <3>4. faults' \in 0 .. MaxFaults /\ pc' \in [Calls -> {"idle", "done"} \cup Active]
      BY <2>5 DEF Create, Goto, Fault, NoFault
    <3>5. CASE UNCHANGED <<issued, live, login, got>>
      BY <2>5, <3>4, <3>5 DEF Create, browser, history
    <3>6. CASE Issue(c, login[held[c]])
      BY <2>5, <3>2, <3>3, <3>4, <3>6, TypesGrow DEF Create, Issue, browser, history
    <3> QED BY <2>5, <3>5, <3>6 DEF Create
  <2>6. CASE Accept(c) BY <2>6 DEF Accept, SetSession, Goto, rows, request, history
  <2>7. CASE Refuse(c)
    <3>1. 0 \in 0 .. issued
      OBVIOUS
    <3> QED BY <2>7, <3>1 DEF Refuse, SetSession, Goto, rows, request, history
  <2>8. CASE Retry(c) BY <2>8 DEF Retry, Goto, rows, browser, request, history
  <2>9. CASE LogoutFind(c)
    BY <2>9 DEF LogoutFind, Goto, Fault, NoFault, rows, browser, request, history
  <2>10. CASE LogoutRevoke(c)
    <3>1. login[held[c]] \in 1 .. issued
      BY <2>10 DEF LogoutRevoke, SentIsPresented, IssuedOnce, Asking, Sending
    <3>2. /\ live' \subseteq live /\ loggedOut' \subseteq loggedOut \cup {login[held[c]]}
          /\ faults' \in 0 .. MaxFaults
          /\ UNCHANGED <<issued, login, expired, browser, request, history>>
          /\ pc' \in [Calls -> {"idle", "done"} \cup Active]
      BY <2>10 DEF LogoutRevoke, Goto, Fault, NoFault
    <3> QED BY <3>1, <3>2 DEF browser, request, history
  <2>11. CASE LogoutEnd(c)
    <3>1. 0 \in 0 .. issued
      OBVIOUS
    <3> QED BY <2>11, <3>1 DEF LogoutEnd, SetSession, Goto, rows, request, history
  <2> QED BY <1>2, <2>1, <2>2, <2>3, <2>4, <2>5, <2>6, <2>7, <2>8, <2>9, <2>10, <2>11
          DEF Step
<1>3. ASSUME NEW s \in 1 .. issued, Expire(s) PROVE Types'
  BY <1>3 DEF Expire, rows, browser, request, history
<1>4. ASSUME NEW t \in Tabs, Load(t) \/ SelectProject(t) PROVE Types'
  BY <1>4 DEF Load, SelectProject, rows, request, history
<1>5. CASE UNCHANGED vars
  BY <1>5 DEF vars
<1> QED BY <1>1, <1>2, <1>3, <1>4, <1>5 DEF Next

\* The history variable is a truth value.
LEMMA StepFlags == Flags /\ [Next]_vars => Flags'
BY DEF Flags, Next, vars, Step, StartLogin, StartCall, StartLogout, Login, Answered, Find,
       Revoke, Create, Accept, Refuse, Retry, LogoutFind, LogoutRevoke, LogoutEnd, Expire,
       Load, SelectProject, Present, history

\* A call is issued its session by its last step at the API.
LEMMA StepIssued == IInv /\ [Next]_vars => IssuedOnce'
<1> SUFFICES ASSUME IInv, [Next]_vars PROVE IssuedOnce' OBVIOUS
<1> USE DEF IInv, Types, IssuedOnce, Issuers, Active
<1>1. ASSUME NEW c \in Calls, NEW t \in Tabs,
             StartLogin(c, t) \/ StartCall(c, t) \/ StartLogout(c, t)
      PROVE  IssuedOnce'
  <2>1. CASE StartLogin(c, t)
    BY <2>1 DEF StartLogin, Begin, Goto, rows, browser, history
  <2>2. CASE StartCall(c, t)
    BY <2>2 DEF StartCall, Begin, Goto, rows, browser, history
  <2>3. CASE StartLogout(c, t)
    BY <2>3 DEF StartLogout, Begin, Goto, rows, browser
  <2> QED BY <1>1, <2>1, <2>2, <2>3
<1>2. ASSUME NEW c \in Calls, Step(c) PROVE IssuedOnce'
  <2>1. CASE Login(c)
    <3>1. got[c] = 0
      BY <2>1 DEF Login
    <3>2. 0 .. issued + 1 \subseteq Sessions /\ issued + 1 <= Cardinality(Issuers \cup {c})
      BY <3>1, RoomForOne
    <3>3. CASE got' = got
      BY <2>1, <3>3 DEF Login, Issue, Goto
    <3>4. CASE Issue(c, issued + 1) /\ Goto(c, "answered")
      <4>1. Issuers' = Issuers \cup {c}
        BY <3>4 DEF Issue
      <4> HIDE DEF Issuers
      <4> QED BY <3>2, <3>4, <4>1 DEF Issue, Goto
    <3> QED BY <2>1, <3>3, <3>4 DEF Login
  <2>2. CASE Answered(c)
    BY <2>2 DEF Answered, Present, Goto, rows, browser, request, history
  <2>3. CASE Find(c) BY <2>3 DEF Find, Goto, Fault, NoFault, rows, browser, request, history
  <2>4. CASE Revoke(c) BY <2>4 DEF Revoke, Goto, Fault, NoFault, browser, request, history
  <2>5. CASE Create(c)
    <3>1. got[c] = 0
      BY <2>5 DEF Create
    <3>2. 0 .. issued + 1 \subseteq Sessions /\ issued + 1 <= Cardinality(Issuers \cup {c})
      BY <3>1, RoomForOne
    <3>3. login[held[c]] \in 1 .. issued
      BY <2>5 DEF Create, SentIsPresented, Sending
    <3>4. CASE UNCHANGED <<issued, live, login, got>>
      BY <2>5, <3>4 DEF Create, Goto
    <3>5. CASE Issue(c, login[held[c]])
      <4>1. Issuers' = Issuers \cup {c}
        BY <3>5 DEF Issue
      <4>2. pc' = [pc EXCEPT ![c] = pc'[c]] /\ pc'[c] \in {"answered", "refused"}
        BY <2>5 DEF Create, Goto
      <4> HIDE DEF Issuers
      <4> QED BY <3>2, <3>3, <3>5, <4>1, <4>2 DEF Issue
    <3> QED BY <2>5, <3>4, <3>5 DEF Create
  <2>6. CASE Accept(c) BY <2>6 DEF Accept, SetSession, Goto, rows, request, history
  <2>7. CASE Refuse(c) BY <2>7 DEF Refuse, SetSession, Goto, rows, request, history
  <2>8. CASE Retry(c) BY <2>8 DEF Retry, Goto, rows, browser, request, history
  <2>9. CASE LogoutFind(c)
    BY <2>9 DEF LogoutFind, Goto, Fault, NoFault, rows, browser, request, history
  <2>10. CASE LogoutRevoke(c)
    BY <2>10 DEF LogoutRevoke, Goto, Fault, NoFault, browser, request, history
  <2>11. CASE LogoutEnd(c) BY <2>11 DEF LogoutEnd, SetSession, Goto, rows, request, history
  <2> QED BY <1>2, <2>1, <2>2, <2>3, <2>4, <2>5, <2>6, <2>7, <2>8, <2>9, <2>10, <2>11
          DEF Step
<1>3. ASSUME NEW s \in 1 .. issued, Expire(s) PROVE IssuedOnce'
  BY <1>3 DEF Expire, rows, browser, request, history
<1>4. ASSUME NEW t \in Tabs, Load(t) \/ SelectProject(t) PROVE IssuedOnce'
  BY <1>4 DEF Load, SelectProject, rows, request, history
<1>5. CASE UNCHANGED vars
  BY <1>5 DEF vars
<1> QED BY <1>1, <1>2, <1>3, <1>4, <1>5 DEF Next

\* A call that is at the API with its session has presented it.
LEMMA StepPresented == IInv /\ [Next]_vars => SentIsPresented'
<1> SUFFICES ASSUME IInv, [Next]_vars PROVE SentIsPresented' OBVIOUS
<1> USE DEF IInv, Types, SentIsPresented, Asking, Sending, Active
<1>1. ASSUME NEW c \in Calls, NEW t \in Tabs,
             StartLogin(c, t) \/ StartCall(c, t) \/ StartLogout(c, t)
      PROVE  SentIsPresented'
  <2>1. CASE StartLogin(c, t)
    BY <2>1 DEF StartLogin, Begin, Goto, rows, browser, history
  <2>2. CASE StartCall(c, t)
    BY <2>2 DEF StartCall, Begin, Goto, rows, browser, history
  <2>3. CASE StartLogout(c, t)
    BY <2>3 DEF StartLogout, Begin, Goto, rows, browser
  <2> QED BY <1>1, <2>1, <2>2, <2>3
<1>2. ASSUME NEW c \in Calls, Step(c) PROVE SentIsPresented'
  <2>1. CASE Login(c) BY <2>1 DEF Login, Issue, Goto, browser, history
  <2>2. CASE Answered(c)
    <3>1. held' = held /\ pc' = [pc EXCEPT ![c] = pc'[c]]
      BY <2>2 DEF Answered, Goto, request
    <3>2. CASE UNCHANGED history /\ pc'[c] \notin Sending
      BY <3>1, <3>2 DEF history
    <3>3. CASE Present(c)
      <4>1. /\ presented' = presented \cup {held[c]}
            /\ ~contended' => ~contended /\ held[c] \notin presented
        BY <3>3 DEF Present
      <4> QED
        BY <3>1, <4>1
    <3> QED
      BY <2>2, <3>2, <3>3 DEF Answered, Goto
  <2>3. CASE Find(c) BY <2>3 DEF Find, Goto, Fault, NoFault, rows, browser, request, history
  <2>4. CASE Revoke(c) BY <2>4 DEF Revoke, Goto, Fault, NoFault, browser, request, history
  <2>5. CASE Create(c) BY <2>5 DEF Create, Issue, Goto, Fault, NoFault, browser, history
  <2>6. CASE Accept(c) BY <2>6 DEF Accept, SetSession, Goto, rows, request, history
  <2>7. CASE Refuse(c) BY <2>7 DEF Refuse, SetSession, Goto, rows, request, history
  <2>8. CASE Retry(c) BY <2>8 DEF Retry, Goto, rows, browser, request, history
  <2>9. CASE LogoutFind(c)
    BY <2>9 DEF LogoutFind, Goto, Fault, NoFault, rows, browser, request, history
  <2>10. CASE LogoutRevoke(c)
    BY <2>10 DEF LogoutRevoke, Goto, Fault, NoFault, browser, request, history
  <2>11. CASE LogoutEnd(c) BY <2>11 DEF LogoutEnd, SetSession, Goto, rows, request, history
  <2> QED BY <1>2, <2>1, <2>2, <2>3, <2>4, <2>5, <2>6, <2>7, <2>8, <2>9, <2>10, <2>11
          DEF Step
<1>3. ASSUME NEW s \in 1 .. issued, Expire(s) PROVE SentIsPresented'
  BY <1>3 DEF Expire, rows, browser, request, history
<1>4. ASSUME NEW t \in Tabs, Load(t) \/ SelectProject(t) PROVE SentIsPresented'
  BY <1>4 DEF Load, SelectProject, rows, request, history
<1>5. CASE UNCHANGED vars
  BY <1>5 DEF vars
<1> QED BY <1>1, <1>2, <1>3, <1>4, <1>5 DEF Next

\* What comes into the browser was issued just now, or was in the browser before.
LEMMA StepAccounted == IInv /\ [Next]_vars => AllAccounted'
<1> SUFFICES ASSUME IInv, [Next]_vars PROVE AllAccounted' OBVIOUS
<1> USE DEF IInv, Types, SentIsPresented, AllAccounted, Accounted, Asking, Sending, Active
<1>1. ASSUME NEW c \in Calls, NEW t \in Tabs,
             StartLogin(c, t) \/ StartCall(c, t) \/ StartLogout(c, t)
      PROVE  AllAccounted'
  <2>1. CASE StartLogin(c, t)
    BY <2>1 DEF StartLogin, Begin, Goto, rows, browser, history
  <2>2. CASE StartCall(c, t)
    BY <2>2 DEF StartCall, Begin, Goto, rows, browser, history
  <2>3. CASE StartLogout(c, t)
    BY <2>3 DEF StartLogout, Begin, Goto, rows, browser
  <2> QED BY <1>1, <2>1, <2>2, <2>3
<1>2. ASSUME NEW c \in Calls, Step(c) PROVE AllAccounted'
  <2>1. CASE Login(c) BY <2>1 DEF Login, Issue, Goto, browser, history
  <2>2. CASE Answered(c)
    BY <2>2 DEF Answered, Present, Goto, rows, browser, request, history
  <2>3. CASE Find(c) BY <2>3 DEF Find, Goto, Fault, NoFault, rows, browser, request, history
  <2>4. CASE Revoke(c)
    <3>1. held[c] \in presented
      BY <2>4 DEF Revoke
    <3>2. \A s : Accounted(s) => Accounted(s)'
      BY <2>4, <3>1, StaysAccounted DEF Revoke, history
    <3> QED BY <2>4, <3>2 DEF Revoke, Goto, request, browser
  <2>5. CASE Create(c) BY <2>5 DEF Create, Issue, Goto, Fault, NoFault, browser, history
  <2>6. CASE Accept(c) BY <2>6 DEF Accept, SetSession, Goto, rows, request, history
  <2>7. CASE Refuse(c) BY <2>7 DEF Refuse, SetSession, Goto, rows, request, history
  <2>8. CASE Retry(c) BY <2>8 DEF Retry, Goto, rows, browser, request, history
  <2>9. CASE LogoutFind(c)
    BY <2>9 DEF LogoutFind, Goto, Fault, NoFault, rows, browser, request, history
  <2>10. CASE LogoutRevoke(c)
    <3>1. held[c] \in presented
      BY <2>10 DEF LogoutRevoke
    <3>2. \A s : Accounted(s) => Accounted(s)'
      BY <2>10, <3>1, StaysAccounted DEF LogoutRevoke, history
    <3> QED BY <2>10, <3>2 DEF LogoutRevoke, Goto, request, browser
  <2>11. CASE LogoutEnd(c) BY <2>11 DEF LogoutEnd, SetSession, Goto, rows, request, history
  <2> QED BY <1>2, <2>1, <2>2, <2>3, <2>4, <2>5, <2>6, <2>7, <2>8, <2>9, <2>10, <2>11
          DEF Step
<1>3. ASSUME NEW s \in 1 .. issued, Expire(s) PROVE AllAccounted'
  BY <1>3 DEF Expire, rows, browser, request, history
<1>4. ASSUME NEW t \in Tabs, Load(t) \/ SelectProject(t) PROVE AllAccounted'
  BY <1>4 DEF Load, SelectProject, rows, request, history
<1>5. CASE UNCHANGED vars
  BY <1>5 DEF vars
<1> QED BY <1>1, <1>2, <1>3, <1>4, <1>5 DEF Next

\* A call presents a session that is live, and the others send other sessions.
LEMMA StepAsked == IInv /\ [Next]_vars => AskedIsLive'
<1> SUFFICES ASSUME IInv, [Next]_vars PROVE AskedIsLive' OBVIOUS
<1> USE DEF IInv, Types, SentIsPresented, AllAccounted, Accounted, AskedIsLive, Asking,
             Sending, Active
<1>1. ASSUME NEW c \in Calls, NEW t \in Tabs,
             StartLogin(c, t) \/ StartCall(c, t) \/ StartLogout(c, t)
      PROVE  AskedIsLive'
  <2>1. CASE StartLogin(c, t)
    BY <2>1 DEF StartLogin, Begin, Goto, rows, browser, history
  <2>2. CASE StartCall(c, t)
    BY <2>2 DEF StartCall, Begin, Goto, rows, browser, history
  <2>3. CASE StartLogout(c, t)
    BY <2>3 DEF StartLogout, Begin, Goto, rows, browser
  <2> QED BY <1>1, <2>1, <2>2, <2>3
<1>2. ASSUME NEW c \in Calls, Step(c) PROVE AskedIsLive'
  <2>1. CASE Login(c) BY <2>1 DEF Login, Issue, Goto, browser, history
  <2>2. CASE Answered(c)
    <3>1. CASE Goto(c, "done") /\ UNCHANGED history
      BY <2>2, <3>1 DEF Answered, Goto, rows, request, history
    <3>2. CASE Present(c) /\ held[c] \in expired /\ Goto(c, "find")
      <4>1. ~contended' => ~contended /\ held[c] \notin presented
        BY <3>2 DEF Present
      <4>2. pc[c] = "sent" /\ held[c] # 0 /\ UNCHANGED <<live, held>>
        BY <2>2, <3>2 DEF Answered, rows, request
      <4> QED BY <3>2, <4>1, <4>2 DEF Goto
    <3> QED BY <2>2, <3>1, <3>2 DEF Answered
  <2>3. CASE Find(c) BY <2>3 DEF Find, Goto, Fault, NoFault, rows, browser, request, history
  <2>4. CASE Revoke(c) BY <2>4 DEF Revoke, Goto, Fault, NoFault, browser, request, history
  <2>5. CASE Create(c) BY <2>5 DEF Create, Issue, Goto, Fault, NoFault, browser, history
  <2>6. CASE Accept(c) BY <2>6 DEF Accept, SetSession, Goto, rows, request, history
  <2>7. CASE Refuse(c) BY <2>7 DEF Refuse, SetSession, Goto, rows, request, history
  <2>8. CASE Retry(c) BY <2>8 DEF Retry, Goto, rows, browser, request, history
  <2>9. CASE LogoutFind(c)
    BY <2>9 DEF LogoutFind, Goto, Fault, NoFault, rows, browser, request, history
  <2>10. CASE LogoutRevoke(c)
    BY <2>10 DEF LogoutRevoke, Goto, Fault, NoFault, browser, request, history
  <2>11. CASE LogoutEnd(c) BY <2>11 DEF LogoutEnd, SetSession, Goto, rows, request, history
  <2> QED BY <1>2, <2>1, <2>2, <2>3, <2>4, <2>5, <2>6, <2>7, <2>8, <2>9, <2>10, <2>11
          DEF Step
<1>3. ASSUME NEW s \in 1 .. issued, Expire(s) PROVE AskedIsLive'
  BY <1>3 DEF Expire, rows, browser, request, history
<1>4. ASSUME NEW t \in Tabs, Load(t) \/ SelectProject(t) PROVE AskedIsLive'
  BY <1>4 DEF Load, SelectProject, rows, request, history
<1>5. CASE UNCHANGED vars
  BY <1>5 DEF vars
<1> QED BY <1>1, <1>2, <1>3, <1>4, <1>5 DEF Next

\* A call revokes the only token of its login; a new login begins a chain of its own.
LEMMA StepToken == IInv /\ [Next]_vars => OneToken'
<1> SUFFICES ASSUME IInv, [Next]_vars PROVE OneToken' OBVIOUS
<1> USE DEF IInv, Types, SentIsPresented, AskedIsLive, OneToken, OneLivePerLogin,
             Asking, Sending, Active
<1>1. ASSUME NEW c \in Calls, NEW t \in Tabs,
             StartLogin(c, t) \/ StartCall(c, t) \/ StartLogout(c, t)
      PROVE  OneToken'
  <2>1. /\ UNCHANGED <<live, login, loggedOut>> /\ (~contended' => ~contended)
        /\ \A d \in Calls : pc'[d] = "create" => pc[d] = "create" /\ held'[d] = held[d]
    <3>1. /\ pc \in [Calls -> {"idle", "done"} \cup Active]
          /\ held \in [Calls -> 0 .. issued]
      OBVIOUS
    <3>2. contended \in BOOLEAN
      BY DEF Flags
    <3> HIDE DEF IInv, Types, SentIsPresented, AskedIsLive, OneToken, OneLivePerLogin
    <3>3. /\ UNCHANGED <<live, login, loggedOut>>
          /\ \E where \in {"login", "sent", "logoutFind"} : Begin(c, t, where)
      BY <1>1 DEF StartLogin, StartCall, StartLogout, rows
    <3>4. ~contended' => ~contended
      BY <1>1, <3>2 DEF StartLogin, StartCall, StartLogout, history
    <3>5. \A d \in Calls : pc'[d] = "create" => pc[d] = "create" /\ held'[d] = held[d]
      BY <3>1, <3>3 DEF Begin, Goto
    <3> QED BY <3>3, <3>4, <3>5
  <2> QED BY <2>1 DEF OneToken
<1>2. ASSUME NEW c \in Calls, Step(c) PROVE OneToken'
  <2>1. CASE Login(c)
    <3>1. CASE UNCHANGED <<issued, live, login, got>>
      BY <2>1, <3>1 DEF Login, Goto, history
    <3>2. CASE Issue(c, issued + 1)
      <4>1. /\ UNCHANGED <<loggedOut, held, contended>>
            /\ \A d \in Calls : pc'[d] = "create" => pc[d] = "create"
        BY <2>1 DEF Login, Goto, history
      <4>2. \A d \in Calls : held[d] \in 0 .. issued /\ login[held[d]] # issued + 1
        OBVIOUS
      <4>3. got[c] = 0
        BY <2>1 DEF Login, IssuedOnce
      <4>4. /\ issued' = issued + 1 /\ live' = live \cup {issued'}
            /\ login'[issued'] = issued + 1
            /\ \A s \in 0 .. issued : login'[s] = login[s]
        BY <3>2, <4>3, NewSession
      <4>5. \A s \in live : s \in 0 .. issued
        OBVIOUS
      <4>6. ~contended => \A d \in Calls : pc[d] = "create" =>
              /\ login[held[d]] \notin loggedOut
              /\ \A s \in live : login[s] # login[held[d]]
              /\ \A e \in Calls : pc[e] = "create" /\ login[held[e]] = login[held[d]] => d = e
        OBVIOUS
      <4>7. \A d \in Calls : login'[held[d]] = login[held[d]]
        BY <4>4
      <4> HIDE DEF IInv, Types, SentIsPresented, AskedIsLive, OneLivePerLogin
      <4> QED BY <4>1, <4>2, <4>4, <4>5, <4>6, <4>7
    <3> QED BY <2>1, <3>1, <3>2 DEF Login
  <2>2. CASE Answered(c)
    <3>1. /\ UNCHANGED <<live, login, loggedOut, held>>
          /\ \A d \in Calls : pc'[d] = "create" => pc[d] = "create"
      BY <2>2 DEF Answered, Goto, rows, request
    <3>2. ~contended' => ~contended
      BY <2>2 DEF Answered, Present, history
    <3> QED BY <3>1, <3>2
  <2>3. CASE Find(c) BY <2>3 DEF Find, Goto, Fault, NoFault, rows, browser, request, history
  <2>4. CASE Revoke(c)
    <3>1. UNCHANGED <<login, loggedOut, held, contended>> /\ live' \subseteq live
      BY <2>4 DEF Revoke, request, history
    <3>2. \A d \in Calls : pc'[d] = "create" => d = c \/ pc[d] = "create"
      BY <2>4 DEF Revoke, Goto
    <3>3. pc'[c] = "create" => live' = live \ {held[c]}
      BY <2>4 DEF Revoke, Goto
    <3>4. ~contended => held[c] \in live
      BY <2>4 DEF Revoke
    <3>5. \A d \in Calls : ~contended /\ pc[d] = "create" => login[held[d]] # login[held[c]]
      BY <3>4
    <3> QED BY <3>1, <3>2, <3>3, <3>4, <3>5
  <2>5. CASE Create(c)
    <3>1. /\ UNCHANGED <<loggedOut, held, contended>>
          /\ \A d \in Calls : pc'[d] = "create" => pc[d] = "create" /\ d # c
      BY <2>5 DEF Create, Goto, history
    <3>2. CASE UNCHANGED <<issued, live, login, got>>
      BY <3>1, <3>2
    <3>3. CASE Issue(c, login[held[c]])
      <4>1. got[c] = 0
        BY <2>5 DEF Create, IssuedOnce
      <4>2. /\ issued' = issued + 1 /\ live' = live \cup {issued'}
            /\ login'[issued'] = login[held[c]]
            /\ \A s \in 0 .. issued : login'[s] = login[s]
        BY <3>3, <4>1, NewSession
      <4>3. \A d \in Calls : pc[d] = "create" /\ d # c /\ ~contended
                               => login[held[d]] # login[held[c]]
        BY <2>5 DEF Create
      <4>4. \A s \in live : s \in 0 .. issued
        OBVIOUS
      <4>5. ~contended => \A d \in Calls : pc[d] = "create" =>
              /\ login[held[d]] \notin loggedOut
              /\ \A s \in live : login[s] # login[held[d]]
              /\ \A e \in Calls : pc[e] = "create" /\ login[held[e]] = login[held[d]] => d = e
        OBVIOUS
      <4>6. \A d \in Calls : login'[held[d]] = login[held[d]]
        BY <4>2
      <4> HIDE DEF IInv, Types, SentIsPresented, AskedIsLive, OneLivePerLogin
      <4> QED BY <3>1, <4>2, <4>3, <4>4, <4>5, <4>6
    <3> QED BY <2>5, <3>2, <3>3 DEF Create
  <2>6. CASE Accept(c) BY <2>6 DEF Accept, SetSession, Goto, rows, request, history
  <2>7. CASE Refuse(c) BY <2>7 DEF Refuse, SetSession, Goto, rows, request, history
  <2>8. CASE Retry(c) BY <2>8 DEF Retry, Goto, rows, browser, request, history
  <2>9. CASE LogoutFind(c)
    BY <2>9 DEF LogoutFind, Goto, Fault, NoFault, rows, browser, request, history
  <2>10. CASE LogoutRevoke(c)
    BY <2>10 DEF LogoutRevoke, Goto, Fault, NoFault, browser, request, history
  <2>11. CASE LogoutEnd(c) BY <2>11 DEF LogoutEnd, SetSession, Goto, rows, request, history
  <2> QED BY <1>2, <2>1, <2>2, <2>3, <2>4, <2>5, <2>6, <2>7, <2>8, <2>9, <2>10, <2>11
          DEF Step
<1>3. ASSUME NEW s \in 1 .. issued, Expire(s) PROVE OneToken'
  BY <1>3 DEF Expire, rows, browser, request, history
<1>4. ASSUME NEW t \in Tabs, Load(t) \/ SelectProject(t) PROVE OneToken'
  BY <1>4 DEF Load, SelectProject, rows, request, history
<1>5. CASE UNCHANGED vars
  BY <1>5 DEF vars
<1> QED BY <1>1, <1>2, <1>3, <1>4, <1>5 DEF Next

\* The token that is created replaces one that was revoked.
LEMMA StepLive == IInv /\ [Next]_vars => OneLivePerLogin'
<1> SUFFICES ASSUME IInv, [Next]_vars PROVE OneLivePerLogin' OBVIOUS
<1> USE DEF IInv, Types, SentIsPresented, AskedIsLive, OneToken, OneLivePerLogin,
             Asking, Sending, Active
<1>1. ASSUME NEW c \in Calls, NEW t \in Tabs,
             StartLogin(c, t) \/ StartCall(c, t) \/ StartLogout(c, t)
      PROVE  OneLivePerLogin'
  <2>1. UNCHANGED <<live, login, loggedOut>> /\ (~contended' => ~contended)
    <3>1. contended \in BOOLEAN
      BY DEF Flags
    <3> HIDE DEF IInv, Types, SentIsPresented, AskedIsLive, OneToken, OneLivePerLogin
    <3> QED BY <1>1, <3>1 DEF StartLogin, StartCall, StartLogout, rows, history
  <2> QED BY <2>1 DEF OneLivePerLogin
<1>2. ASSUME NEW c \in Calls, Step(c) PROVE OneLivePerLogin'
  <2>1. CASE Login(c)
    <3>1. CASE UNCHANGED <<issued, live, login, got>>
      BY <2>1, <3>1 DEF Login, history
    <3>2. CASE Issue(c, issued + 1)
      <4>0. got[c] = 0 /\ UNCHANGED <<loggedOut, contended>>
        BY <2>1 DEF Login, IssuedOnce, history
      <4>1. /\ issued' = issued + 1 /\ live' = live \cup {issued'}
            /\ login'[issued'] = issued + 1 /\ \A s \in 0 .. issued : login'[s] = login[s]
        BY <3>2, <4>0, NewSession
      <4>2. \A s \in live : login'[s] = login[s] /\ login[s] # issued + 1
        BY <4>1
      <4>3. issued + 1 \notin loggedOut
        OBVIOUS
      <4>4. \A s, u \in live : ~contended =>
              login[s] \notin loggedOut /\ (login[u] = login[s] => u = s)
        OBVIOUS
      <4> HIDE DEF IInv, Types, SentIsPresented, AskedIsLive, OneToken
      <4> QED BY <4>0, <4>1, <4>2, <4>3, <4>4
    <3> QED BY <2>1, <3>1, <3>2 DEF Login
  <2>2. CASE Answered(c)
    BY <2>2 DEF Answered, Present, Goto, rows, browser, request, history
  <2>3. CASE Find(c) BY <2>3 DEF Find, Goto, Fault, NoFault, rows, browser, request, history
  <2>4. CASE Revoke(c) BY <2>4 DEF Revoke, Goto, Fault, NoFault, browser, request, history
  <2>5. CASE Create(c)
    <3>1. CASE UNCHANGED <<issued, live, login, got>>
      BY <2>5, <3>1 DEF Create, history
    <3>2. CASE Issue(c, login[held[c]])
      <4>0. got[c] = 0 /\ UNCHANGED <<loggedOut, contended>>
        BY <2>5 DEF Create, IssuedOnce, history
      <4>1. /\ issued' = issued + 1 /\ live' = live \cup {issued'}
            /\ login'[issued'] = login[held[c]] /\ \A s \in 0 .. issued : login'[s] = login[s]
        BY <3>2, <4>0, NewSession
      <4>2. \A s \in live : login'[s] = login[s]
        BY <4>1
      <4>3. ~contended => /\ login[held[c]] \notin loggedOut
                          /\ \A s \in live : login[s] # login[held[c]]
        BY <2>5 DEF Create
      <4>4. \A s, u \in live : ~contended =>
              login[s] \notin loggedOut /\ (login[u] = login[s] => u = s)
        OBVIOUS
      <4> HIDE DEF IInv, Types, SentIsPresented, AskedIsLive, OneToken
      <4> QED BY <4>0, <4>1, <4>2, <4>3, <4>4
    <3> QED BY <2>5, <3>1, <3>2 DEF Create
  <2>6. CASE Accept(c) BY <2>6 DEF Accept, SetSession, Goto, rows, request, history
  <2>7. CASE Refuse(c) BY <2>7 DEF Refuse, SetSession, Goto, rows, request, history
  <2>8. CASE Retry(c) BY <2>8 DEF Retry, Goto, rows, browser, request, history
  <2>9. CASE LogoutFind(c)
    BY <2>9 DEF LogoutFind, Goto, Fault, NoFault, rows, browser, request, history
  <2>10. CASE LogoutRevoke(c)
    <3>1. pc[c] \in Asking /\ UNCHANGED <<login, contended>>
      BY <2>10 DEF LogoutRevoke, history
    <3>2. CASE UNCHANGED <<live, loggedOut>>
      BY <3>1, <3>2
    <3>3. CASE live' = live \ {held[c]} /\ loggedOut' = loggedOut \cup {login[held[c]]}
      <4>1. ~contended => held[c] \in live
        BY <3>1
      <4> QED BY <3>1, <3>3, <4>1
    <3> QED BY <2>10, <3>2, <3>3 DEF LogoutRevoke
  <2>11. CASE LogoutEnd(c) BY <2>11 DEF LogoutEnd, SetSession, Goto, rows, request, history
  <2> QED BY <1>2, <2>1, <2>2, <2>3, <2>4, <2>5, <2>6, <2>7, <2>8, <2>9, <2>10, <2>11
          DEF Step
<1>3. ASSUME NEW s \in 1 .. issued, Expire(s) PROVE OneLivePerLogin'
  BY <1>3 DEF Expire, rows, browser, request, history
<1>4. ASSUME NEW t \in Tabs, Load(t) \/ SelectProject(t) PROVE OneLivePerLogin'
  BY <1>4 DEF Load, SelectProject, rows, request, history
<1>5. CASE UNCHANGED vars
  BY <1>5 DEF vars
<1> QED BY <1>1, <1>2, <1>3, <1>4, <1>5 DEF Next

\* Only a fault refuses a session that is live.
LEMMA StepRefused == IInv /\ [Next]_vars => NoneRefused'
<1> SUFFICES ASSUME IInv, [Next]_vars PROVE NoneRefused' OBVIOUS
<1> USE DEF IInv, Types, AskedIsLive, NoneRefused, Asking, Active
<1>1. ASSUME NEW c \in Calls, NEW t \in Tabs,
             StartLogin(c, t) \/ StartCall(c, t) \/ StartLogout(c, t)
      PROVE  NoneRefused'
  <2>1. CASE StartLogin(c, t)
    BY <2>1 DEF StartLogin, Begin, Goto, rows, browser, history
  <2>2. CASE StartCall(c, t)
    BY <2>2 DEF StartCall, Begin, Goto, rows, browser, history
  <2>3. CASE StartLogout(c, t)
    BY <2>3 DEF StartLogout, Begin, Goto, rows, browser
  <2> QED BY <1>1, <2>1, <2>2, <2>3
<1>2. ASSUME NEW c \in Calls, Step(c) PROVE NoneRefused'
  <2>1. CASE Login(c) BY <2>1 DEF Login, Issue, Goto, browser, history
  <2>2. CASE Answered(c)
    BY <2>2 DEF Answered, Present, Goto, rows, browser, request, history
  <2>3. CASE Find(c) BY <2>3 DEF Find, Goto, Fault, NoFault, rows, browser, request, history
  <2>4. CASE Revoke(c) BY <2>4 DEF Revoke, Goto, Fault, NoFault, browser, request, history
  <2>5. CASE Create(c) BY <2>5 DEF Create, Issue, Goto, Fault, NoFault, browser, history
  <2>6. CASE Accept(c) BY <2>6 DEF Accept, SetSession, Goto, rows, request, history
  <2>7. CASE Refuse(c) BY <2>7 DEF Refuse, SetSession, Goto, rows, request, history
  <2>8. CASE Retry(c) BY <2>8 DEF Retry, Goto, rows, browser, request, history
  <2>9. CASE LogoutFind(c)
    BY <2>9 DEF LogoutFind, Goto, Fault, NoFault, rows, browser, request, history
  <2>10. CASE LogoutRevoke(c)
    BY <2>10 DEF LogoutRevoke, Goto, Fault, NoFault, browser, request, history
  <2>11. CASE LogoutEnd(c) BY <2>11 DEF LogoutEnd, SetSession, Goto, rows, request, history
  <2> QED BY <1>2, <2>1, <2>2, <2>3, <2>4, <2>5, <2>6, <2>7, <2>8, <2>9, <2>10, <2>11
          DEF Step
<1>3. ASSUME NEW s \in 1 .. issued, Expire(s) PROVE NoneRefused'
  BY <1>3 DEF Expire, rows, browser, request, history
<1>4. ASSUME NEW t \in Tabs, Load(t) \/ SelectProject(t) PROVE NoneRefused'
  BY <1>4 DEF Load, SelectProject, rows, request, history
<1>5. CASE UNCHANGED vars
  BY <1>5 DEF vars
<1> QED BY <1>1, <1>2, <1>3, <1>4, <1>5 DEF Next

-----------------------------------------------------------------------------
(* The theorems.                                                           *)

\* All parts hold together, whatever overlaps and whatever is lost.
THEOREM Inductive == Spec => []IInv
<1>1. IInv /\ [Next]_vars => IInv'
  BY StepTypes, StepFlags, StepIssued, StepPresented, StepAccounted, StepAsked, StepToken,
     StepLive, StepRefused DEF IInv
<1> QED BY <1>1, InitIInv, PTL DEF Spec

\* Every session that is anywhere, in a tab, in a call or in the table, was issued;
\* and there are no more of them than calls.
THEOREM TypesOK == Spec => []TypeOK
<1>1. IInv => TypeOK
  BY DEF IInv, Types, Flags, TypeOK
<1> QED BY <1>1, Inductive, PTL

\* A tab, or localStorage, never holds a session that was revoked although nobody
\* had sent it: a refresh revokes the session it was called with and no other,
\* and hands out one whose row is there.
THEOREM UnsentAlwaysLive == Spec => []UnsentIsLive
<1>1. IInv => UnsentIsLive
  BY DEF IInv, AllAccounted, Accounted, UnsentIsLive
<1> QED BY <1>1, Inductive, PTL

\* As long as no session is sent twice, a login has at most one refresh token that
\* can be used, and none once it has been logged out.
THEOREM OneAlwaysLivePerLogin == Spec => []OneLivePerLogin
<1>1. IInv => OneLivePerLogin
  BY DEF IInv
<1> QED BY <1>1, Inductive, PTL

\* As long as no session is sent twice and no call gets lost, no refresh is refused:
\* all forced logins come from contention or from faults.
THEOREM NoneEverRefused == Spec => []NoneRefused
<1>1. IInv => NoneRefused
  BY DEF IInv
<1> QED BY <1>1, Inductive, PTL
=============================================================================
