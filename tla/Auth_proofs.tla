---------------------------- MODULE Auth_proofs -----------------------------
(***************************************************************************)
(* Safety of the sessions for every number of tabs, calls, sessions and    *)
(* rotations.  The heart is who may present a refresh token: a session     *)
(* that was never shared is held by one tab, in its store, in the refresh  *)
(* it has in flight or in the answer of its login page, and what that tab  *)
(* presents is the current version, so that the server never takes its     *)
(* holder for a thief.  The second half of the module is the safety of the *)
(* accounts and of the codes that open them.                               *)
(***************************************************************************)
EXTENDS SessionTabs, Accounts, TLAPS

\* Sessions a token may belong to exist, and no token is ahead of its session.
Known(k, ses) == k \in Token => /\ ses[k.sid].status # "NONE"
                                /\ k.version <= ses[k.sid].version

AllKnown == \A t \in Tabs : /\ Known(store[t].token, session) /\ Known(flight[t].token, session)
                            /\ Known(login[t].answer, session)

\* Whoever wrote the copy in localStorage last still holds it.
DiskIsHeld == disk = SignedOut \/ \E t \in Tabs : store[t] = disk

\* A granted answer is the newest token of its session, or was, and nobody
\* holds it yet.
FreshGrants ==
    /\ \A t \in Granted : flight[t].token \in Token /\ flight[t].token.version > 0
    /\ \A t, u \in Granted : flight[t].token = flight[u].token => t = u
    /\ \A t \in Granted, u \in Tabs : store[u].token # flight[t].token

\* What a tab knows of session s, given its version v and whether it is live:
\* the token k of its store, its flight f and the answer a of its login page.
TabGood(k, f, a, s, v, live) ==
    /\ a.sid = s => k.sid # s /\ (f.step = "none" \/ f.token.sid # s) /\ a.version = v
    /\ k.sid = s /\ ~(f.step = "granted" /\ f.token.sid = s) => k.version = v
    /\ f.step \in {"rotate", "granted"} /\ f.token.sid = s => f.token.version = v
    /\ f.step = "explain" /\ f.token.sid = s => ~live
    /\ f.step = "revoke" => f.token.sid # s

Holds(k, f, a, s) == k.sid = s \/ (f.step # "none" /\ f.token.sid = s) \/ a.sid = s

\* The same, of a tab.
HeldBy(t, s) == Holds(store[t].token, flight[t], login[t].answer, s)

IsLive(s) == session[s].status = "ACTIVE" /\ s \notin lapsed

Unshared(s) ==
    /\ \A t, u \in Tabs : HeldBy(t, s) /\ HeldBy(u, s) => t = u
    /\ \A t \in Tabs : TabGood(store[t].token, flight[t], login[t].answer, s,
                               session[s].version, IsLive(s))
    /\ session[s].reason # "REUSE_DETECTED"

TypeCore ==
    /\ session \in [Sids -> Session] /\ lapsed \subseteq Sids
    /\ login \in [Tabs -> LoginPage] /\ store \in [Tabs -> Store] /\ disk \in Store
    /\ flight \in [Tabs -> Flight] /\ shared \subseteq Sids

TypeRest ==
    /\ aged \subseteq Token /\ socket \in [Tabs -> Socket] /\ doomed \subseteq [tab: Tabs, sid: Sids]
    /\ call \in [Calls -> Call] /\ faults \in Nat

\* A refresh that ends a session or was granted names one, and a sign-in
\* answers with the first version.
Pending ==
    /\ \A t \in Tabs : flight[t].step \in {"revoke", "granted"} => flight[t].token \in Token
    /\ \A t \in Tabs : login[t].answer.version = 0

Core == /\ TypeCore /\ AllKnown /\ DiskIsHeld /\ FreshGrants /\ Pending
        /\ \A s \in Sids \ shared : Unshared(s)

SocketsCarrySessions == \A t \in Tabs : socket[t].state = "on" => socket[t].token \in Token

IInv == Core /\ TypeRest /\ SocketsCarrySessions

-----------------------------------------------------------------------------
(***************************************************************************)
(* Tokens.                                                                 *)
(***************************************************************************)
LEMMA TokenOfSession ==
    ASSUME NEW k \in Token \cup {NoToken}
    PROVE  /\ k.sid \in Sids <=> k \in Token
           /\ k = NoToken <=> k.sid = NoSid
           /\ k.version \in 0..MaxVersion
BY SessionsAssumption DEF SessionsAssumption, Token, NoToken

\* Who holds a session it is known of has one that exists.
LEMMA HeldExists ==
    ASSUME Core, NEW t \in Tabs, NEW s \in Sids, HeldBy(t, s)
    PROVE  session[s].status # "NONE"
<1>1. /\ store[t].token \in Token \cup {NoToken} /\ flight[t].token \in Token \cup {NoToken}
      /\ login[t].answer \in Token \cup {NoToken}
  BY DEF Core, TypeCore, Store, Flight, LoginPage
<1>2. /\ Known(store[t].token, session) /\ Known(flight[t].token, session)
      /\ Known(login[t].answer, session)
  BY DEF Core, AllKnown
<1> QED BY <1>1, <1>2, TokenOfSession DEF HeldBy, Holds, Known

\* A tab that does not hold a session knows nothing wrong about it.
LEMMA NotHeldIsGood ==
    ASSUME NEW k, NEW f, NEW a, NEW s, NEW v, NEW live, ~Holds(k, f, a, s)
    PROVE  TabGood(k, f, a, s, v, live)
BY DEF Holds, TabGood

LEMMA GoodWhenDead ==
    ASSUME NEW k, NEW f, NEW a, NEW s, NEW v, NEW live, NEW later, later => live,
           TabGood(k, f, a, s, v, live)
    PROVE  TabGood(k, f, a, s, v, later)
BY DEF TabGood

-----------------------------------------------------------------------------
(***************************************************************************)
(* How sessions move, and a step of one tab.                               *)
(***************************************************************************)
SessionsMove ==
    /\ session' \in [Sids -> Session] /\ lapsed \subseteq lapsed' /\ lapsed' \subseteq Sids
    /\ \A s \in Sids :
         /\ session[s].status # "NONE" =>
              /\ session'[s].status # "NONE"
              /\ session[s].version <= session'[s].version
              /\ session'[s].status = "ACTIVE" => session[s].status = "ACTIVE"
         /\ session'[s].reason = "REUSE_DETECTED" => s \in shared \/ session[s].reason = "REUSE_DETECTED"

\* Tokens that were known stay known.
LEMMA KnownStays ==
    ASSUME Core, SessionsMove, NEW k \in Token \cup {NoToken}, Known(k, session)
    PROVE  Known(k, session')
<1> SUFFICES ASSUME k \in Token
             PROVE  session'[k.sid].status # "NONE" /\ k.version <= session'[k.sid].version
  BY DEF Known
<1>1. PICK s \in Sids, n \in 0..MaxVersion : s = k.sid /\ n = k.version BY DEF Token
<1>2. session[s].status # "NONE" /\ n <= session[s].version BY <1>1 DEF Known
<1>3. session[s] \in Session /\ session'[s] \in Session BY DEF Core, TypeCore, SessionsMove
<1>4. PICK v \in 0..MaxVersion, w \in 0..MaxVersion :
         v = session[s].version /\ w = session'[s].version
  BY <1>3 DEF Session
<1>5. v <= w BY <1>2, <1>4 DEF SessionsMove
<1>6. n <= w BY <1>2, <1>4, <1>5, SessionsAssumption DEF SessionsAssumption
<1> QED BY <1>1, <1>2, <1>4, <1>6 DEF SessionsMove

\* A step of tab t leaves the core sound when what the tab now knows is good,
\* it holds no session another tab holds, and no version changes under
\* another holder.
LEMMA LocalStep ==
    ASSUME Core, SessionsMove, shared \subseteq shared', shared' \subseteq Sids,
           NEW t \in Tabs, NEW st \in Store, NEW f \in Flight, NEW l \in LoginPage,
           store' = [store EXCEPT ![t] = st], flight' = [flight EXCEPT ![t] = f],
           login' = [login EXCEPT ![t] = l],
           disk' \in Store, DiskIsHeld',
           Known(st.token, session'), Known(f.token, session'), Known(l.answer, session'),
           f.step = "granted" =>
             \/ f = flight[t] /\ \A u \in Granted : st.token # flight[u].token
             \/ /\ f.token \in Token /\ f.token.version > 0
                /\ \A u \in Granted : flight[u].token # f.token
                /\ \A u \in Tabs : store[u].token # f.token
                /\ st = store[t],
           f.step \in {"revoke", "granted"} => f.token \in Token, l.answer.version = 0,
           \A u \in Granted \ {t} : st.token # flight[u].token,
           \A s \in Sids \ shared' :
             /\ Holds(st.token, f, l.answer, s) => HeldBy(t, s) \/ \A u \in Tabs : ~HeldBy(u, s)
             /\ session'[s].version = session[s].version \/ \A u \in Tabs \ {t} : ~HeldBy(u, s)
             /\ TabGood(st.token, f, l.answer, s, session'[s].version,
                        session'[s].status = "ACTIVE" /\ s \notin lapsed')
    PROVE  Core'
<1>1. /\ store \in [Tabs -> Store] /\ flight \in [Tabs -> Flight] /\ login \in [Tabs -> LoginPage]
  BY DEF Core, TypeCore
<1>2. /\ store' \in [Tabs -> Store] /\ flight' \in [Tabs -> Flight] /\ login' \in [Tabs -> LoginPage]
      /\ store'[t] = st /\ flight'[t] = f /\ login'[t] = l
      /\ \A u \in Tabs \ {t} : store'[u] = store[u] /\ flight'[u] = flight[u] /\ login'[u] = login[u]
  BY <1>1
<1>3. TypeCore' BY <1>2 DEF SessionsMove, TypeCore
<1>4. AllKnown'
  <2>1. ASSUME NEW u \in Tabs
        PROVE  /\ Known(store'[u].token, session') /\ Known(flight'[u].token, session')
               /\ Known(login'[u].answer, session')
    <3>1. CASE u = t BY <1>2, <3>1
    <3>2. CASE u # t
      <4>1. /\ store[u].token \in Token \cup {NoToken} /\ flight[u].token \in Token \cup {NoToken}
            /\ login[u].answer \in Token \cup {NoToken}
        BY <1>1 DEF Store, Flight, LoginPage
      <4>2. /\ Known(store[u].token, session) /\ Known(flight[u].token, session)
            /\ Known(login[u].answer, session)
        BY DEF Core, AllKnown
      <4> QED BY <1>2, <3>2, <4>1, <4>2, KnownStays
    <3> QED BY <3>1, <3>2
  <2> QED BY <2>1 DEF AllKnown
<1>5. FreshGrants'
  <2>1. FreshGrants BY DEF Core
  <2>2. \A u \in Tabs \ {t} : u \in Granted' <=> u \in Granted BY <1>2 DEF Granted
  <2>3. t \in Granted' <=> f.step = "granted" BY <1>2 DEF Granted
  <2>4. Granted' \subseteq Tabs /\ Granted \subseteq Tabs BY DEF Granted
  <2>5. f = flight[t] /\ f.step = "granted" => t \in Granted BY DEF Granted
  <2>6. \A u \in Granted' : flight'[u].token \in Token /\ flight'[u].token.version > 0
    BY <1>2, <2>1, <2>2, <2>3, <2>4, <2>5 DEF FreshGrants
  <2>7. \A u, w \in Granted' : flight'[u].token = flight'[w].token => u = w
    BY <1>2, <2>1, <2>2, <2>3, <2>4, <2>5 DEF FreshGrants
  <2>8. \A u \in Granted', w \in Tabs : store'[w].token # flight'[u].token
    BY <1>2, <2>1, <2>2, <2>3, <2>4, <2>5 DEF FreshGrants
  <2> QED BY <2>6, <2>7, <2>8 DEF FreshGrants
<1>6. ASSUME NEW s \in Sids \ shared' PROVE Unshared(s)'
  <2>1. Unshared(s) BY DEF Core
  <2>2. \A u \in Tabs \ {t} : HeldBy(u, s)' <=> HeldBy(u, s) BY <1>2 DEF HeldBy
  <2>3. HeldBy(t, s)' <=> Holds(st.token, f, l.answer, s) BY <1>2 DEF HeldBy
  <2>4. \A u, w \in Tabs : HeldBy(u, s)' /\ HeldBy(w, s)' => u = w
    BY <2>1, <2>2, <2>3 DEF Unshared
  <2>5. ASSUME NEW u \in Tabs
        PROVE  TabGood(store'[u].token, flight'[u], login'[u].answer, s, session'[s].version, IsLive(s)')
    <3>1. CASE u = t BY <1>2, <3>1 DEF IsLive
    <3>2. CASE u # t /\ ~HeldBy(u, s)
      <4>1. ~Holds(store'[u].token, flight'[u], login'[u].answer, s) BY <1>2, <3>2 DEF HeldBy
      <4> QED BY <4>1, NotHeldIsGood
    <3>3. CASE u # t /\ HeldBy(u, s)
      <4>1. session'[s].version = session[s].version BY <3>3
      <4>2. session[s].status # "NONE" BY <3>3, HeldExists
      <4>3. IsLive(s)' => IsLive(s) BY <4>2 DEF SessionsMove, IsLive
      <4>4. TabGood(store[u].token, flight[u], login[u].answer, s, session[s].version, IsLive(s))
        BY <2>1 DEF Unshared
      <4>5. TabGood(store[u].token, flight[u], login[u].answer, s, session[s].version, IsLive(s)')
        BY <4>3, <4>4, GoodWhenDead
      <4>6. store'[u] = store[u] /\ flight'[u] = flight[u] /\ login'[u] = login[u] BY <1>2, <3>3
      <4> QED BY <4>1, <4>5, <4>6
    <3> QED BY <3>1, <3>2, <3>3
  <2>6. session'[s].reason # "REUSE_DETECTED" BY <2>1 DEF SessionsMove, Unshared
  <2> QED BY <2>4, <2>5, <2>6 DEF Unshared
<1>7. Pending' BY <1>2 DEF Core, Pending
<1> QED BY <1>3, <1>4, <1>5, <1>6, <1>7 DEF Core

\* Sessions that end or age while no tab moves.
LEMMA QuietStep ==
    ASSUME Core, SessionsMove, UNCHANGED <<login, store, disk, flight, shared>>,
           \A s \in Sids : session'[s].version = session[s].version
    PROVE  Core'
<1>1. TypeCore' BY DEF Core, TypeCore, SessionsMove
<1>2. AllKnown'
  <2>1. ASSUME NEW u \in Tabs
        PROVE  /\ Known(store[u].token, session') /\ Known(flight[u].token, session')
               /\ Known(login[u].answer, session')
    <3>1. /\ store[u].token \in Token \cup {NoToken} /\ flight[u].token \in Token \cup {NoToken}
          /\ login[u].answer \in Token \cup {NoToken}
      BY DEF Core, TypeCore, Store, Flight, LoginPage
    <3> QED BY <3>1, KnownStays DEF Core, AllKnown
  <2> QED BY <2>1 DEF AllKnown
<1>3. DiskIsHeld' /\ FreshGrants' /\ Pending' BY DEF Core, DiskIsHeld, FreshGrants, Granted, Pending
<1>4. ASSUME NEW s \in Sids \ shared PROVE Unshared(s)'
  <2>1. Unshared(s) BY DEF Core
  <2>2. \A u, w \in Tabs : HeldBy(u, s)' /\ HeldBy(w, s)' => u = w BY <2>1 DEF Unshared, HeldBy
  <2>3. ASSUME NEW u \in Tabs
        PROVE  TabGood(store[u].token, flight[u], login[u].answer, s, session'[s].version, IsLive(s)')
    <3>1. CASE HeldBy(u, s)
      <4>1. IsLive(s)' => IsLive(s) BY <3>1, HeldExists DEF SessionsMove, IsLive
      <4> QED BY <2>1, <4>1, GoodWhenDead DEF Unshared
    <3>2. CASE ~HeldBy(u, s) BY <3>2, NotHeldIsGood DEF HeldBy
    <3> QED BY <3>1, <3>2
  <2>4. session'[s].reason # "REUSE_DETECTED" BY <2>1 DEF SessionsMove, Unshared
  <2> QED BY <2>2, <2>3, <2>4 DEF Unshared
<1> QED BY <1>1, <1>2, <1>3, <1>4 DEF Core

\* Nothing happens to the sessions.
LEMMA SessionsSame ==
    ASSUME Core, session' = session, lapsed' = lapsed
    PROVE  SessionsMove /\ \A s \in Sids : session'[s].version = session[s].version
<1>1. \A s \in Sids : session[s].version <= session[s].version
  <2>1. ASSUME NEW s \in Sids PROVE session[s].version <= session[s].version
    <3>1. PICK v \in 0..MaxVersion : v = session[s].version BY DEF Core, TypeCore, Session
    <3>2. v <= v BY SessionsAssumption DEF SessionsAssumption
    <3> QED BY <3>1, <3>2
  <2> QED BY <2>1
<1> QED BY <1>1 DEF Core, TypeCore, SessionsMove

\* Ending sessions keeps their versions and revives none.
LEMMA RevokedMoves ==
    ASSUME Core, NEW S \in SUBSET Sids, NEW r \in Reasons, r = "REUSE_DETECTED" => S \subseteq shared,
           lapsed' = lapsed,
           session' = [s \in Sids |-> IF s \in S THEN Revoked(s, r)[s] ELSE session[s]]
    PROVE  SessionsMove /\ \A s \in Sids : session'[s].version = session[s].version
<1>1. session \in [Sids -> Session] BY DEF Core, TypeCore
<1>2. ASSUME NEW s \in Sids
      PROVE  \/ session'[s] = session[s]
             \/ /\ session[s].status = "ACTIVE" /\ s \in S
                /\ session'[s] = [session[s] EXCEPT !.status = "REVOKED", !.reason = r]
  BY <1>1 DEF Revoked
<1>3. ASSUME NEW s \in Sids, s \in S, session[s].status = "ACTIVE",
             session'[s] = [session[s] EXCEPT !.status = "REVOKED", !.reason = r]
      PROVE  /\ session'[s] \in Session /\ session'[s].status = "REVOKED"
             /\ session'[s].version = session[s].version /\ session'[s].reason = r
  BY <1>1, <1>3 DEF Session
<1>4. session' \in [Sids -> Session] BY <1>1, <1>2, <1>3
<1>5. ASSUME NEW s \in Sids PROVE session[s].version <= session[s].version
  <2>1. PICK v \in 0..MaxVersion : v = session[s].version BY <1>1 DEF Session
  <2>2. v <= v BY SessionsAssumption DEF SessionsAssumption
  <2> QED BY <2>1, <2>2
<1>6. \A s \in Sids : session'[s].version = session[s].version BY <1>2, <1>3
<1> QED BY <1>1, <1>2, <1>3, <1>4, <1>5, <1>6 DEF Core, TypeCore, SessionsMove

LEMMA RevokeOneMoves ==
    ASSUME Core, NEW s \in Sids, NEW r \in Reasons, r = "REUSE_DETECTED" => s \in shared, Revoke(s, r)
    PROVE  /\ SessionsMove /\ lapsed' = lapsed
           /\ \A x \in Sids : session'[x].version = session[x].version
<1>1. session \in [Sids -> Session] BY DEF Core, TypeCore
<1>2. session' = [x \in Sids |-> IF x \in {s} THEN Revoked(x, r)[x] ELSE session[x]]
  BY <1>1, Zenon DEF Revoke, Revoked
<1> QED BY <1>2, RevokedMoves DEF Revoke

LEMMA RevokeAllMoves ==
    ASSUME Core, NEW w \in Users, RevokeAll(w)
    PROVE  /\ SessionsMove /\ lapsed' = lapsed
           /\ \A x \in Sids : session'[x].version = session[x].version
<1>. DEFINE S == {s \in Sids : Owner[s] = w}
<1>1. session' = [s \in Sids |-> IF s \in S THEN Revoked(s, "LOGOUT_ALL")[s] ELSE session[s]]
  BY DEF RevokeAll
<1>2. "LOGOUT_ALL" \in Reasons /\ lapsed' = lapsed BY DEF Reasons, RevokeAll
<1> QED BY <1>1, <1>2, RevokedMoves

-----------------------------------------------------------------------------
(***************************************************************************)
(* A refresh that moves on without its session: the store and the answer   *)
(* of the tab stay.                                                        *)
(***************************************************************************)
FlightSteps == {"none", "rotate", "explain", "revoke", "granted", "denied"}

LEMMA FlightRecord ==
    ASSUME NEW f \in Flight, NEW x \in FlightSteps
    PROVE  /\ [f EXCEPT !.step = x] \in Flight /\ [f EXCEPT !.step = x].step = x
           /\ [f EXCEPT !.step = x].token = f.token
BY DEF Flight, FlightSteps

\* What the core says of one tab.
LEMMA CoreOfTab ==
    ASSUME Core, NEW t \in Tabs
    PROVE  /\ store[t] \in Store /\ flight[t] \in Flight /\ login[t] \in LoginPage /\ disk \in Store
           /\ store[t].token \in Token \cup {NoToken} /\ flight[t].token \in Token \cup {NoToken}
           /\ login[t].answer \in Token \cup {NoToken} /\ login[t].answer.version = 0
           /\ Known(store[t].token, session) /\ Known(flight[t].token, session)
           /\ Known(login[t].answer, session)
           /\ \A u \in Granted : store[t].token # flight[u].token
           /\ flight[t].step \in {"revoke", "granted"} => flight[t].token \in Token
           /\ \A s \in Sids \ shared :
                /\ TabGood(store[t].token, flight[t], login[t].answer, s, session[s].version, IsLive(s))
                /\ HeldBy(t, s) => \A u \in Tabs \ {t} : ~HeldBy(u, s)
BY DEF Core, TypeCore, Store, Flight, LoginPage, AllKnown, FreshGrants, Pending, Unshared

LEMMA FlightStep ==
    ASSUME Core, SessionsMove, \A s \in Sids : session'[s].version = session[s].version,
           shared \subseteq shared', shared' \subseteq Sids,
           NEW t \in Tabs, NEW f \in Flight, flight' = [flight EXCEPT ![t] = f],
           UNCHANGED <<store, disk, login>>, f.step # "granted", f.step = "revoke" => f.token \in Token,
           f.step = "none" \/ f.token = flight[t].token \/ f.token = store[t].token,
           f.token = flight[t].token => f.step = "none" \/ flight[t].step # "none" \/ f.token = store[t].token,
           f.token \in Token => Known(f.token, session),
           \A s \in Sids \ shared' :
             TabGood(store[t].token, f, login[t].answer, s, session[s].version,
                     session'[s].status = "ACTIVE" /\ s \notin lapsed')
    PROVE  Core'
<1>1. /\ store[t] \in Store /\ login[t] \in LoginPage /\ disk \in Store
      /\ store[t].token \in Token \cup {NoToken} /\ login[t].answer \in Token \cup {NoToken}
      /\ Known(store[t].token, session) /\ Known(login[t].answer, session)
      /\ login[t].answer.version = 0 /\ \A u \in Granted : store[t].token # flight[u].token
  BY CoreOfTab
<1>2. store' = [store EXCEPT ![t] = store[t]] /\ login' = [login EXCEPT ![t] = login[t]]
  BY DEF Core, TypeCore
<1>3. f.token \in Token \cup {NoToken} BY DEF Flight
<1>4. /\ Known(store[t].token, session') /\ Known(login[t].answer, session')
      /\ Known(f.token, session')
  BY <1>1, <1>3, KnownStays DEF Known
<1>5. DiskIsHeld' BY DEF Core, DiskIsHeld
<1>6. \A s \in Sids : Holds(store[t].token, f, login[t].answer, s) => HeldBy(t, s)
  BY DEF Holds, HeldBy
<1>7. ASSUME NEW s \in Sids \ shared'
      PROVE  /\ Holds(store[t].token, f, login[t].answer, s) => HeldBy(t, s)
             /\ session'[s].version = session[s].version
             /\ TabGood(store[t].token, f, login[t].answer, s, session'[s].version,
                        session'[s].status = "ACTIVE" /\ s \notin lapsed')
  BY <1>6
<1>8. disk' \in Store /\ \A u \in Granted \ {t} : store[t].token # flight[u].token BY <1>1
<1>9. f.step # "granted" /\ (f.step \in {"revoke", "granted"} => f.token \in Token) OBVIOUS
<1>. DEFINE st == store[t]
            l == login[t]
<1>10. /\ st \in Store /\ l \in LoginPage /\ l.answer.version = 0
       /\ store' = [store EXCEPT ![t] = st] /\ login' = [login EXCEPT ![t] = l]
       /\ Known(st.token, session') /\ Known(l.answer, session')
       /\ \A u \in Granted \ {t} : st.token # flight[u].token
  BY <1>1, <1>2, <1>4, <1>8
<1>11. ASSUME NEW s \in Sids \ shared'
       PROVE  /\ Holds(st.token, f, l.answer, s) => HeldBy(t, s) \/ \A u \in Tabs : ~HeldBy(u, s)
              /\ session'[s].version = session[s].version \/ \A u \in Tabs \ {t} : ~HeldBy(u, s)
              /\ TabGood(st.token, f, l.answer, s, session'[s].version,
                         session'[s].status = "ACTIVE" /\ s \notin lapsed')
  BY <1>7
<1>. HIDE DEF st, l
<1> QED BY <1>4, <1>5, <1>8, <1>9, <1>10, <1>11, LocalStep

LEMMA ExplainKeeps ==
    ASSUME Core, NEW t \in Tabs, RefreshExplain(t) PROVE Core'
<1>. DEFINE x == IF LooksLeaked(flight[t].token) THEN "revoke" ELSE "denied"
            f == [flight[t] EXCEPT !.step = x]
<1>1. SessionsMove /\ \A s \in Sids : session'[s].version = session[s].version
  BY SessionsSame DEF RefreshExplain, tables
<1>2. x \in FlightSteps /\ x \in {"revoke", "denied"} BY DEF FlightSteps
<1>3. flight' = [flight EXCEPT ![t] = f] BY Zenon DEF RefreshExplain
<1>4. f \in Flight /\ f.step = x /\ f.token = flight[t].token
  <2>. HIDE DEF x
  <2> QED BY <1>2, FlightRecord, CoreOfTab
<1>5. flight[t].step = "explain" BY DEF RefreshExplain
<1>6. x = "revoke" => /\ flight[t].token.sid \in Sids
                      /\ session[flight[t].token.sid].status = "ACTIVE"
                      /\ flight[t].token.sid \notin lapsed
  BY DEF LooksLeaked, Active
<1>7. x = "revoke" => flight[t].token \in Token BY <1>6, TokenOfSession, CoreOfTab
<1>8. UNCHANGED <<session, lapsed, store, disk, login, shared>> BY DEF RefreshExplain, tables
<1>9. ASSUME NEW s \in Sids \ shared
      PROVE  TabGood(store[t].token, f, login[t].answer, s, session[s].version,
                     session'[s].status = "ACTIVE" /\ s \notin lapsed')
  <2>1. TabGood(store[t].token, flight[t], login[t].answer, s, session[s].version, IsLive(s))
    BY CoreOfTab
  <2>. HIDE DEF f, x
  <2> QED BY <1>2, <1>4, <1>5, <1>6, <2>1 DEF TabGood, IsLive
<1>10. Known(flight[t].token, session) /\ shared \subseteq Sids BY CoreOfTab DEF Core, TypeCore
<1>. HIDE DEF f, x
<1> QED BY <1>1, <1>2, <1>3, <1>4, <1>5, <1>7, <1>8, <1>9, <1>10, FlightStep

LEMMA RefreshRevokeKeeps ==
    ASSUME Core, NEW t \in Tabs, RefreshRevoke(t) PROVE Core'
<1>. DEFINE k == flight[t].token
            f == [flight[t] EXCEPT !.step = "denied"]
<1>1. flight[t].step = "revoke" BY DEF RefreshRevoke
<1>2. k \in Token BY <1>1, CoreOfTab
<1>3. k.sid \in shared
  <2>1. k.sid \in Sids BY <1>2 DEF Token
  <2> QED BY <1>1, <2>1, CoreOfTab DEF TabGood
<1>4. k.sid \in Sids /\ "REUSE_DETECTED" \in Reasons BY <1>2 DEF Token, Reasons
<1>5. SessionsMove /\ \A s \in Sids : session'[s].version = session[s].version
  <2>1. Revoke(k.sid, "REUSE_DETECTED") BY DEF RefreshRevoke
  <2>. HIDE DEF k
  <2> QED BY <1>3, <1>4, <2>1, RevokeOneMoves
<1>6. f \in Flight /\ f.step = "denied" /\ f.token = flight[t].token
  BY FlightRecord, CoreOfTab DEF FlightSteps
<1>7. flight' = [flight EXCEPT ![t] = f] BY Zenon DEF RefreshRevoke
<1>8. UNCHANGED <<store, disk, login, shared>> BY DEF RefreshRevoke
<1>9. ASSUME NEW s \in Sids \ shared
      PROVE  TabGood(store[t].token, f, login[t].answer, s, session[s].version,
                     session'[s].status = "ACTIVE" /\ s \notin lapsed')
  <2>1. TabGood(store[t].token, flight[t], login[t].answer, s, session[s].version, IsLive(s))
    BY CoreOfTab
  <2>. HIDE DEF f
  <2> QED BY <1>1, <1>6, <2>1 DEF TabGood
<1>10. Known(flight[t].token, session) /\ shared \subseteq Sids BY CoreOfTab DEF Core, TypeCore
<1>. HIDE DEF f, k
<1> QED BY <1>1, <1>5, <1>6, <1>7, <1>8, <1>9, <1>10, FlightStep

\* A lost answer makes the session one of several possible holders.
LEMMA LoseAnswerKeeps ==
    ASSUME Core, NEW t \in Tabs, LoseAnswer(t) PROVE Core'
<1>. DEFINE f == [flight[t] EXCEPT !.step = "denied"]
<1>1. flight[t].step = "granted" BY DEF LoseAnswer
<1>2. flight[t].token \in Token BY <1>1, CoreOfTab
<1>3. shared' = shared \cup {flight[t].token.sid} BY DEF LoseAnswer
<1>4. shared \subseteq shared' /\ shared' \subseteq Sids
  <2>1. flight[t].token.sid \in Sids BY <1>2 DEF Token
  <2> QED BY <1>3, <2>1 DEF Core, TypeCore
<1>5. SessionsMove /\ \A s \in Sids : session'[s].version = session[s].version
  BY SessionsSame DEF LoseAnswer, tables
<1>6. f \in Flight /\ f.step = "denied" /\ f.token = flight[t].token
  BY FlightRecord, CoreOfTab DEF FlightSteps
<1>7. flight' = [flight EXCEPT ![t] = f] BY Zenon DEF LoseAnswer
<1>8. UNCHANGED <<session, store, disk, login>> BY DEF LoseAnswer, tables
<1>9. ASSUME NEW s \in Sids \ shared'
      PROVE  TabGood(store[t].token, f, login[t].answer, s, session[s].version,
                     session'[s].status = "ACTIVE" /\ s \notin lapsed')
  <2>1. TabGood(store[t].token, flight[t], login[t].answer, s, session[s].version, IsLive(s))
    BY <1>4, CoreOfTab
  <2>2. flight[t].token.sid # s BY <1>3
  <2>. HIDE DEF f
  <2> QED BY <1>1, <1>6, <2>1, <2>2 DEF TabGood
<1>10. Known(flight[t].token, session) BY CoreOfTab
<1>. HIDE DEF f
<1> QED BY <1>1, <1>4, <1>5, <1>6, <1>7, <1>8, <1>9, <1>10, FlightStep

\* The update that rotates: the new version is ahead of every token there is.
LEMMA RotateKeeps ==
    ASSUME Core, NEW t \in Tabs, RefreshRotate(t) PROVE Core'
<1>. DEFINE k == flight[t].token
<1>t. /\ store[t] \in Store /\ flight[t] \in Flight /\ login[t] \in LoginPage /\ disk \in Store
      /\ store[t].token \in Token \cup {NoToken} /\ k \in Token \cup {NoToken}
      /\ login[t].answer \in Token \cup {NoToken} /\ login[t].answer.version = 0
      /\ Known(store[t].token, session) /\ Known(k, session) /\ Known(login[t].answer, session)
      /\ \A u \in Granted : store[t].token # flight[u].token
  BY CoreOfTab
<1>r. flight[t].step = "rotate" /\ UNCHANGED <<store, disk, login, shared, lapsed>>
  BY DEF RefreshRotate, RotateVersion, tables
<1>1. CASE ~Rotates(k)
  <2>. DEFINE f == [flight[t] EXCEPT !.step = "explain"]
  <2>1. session' = session /\ flight' = [flight EXCEPT ![t] = f]
    BY <1>1, Zenon DEF RefreshRotate, tables
  <2>2. SessionsMove /\ \A s \in Sids : session'[s].version = session[s].version
    BY <1>r, <2>1, SessionsSame
  <2>3. f \in Flight /\ f.step = "explain" /\ f.token = k
    BY FlightRecord, <1>t DEF FlightSteps
  <2>4. ASSUME NEW s \in Sids \ shared
        PROVE  TabGood(store[t].token, f, login[t].answer, s, session[s].version,
                       session'[s].status = "ACTIVE" /\ s \notin lapsed')
    <3>1. TabGood(store[t].token, flight[t], login[t].answer, s, session[s].version, IsLive(s))
      BY CoreOfTab
    <3>2. k.sid = s => ~IsLive(s)
      BY <1>1, <1>r, <3>1 DEF Rotates, Active, IsLive, TabGood
    <3>. HIDE DEF f
    <3> QED BY <1>r, <2>1, <2>3, <3>1, <3>2 DEF TabGood, IsLive
  <2>5. shared \subseteq Sids BY DEF Core, TypeCore
  <2>. HIDE DEF f
  <2> QED BY <1>t, <1>r, <2>1, <2>2, <2>3, <2>4, <2>5, FlightStep
<1>2. CASE Rotates(k)
  <2>. DEFINE g == Successor(k)
              f == [step |-> "granted", token |-> g]
  <2>1. /\ k.sid \in Sids /\ session[k.sid].status = "ACTIVE" /\ session[k.sid].version = k.version
        /\ k.sid \notin lapsed
    BY <1>2 DEF Rotates, Active
  <2>2. /\ k.version < MaxVersion
        /\ session' = [session EXCEPT ![k.sid].version = session[k.sid].version + 1]
        /\ flight' = [flight EXCEPT ![t] = f]
    BY <1>2, Zenon DEF RefreshRotate, RotateVersion
  <2>3. k \in Token BY <1>t, <2>1, TokenOfSession
  <2>4. PICK z \in Sids, n \in 0..MaxVersion : k = [sid |-> z, version |-> n]
    BY <2>3 DEF Token
  <2>5. z = k.sid /\ n = k.version BY <2>4
  <2>6. n < MaxVersion /\ n \in Nat /\ MaxVersion \in Nat
    BY <2>2, <2>5, SessionsAssumption DEF SessionsAssumption
  <2>7. n + 1 \in 0..MaxVersion /\ n + 1 > 0 /\ n <= n + 1 BY <2>6
  <2>8. g = [sid |-> z, version |-> n + 1] BY <2>4, <2>5 DEF Successor
  <2>. HIDE DEF g, k
  <2>9. g \in Token /\ g.sid = z /\ g.version = n + 1 BY <2>7, <2>8 DEF Token
  <2>10. session \in [Sids -> Session] BY DEF Core, TypeCore
  <2>11. /\ session' = [session EXCEPT ![z] = [session[z] EXCEPT !.version = n + 1]]
         /\ session[z].version = n /\ session[z].status = "ACTIVE" /\ z \notin lapsed
    BY <2>1, <2>2, <2>5
  <2>12. /\ session'[z] \in Session /\ session'[z].version = n + 1 /\ session'[z].status = "ACTIVE"
         /\ session'[z].reason = session[z].reason
    <3>1. session'[z] = [session[z] EXCEPT !.version = n + 1] BY <2>10, <2>11
    <3>2. session[z] \in Session BY <2>10
    <3> QED BY <2>7, <2>11, <3>1, <3>2 DEF Session
  <2>13. \A s \in Sids \ {z} : session'[s] = session[s] BY <2>10, <2>11
  <2>14. session' \in [Sids -> Session] BY <2>10, <2>11, <2>12, <2>13
  <2>15. \A s \in Sids : session[s].version <= session'[s].version
    <3>1. ASSUME NEW s \in Sids \ {z} PROVE session[s].version <= session'[s].version
      <4>1. PICK v \in 0..MaxVersion : v = session[s].version BY <2>10 DEF Session
      <4>2. v <= v BY <2>6
      <4> QED BY <2>13, <4>1, <4>2
    <3> QED BY <2>7, <2>11, <2>12, <3>1
  <2>16. SessionsMove
    BY <1>r, <2>11, <2>12, <2>13, <2>14, <2>15 DEF SessionsMove, Core, TypeCore
  <2>17. /\ Known(store[t].token, session') /\ Known(login[t].answer, session')
         /\ Known(g, session')
    <3>1. Known(store[t].token, session') /\ Known(login[t].answer, session')
      BY <1>t, <2>16, KnownStays
    <3>2. n + 1 <= n + 1 BY <2>6
    <3> QED BY <2>9, <2>12, <3>1, <3>2 DEF Known
  <2>18. ASSUME NEW q \in Token, Known(q, session) PROVE q # g
    <3>1. PICK m \in 0..MaxVersion : m = q.version BY DEF Token
    <3>2. q.sid = z => m <= n BY <2>11, <2>18, <3>1 DEF Known
    <3>3. m <= n => m # n + 1 BY <2>6
    <3> QED BY <2>9, <3>1, <3>2, <3>3
  <2>19. /\ \A u \in Granted : flight[u].token # g
         /\ \A u \in Tabs : store[u].token # g
    <3>1. ASSUME NEW u \in Tabs PROVE flight[u].token # g /\ store[u].token # g
      <4>1. /\ flight[u].token \in Token \cup {NoToken} /\ store[u].token \in Token \cup {NoToken}
            /\ Known(flight[u].token, session) /\ Known(store[u].token, session)
        BY CoreOfTab
      <4>2. NoToken # g BY <2>9, SessionsAssumption DEF SessionsAssumption, Token, NoToken
      <4> QED BY <2>18, <4>1, <4>2
    <3> QED BY <3>1 DEF Granted
  <2>20. f \in Flight /\ f.step = "granted" /\ f.token = g BY <2>9 DEF Flight
  <2>21. ASSUME NEW s \in Sids \ shared
         PROVE  /\ Holds(store[t].token, f, login[t].answer, s) => HeldBy(t, s)
                /\ session'[s].version = session[s].version \/ \A u \in Tabs \ {t} : ~HeldBy(u, s)
                /\ TabGood(store[t].token, f, login[t].answer, s, session'[s].version,
                           session'[s].status = "ACTIVE" /\ s \notin lapsed')
    <3>1. /\ TabGood(store[t].token, flight[t], login[t].answer, s, session[s].version, IsLive(s))
          /\ HeldBy(t, s) => \A u \in Tabs \ {t} : ~HeldBy(u, s)
      BY CoreOfTab
    <3>2. s = z => HeldBy(t, s) BY <1>r, <2>5 DEF HeldBy, Holds, k
    <3>3. flight[t].token.sid = z BY <2>5 DEF k
    <3>. HIDE DEF f
    <3>4. Holds(store[t].token, f, login[t].answer, s) => HeldBy(t, s)
      BY <1>r, <2>9, <2>20, <3>3 DEF Holds, HeldBy
    <3>5. TabGood(store[t].token, f, login[t].answer, s, session'[s].version,
                  session'[s].status = "ACTIVE" /\ s \notin lapsed')
      BY <1>r, <2>9, <2>12, <2>13, <2>20, <3>1, <3>3 DEF TabGood
    <3> QED BY <2>13, <3>1, <3>2, <3>4, <3>5
  <2>22. store' = [store EXCEPT ![t] = store[t]] /\ login' = [login EXCEPT ![t] = login[t]]
    BY <1>r DEF Core, TypeCore
  <2>23. DiskIsHeld' BY <1>r DEF Core, DiskIsHeld
  <2>24. shared' = shared /\ shared \subseteq Sids /\ disk' \in Store BY <1>t, <1>r DEF Core, TypeCore
  <2>. HIDE DEF f
  <2>25. /\ f.token \in Token /\ f.token.version > 0 /\ \A u \in Granted : flight[u].token # f.token
         /\ \A u \in Tabs : store[u].token # f.token
         /\ \A u \in Granted \ {t} : store[t].token # flight[u].token
         /\ Known(f.token, session')
    BY <1>t, <2>7, <2>9, <2>17, <2>19, <2>20
  <2> QED BY <1>t, <2>2, <2>16, <2>17, <2>20, <2>21, <2>22, <2>23, <2>24, <2>25, LocalStep
<1> QED BY <1>1, <1>2

-----------------------------------------------------------------------------
(***************************************************************************)
(* Stores and login pages.                                                 *)
(***************************************************************************)
\* A tab that joins the refresh in flight, or starts one with its own token.
LEMMA JoinKeeps ==
    ASSUME Core, NEW t \in Tabs, flight' = [flight EXCEPT ![t] = JoinFlight(t)],
           UNCHANGED <<session, lapsed, store, disk, login, shared>>
    PROVE  Core'
<1>1. SessionsMove /\ \A s \in Sids : session'[s].version = session[s].version BY SessionsSame
<1>2. CASE flight[t].step # "none"
  <2>1. flight' = flight BY <1>2 DEF JoinFlight, Core, TypeCore
  <2> QED BY <1>1, <2>1, QuietStep
<1>3. CASE flight[t].step = "none"
  <2>. DEFINE f == [step |-> "rotate", token |-> store[t].token]
  <2>1. flight' = [flight EXCEPT ![t] = f] BY <1>3 DEF JoinFlight
  <2>2. /\ store[t].token \in Token \cup {NoToken} /\ Known(store[t].token, session)
        /\ shared \subseteq Sids
    BY CoreOfTab DEF Core, TypeCore
  <2>3. f \in Flight /\ f.step = "rotate" /\ f.token = store[t].token BY <2>2 DEF Flight
  <2>4. ASSUME NEW s \in Sids \ shared
        PROVE  TabGood(store[t].token, f, login[t].answer, s, session[s].version,
                       session'[s].status = "ACTIVE" /\ s \notin lapsed')
    <3>1. TabGood(store[t].token, flight[t], login[t].answer, s, session[s].version, IsLive(s))
      BY CoreOfTab
    <3>. HIDE DEF f
    <3> QED BY <1>3, <2>3, <3>1 DEF TabGood
  <2>. HIDE DEF f
  <2> QED BY <1>1, <2>1, <2>2, <2>3, <2>4, FlightStep
<1> QED BY <1>2, <1>3

\* A store that changes while the sessions do not, with the refresh over or
\* as it was.
LEMMA StoreStep ==
    ASSUME Core, UNCHANGED <<session, lapsed>>, shared \subseteq shared', shared' \subseteq Sids,
           NEW t \in Tabs, NEW st \in Store, NEW f \in Flight, NEW l \in LoginPage,
           store' = [store EXCEPT ![t] = st], flight' = [flight EXCEPT ![t] = f],
           login' = [login EXCEPT ![t] = l], disk' = st,
           f = NoFlight \/ (f = flight[t] /\ \A u \in Granted : st.token # flight[u].token),
           Known(st.token, session), Known(l.answer, session), l.answer.version = 0,
           \A u \in Granted \ {t} : st.token # flight[u].token,
           \A s \in Sids \ shared' :
             /\ Holds(st.token, f, l.answer, s) => HeldBy(t, s)
             /\ TabGood(st.token, f, l.answer, s, session[s].version, IsLive(s))
    PROVE  Core'
<1>1. SessionsMove /\ \A s \in Sids : session'[s].version = session[s].version BY SessionsSame
<1>2. DiskIsHeld'
  <2>1. store'[t] = st BY DEF Core, TypeCore
  <2> QED BY <2>1 DEF DiskIsHeld
<1>3. /\ st.token \in Token \cup {NoToken} /\ l.answer \in Token \cup {NoToken}
      /\ Known(NoToken, session') /\ Known(flight[t].token, session')
  <2>1. Known(NoToken, session') BY SessionsAssumption DEF Known, Token, NoToken, SessionsAssumption
  <2>2. Known(flight[t].token, session) BY CoreOfTab
  <2> QED BY <2>1, <2>2 DEF Store, LoginPage
<1>4. NoFlight.step = "none" /\ NoFlight.token = NoToken BY DEF NoFlight
<1>5. flight[t].step \in {"revoke", "granted"} => flight[t].token \in Token BY CoreOfTab
<1>6. f.step = "granted" => f = flight[t] /\ \A u \in Granted : st.token # flight[u].token BY <1>4
<1>7. Known(st.token, session') /\ Known(f.token, session') /\ Known(l.answer, session')
  BY <1>3, <1>4
<1>8. f.step \in {"revoke", "granted"} => f.token \in Token BY <1>4, <1>5
<1>9. ASSUME NEW s \in Sids \ shared'
      PROVE  /\ Holds(st.token, f, l.answer, s) => HeldBy(t, s) \/ \A u \in Tabs : ~HeldBy(u, s)
             /\ session'[s].version = session[s].version \/ \A u \in Tabs \ {t} : ~HeldBy(u, s)
             /\ TabGood(st.token, f, l.answer, s, session'[s].version,
                        session'[s].status = "ACTIVE" /\ s \notin lapsed')
  BY DEF IsLive
<1>10. disk' \in Store OBVIOUS
<1> QED BY <1>1, <1>2, <1>6, <1>7, <1>8, <1>9, <1>10, LocalStep

\* A tab that is cleared knows nothing any more, its refresh apart.
LEMMA ClearKeeps ==
    ASSUME Core, NEW t \in Tabs, Clear(t), UNCHANGED <<session, lapsed, login, shared>>,
           NEW f \in Flight, f = NoFlight \/ f = flight[t], flight' = [flight EXCEPT ![t] = f]
    PROVE  Core'
<1>1. store' = [store EXCEPT ![t] = SignedOut] /\ disk' = SignedOut BY DEF Clear, SetStore
<1>2. SignedOut \in Store /\ SignedOut.token = NoToken BY DEF SignedOut, Store
<1>3. /\ login[t] \in LoginPage /\ login' = [login EXCEPT ![t] = login[t]]
      /\ Known(login[t].answer, session) /\ login[t].answer.version = 0 /\ shared \subseteq Sids
  BY CoreOfTab DEF Core, TypeCore
<1>4. Known(NoToken, session) /\ NoToken \notin Token /\ NoToken.sid \notin Sids
  BY SessionsAssumption DEF Known, Token, NoToken, SessionsAssumption
<1>5. \A u \in Granted : NoToken # flight[u].token BY <1>4 DEF Core, FreshGrants
<1>6. ASSUME NEW s \in Sids \ shared'
      PROVE  /\ Holds(NoToken, f, login[t].answer, s) => HeldBy(t, s)
             /\ TabGood(NoToken, f, login[t].answer, s, session[s].version, IsLive(s))
  <2>1. TabGood(store[t].token, flight[t], login[t].answer, s, session[s].version, IsLive(s))
    BY CoreOfTab
  <2>2. f.step = "none" \/ f = flight[t] BY DEF NoFlight
  <2> QED BY <1>4, <2>1, <2>2 DEF TabGood, Holds, HeldBy
<1> QED BY <1>1, <1>2, <1>3, <1>4, <1>5, <1>6, StoreStep

LEMMA TakeTokensKeeps ==
    ASSUME Core, NEW t \in Tabs, TakeTokens(t) PROVE Core'
<1>. DEFINE g == flight[t].token
            st == [store[t] EXCEPT !.token = g]
<1>t. /\ store[t] \in Store /\ login[t] \in LoginPage /\ g \in Token \cup {NoToken}
      /\ Known(g, session) /\ Known(login[t].answer, session) /\ login[t].answer.version = 0
      /\ shared \subseteq Sids /\ login' = [login EXCEPT ![t] = login[t]]
  BY CoreOfTab DEF Core, TypeCore, TakeTokens
<1>1. /\ flight[t].step = "granted" /\ store' = [store EXCEPT ![t] = st] /\ disk' = st
      /\ flight' = [flight EXCEPT ![t] = NoFlight]
      /\ UNCHANGED <<session, lapsed, shared>>
  BY DEF TakeTokens, SetStore, tables
<1>2. st \in Store /\ st.token = g
  <2>. HIDE DEF g
  <2> QED BY <1>t DEF Store
<1>3. NoFlight \in Flight /\ NoFlight.step = "none" BY DEF NoFlight, Flight
<1>4. \A u \in Granted \ {t} : g # flight[u].token
  <2>1. t \in Granted BY <1>1 DEF Granted
  <2> QED BY <2>1 DEF Core, FreshGrants
<1>5. ASSUME NEW s \in Sids \ shared'
      PROVE  /\ Holds(g, NoFlight, login[t].answer, s) => HeldBy(t, s)
             /\ TabGood(g, NoFlight, login[t].answer, s, session[s].version, IsLive(s))
  <2>1. TabGood(store[t].token, flight[t], login[t].answer, s, session[s].version, IsLive(s))
    BY <1>1, CoreOfTab
  <2> QED BY <1>1, <1>3, <2>1 DEF TabGood, Holds, HeldBy
<1>. DEFINE l == login[t]
<1>6. /\ l \in LoginPage /\ login' = [login EXCEPT ![t] = l] /\ Known(l.answer, session)
      /\ l.answer.version = 0 /\ Known(st.token, session)
      /\ \A u \in Granted \ {t} : st.token # flight[u].token
  BY <1>t, <1>2, <1>4
<1>7. \A s \in Sids \ shared' :
        /\ Holds(st.token, NoFlight, l.answer, s) => HeldBy(t, s)
        /\ TabGood(st.token, NoFlight, l.answer, s, session[s].version, IsLive(s))
  BY <1>2, <1>5
<1>8. shared \subseteq shared' /\ shared' \subseteq Sids BY <1>t, <1>1
<1>. HIDE DEF st, g, l
<1>9. /\ store' = [store EXCEPT ![t] = st] /\ flight' = [flight EXCEPT ![t] = NoFlight]
      /\ login' = [login EXCEPT ![t] = l] /\ disk' = st /\ UNCHANGED <<session, lapsed>>
      /\ Known(st.token, session) /\ Known(l.answer, session) /\ l.answer.version = 0
      /\ st \in Store /\ NoFlight \in Flight /\ l \in LoginPage
  BY <1>1, <1>2, <1>3, <1>6
<1>10. \A u \in Granted \ {t} : st.token # flight[u].token BY <1>6
<1> QED BY <1>7, <1>8, <1>9, <1>10, StoreStep

\* The user who signs in holds a session nobody else does.
LEMMA TakeSessionKeeps ==
    ASSUME Core, NEW t \in Tabs, TakeSession(t), UNCHANGED <<flight, shared>> PROVE Core'
<1>. DEFINE k == login[t].answer
            st == [token |-> k, user |-> Owner[k.sid]]
<1>t. /\ flight[t] \in Flight /\ k \in Token \cup {NoToken} /\ Known(k, session) /\ k.version = 0
      /\ shared \subseteq Sids /\ flight' = [flight EXCEPT ![t] = flight[t]]
  BY CoreOfTab DEF Core, TypeCore
<1>1. /\ k # NoToken /\ store' = [store EXCEPT ![t] = st] /\ disk' = st
      /\ login' = [login EXCEPT ![t] = AskNumber] /\ UNCHANGED <<session, lapsed>>
  BY DEF TakeSession, SetStore, tables
<1>2. k \in Token BY <1>t, <1>1
<1>3. st \in Store /\ st.token = k
  <2>1. k.sid \in Sids BY <1>2 DEF Token
  <2>2. Owner[k.sid] \in Users BY <2>1, SessionsAssumption DEF SessionsAssumption
  <2>. HIDE DEF k
  <2> QED BY <1>2, <2>2 DEF Store
<1>4. AskNumber \in LoginPage /\ AskNumber.answer = NoToken BY DEF AskNumber, LoginPage
<1>5. Known(NoToken, session) /\ NoToken.version = 0 /\ NoToken.sid \notin Sids
  BY SessionsAssumption DEF Known, Token, NoToken, SessionsAssumption
<1>6. \A u \in Granted : k # flight[u].token
  <2>1. \A u \in Granted : flight[u].token.version > 0 BY DEF Core, FreshGrants
  <2>2. ~(0 > 0) OBVIOUS
  <2> QED BY <1>t, <2>1, <2>2
<1>7. ASSUME NEW s \in Sids \ shared'
      PROVE  /\ Holds(k, flight[t], NoToken, s) => HeldBy(t, s)
             /\ TabGood(k, flight[t], NoToken, s, session[s].version, IsLive(s))
  <2>1. TabGood(store[t].token, flight[t], login[t].answer, s, session[s].version, IsLive(s))
    BY CoreOfTab
  <2> QED BY <1>5, <2>1 DEF TabGood, Holds, HeldBy
<1>. HIDE DEF st, k
<1> QED BY <1>t, <1>1, <1>3, <1>4, <1>5, <1>6, <1>7, StoreStep

\* A reload takes over what the copy in localStorage holds: another tab holds
\* it too, or it is the tab's own.
LEMMA ReloadKeeps ==
    ASSUME Core, NEW t \in Tabs, Reload(t) PROVE Core'
<1>1. /\ store' = [store EXCEPT ![t] = disk] /\ disk' = disk
      /\ flight' = [flight EXCEPT ![t] = NoFlight] /\ login' = [login EXCEPT ![t] = AskNumber]
      /\ UNCHANGED <<session, lapsed>>
  BY DEF Reload, tables
<1>2. shared' = (shared \cup {flight[t].token.sid : x \in {y \in {t} : flight[y].step = "granted"}}
                         \cup {s \in {disk.token.sid} : HeldElsewhere(t, s)}) \ {NoSid}
  BY DEF Reload
<1>3. disk \in Store /\ disk.token \in Token \cup {NoToken} /\ shared \subseteq Sids
      /\ flight[t].token \in Token \cup {NoToken}
  BY CoreOfTab DEF Core, TypeCore, Store
<1>4. shared \subseteq shared' /\ shared' \subseteq Sids
  <2>1. disk.token.sid \in Sids \cup {NoSid} /\ flight[t].token.sid \in Sids \cup {NoSid}
    BY <1>3 DEF Token, NoToken
  <2>2. NoSid \notin Sids BY SessionsAssumption DEF SessionsAssumption
  <2> QED BY <1>2, <1>3, <2>1, <2>2
<1>5. flight[t].step = "granted" /\ flight[t].token.sid \in Sids => flight[t].token.sid \in shared'
  <2>1. NoSid \notin Sids BY SessionsAssumption DEF SessionsAssumption
  <2> QED BY <1>2, <2>1
<1>6. disk.token.sid \in Sids /\ HeldElsewhere(t, disk.token.sid) => disk.token.sid \in shared'
  <2>1. NoSid \notin Sids BY SessionsAssumption DEF SessionsAssumption
  <2> QED BY <1>2, <2>1
<1>7. disk = SignedOut \/ \E w \in Tabs : store[w] = disk BY DEF Core, DiskIsHeld
<1>8. Known(disk.token, session) /\ \A u \in Granted : disk.token # flight[u].token
  <2>1. CASE disk = SignedOut
    <3>1. disk.token = NoToken /\ NoToken \notin Token
      BY <2>1, SessionsAssumption DEF SignedOut, Token, NoToken, SessionsAssumption
    <3> QED BY <3>1 DEF Known, Core, FreshGrants
  <2>2. ASSUME NEW w \in Tabs, store[w] = disk
        PROVE  Known(disk.token, session) /\ \A u \in Granted : disk.token # flight[u].token
    BY <2>2, CoreOfTab
  <2> QED BY <1>7, <2>1, <2>2
<1>9. AskNumber \in LoginPage /\ AskNumber.answer = NoToken /\ NoFlight \in Flight
      /\ NoFlight.step = "none"
  BY DEF AskNumber, LoginPage, NoFlight, Flight
<1>10. Known(NoToken, session) /\ NoToken.version = 0 /\ NoToken.sid \notin Sids
  BY SessionsAssumption DEF Known, Token, NoToken, SessionsAssumption
<1>11. ASSUME NEW s \in Sids \ shared'
       PROVE  /\ Holds(disk.token, NoFlight, NoToken, s) => HeldBy(t, s)
              /\ TabGood(disk.token, NoFlight, NoToken, s, session[s].version, IsLive(s))
  <2>1. CASE disk.token.sid # s BY <1>9, <1>10, <2>1 DEF Holds, TabGood
  <2>2. CASE disk.token.sid = s
    <3>1. disk # SignedOut BY <1>10, <2>2 DEF SignedOut
    <3>2. PICK w \in Tabs : store[w] = disk BY <1>7, <3>1
    <3>3. w = t
      <4>1. ~HeldElsewhere(t, s) BY <1>6, <2>2
      <4> QED BY <2>2, <3>2, <4>1 DEF HeldElsewhere
    <3>4. TabGood(store[t].token, flight[t], login[t].answer, s, session[s].version, IsLive(s))
      BY <1>4, CoreOfTab
    <3>5. ~(flight[t].step = "granted" /\ flight[t].token.sid = s) BY <1>5
    <3> QED BY <1>9, <1>10, <2>2, <3>2, <3>3, <3>4, <3>5 DEF Holds, HeldBy, TabGood
  <2> QED BY <2>1, <2>2
<1>12. disk' = disk BY <1>1
<1> QED BY <1>1, <1>3, <1>4, <1>8, <1>9, <1>10, <1>11, StoreStep

\* The login page asks for a code, signs in, or loses the answer.
LEMMA LoginPageKeeps ==
    ASSUME Core, NEW t \in Tabs, NEW l \in LoginPage, login' = [login EXCEPT ![t] = l],
           l.answer = login[t].answer \/ l.answer = NoToken,
           UNCHANGED <<session, lapsed, store, disk, flight, shared>>
    PROVE  Core'
<1>1. SessionsMove /\ \A s \in Sids : session'[s].version = session[s].version BY SessionsSame
<1>. DEFINE st == store[t]
            f == flight[t]
<1>2. /\ st \in Store /\ f \in Flight /\ disk \in Store
      /\ st.token \in Token \cup {NoToken} /\ f.token \in Token \cup {NoToken}
      /\ l.answer \in Token \cup {NoToken}
      /\ Known(st.token, session) /\ Known(f.token, session) /\ Known(login[t].answer, session)
      /\ login[t].answer.version = 0 /\ (f.step \in {"revoke", "granted"} => f.token \in Token)
      /\ \A u \in Granted : st.token # flight[u].token
      /\ shared \subseteq Sids
  BY CoreOfTab DEF Core, TypeCore, LoginPage
<1>3. Known(NoToken, session) /\ NoToken.version = 0 /\ NoToken.sid \notin Sids
  BY SessionsAssumption DEF Known, Token, NoToken, SessionsAssumption
<1>4. Known(st.token, session') /\ Known(f.token, session') /\ Known(l.answer, session')
      /\ l.answer.version = 0
  BY <1>2, <1>3
<1>5. store' = [store EXCEPT ![t] = st] /\ flight' = [flight EXCEPT ![t] = f] BY DEF Core, TypeCore
<1>6. DiskIsHeld' BY DEF Core, DiskIsHeld
<1>7. ASSUME NEW s \in Sids \ shared'
      PROVE  /\ Holds(st.token, f, l.answer, s) => HeldBy(t, s) \/ \A u \in Tabs : ~HeldBy(u, s)
             /\ session'[s].version = session[s].version \/ \A u \in Tabs \ {t} : ~HeldBy(u, s)
             /\ TabGood(st.token, f, l.answer, s, session'[s].version,
                        session'[s].status = "ACTIVE" /\ s \notin lapsed')
  <2>1. TabGood(store[t].token, flight[t], login[t].answer, s, session[s].version, IsLive(s))
    BY CoreOfTab
  <2> QED BY <1>3, <2>1 DEF TabGood, Holds, HeldBy, IsLive
<1>8. f.step = "granted" => f = flight[t] /\ \A u \in Granted : st.token # flight[u].token BY <1>2
<1>9. /\ disk' \in Store /\ shared \subseteq shared' /\ shared' \subseteq Sids
      /\ st \in Store /\ f \in Flight /\ (f.step \in {"revoke", "granted"} => f.token \in Token)
      /\ \A u \in Granted \ {t} : st.token # flight[u].token
  BY <1>2
<1>. HIDE DEF st, f
<1> QED BY <1>1, <1>4, <1>5, <1>6, <1>7, <1>8, <1>9, LocalStep

LEMMA VerifyKeeps ==
    ASSUME Core, NEW t \in Tabs, NEW z \in Sids, VerifyOtp(t, z), UNCHANGED <<flight, shared>>
    PROVE  Core'
<1>. DEFINE k == [sid |-> z, version |-> 0]
            l == [login[t] EXCEPT !.answer = k]
            st == store[t]
            f == flight[t]
<1>1. /\ session[z].status = "NONE" /\ session' = [session EXCEPT ![z] = NewSession]
      /\ lapsed' = lapsed /\ store' = store /\ disk' = disk
      /\ login' = [login EXCEPT ![t] = l] /\ login[t].answer = NoToken
  <2>1. login[t] = [step |-> "code", answer |-> NoToken] BY DEF VerifyOtp
  <2>2. login' = [login EXCEPT ![t] = l] BY Zenon DEF VerifyOtp
  <2> QED BY <2>1, <2>2 DEF VerifyOtp, CreateSession
<1>2. 0 \in 0..MaxVersion /\ 0 <= 0 BY SessionsAssumption DEF SessionsAssumption
<1>3. k \in Token /\ k.sid = z /\ k.version = 0 BY <1>2 DEF Token
<1>4. l \in LoginPage /\ l.answer = k
  <2>1. login[t] \in LoginPage BY CoreOfTab
  <2>. HIDE DEF k
  <2> QED BY <1>3, <2>1 DEF LoginPage
<1>5. NewSession \in Session /\ NewSession.status = "ACTIVE" /\ NewSession.version = 0
      /\ NewSession.reason = "none"
  BY <1>2 DEF NewSession, Session, Reasons
<1>6. session \in [Sids -> Session] BY DEF Core, TypeCore
<1>7. session'[z] = NewSession /\ \A s \in Sids \ {z} : session'[s] = session[s] BY <1>1, <1>6
<1>8. SessionsMove
  <2>1. session' \in [Sids -> Session] BY <1>1, <1>5, <1>6
  <2>2. ASSUME NEW s \in Sids PROVE session[s].version <= session[s].version
    <3>1. PICK v \in 0..MaxVersion : v = session[s].version BY <1>6 DEF Session
    <3>2. v <= v BY SessionsAssumption DEF SessionsAssumption
    <3> QED BY <3>1, <3>2
  <2> QED BY <1>1, <1>5, <1>7, <2>1, <2>2 DEF SessionsMove, Core, TypeCore
<1>9. /\ st \in Store /\ f \in Flight /\ disk \in Store
      /\ st.token \in Token \cup {NoToken} /\ f.token \in Token \cup {NoToken}
      /\ Known(st.token, session) /\ Known(f.token, session)
      /\ (f.step \in {"revoke", "granted"} => f.token \in Token)
      /\ \A u \in Granted : st.token # flight[u].token
      /\ shared \subseteq Sids
  BY CoreOfTab DEF Core, TypeCore
<1>10. Known(st.token, session') /\ Known(f.token, session') /\ Known(l.answer, session')
  <2>1. Known(k, session') BY <1>2, <1>3, <1>5, <1>7 DEF Known
  <2> QED BY <1>4, <1>8, <1>9, <2>1, KnownStays
<1>11. store' = [store EXCEPT ![t] = st] /\ flight' = [flight EXCEPT ![t] = f]
  BY <1>1 DEF Core, TypeCore
<1>12. DiskIsHeld' BY <1>1 DEF Core, DiskIsHeld
<1>13. \A u \in Tabs : ~HeldBy(u, z) BY <1>1, HeldExists
<1>14. ASSUME NEW s \in Sids \ shared'
       PROVE  /\ Holds(st.token, f, l.answer, s) => HeldBy(t, s) \/ \A u \in Tabs : ~HeldBy(u, s)
              /\ session'[s].version = session[s].version \/ \A u \in Tabs \ {t} : ~HeldBy(u, s)
              /\ TabGood(st.token, f, l.answer, s, session'[s].version,
                         session'[s].status = "ACTIVE" /\ s \notin lapsed')
  <2>1. TabGood(store[t].token, flight[t], login[t].answer, s, session[s].version, IsLive(s))
    BY CoreOfTab
  <2>. HIDE DEF l, k
  <2>2. CASE s = z
    <3>1. st.token.sid # s /\ (f.step = "none" \/ f.token.sid # s) BY <1>13, <2>2 DEF HeldBy, Holds
    <3>2. f.step = "revoke" => f.token.sid # s BY <3>1
    <3> QED BY <1>3, <1>4, <1>5, <1>7, <1>13, <2>2, <3>1, <3>2 DEF TabGood
  <2>3. CASE s # z
    <3>1. session'[s] = session[s] BY <1>7, <2>3
    <3>2. l.answer.sid # s BY <1>3, <1>4, <2>3
    <3> QED BY <1>1, <2>1, <3>1, <3>2 DEF TabGood, Holds, HeldBy, IsLive
  <2> QED BY <2>2, <2>3
<1>15. f.step = "granted" => f = flight[t] /\ \A u \in Granted : st.token # flight[u].token BY <1>9
<1>16. disk' \in Store /\ shared' \subseteq Sids /\ shared \subseteq shared' /\ l.answer.version = 0
  BY <1>1, <1>3, <1>4, <1>9
<1>17. /\ st \in Store /\ f \in Flight /\ l \in LoginPage /\ login' = [login EXCEPT ![t] = l]
       /\ (f.step \in {"revoke", "granted"} => f.token \in Token)
       /\ \A u \in Granted \ {t} : st.token # flight[u].token
  BY <1>1, <1>4, <1>9
<1>. HIDE DEF st, f, l, k
<1> QED BY <1>8, <1>10, <1>11, <1>12, <1>14, <1>15, <1>16, <1>17, LocalStep

-----------------------------------------------------------------------------
(***************************************************************************)
(* Every step keeps the core.                                              *)
(***************************************************************************)
LEMMA StillCore ==
    ASSUME Core, UNCHANGED <<session, lapsed, login, store, disk, flight, shared>> PROVE Core'
BY SessionsSame, QuietStep

LEMMA CallsKeepCore ==
    ASSUME Core, NEW c \in Calls, Send(c) \/ CallStep(c) \/ GoOffline(c) PROVE Core'
<1>t. TabOf[c] \in Tabs BY TabsAssumption DEF TabsAssumption
<1>1. CASE Send(c) \/ GoOffline(c) BY <1>1, StillCore DEF Send, GoOffline, tables
<1>2. CASE Serve(c)
  <2>1. CASE UNCHANGED tables BY <1>2, <2>1, StillCore DEF Serve, tables
  <2>2. CASE Admitted(call[c].token) /\ Revoke(call[c].token.sid, "LOGOUT")
    <3>1. call[c].token.sid \in Sids /\ "LOGOUT" \in Reasons BY <2>2 DEF Admitted, Active, Reasons
    <3>2. /\ SessionsMove /\ \A s \in Sids : session'[s].version = session[s].version
      BY <2>2, <3>1, RevokeOneMoves
    <3> QED BY <1>2, <3>2, QuietStep DEF Serve
  <2> QED BY <1>2, <2>1, <2>2 DEF Serve
<1>3. CASE OnUnauthorized(c)
  <2>1. CASE flight' = [flight EXCEPT ![TabOf[c]] = JoinFlight(TabOf[c])] /\ UNCHANGED <<store, disk>>
    BY <1>t, <1>3, <2>1, JoinKeeps DEF OnUnauthorized, tables
  <2>2. CASE UNCHANGED <<store, disk, flight>> BY <1>3, <2>2, StillCore DEF OnUnauthorized, tables
  <2>3. CASE Clear(TabOf[c]) /\ UNCHANGED flight
    <3>1. /\ flight[TabOf[c]] \in Flight
          /\ flight' = [flight EXCEPT ![TabOf[c]] = flight[TabOf[c]]]
      BY <1>t, <2>3 DEF Core, TypeCore
    <3> QED BY <1>t, <1>3, <2>3, <3>1, ClearKeeps DEF OnUnauthorized, tables
  <2> QED BY <1>3, <2>1, <2>2, <2>3 DEF OnUnauthorized
<1>4. CASE Finish(c)
  <2>1. CASE Clear(TabOf[c])
    <3>1. /\ flight[TabOf[c]] \in Flight
          /\ flight' = [flight EXCEPT ![TabOf[c]] = flight[TabOf[c]]]
      BY <1>t, <1>4 DEF Core, TypeCore, Finish
    <3> QED BY <1>t, <1>4, <2>1, <3>1, ClearKeeps DEF Finish, tables
  <2>2. CASE UNCHANGED <<store, disk>> BY <1>4, <2>2, StillCore DEF Finish, tables
  <2> QED BY <1>4, <2>1, <2>2 DEF Finish
<1> QED BY <1>1, <1>2, <1>3, <1>4 DEF CallStep

LEMMA LoginKeepsCore ==
    ASSUME Core, NEW t \in Tabs, Login(t) \/ LoseSession(t) PROVE Core'
<1>1. CASE RequestOtp(t) /\ Login(t)
  <2>. DEFINE l == [login[t] EXCEPT !.step = "code"]
  <2>1. l \in LoginPage /\ l.answer = login[t].answer
    <3>1. login[t] \in LoginPage BY CoreOfTab
    <3> QED BY <3>1 DEF LoginPage
  <2>2. login' = [login EXCEPT ![t] = l] BY <1>1, Zenon DEF RequestOtp
  <2>3. UNCHANGED <<session, lapsed, store, disk, flight, shared>>
    BY <1>1 DEF RequestOtp, Login, tables
  <2>. HIDE DEF l
  <2> QED BY <2>1, <2>2, <2>3, LoginPageKeeps
<1>2. CASE LoseSession(t)
  <2>. DEFINE l == [login[t] EXCEPT !.answer = NoToken]
  <2>1. l \in LoginPage /\ l.answer = NoToken
    <3>1. login[t] \in LoginPage BY CoreOfTab
    <3> QED BY <3>1 DEF LoginPage
  <2>2. login' = [login EXCEPT ![t] = l] BY <1>2, Zenon DEF LoseSession
  <2>3. UNCHANGED <<session, lapsed, store, disk, flight, shared>> BY <1>2 DEF LoseSession, tables
  <2>. HIDE DEF l
  <2> QED BY <2>1, <2>2, <2>3, LoginPageKeeps
<1>3. ASSUME NEW z \in Sids, VerifyOtp(t, z), Login(t) PROVE Core'
  BY <1>3, VerifyKeeps DEF Login
<1>4. CASE TakeSession(t) /\ Login(t) BY <1>4, TakeSessionKeeps DEF Login
<1> QED BY <1>1, <1>2, <1>3, <1>4 DEF Login

LEMMA RefreshKeepsCore ==
    ASSUME Core, NEW t \in Tabs, RefreshStep(t) \/ OnConnectError(t) PROVE Core'
<1>1. CASE RefreshRotate(t) BY <1>1, RotateKeeps
<1>2. CASE RefreshExplain(t) BY <1>2, ExplainKeeps
<1>3. CASE RefreshRevoke(t) BY <1>3, RefreshRevokeKeeps
<1>4. CASE TakeTokens(t) BY <1>4, TakeTokensKeeps
<1>5. CASE TakeDenial(t)
  <2>0. NoFlight \in Flight /\ NoFlight.step = "none" /\ NoFlight.token = NoToken
    BY DEF NoFlight, Flight
  <2>1. CASE Clear(t)
    <3>1. UNCHANGED <<session, lapsed, login, shared>> /\ flight' = [flight EXCEPT ![t] = NoFlight]
      BY <1>5 DEF TakeDenial, tables
    <3> QED BY <2>0, <2>1, <3>1, ClearKeeps
  <2>2. CASE UNCHANGED <<store, disk>>
    <3>. DEFINE f == NoFlight
    <3>1. /\ UNCHANGED <<session, lapsed, store, disk, login, shared>>
          /\ flight' = [flight EXCEPT ![t] = f] /\ shared \subseteq Sids
      BY <1>5, <2>2 DEF TakeDenial, tables, Core, TypeCore
    <3>2. SessionsMove /\ \A s \in Sids : session'[s].version = session[s].version
      BY <3>1, SessionsSame
    <3>3. f \in Flight /\ f.step = "none" /\ f.token \notin Token
      BY <2>0, SessionsAssumption DEF SessionsAssumption, Token, NoToken
    <3>4. ASSUME NEW s \in Sids \ shared
          PROVE  TabGood(store[t].token, f, login[t].answer, s, session[s].version,
                         session'[s].status = "ACTIVE" /\ s \notin lapsed')
      <4>1. TabGood(store[t].token, flight[t], login[t].answer, s, session[s].version, IsLive(s))
        BY CoreOfTab
      <4>2. flight[t].step = "denied" BY <1>5 DEF TakeDenial
      <4>. HIDE DEF f
      <4> QED BY <3>3, <4>1, <4>2 DEF TabGood
    <3>. HIDE DEF f
    <3> QED BY <3>1, <3>2, <3>3, <3>4, FlightStep
  <2> QED BY <1>5, <2>1, <2>2 DEF TakeDenial
<1>6. CASE OnConnectError(t)
  <2>1. CASE flight' = [flight EXCEPT ![t] = JoinFlight(t)] /\ UNCHANGED <<store, disk>>
    BY <1>6, <2>1, JoinKeeps DEF OnConnectError, tables
  <2>2. CASE UNCHANGED <<store, disk, flight>> BY <1>6, <2>2, StillCore DEF OnConnectError, tables
  <2>3. CASE Clear(t) /\ UNCHANGED flight
    <3>1. flight[t] \in Flight /\ flight' = [flight EXCEPT ![t] = flight[t]]
      BY <2>3 DEF Core, TypeCore
    <3> QED BY <1>6, <2>3, <3>1, ClearKeeps DEF OnConnectError, tables
  <2> QED BY <1>6, <2>1, <2>2, <2>3 DEF OnConnectError
<1> QED BY <1>1, <1>2, <1>3, <1>4, <1>5, <1>6 DEF RefreshStep

LEMMA ClockKeepsCore ==
    ASSUME Core, Clock PROVE Core'
<1>. UNCHANGED <<login, store, disk, flight, shared>> BY DEF Clock, client
<1>1. ASSUME NEW k, AccessExpires(k) PROVE Core' BY <1>1, StillCore DEF AccessExpires
<1>2. ASSUME NEW s \in Sids, SessionExpires(s) PROVE Core'
  <2>1. session' = session /\ lapsed' = lapsed \cup {s} BY <1>2 DEF SessionExpires
  <2>2. \A x \in Sids : session[x].version <= session[x].version
    <3>1. ASSUME NEW x \in Sids PROVE session[x].version <= session[x].version
      <4>1. PICK v \in 0..MaxVersion : v = session[x].version BY DEF Core, TypeCore, Session
      <4>2. v <= v BY SessionsAssumption DEF SessionsAssumption
      <4> QED BY <4>1, <4>2
    <3> QED BY <3>1
  <2>3. SessionsMove /\ \A x \in Sids : session'[x].version = session[x].version
    BY <2>1, <2>2 DEF SessionsMove, Core, TypeCore
  <2> QED BY <2>3, QuietStep
<1>3. ASSUME NEW s \in Sids, EndElsewhere(s) PROVE Core'
  <2>1. Owner[s] \in Users /\ "REVOKED_BY_USER" \in Reasons
    BY SessionsAssumption DEF SessionsAssumption, Reasons
  <2>2. SessionsMove /\ \A x \in Sids : session'[x].version = session[x].version
    <3>1. CASE Revoke(s, "REVOKED_BY_USER") BY <2>1, <3>1, RevokeOneMoves
    <3>2. CASE RevokeAll(Owner[s]) BY <2>1, <3>2, RevokeAllMoves
    <3> QED BY <1>3, <3>1, <3>2 DEF EndElsewhere
  <2> QED BY <2>2, QuietStep
<1> QED BY <1>1, <1>2, <1>3 DEF Clock

LEMMA NextKeepsCore ==
    ASSUME Core, [Next]_vars PROVE Core'
<1>1. CASE UNCHANGED vars BY <1>1, StillCore DEF vars, tables, client
<1>2. ASSUME NEW c \in Calls, Send(c) \/ CallStep(c) \/ GoOffline(c) PROVE Core'
  BY <1>2, CallsKeepCore
<1>3. ASSUME NEW t \in Tabs, Login(t) \/ LoseSession(t) PROVE Core' BY <1>3, LoginKeepsCore
<1>4. ASSUME NEW t \in Tabs, RefreshStep(t) \/ OnConnectError(t) PROVE Core'
  BY <1>4, RefreshKeepsCore
<1>5. ASSUME NEW t \in Tabs, ConnectSocket(t) \/ (Authenticate(t) /\ UNCHANGED client) PROVE Core'
  BY <1>5, StillCore DEF ConnectSocket, Authenticate, tables, client
<1>6. ASSUME NEW t \in Tabs, Reload(t) PROVE Core' BY <1>6, ReloadKeeps
<1>7. ASSUME NEW t \in Tabs, LoseAnswer(t) PROVE Core' BY <1>7, LoseAnswerKeeps
<1>8. CASE Sweep BY <1>8, StillCore DEF Sweep, SweepQuery, SweepDisconnect, tables, client
<1>9. CASE Clock BY <1>9, ClockKeepsCore
<1> QED BY <1>1, <1>2, <1>3, <1>4, <1>5, <1>6, <1>7, <1>8, <1>9 DEF Next, SocketStep

-----------------------------------------------------------------------------
(***************************************************************************)
(* Calls, sockets and the sweep.                                           *)
(***************************************************************************)
LEMMA CallRecord ==
    ASSUME NEW k \in Call, NEW x \in {"none", "sent", "resent", "unauthorized", "waiting", "served", "failed"}
    PROVE  [k EXCEPT !.step = x] \in Call
BY DEF Call

SocketStates == {"off", "asking", "refused", "waiting", "on"}

LEMMA SocketMoves ==
    ASSUME NEW k \in Socket, NEW x \in SocketStates
    PROVE  /\ [k EXCEPT !.state = x] \in Socket /\ [k EXCEPT !.state = x].state = x
           /\ [k EXCEPT !.state = x].token = k.token
BY DEF Socket, SocketStates

LEMMA SocketTries ==
    ASSUME NEW k \in Socket, NEW x \in SocketStates, NEW b \in BOOLEAN
    PROVE  /\ [k EXCEPT !.state = x, !.attempted = b] \in Socket
           /\ [k EXCEPT !.state = x, !.attempted = b].state = x
           /\ [k EXCEPT !.state = x, !.attempted = b].token = k.token
BY DEF Socket, SocketStates

LEMMA SocketAsks ==
    ASSUME NEW k \in Socket, NEW q \in Token \cup {NoToken}
    PROVE  /\ [k EXCEPT !.state = "asking", !.token = q] \in Socket
           /\ [k EXCEPT !.state = "asking", !.token = q].state = "asking"
BY DEF Socket

\* The socket of one tab changes.
LEMMA SocketStepKeeps ==
    ASSUME IInv, NEW t \in Tabs, NEW k \in Socket, k.state = "on" => k.token \in Token,
           socket' = [socket EXCEPT ![t] = k]
    PROVE  socket' \in [Tabs -> Socket] /\ SocketsCarrySessions'
BY DEF IInv, TypeRest, SocketsCarrySessions

LEMMA OffSocket == NoSocket \in Socket /\ NoSocket.state = "off"
BY DEF NoSocket, Socket

Gateway == socket \in [Tabs -> Socket] /\ doomed \subseteq [tab: Tabs, sid: Sids] /\ SocketsCarrySessions

LEMMA GatewayStays == ASSUME IInv, UNCHANGED gateway PROVE Gateway'
BY DEF IInv, TypeRest, SocketsCarrySessions, Gateway, gateway

LEMMA CallsKeepRest ==
    ASSUME IInv, NEW c \in Calls, Send(c) \/ CallStep(c) \/ GoOffline(c)
    PROVE  aged' \subseteq Token /\ call' \in [Calls -> Call] /\ faults' \in Nat /\ Gateway'
<1>t. /\ TabOf[c] \in Tabs /\ store[TabOf[c]].token \in Token \cup {NoToken}
      /\ call[c] \in Call /\ call \in [Calls -> Call] /\ aged \subseteq Token /\ faults \in Nat
  <2>1. TabOf[c] \in Tabs BY TabsAssumption DEF TabsAssumption
  <2> QED BY <2>1, CoreOfTab DEF IInv, TypeRest
<1>1. CASE Send(c)
  <2>1. [step |-> "sent", token |-> store[TabOf[c]].token] \in Call BY <1>t DEF Call
  <2> QED BY <1>t, <1>1, <2>1, GatewayStays DEF Send, tables
<1>2. CASE GoOffline(c)
  <2>1. call' = [call EXCEPT ![c] = [call[c] EXCEPT !.step = "failed"]] BY <1>2, Zenon DEF GoOffline
  <2>2. [call[c] EXCEPT !.step = "failed"] \in Call BY <1>t, CallRecord
  <2>3. faults' \in Nat BY <1>t, <1>2 DEF GoOffline
  <2> QED BY <1>t, <1>2, <2>1, <2>2, <2>3, GatewayStays DEF GoOffline, tables
<1>3. CASE Serve(c)
  <2>. DEFINE x == IF Admitted(call[c].token) THEN "served"
                   ELSE IF call[c].step = "sent" THEN "unauthorized" ELSE "failed"
  <2>1. call' = [call EXCEPT ![c] = [call[c] EXCEPT !.step = x]] BY <1>3, Zenon DEF Serve
  <2>2. x \in {"served", "unauthorized", "failed"} OBVIOUS
  <2>3. aged' = aged BY <1>3 DEF Serve, Revoke, tables
  <2>4. UNCHANGED gateway /\ faults' = faults BY <1>3 DEF Serve
  <2>5. [call[c] EXCEPT !.step = x] \in Call
    <3>. HIDE DEF x
    <3> QED BY <1>t, <2>2, CallRecord
  <2>. HIDE DEF x
  <2> QED BY <1>t, <2>1, <2>3, <2>4, <2>5, GatewayStays
<1>4. CASE OnUnauthorized(c)
  <2>1. \/ call' = [call EXCEPT ![c] = [step |-> "resent", token |-> store[TabOf[c]].token]]
        \/ call' = [call EXCEPT ![c] = [call[c] EXCEPT !.step = "waiting"]]
        \/ call' = [call EXCEPT ![c] = [call[c] EXCEPT !.step = "failed"]]
    BY <1>4, Zenon DEF OnUnauthorized
  <2>2. /\ [step |-> "resent", token |-> store[TabOf[c]].token] \in Call
        /\ [call[c] EXCEPT !.step = "waiting"] \in Call /\ [call[c] EXCEPT !.step = "failed"] \in Call
    <3>1. [step |-> "resent", token |-> store[TabOf[c]].token] \in Call BY <1>t DEF Call
    <3> QED BY <1>t, <3>1, CallRecord
  <2>3. call' \in [Calls -> Call] BY <1>t, <2>1, <2>2
  <2> QED BY <1>t, <1>4, <2>3, GatewayStays DEF OnUnauthorized, tables
<1>5. CASE Finish(c)
  <2>1. NoCall \in Call BY DEF NoCall, Call
  <2>2. call' \in [Calls -> Call] BY <1>t, <1>5, <2>1 DEF Finish
  <2>3. socket' = socket \/ socket' = [socket EXCEPT ![TabOf[c]] = NoSocket] BY <1>5 DEF Finish
  <2>4. socket' \in [Tabs -> Socket] /\ SocketsCarrySessions'
    <3>1. CASE socket' = socket BY <3>1 DEF IInv, TypeRest, SocketsCarrySessions
    <3>2. CASE socket' = [socket EXCEPT ![TabOf[c]] = NoSocket]
      BY <1>t, <3>2, OffSocket, SocketStepKeeps
    <3> QED BY <2>3, <3>1, <3>2
  <2>5. doomed' \subseteq [tab: Tabs, sid: Sids] BY <1>5 DEF Finish, IInv, TypeRest
  <2> QED BY <1>t, <1>5, <2>2, <2>4, <2>5 DEF Finish, Gateway, tables
<1> QED BY <1>1, <1>2, <1>3, <1>4, <1>5 DEF CallStep

LEMMA LoginKeepsRest ==
    ASSUME IInv, NEW t \in Tabs, Login(t) \/ LoseSession(t) \/ LoseAnswer(t)
    PROVE  aged' \subseteq Token /\ call' \in [Calls -> Call] /\ faults' \in Nat /\ Gateway'
<1>1. aged' = aged /\ call' = call /\ UNCHANGED gateway
  BY DEF Login, RequestOtp, VerifyOtp, CreateSession, TakeSession, LoseSession, LoseAnswer, tables
<1>2. faults' = faults \/ faults' = faults + 1 BY DEF Login, LoseSession, LoseAnswer
<1>3. faults \in Nat /\ aged \subseteq Token /\ call \in [Calls -> Call] BY DEF IInv, TypeRest
<1>4. faults' \in Nat BY <1>2, <1>3
<1> QED BY <1>1, <1>3, <1>4, GatewayStays

LEMMA RefreshKeepsRest ==
    ASSUME IInv, NEW t \in Tabs, RefreshStep(t)
    PROVE  aged' \subseteq Token /\ call' \in [Calls -> Call] /\ faults' \in Nat /\ Gateway'
<1>t. /\ call \in [Calls -> Call] /\ aged \subseteq Token /\ faults \in Nat
      /\ socket \in [Tabs -> Socket] /\ socket[t] \in Socket
      /\ doomed \subseteq [tab: Tabs, sid: Sids] /\ flight[t].token \in Token \cup {NoToken}
  BY CoreOfTab DEF IInv, TypeRest
<1>1. CASE RefreshRotate(t) \/ RefreshExplain(t) \/ RefreshRevoke(t)
  <2>1. aged' = aged /\ call' = call /\ faults' = faults /\ UNCHANGED gateway
    BY <1>1 DEF RefreshRotate, RefreshExplain, RefreshRevoke, RotateVersion, Revoke, tables
  <2> QED BY <1>t, <2>1, GatewayStays
<1>2. CASE TakeTokens(t)
  <2>. DEFINE g == flight[t].token
              k == IF socket[t].state = "waiting"
                   THEN [socket[t] EXCEPT !.state = "asking", !.token = g] ELSE socket[t]
  <2>1. socket' = [socket EXCEPT ![t] = k] BY <1>2, Zenon DEF TakeTokens
  <2>2. k \in Socket /\ (k.state = "on" => k.token \in Token)
    <3>1. CASE socket[t].state = "waiting"
      <4>1. k = [socket[t] EXCEPT !.state = "asking", !.token = g] BY <3>1
      <4>2. k \in Socket /\ k.state = "asking" BY <1>t, <4>1, SocketAsks
      <4> QED BY <4>2
    <3>2. CASE socket[t].state # "waiting" BY <1>t, <3>2 DEF IInv, SocketsCarrySessions
    <3> QED BY <3>1, <3>2
  <2>3. socket' \in [Tabs -> Socket] /\ SocketsCarrySessions'
    <3>. HIDE DEF k
    <3> QED BY <2>1, <2>2, SocketStepKeeps
  <2>4. call' \in [Calls -> Call]
    <3>1. [step |-> "resent", token |-> g] \in Call BY <1>t DEF Call
    <3>2. call' = [c \in Calls |-> IF c \in Waiting(t) THEN [step |-> "resent", token |-> g] ELSE call[c]]
      BY <1>2 DEF TakeTokens
    <3>. HIDE DEF g
    <3> QED BY <1>t, <3>1, <3>2
  <2>5. aged' = aged /\ faults' = faults /\ doomed' = doomed BY <1>2 DEF TakeTokens, tables
  <2> QED BY <1>t, <2>3, <2>4, <2>5 DEF Gateway
<1>3. CASE TakeDenial(t)
  <2>. DEFINE x == IF socket[t].state = "waiting" THEN "off" ELSE socket[t].state
              k == [socket[t] EXCEPT !.state = x]
  <2>1. socket' = [socket EXCEPT ![t] = k] BY <1>3, Zenon DEF TakeDenial
  <2>2. x \in SocketStates BY <1>t DEF Socket, SocketStates
  <2>3. x = "on" => socket[t].state = "on" OBVIOUS
  <2>4. k \in Socket /\ k.state = x /\ k.token = socket[t].token
    <3>. HIDE DEF x
    <3> QED BY <1>t, <2>2, SocketMoves
  <2>5. socket' \in [Tabs -> Socket] /\ SocketsCarrySessions'
    <3>1. k.state = "on" => k.token \in Token BY <2>3, <2>4 DEF IInv, SocketsCarrySessions
    <3>. HIDE DEF k
    <3> QED BY <2>1, <2>4, <3>1, SocketStepKeeps
  <2>6. call' \in [Calls -> Call]
    <3>1. call' = [c \in Calls |-> IF c \in Waiting(t) THEN [call[c] EXCEPT !.step = "failed"] ELSE call[c]]
      BY <1>3 DEF TakeDenial
    <3>2. \A c \in Calls : [call[c] EXCEPT !.step = "failed"] \in Call BY <1>t, CallRecord
    <3> QED BY <1>t, <3>1, <3>2
  <2>7. aged' = aged /\ faults' = faults /\ doomed' = doomed BY <1>3 DEF TakeDenial, tables
  <2> QED BY <1>t, <2>5, <2>6, <2>7 DEF Gateway
<1> QED BY <1>1, <1>2, <1>3 DEF RefreshStep

LEMMA SocketsKeepRest ==
    ASSUME IInv, NEW t \in Tabs,
           ConnectSocket(t) \/ OnConnectError(t) \/ Reload(t) \/ (Authenticate(t) /\ UNCHANGED client)
    PROVE  aged' \subseteq Token /\ call' \in [Calls -> Call] /\ faults' \in Nat /\ Gateway'
<1>t. /\ call \in [Calls -> Call] /\ aged \subseteq Token /\ faults \in Nat
      /\ socket[t] \in Socket /\ socket[t].token \in Token \cup {NoToken}
      /\ doomed \subseteq [tab: Tabs, sid: Sids] /\ store[t].token \in Token \cup {NoToken}
  BY CoreOfTab DEF IInv, TypeRest, Socket
<1>1. aged' = aged /\ faults' = faults /\ doomed' = doomed
  BY DEF ConnectSocket, OnConnectError, Reload, Authenticate, client, tables
<1>2. call' \in [Calls -> Call]
  <2>1. CASE call' = call BY <1>t, <2>1
  <2>2. CASE Reload(t)
    <3>1. NoCall \in Call BY DEF NoCall, Call
    <3> QED BY <1>t, <2>2, <3>1 DEF Reload
  <2> QED BY <2>1, <2>2 DEF ConnectSocket, OnConnectError, Authenticate, client
<1>3. CASE ConnectSocket(t)
  <2>. DEFINE k == [socket[t] EXCEPT !.state = "asking", !.token = store[t].token]
  <2>1. socket' = [socket EXCEPT ![t] = k]
    BY <1>3, Zenon DEF ConnectSocket
  <2>2. k \in Socket /\ k.state = "asking" BY <1>t, SocketAsks
  <2>. HIDE DEF k
  <2> QED BY <1>t, <1>1, <1>2, <2>1, <2>2, SocketStepKeeps DEF Gateway
<1>4. CASE OnConnectError(t)
  <2>1. \/ socket' = [socket EXCEPT ![t] = [socket[t] EXCEPT !.state = "off"]]
        \/ socket' = [socket EXCEPT ![t] = [socket[t] EXCEPT !.state = "waiting", !.attempted = TRUE]]
        \/ socket' = [socket EXCEPT ![t] = [socket[t] EXCEPT !.state = "off", !.attempted = TRUE]]
    BY <1>4, Zenon DEF OnConnectError
  <2>2. PICK k \in Socket : k.state # "on" /\ socket' = [socket EXCEPT ![t] = k]
    <3>1. "off" \in SocketStates /\ "waiting" \in SocketStates /\ TRUE \in BOOLEAN BY DEF SocketStates
    <3>2. /\ [socket[t] EXCEPT !.state = "off"] \in Socket
          /\ [socket[t] EXCEPT !.state = "off"].state = "off"
      BY <1>t, <3>1, SocketMoves
    <3>3. /\ [socket[t] EXCEPT !.state = "waiting", !.attempted = TRUE] \in Socket
          /\ [socket[t] EXCEPT !.state = "waiting", !.attempted = TRUE].state = "waiting"
      BY <1>t, <3>1, SocketTries
    <3>4. /\ [socket[t] EXCEPT !.state = "off", !.attempted = TRUE] \in Socket
          /\ [socket[t] EXCEPT !.state = "off", !.attempted = TRUE].state = "off"
      BY <1>t, <3>1, SocketTries
    <3>5. "off" # "on" /\ "waiting" # "on" OBVIOUS
    <3> QED BY Zenon, <2>1, <3>2, <3>3, <3>4, <3>5
  <2> QED BY <1>t, <1>1, <1>2, <2>2, SocketStepKeeps DEF Gateway
<1>5. CASE Reload(t)
  <2>1. socket' = [socket EXCEPT ![t] = NoSocket] BY <1>5 DEF Reload
  <2> QED BY <1>t, <1>1, <1>2, <2>1, OffSocket, SocketStepKeeps DEF Gateway
<1>6. CASE Authenticate(t)
  <2>. DEFINE x == IF Admitted(socket[t].token) THEN "on" ELSE "refused"
              b == IF Admitted(socket[t].token) THEN FALSE ELSE socket[t].attempted
              k == [socket[t] EXCEPT !.state = x, !.attempted = b]
  <2>1. socket' = [socket EXCEPT ![t] = k] BY <1>6, Zenon DEF Authenticate
  <2>2. x \in SocketStates /\ b \in BOOLEAN BY <1>t DEF SocketStates, Socket
  <2>3. x = "on" => socket[t].token \in Token
    <3>1. ASSUME Admitted(socket[t].token) PROVE socket[t].token \in Token
      BY <1>t, <3>1, TokenOfSession DEF Admitted, Active
    <3> QED BY <3>1
  <2>4. k \in Socket /\ k.state = x /\ k.token = socket[t].token
    <3>. HIDE DEF x, b
    <3>1. \A z \in SocketStates, y \in BOOLEAN :
            /\ [socket[t] EXCEPT !.state = z, !.attempted = y] \in Socket
            /\ [socket[t] EXCEPT !.state = z, !.attempted = y].state = z
            /\ [socket[t] EXCEPT !.state = z, !.attempted = y].token = socket[t].token
      BY Zenon, <1>t, SocketTries
    <3> QED BY Zenon, <2>2, <3>1
  <2>5. k.state = "on" => k.token \in Token BY <2>3, <2>4
  <2>. HIDE DEF k, x, b
  <2> QED BY <1>t, <1>1, <1>2, <2>1, <2>4, <2>5, SocketStepKeeps DEF Gateway
<1> QED BY <1>3, <1>4, <1>5, <1>6

LEMMA ClockAndSweepKeepRest ==
    ASSUME IInv, Clock \/ Sweep
    PROVE  aged' \subseteq Token /\ call' \in [Calls -> Call] /\ faults' \in Nat /\ Gateway'
<1>t. call' \in [Calls -> Call] /\ faults' \in Nat BY DEF Clock, Sweep, client, IInv, TypeRest
<1>1. CASE Clock
  <2>1. aged' \subseteq Token
    <3>1. aged \subseteq Token BY DEF IInv, TypeRest
    <3>2. ASSUME NEW t \in Tabs, store[t].token # NoToken, AccessExpires(store[t].token)
          PROVE  aged' \subseteq Token
      <4>1. store[t].token \in Token BY <3>2, CoreOfTab DEF IInv
      <4> QED BY <3>1, <3>2, <4>1 DEF AccessExpires
    <3>3. ASSUME NEW s \in Sids, SessionExpires(s) \/ EndElsewhere(s) PROVE aged' = aged
      BY <3>3 DEF SessionExpires, EndElsewhere, Revoke, RevokeAll
    <3> QED BY <1>1, <3>1, <3>2, <3>3 DEF Clock
  <2> QED BY <1>t, <1>1, <2>1, GatewayStays DEF Clock
<1>2. CASE Sweep
  <2>1. aged' \subseteq Token BY <1>2 DEF Sweep, SweepQuery, SweepDisconnect, tables, IInv, TypeRest
  <2>2. CASE SweepQuery
    <3>1. \A t \in Tabs : Ended(t) => socket[t].token.sid \in Sids
      BY DEF IInv, SocketsCarrySessions, Ended, Token
    <3>2. doomed' \subseteq [tab: Tabs, sid: Sids] BY <2>2, <3>1 DEF SweepQuery
    <3> QED BY <1>t, <2>1, <2>2, <3>2 DEF SweepQuery, Gateway, IInv, TypeRest, SocketsCarrySessions
  <2>3. CASE SweepDisconnect
    <3>1. \A t \in Tabs : socket'[t] = NoSocket \/ socket'[t] = socket[t]
      BY <2>3 DEF SweepDisconnect
    <3>2. socket' \in [Tabs -> Socket]
      BY <2>3, OffSocket DEF SweepDisconnect, IInv, TypeRest
    <3>3. SocketsCarrySessions' BY <3>1, OffSocket DEF IInv, SocketsCarrySessions
    <3> QED BY <1>t, <2>1, <2>3, <3>2, <3>3 DEF SweepDisconnect, Gateway
  <2> QED BY <1>2, <2>2, <2>3 DEF Sweep
<1> QED BY <1>1, <1>2

LEMMA NextKeeps ==
    ASSUME IInv, [Next]_vars PROVE IInv'
<1>1. Core' BY NextKeepsCore DEF IInv
<1>2. aged' \subseteq Token /\ call' \in [Calls -> Call] /\ faults' \in Nat /\ Gateway'
  <2>1. CASE UNCHANGED vars
    BY <2>1 DEF vars, tables, gateway, client, IInv, TypeRest, Gateway, SocketsCarrySessions
  <2>2. ASSUME NEW c \in Calls, Send(c) \/ CallStep(c) \/ GoOffline(c) PROVE <1>2!:
    BY <2>2, CallsKeepRest
  <2>3. ASSUME NEW t \in Tabs, Login(t) \/ LoseSession(t) \/ LoseAnswer(t) PROVE <1>2!:
    BY <2>3, LoginKeepsRest
  <2>4. ASSUME NEW t \in Tabs, RefreshStep(t) PROVE <1>2!: BY <2>4, RefreshKeepsRest
  <2>5. ASSUME NEW t \in Tabs, ConnectSocket(t) \/ SocketStep(t) \/ Reload(t) PROVE <1>2!:
    BY <2>5, SocketsKeepRest DEF SocketStep
  <2>6. CASE Sweep \/ Clock BY <2>6, ClockAndSweepKeepRest
  <2> QED BY <2>1, <2>2, <2>3, <2>4, <2>5, <2>6 DEF Next
<1> QED BY <1>1, <1>2 DEF IInv, TypeRest, Gateway

LEMMA InitKeeps == ASSUME Init PROVE IInv
<1>1. 0 \in 0..MaxVersion /\ NoSid \notin Sids BY SessionsAssumption DEF SessionsAssumption
<1>2. /\ AskNumber \in LoginPage /\ AskNumber.answer = NoToken /\ NoFlight \in Flight
      /\ NoFlight.step = "none" /\ NoFlight.token = NoToken /\ SignedOut \in Store
      /\ SignedOut.token = NoToken /\ NoCall \in Call /\ NoToken.sid = NoSid /\ NoToken.version = 0
      /\ NoToken \notin Token
  BY <1>1 DEF AskNumber, LoginPage, NoFlight, Flight, SignedOut, Store, NoCall, Call, NoToken, Token
<1>. DEFINE new == [NewSession EXCEPT !.status = "NONE"]
<1>3. new \in Session /\ new.status = "NONE" /\ new.reason = "none"
  BY <1>1 DEF NewSession, Session, Reasons
<1>4. TypeCore
  <2>. HIDE DEF new
  <2>1. session = [s \in Sids |-> new] BY DEF Init, ServerInit, new
  <2> QED BY <1>2, <1>3, <2>1 DEF Init, ServerInit, TypeCore
<1>5. AllKnown BY <1>2 DEF Init, AllKnown, Known
<1>6. DiskIsHeld BY DEF Init, DiskIsHeld
<1>7. FreshGrants /\ Pending BY <1>2 DEF Init, FreshGrants, Pending, Granted
<1>8. ASSUME NEW s \in Sids \ shared PROVE Unshared(s)
  <2>1. \A t \in Tabs : ~HeldBy(t, s) BY <1>1, <1>2 DEF Init, HeldBy, Holds
  <2>2. session[s].reason # "REUSE_DETECTED" BY <1>3 DEF Init, ServerInit
  <2> QED BY <2>1, <2>2, NotHeldIsGood DEF Unshared, HeldBy
<1>9. TypeRest /\ SocketsCarrySessions
  BY <1>2, OffSocket, TabsAssumption DEF Init, ServerInit, TypeRest, SocketsCarrySessions, TabsAssumption
<1> QED BY <1>4, <1>5, <1>6, <1>7, <1>8, <1>9 DEF Core, IInv

-----------------------------------------------------------------------------
\* The inductive invariant holds in every reachable state (SessionTabs.tla).
THEOREM Invariance == Spec => []IInv
<1>1. Init => IInv BY InitKeeps
<1>2. IInv /\ [Next]_vars => IInv' BY NextKeeps
<1> QED BY <1>1, <1>2, PTL DEF Spec

\* Every variable keeps its type.
THEOREM Typed == Spec => []TypeOK
<1>1. IInv => TypeOK BY DEF IInv, Core, TypeCore, TypeRest, TypeOK
<1> QED BY <1>1, Invariance, PTL

\* Of the refreshes that present one token one is granted, its answer is held
\* by nobody else and is not ahead of the session (session.service.ts:66).
THEOREM OneGrant == Spec => []OneSuccessor
<1>1. IInv => OneSuccessor BY DEF IInv, Core, FreshGrants, AllKnown, Known, Granted, OneSuccessor
<1> QED BY <1>1, Invariance, PTL

\* The reuse detection never ends a session that one honest tab holds
\* (session.service.ts:149, api-client.ts:59).
THEOREM NoFalseAlarm == Spec => []OnlySharedTokensReused
<1>1. IInv => OnlySharedTokensReused BY DEF IInv, Core, Unshared, OnlySharedTokensReused
<1> QED BY <1>1, Invariance, PTL

\* No step of any actor revives an ended session or rewrites why it ended
\* (session.service.ts:95, :172).
THEOREM EndedForGood == Spec => RevokedIsFinal
<1>1. ASSUME IInv, [Next]_vars
      PROVE  [\A s \in Sids : session[s].status = "REVOKED" => session'[s] = session[s]]_session
  <2>1. session \in [Sids -> Session] BY <1>1 DEF IInv, Core, TypeCore
  <2>2. SUFFICES ASSUME NEW s \in Sids, session[s].status = "REVOKED", session' # session
                 PROVE  session'[s] = session[s]
    BY <2>1
  <2>3. ASSUME NEW z \in Sids, CreateSession(z) PROVE session'[s] = session[s]
    <3>1. z # s /\ session' = [session EXCEPT ![z] = NewSession]
      BY <2>2, <2>3 DEF CreateSession
    <3> QED BY <2>1, <3>1
  <2>4. ASSUME NEW k, Rotates(k), RotateVersion(k) PROVE session'[s] = session[s]
    <3>1. k.sid # s BY <2>2, <2>4 DEF Rotates, Active
    <3>2. session' = [session EXCEPT ![k.sid].version = session[k.sid].version + 1]
      BY <2>4, Zenon DEF RotateVersion
    <3> QED BY <2>1, <3>1, <3>2
  <2>5. ASSUME NEW z, NEW r, Revoke(z, r) PROVE session'[s] = session[s]
    <3>1. session' = [session EXCEPT ![z] = [session[z] EXCEPT !.status = "REVOKED", !.reason = r]]
          /\ session[z].status = "ACTIVE"
      BY <2>2, <2>5, Zenon DEF Revoke, Revoked
    <3>2. z # s BY <2>2, <3>1
    <3> QED BY <2>1, <3>1, <3>2
  <2>6. ASSUME NEW w, RevokeAll(w) PROVE session'[s] = session[s]
    <3>1. session'[s] = IF Owner[s] = w THEN Revoked(s, "LOGOUT_ALL")[s] ELSE session[s]
      BY <2>6 DEF RevokeAll
    <3>2. Revoked(s, "LOGOUT_ALL") = session BY <2>2 DEF Revoked
    <3> QED BY <3>1, <3>2
  <2>7. \/ \E z \in Sids : CreateSession(z)
        \/ \E k : Rotates(k) /\ RotateVersion(k)
        \/ \E z, r : Revoke(z, r)
        \/ \E w : RevokeAll(w)
    <3>1. CASE UNCHANGED vars BY <2>2, <3>1 DEF vars, tables
    <3>2. ASSUME NEW c \in Calls, Send(c) \/ CallStep(c) \/ GoOffline(c) PROVE <2>7!:
      BY <2>2, <3>2 DEF Send, CallStep, GoOffline, Serve, OnUnauthorized, Finish, tables
    <3>3. ASSUME NEW t \in Tabs, Login(t) PROVE <2>7!:
      BY <2>2, <3>3 DEF Login, RequestOtp, VerifyOtp, TakeSession, tables
    <3>4. ASSUME NEW t \in Tabs, RefreshStep(t) PROVE <2>7!:
      BY <2>2, <3>4 DEF RefreshStep, RefreshRotate, RefreshExplain, RefreshRevoke, TakeTokens,
                        TakeDenial, tables
    <3>5. ASSUME NEW t \in Tabs, ConnectSocket(t) \/ SocketStep(t) \/ Reload(t) \/ LoseAnswer(t)
                                 \/ LoseSession(t)
          PROVE  <2>7!:
      BY <2>2, <3>5 DEF ConnectSocket, SocketStep, Authenticate, OnConnectError, Reload, LoseAnswer,
                        LoseSession, tables
    <3>6. CASE Sweep BY <2>2, <3>6 DEF Sweep, SweepQuery, SweepDisconnect, tables
    <3>7. CASE Clock
      BY <2>2, <3>7 DEF Clock, AccessExpires, SessionExpires, EndElsewhere
    <3> QED BY <1>1, <3>1, <3>2, <3>3, <3>4, <3>5, <3>6, <3>7 DEF Next
  <2> QED BY <2>3, <2>4, <2>5, <2>6, <2>7
<1> QED BY <1>1, Invariance, PTL DEF Spec, RevokedIsFinal

-----------------------------------------------------------------------------
(***************************************************************************)
(* Accounts and their codes for any number of subjects, handlers, codes    *)
(* and attempts, whatever dies half way (the behaviours of AccountsSpec).  *)
(***************************************************************************)
\* What a request has established when it is at step k.step: the record it
\* writes back had an attempt left, and what it attaches is an email.
Informed(k) ==
    /\ k.step \in {"ttl", "writeBack"} => k.code.attempts + 1 < MaxAttempts
    /\ k.step \in {"attachLoad", "attachSave"} => k.subject \in Emails

AccountsInv ==
    /\ AccountsTypeOK
    /\ \A p \in Handlers : Informed(h[p])
    /\ OneEmailOwner
    /\ CountersExpire

-----------------------------------------------------------------------------
(***************************************************************************)
(* What the fields of the state hold, one fact at a time.                  *)
(***************************************************************************)
LEMMA Limits ==
    ASSUME AccountsAssumption
    PROVE  /\ MaxAttempts \in Nat /\ MaxAttempts > 0 /\ MaxCodes \in Nat /\ MaxHits \in Nat
           /\ MaxPerHour \in Nat /\ MaxPerHour > 0
BY DEF AccountsAssumption

LEMMA HandlerFields ==
    ASSUME AccountsTypeOK, NEW p \in Handlers
    PROVE  /\ h[p] \in Handler
           /\ h[p].step \in Steps /\ h[p].user \in Phones /\ h[p].subject \in Subjects
           /\ h[p].guess \in 0..MaxCodes /\ h[p].code \in Code /\ h[p].doc \in Account
<1>1. h[p] \in Handler BY DEF AccountsTypeOK
<1> QED BY <1>1 DEF Handler

LEMMA Blanks ==
    ASSUME AccountsAssumption
    PROVE  NoCode \in Code /\ NoWindow \in Window /\ NewAccount \in Account /\ NoAccount \in Account
<1>1. NoCode \in Code /\ NoWindow \in Window BY Limits DEF NoCode, Code, NoWindow, Window
<1>2. NewAccount \in Account /\ NoAccount \in Account BY DEF NewAccount, NoAccount, Account
<1> QED BY <1>1, <1>2

LEMMA IdleTyped ==
    ASSUME AccountsAssumption, NEW u \in Phones
    PROVE  Idle(u) \in Handler /\ Informed(Idle(u)) /\ Idle(u).step = "idle"
<1>1. u \in Subjects /\ "idle" \in Steps /\ 0 \in 0..MaxCodes BY Limits DEF Subjects, Steps
<1> QED BY <1>1, Blanks DEF Idle, Handler, Informed

(***************************************************************************)
(* The properties of a step that touches one handler.                      *)
(***************************************************************************)
\* One handler moves to k: neither the accounts nor the counters change, and
\* it was not about to set an expiry.
LEMMA Moves ==
    ASSUME AccountsInv, NEW p \in Handlers, NEW k \in Handler, Informed(k),
           h' = [h EXCEPT ![p] = k], h[p].step # "expire",
           code' \in [Subjects -> Code], issued' \in [Subjects -> 0..MaxCodes], cooldown' \subseteq Subjects,
           users' \in [Phones -> Account], OneEmailOwner', UNCHANGED <<window, orphaned>>
    PROVE  AccountsInv'
<1>1. h' \in [Handlers -> Handler] /\ \A q \in Handlers : h'[q] = IF q = p THEN k ELSE h[q]
  BY DEF AccountsInv, AccountsTypeOK
<1>2. AccountsTypeOK' BY <1>1 DEF AccountsInv, AccountsTypeOK
<1>3. ASSUME NEW q \in Handlers PROVE Informed(h[q])'
  <2>1. PICK j : j = h'[q] OBVIOUS
  <2>2. Informed(j) BY <1>1, <2>1 DEF AccountsInv
  <2> QED BY <2>1, <2>2 DEF Informed
<1>4. CountersExpire'
  <2>1. SUFFICES ASSUME NEW s \in Subjects, window[s].count > 0, ~window[s].timed
                 PROVE  (\E q \in Handlers : h'[q].step = "expire" /\ h'[q].subject = s) \/ s \in orphaned
    BY DEF CountersExpire
  <2>2. (\E q \in Handlers : h[q].step = "expire" /\ h[q].subject = s) \/ s \in orphaned
    BY <2>1 DEF AccountsInv, CountersExpire
  <2> QED BY <1>1, <2>2
<1> QED BY <1>2, <1>3, <1>4 DEF AccountsInv

\* A request that returns.
LEMMA Returns ==
    ASSUME AccountsAssumption, AccountsInv, NEW p \in Handlers, Return(p), h[p].step # "expire",
           code' \in [Subjects -> Code], issued' \in [Subjects -> 0..MaxCodes], cooldown' \subseteq Subjects,
           users' \in [Phones -> Account], OneEmailOwner', UNCHANGED <<window, orphaned>>
    PROVE  AccountsInv'
<1>1. h[p].user \in Phones BY HandlerFields DEF AccountsInv
<1>2. PICK k \in Handler : k = Idle(h[p].user) BY <1>1, IdleTyped
<1>3. Informed(k) BY <1>1, <1>2, IdleTyped
<1>4. h' = [h EXCEPT ![p] = k] BY <1>2 DEF Return
<1> QED BY <1>3, <1>4, Moves

\* A request that goes on to a step that needs nothing new.
LEMMA Advances ==
    ASSUME AccountsInv, NEW p \in Handlers, NEW step \in Steps \ {"ttl", "writeBack", "attachLoad", "attachSave"}, Go(p, step), h[p].step # "expire",
           code' \in [Subjects -> Code], issued' \in [Subjects -> 0..MaxCodes], cooldown' \subseteq Subjects,
           users' \in [Phones -> Account], OneEmailOwner', UNCHANGED <<window, orphaned>>
    PROVE  AccountsInv'
<1> DEFINE k == [h[p] EXCEPT !.step = step]
<1>1. h[p] \in Handler BY HandlerFields DEF AccountsInv
<1>2. k \in Handler /\ k.step = step BY <1>1 DEF Handler
<1>3. Informed(k) BY <1>2 DEF Informed
<1>4. h' = [h EXCEPT ![p] = k] BY DEF Go
<1> HIDE DEF k
<1> QED BY <1>2, <1>3, <1>4, Moves

LEMMA NothingSaved ==
    ASSUME AccountsInv, UNCHANGED <<redis, users>>
    PROVE  /\ code' \in [Subjects -> Code] /\ issued' \in [Subjects -> 0..MaxCodes] /\ cooldown' \subseteq Subjects
           /\ users' \in [Phones -> Account] /\ OneEmailOwner'
BY DEF AccountsInv, AccountsTypeOK, OneEmailOwner, redis
\* A step that writes the code of one subject and nothing else.
CodeSaved ==
    /\ code' \in [Subjects -> Code] /\ issued' \in [Subjects -> 0..MaxCodes] /\ cooldown' \subseteq Subjects
    /\ users' \in [Phones -> Account] /\ OneEmailOwner'

LEMMA Replaced ==
    ASSUME AccountsInv, NEW s \in Subjects, NEW c \in Code, code' = [code EXCEPT ![s] = c],
           UNCHANGED <<issued, cooldown, users>>
    PROVE  CodeSaved
BY DEF CodeSaved, AccountsInv, AccountsTypeOK, OneEmailOwner

\* A call that has just begun.
IsCall(p) == \E k \in Handler : Informed(k) /\ h' = [h EXCEPT ![p] = k]

LEMMA Opened ==
    ASSUME AccountsAssumption, NEW p \in Handlers, NEW u \in Phones
    PROVE  /\ h' = [h EXCEPT ![p] = [Idle(u) EXCEPT !.step = "cooldown"]] => IsCall(p)
           /\ \A guess \in 0..MaxCodes :
                h' = [h EXCEPT ![p] = [Idle(u) EXCEPT !.step = "get", !.guess = guess]] => IsCall(p)
           /\ \A s \in Emails :
                h' = [h EXCEPT ![p] = [Idle(u) EXCEPT !.step = "attachLoad", !.subject = s]] => IsCall(p)
           /\ \A s \in Subjects, doc \in Account, guess \in 0..MaxCodes :
                h' = [h EXCEPT ![p] = [Idle(u) EXCEPT !.step = "get", !.guess = guess,
                                                      !.subject = s, !.doc = doc]] => IsCall(p)
<1>1. PICK idle \in Handler : idle = Idle(u) BY IdleTyped
<1>2. ASSUME NEW k \in Handler, k.step \in {"cooldown", "get"}, h' = [h EXCEPT ![p] = k] PROVE IsCall(p)
  BY <1>2 DEF IsCall, Informed
<1> DEFINE a == [idle EXCEPT !.step = "cooldown"]
<1>3. a \in Handler /\ a.step = "cooldown" BY DEF Handler, Steps
<1>4. ASSUME NEW guess \in 0..MaxCodes, h' = [h EXCEPT ![p] = [idle EXCEPT !.step = "get", !.guess = guess]]
      PROVE  IsCall(p)
  <2> DEFINE k == [idle EXCEPT !.step = "get", !.guess = guess]
  <2>1. k \in Handler /\ k.step = "get" BY DEF Handler, Steps
  <2> HIDE DEF k
  <2>2. h' = [h EXCEPT ![p] = k] BY <1>4 DEF k
  <2> QED BY <1>2, <2>1, <2>2
<1>5. ASSUME NEW s \in Emails, h' = [h EXCEPT ![p] = [idle EXCEPT !.step = "attachLoad", !.subject = s]]
      PROVE  IsCall(p)
  <2> DEFINE k == [idle EXCEPT !.step = "attachLoad", !.subject = s]
  <2>1. k \in Handler /\ k.step = "attachLoad" /\ k.subject = s BY DEF Handler, Steps, Subjects
  <2> HIDE DEF k
  <2>2. h' = [h EXCEPT ![p] = k] BY <1>5 DEF k
  <2> QED BY <2>1, <2>2 DEF IsCall, Informed
<1>6. ASSUME NEW s \in Subjects, NEW doc \in Account, NEW guess \in 0..MaxCodes,
             h' = [h EXCEPT ![p] = [idle EXCEPT !.step = "get", !.guess = guess, !.subject = s, !.doc = doc]]
      PROVE  IsCall(p)
  <2> DEFINE k == [idle EXCEPT !.step = "get", !.guess = guess, !.subject = s, !.doc = doc]
  <2>1. k \in Handler /\ k.step = "get" BY DEF Handler, Steps
  <2> HIDE DEF k
  <2>2. h' = [h EXCEPT ![p] = k] BY <1>6 DEF k
  <2> QED BY <1>2, <2>1, <2>2
<1> HIDE DEF a
<1>7. h' = [h EXCEPT ![p] = a] => IsCall(p) BY <1>2, <1>3
<1> QED BY <1>1, <1>4, <1>5, <1>6, <1>7 DEF a

\* A save that changes the pending email of one account.
LEMMA PendingSaved ==
    ASSUME AccountsInv, NEW p \in Handlers, AttachSave(p)
    PROVE  users' \in [Phones -> Account] /\ OneEmailOwner'
<1> DEFINE u == h[p].user
           pending == SetIfModified(h[p].doc.pending, h[p].subject, users[u].pending)
           saved == [users[u] EXCEPT !.pending = pending]
<1>1. users \in [Phones -> Account] /\ u \in Phones BY HandlerFields DEF AccountsInv, AccountsTypeOK
<1>2. users' = [users EXCEPT ![u] = saved] BY DEF AttachSave
<1>3. pending \in Emails \cup {NoEmail}
  <2>1. h[p].subject \in Emails BY DEF AttachSave, AccountsInv, Informed
  <2>2. users[u].pending \in Emails \cup {NoEmail} BY <1>1 DEF Account
  <2> QED BY <2>1, <2>2 DEF SetIfModified
<1>4. users[u] \in Account BY <1>1
<1>5. saved \in Account /\ saved.email = users[u].email BY <1>3, <1>4 DEF Account
<1> HIDE DEF saved
<1>6. users' \in [Phones -> Account] BY <1>1, <1>2, <1>5
<1>7. \A v \in Phones : users'[v].email = users[v].email BY <1>1, <1>2, <1>5
<1>8. OneEmailOwner' BY <1>7 DEF AccountsInv, OneEmailOwner
<1> QED BY <1>6, <1>8

\* The counter of a window moves, or a request dies.
LEMMA OthersKeep ==
    ASSUME AccountsInv, NEW p \in Handlers, NEW k \in Handler, Informed(k), h' = [h EXCEPT ![p] = k],
           window' \in [Subjects -> Window], CountersExpire', orphaned' \subseteq Subjects,
           UNCHANGED <<code, issued, cooldown, users>>
    PROVE  AccountsInv'
<1>1. h' \in [Handlers -> Handler] /\ \A q \in Handlers : h'[q] = IF q = p THEN k ELSE h[q]
  BY DEF AccountsInv, AccountsTypeOK
<1>2. AccountsTypeOK' BY <1>1 DEF AccountsInv, AccountsTypeOK
<1>3. ASSUME NEW q \in Handlers PROVE Informed(h[q])'
  <2>1. PICK j : j = h'[q] OBVIOUS
  <2>2. Informed(j) BY <1>1, <2>1 DEF AccountsInv
  <2> QED BY <2>1, <2>2 DEF Informed
<1>4. OneEmailOwner' BY DEF AccountsInv, OneEmailOwner
<1> QED BY <1>2, <1>3, <1>4 DEF AccountsInv

-----------------------------------------------------------------------------
(***************************************************************************)
(* Asking for a code.                                                      *)
(***************************************************************************)
LEMMA CallsBegin ==
    ASSUME AccountsAssumption, AccountsInv, NEW p \in Handlers, SignInCall(p) \/ EmailCall(p)
    PROVE  AccountsInv'
<1>1. h[p].step = "idle" /\ UNCHANGED <<redis, users, orphaned>>
  BY DEF SignInCall, EmailCall, RequestPhoneOtp, VerifyPhoneOtp, AttachEmail, VerifyEmail
<1>2. IsCall(p)
  <2>1. CASE SignInCall(p)
    <3>1. PICK u \in SignIns : RequestPhoneOtp(p, u) \/ \E guess \in 0..issued[u] : VerifyPhoneOtp(p, u, guess)
      BY <2>1 DEF SignInCall
    <3>2. u \in Phones /\ u \in Subjects BY DEF AccountsAssumption, Subjects
    <3>3. issued[u] \in 0..MaxCodes BY <3>2 DEF AccountsInv, AccountsTypeOK
    <3>4. CASE RequestPhoneOtp(p, u) BY <3>2, <3>4, Opened DEF RequestPhoneOtp
    <3>5. ASSUME NEW guess \in 0..issued[u], VerifyPhoneOtp(p, u, guess) PROVE IsCall(p)
      <4>1. guess \in 0..MaxCodes BY <3>3, Limits
      <4> QED BY <3>2, <3>5, <4>1, Opened DEF VerifyPhoneOtp
    <3> QED BY <3>1, <3>4, <3>5
  <2>2. CASE EmailCall(p)
    <3>1. PICK u \in Phones : \/ \E e \in Emails : AttachEmail(p, u, e)
                             \/ \E guess \in 0..MaxCodes : VerifyEmail(p, u, guess)
      BY <2>2 DEF EmailCall
    <3>2. ASSUME NEW e \in Emails, AttachEmail(p, u, e) PROVE IsCall(p)
      BY <3>2, Opened DEF AttachEmail
    <3>3. ASSUME NEW guess \in 0..MaxCodes, VerifyEmail(p, u, guess) PROVE IsCall(p)
      <4>1. users[u] \in Account BY DEF AccountsInv, AccountsTypeOK
      <4>2. users[u].pending \in Emails BY <3>3, <4>1 DEF VerifyEmail, Account
      <4>3. users[u].pending \in Subjects BY <4>2 DEF Subjects
      <4> QED BY <3>3, <4>1, <4>3, Opened DEF VerifyEmail
    <3> QED BY <3>1, <3>2, <3>3
  <2> QED BY <2>1, <2>2
<1>3. PICK k \in Handler : Informed(k) /\ h' = [h EXCEPT ![p] = k] BY <1>2 DEF IsCall
<1> QED BY <1>1, <1>3, Moves, NothingSaved DEF redis

LEMMA RequestSteps ==
    ASSUME AccountsAssumption, AccountsInv, NEW p \in Handlers,
           AttachLoad(p) \/ AttachSave(p) \/ CheckCooldown(p) \/ StoreCode(p) \/ StartCooldown(p)
    PROVE  AccountsInv'
<1>1. h[p].user \in Phones /\ h[p].subject \in Subjects /\ h[p] \in Handler BY HandlerFields DEF AccountsInv
<1>2. CASE AttachLoad(p)
  <2> DEFINE k == [h[p] EXCEPT !.step = "attachSave", !.doc = users[h[p].user]]
  <2>1. users[h[p].user] \in Account BY <1>1 DEF AccountsInv, AccountsTypeOK
  <2>2. k \in Handler /\ k.step = "attachSave" /\ k.subject = h[p].subject BY <1>1, <2>1 DEF Handler, Steps
  <2>3. Informed(k) BY <1>2, <2>2 DEF Informed, AccountsInv, AttachLoad
  <2>4. h' = [h EXCEPT ![p] = k] BY <1>2 DEF AttachLoad
  <2>5. h[p].step # "expire" /\ UNCHANGED <<redis, users, orphaned>> BY <1>2 DEF AttachLoad
  <2> HIDE DEF k
  <2> QED BY <2>2, <2>3, <2>4, <2>5, Moves, NothingSaved DEF redis
<1>3. CASE AttachSave(p)
  <2> DEFINE k == [h[p] EXCEPT !.step = "cooldown", !.doc = NoAccount]
             u == h[p].user
             pending == SetIfModified(h[p].doc.pending, h[p].subject, users[u].pending)
  <2>1. k \in Handler /\ k.step = "cooldown" BY <1>1, Blanks DEF Handler, Steps
  <2>2. Informed(k) BY <2>1 DEF Informed
  <2>3. h' = [h EXCEPT ![p] = k] /\ h[p].step # "expire" /\ UNCHANGED <<redis, orphaned>>
        /\ users' = [users EXCEPT ![u].pending = pending]
    BY <1>3 DEF AttachSave
  <2>4. users' \in [Phones -> Account] /\ OneEmailOwner'
    BY <1>1, <1>3, PendingSaved DEF AttachSave
  <2> HIDE DEF k
  <2>5. code' \in [Subjects -> Code] /\ issued' \in [Subjects -> 0..MaxCodes] /\ cooldown' \subseteq Subjects
    BY <2>3 DEF AccountsInv, AccountsTypeOK, redis
  <2> QED BY <2>1, <2>2, <2>3, <2>4, <2>5, Moves DEF redis
<1>4. CASE CheckCooldown(p)
  <2>1. h[p].step # "expire" /\ UNCHANGED <<redis, users, orphaned>> /\ (Return(p) \/ Go(p, "consume"))
    BY <1>4 DEF CheckCooldown
  <2>2. "consume" \in Steps BY DEF Steps
  <2> QED BY <2>1, <2>2, Returns, Advances, NothingSaved DEF redis
<1>5. CASE StoreCode(p)
  <2>1. h[p].step # "expire" /\ UNCHANGED <<cooldown, window, users, orphaned>> /\ Go(p, "cool")
    BY <1>5 DEF StoreCode
  <2>2. issued[h[p].subject] \in 0..MaxCodes /\ issued[h[p].subject] < MaxCodes
    BY <1>1, <1>5 DEF StoreCode, AccountsInv, AccountsTypeOK
  <2>3. issued[h[p].subject] + 1 \in 0..MaxCodes BY <2>2, Limits
  <2>4. [rank |-> issued[h[p].subject] + 1, attempts |-> 0] \in Code BY <2>3, Limits DEF Code
  <2>5. code' \in [Subjects -> Code] /\ issued' \in [Subjects -> 0..MaxCodes]
    BY <1>5, <2>3, <2>4 DEF StoreCode, AccountsInv, AccountsTypeOK
  <2>6. users' \in [Phones -> Account] /\ OneEmailOwner' /\ cooldown' \subseteq Subjects
    BY <2>1 DEF AccountsInv, AccountsTypeOK, OneEmailOwner
  <2>7. "cool" \in Steps BY DEF Steps
  <2> QED BY <2>1, <2>5, <2>6, <2>7, Advances
<1>6. CASE StartCooldown(p)
  <2>1. h[p].step # "expire" /\ UNCHANGED <<code, issued, window, users, orphaned>> /\ Return(p)
        /\ cooldown' = cooldown \cup {h[p].subject}
    BY <1>6 DEF StartCooldown
  <2>2. /\ code' \in [Subjects -> Code] /\ issued' \in [Subjects -> 0..MaxCodes] /\ cooldown' \subseteq Subjects
        /\ users' \in [Phones -> Account] /\ OneEmailOwner'
    BY <1>1, <2>1 DEF AccountsInv, AccountsTypeOK, OneEmailOwner
  <2> QED BY <2>1, <2>2, Returns
<1> QED BY <1>2, <1>3, <1>4, <1>5, <1>6

(***************************************************************************)
(* The counter of a window: the request that starts it sets its expiry     *)
(* with its next command, and only its death comes between.                *)
(***************************************************************************)
LEMMA WindowSteps ==
    ASSUME AccountsAssumption, AccountsInv, NEW p \in Handlers, Consume(p) \/ ExpireWindow(p) \/ Crash(p)
    PROVE  AccountsInv'
<1> DEFINE s == h[p].subject
<1>1. h[p].user \in Phones /\ s \in Subjects /\ h[p] \in Handler BY HandlerFields DEF AccountsInv
<1>2. window \in [Subjects -> Window] /\ window[s].count \in 0..MaxHits BY <1>1 DEF AccountsInv, AccountsTypeOK, Window
<1>3. \A k \in Subjects : window[k].count > 0 /\ ~window[k].timed
        => (\E q \in Handlers : h[q].step = "expire" /\ h[q].subject = k) \/ k \in orphaned
  BY DEF AccountsInv, CountersExpire
<1>4. PICK idle \in Handler : idle = Idle(h[p].user) /\ idle.step = "idle" BY <1>1, IdleTyped
<1>5. CASE Consume(p)
  <2>1. h[p].step = "consume" /\ window' = [window EXCEPT ![s].count = window[s].count + 1]
        /\ window[s].count + 1 <= MaxHits /\ UNCHANGED <<code, issued, cooldown, users, orphaned>>
    BY <1>5 DEF Consume
  <2>2. window' \in [Subjects -> Window]
    <3>1. window[s].count + 1 \in 0..MaxHits BY <1>2, <2>1, Limits
    <3>2. window[s] \in Window BY <1>1, <1>2
    <3>3. [window[s] EXCEPT !.count = window[s].count + 1] \in Window BY <3>1, <3>2 DEF Window
    <3> QED BY <1>2, <2>1, <3>3
  <2>3. \A k \in Subjects \ {s} : window'[k] = window[k] BY <1>2, <2>1
  <2>4. window'[s].timed = window[s].timed BY <1>1, <1>2, <2>1 DEF Window
  <2>5. PICK k \in Handler : /\ Informed(k) /\ h' = [h EXCEPT ![p] = k]
                             /\ window[s].count = 0 => k.step = "expire" /\ k.subject = s
    <3> DEFINE e == [h[p] EXCEPT !.step = "expire"]
               r == [h[p] EXCEPT !.step = "store"]
    <3>1. e \in Handler /\ e.step = "expire" /\ e.subject = s BY <1>1 DEF Handler, Steps
    <3>2. r \in Handler /\ r.step = "store" BY <1>1 DEF Handler, Steps
    <3>3. Informed(e) /\ Informed(r) /\ Informed(idle) BY <1>4, <3>1, <3>2 DEF Informed
    <3>4. CASE window[s].count = 0
      <4>1. h' = [h EXCEPT ![p] = e] BY <1>5, <3>4 DEF Consume, StartsWindow, Go
      <4> HIDE DEF e
      <4> QED BY <3>1, <3>3, <4>1
    <3>5. CASE window[s].count # 0
      <4>1. window[s].count + 1 # 1 BY <1>2, <3>5
      <4>2. h' = [h EXCEPT ![p] = r] \/ h' = [h EXCEPT ![p] = idle]
        BY <1>4, <1>5, <4>1 DEF Consume, StartsWindow, Go, Return
      <4> HIDE DEF r
      <4> QED BY <3>2, <3>3, <3>5, <4>2
    <3> QED BY <3>4, <3>5
  <2>6. h' \in [Handlers -> Handler] /\ \A q \in Handlers : h'[q] = IF q = p THEN k ELSE h[q]
    BY <2>5 DEF AccountsInv, AccountsTypeOK
  <2>7. CountersExpire'
    <3>1. SUFFICES ASSUME NEW j \in Subjects, window'[j].count > 0, ~window'[j].timed
                   PROVE  (\E q \in Handlers : h'[q].step = "expire" /\ h'[q].subject = j) \/ j \in orphaned'
      BY DEF CountersExpire
    <3>2. CASE j = s /\ window[s].count = 0 BY <2>5, <2>6, <3>2
    <3>3. CASE ~(j = s /\ window[s].count = 0)
      <4>1. window[j].count > 0 /\ ~window[j].timed
        <5>1. CASE j = s BY <1>2, <2>4, <3>1, <3>3, <5>1
        <5>2. CASE j # s BY <2>3, <3>1, <5>2
        <5> QED BY <5>1, <5>2
      <4>2. (\E q \in Handlers : h[q].step = "expire" /\ h[q].subject = j) \/ j \in orphaned BY <1>3, <4>1
      <4> QED BY <2>1, <2>6, <4>2
    <3> QED BY <3>2, <3>3
  <2>8. orphaned' \subseteq Subjects BY <2>1 DEF AccountsInv, AccountsTypeOK
  <2> QED BY <2>1, <2>2, <2>5, <2>7, <2>8, OthersKeep
<1>6. CASE ExpireWindow(p)
  <2> DEFINE k == [h[p] EXCEPT !.step = "store"]
  <2>1. window' = [window EXCEPT ![s].timed = window[s].count > 0] /\ h' = [h EXCEPT ![p] = k]
        /\ UNCHANGED <<code, issued, cooldown, users, orphaned>>
    BY <1>6 DEF ExpireWindow, Go
  <2>2. k \in Handler /\ k.step = "store" BY <1>1 DEF Handler, Steps
  <2>3. Informed(k) BY <2>2 DEF Informed
  <2>4. /\ window' \in [Subjects -> Window]
        /\ \A j \in Subjects \ {s} : window'[j] = window[j]
        /\ window'[s].count = window[s].count /\ (window[s].count > 0 => window'[s].timed)
    <3>1. window[s] \in Window /\ (window[s].count > 0) \in BOOLEAN BY <1>1, <1>2
    <3>2. PICK timed \in BOOLEAN : timed = (window[s].count > 0) BY <3>1
    <3>3. window' = [window EXCEPT ![s].timed = timed] BY <2>1, <3>2
    <3>4. [window[s] EXCEPT !.timed = timed] \in Window BY <3>1 DEF Window
    <3>5. window' \in [Subjects -> Window] BY <1>2, <3>3, <3>4
    <3>6. window'[s].count = window[s].count /\ window'[s].timed = timed BY <1>1, <1>2, <3>3 DEF Window
    <3>7. \A j \in Subjects \ {s} : window'[j] = window[j] BY <1>2, <3>3
    <3>8. window[s].count > 0 => timed BY <3>2
    <3> QED BY <3>5, <3>6, <3>7, <3>8
  <2>5. CountersExpire'
    <3>1. SUFFICES ASSUME NEW j \in Subjects, window'[j].count > 0, ~window'[j].timed
                   PROVE  (\E q \in Handlers : h'[q].step = "expire" /\ h'[q].subject = j) \/ j \in orphaned'
      BY DEF CountersExpire
    <3>2. j # s
      <4> SUFFICES ASSUME j = s PROVE FALSE OBVIOUS
      <4>1. window'[s].count > 0 BY <3>1
      <4>3. window[s].count > 0 BY <2>4, <4>1
      <4>2. window'[s].timed BY <2>4, <4>3
      <4> QED BY <3>1, <4>2
    <3>3. window[j].count > 0 /\ ~window[j].timed BY <2>4, <3>1, <3>2
    <3>4. CASE j \in orphaned BY <2>1, <3>4
    <3>5. ASSUME NEW q \in Handlers, h[q].step = "expire", h[q].subject = j
          PROVE  h'[q].step = "expire" /\ h'[q].subject = j
      <4>1. q # p BY <3>2, <3>5
      <4>2. h'[q] = h[q] BY <2>1, <4>1
      <4> QED BY <3>5, <4>2
    <3> QED BY <1>3, <3>3, <3>4, <3>5
  <2>6. orphaned' \subseteq Subjects BY <2>1 DEF AccountsInv, AccountsTypeOK
  <2> HIDE DEF k
  <2> QED BY <2>1, <2>2, <2>3, <2>4, <2>5, <2>6, OthersKeep
<1>7. CASE Crash(p)
  <2>1. h' = [h EXCEPT ![p] = idle] /\ UNCHANGED <<redis, users>>
        /\ orphaned' = IF h[p].step = "expire" THEN orphaned \cup {s} ELSE orphaned
    BY <1>4, <1>7 DEF Crash, Return
  <2>2. Informed(idle) BY <1>4 DEF Informed
  <2>3. orphaned' \subseteq Subjects BY <1>1, <2>1 DEF AccountsInv, AccountsTypeOK
  <2>4. CountersExpire'
    <3>1. SUFFICES ASSUME NEW j \in Subjects, window[j].count > 0, ~window[j].timed
                   PROVE  (\E q \in Handlers : h'[q].step = "expire" /\ h'[q].subject = j) \/ j \in orphaned'
      BY <2>1 DEF CountersExpire, redis
    <3>2. CASE j \in orphaned BY <2>1, <3>2
    <3>3. ASSUME NEW q \in Handlers, h[q].step = "expire", h[q].subject = j
          PROVE  (h'[q].step = "expire" /\ h'[q].subject = j) \/ j \in orphaned'
      <4>1. CASE q = p BY <2>1, <3>3, <4>1
      <4>2. CASE q # p BY <2>1, <3>3, <4>2
      <4> QED BY <4>1, <4>2
    <3> QED BY <1>3, <3>1, <3>2, <3>3
  <2>5. window' \in [Subjects -> Window] /\ UNCHANGED <<code, issued, cooldown, users>> BY <1>2, <2>1 DEF redis
  <2> QED BY <1>4, <2>1, <2>2, <2>3, <2>4, <2>5, OthersKeep
<1> QED BY <1>5, <1>6, <1>7
-----------------------------------------------------------------------------
(***************************************************************************)
(* Checking a code, and what the account becomes of it.                    *)
(***************************************************************************)
LEMMA VerifySteps ==
    ASSUME AccountsAssumption, AccountsInv, NEW p \in Handlers,
           GetCode(p) \/ DropCode(p) \/ AcceptCode(p) \/ CheckTtl(p) \/ WriteBack(p)
    PROVE  AccountsInv'
<1> DEFINE s == h[p].subject
           record == code[s]
<1>1. h[p].user \in Phones /\ s \in Subjects /\ h[p] \in Handler /\ h[p].code \in Code BY HandlerFields DEF AccountsInv
<1>2. record \in Code /\ record.rank \in 0..MaxCodes /\ record.attempts \in 0..MaxAttempts
  BY <1>1 DEF AccountsInv, AccountsTypeOK, Code
<1>3. CASE GetCode(p)
  <2> DEFINE step == Verdict(record, h[p].guess)
             kept == IF step = "ttl" THEN record ELSE NoCode
             k == [h[p] EXCEPT !.step = step, !.guess = 0, !.code = kept]
  <2>1. step \in {"idle", "drop", "accept", "ttl"} BY DEF Verdict
  <2>2. step = "ttl" => record.attempts + 1 < MaxAttempts BY <1>2, Limits DEF Verdict
  <2>3. kept \in Code /\ (step = "ttl" => kept = record) BY <1>2, Blanks
  <2>4. step \in Steps /\ 0 \in 0..MaxCodes BY <2>1, Limits DEF Steps
  <2>5. h' = [h EXCEPT ![p] = k] /\ h[p].step # "expire" /\ UNCHANGED <<redis, users, orphaned>> BY <1>3 DEF GetCode
  <2> HIDE DEF step, kept
  <2>6. k \in Handler /\ k.step = step /\ k.code = kept BY <1>1, <2>3, <2>4 DEF Handler
  <2>7. Informed(k) BY <2>1, <2>2, <2>3, <2>6 DEF Informed
  <2> HIDE DEF k
  <2> QED BY <2>5, <2>6, <2>7, Moves, NothingSaved DEF redis
<1>4. CASE DropCode(p)
  <2>1. h[p].step # "expire" /\ UNCHANGED <<issued, cooldown, window, users, orphaned>> /\ Return(p)
        /\ code' = [code EXCEPT ![s] = NoCode]
    BY <1>4 DEF DropCode
  <2>2. CodeSaved BY <1>1, <2>1, Blanks, Replaced
  <2> QED BY <2>1, <2>2, Returns DEF CodeSaved
<1>5. CASE AcceptCode(p)
  <2>1. /\ h[p].step # "expire" /\ UNCHANGED <<issued, cooldown, window, users, orphaned>>
        /\ Go(p, "findUser") \/ Go(p, "emailSave")
    BY <1>5 DEF AcceptCode
  <2>2. code' = [code EXCEPT ![s] = NoCode] BY <1>5 DEF AcceptCode
  <2>3. CodeSaved BY <1>1, <2>1, <2>2, Blanks, Replaced
  <2>4. "findUser" \in Steps /\ "emailSave" \in Steps BY DEF Steps
  <2> QED BY <2>1, <2>3, <2>4, Advances DEF CodeSaved
<1>6. CASE CheckTtl(p)
  <2>1. h[p].step = "ttl" /\ UNCHANGED <<redis, users, orphaned>> /\ (Return(p) \/ Go(p, "writeBack"))
    BY <1>6 DEF CheckTtl
  <2>2. CASE Return(p) BY <2>1, <2>2, Returns, NothingSaved DEF redis
  <2>3. CASE Go(p, "writeBack")
    <3> DEFINE k == [h[p] EXCEPT !.step = "writeBack"]
    <3>1. k \in Handler /\ k.step = "writeBack" /\ k.code = h[p].code BY <1>1 DEF Handler, Steps
    <3>2. Informed(k) BY <2>1, <3>1 DEF Informed, AccountsInv
    <3>3. h' = [h EXCEPT ![p] = k] BY <2>3 DEF Go
    <3> HIDE DEF k
    <3> QED BY <2>1, <3>1, <3>2, <3>3, Moves, NothingSaved DEF redis
  <2> QED BY <2>1, <2>2, <2>3
<1>7. CASE WriteBack(p)
  <2> DEFINE back == [h[p].code EXCEPT !.attempts = h[p].code.attempts + 1]
  <2>1. h[p].step = "writeBack" /\ UNCHANGED <<issued, cooldown, window, users, orphaned>> /\ Return(p)
        /\ code' = [code EXCEPT ![s] = back]
    BY <1>7 DEF WriteBack
  <2>2. h[p].code.attempts + 1 < MaxAttempts BY <2>1 DEF AccountsInv, Informed
  <2>3. h[p].code.attempts \in 0..MaxAttempts BY <1>1 DEF Code
  <2>4. h[p].code.attempts + 1 \in 0..MaxAttempts BY <2>2, <2>3, Limits
  <2>5. back \in Code BY <1>1, <2>4 DEF Code
  <2> HIDE DEF back
  <2>6. CodeSaved BY <1>1, <2>1, <2>5, Replaced
  <2> QED BY <2>1, <2>6, Returns DEF CodeSaved
<1> QED BY <1>3, <1>4, <1>5, <1>6, <1>7

\* The unique index is what keeps an email to one account: the check of
\* attachEmail is many awaits old when the document is saved.
LEMMA AccountSteps ==
    ASSUME AccountsAssumption, AccountsInv, NEW p \in Handlers, FindUser(p) \/ CreateUser(p) \/ EmailSave(p)
    PROVE  AccountsInv'
<1> DEFINE u == h[p].user
           e == h[p].doc.pending
<1>1. u \in Phones /\ h[p].doc \in Account BY HandlerFields DEF AccountsInv
<1>2. users \in [Phones -> Account] /\ users[u] \in Account BY <1>1 DEF AccountsInv, AccountsTypeOK
<1>3. CASE FindUser(p)
  <2>1. h[p].step # "expire" /\ UNCHANGED <<redis, users, orphaned>> /\ (Return(p) \/ Go(p, "createUser"))
    BY <1>3 DEF FindUser
  <2>2. "createUser" \in Steps BY DEF Steps
  <2> QED BY <2>1, <2>2, Returns, Advances, NothingSaved DEF redis
<1>4. ASSUME NEW row \in Account, users' = [users EXCEPT ![u] = row],
             row.email = NoEmail \/ row.email = users[u].email \/ Unclaimed(u, row.email)
      PROVE  users' \in [Phones -> Account] /\ OneEmailOwner'
  <2>1. users' \in [Phones -> Account] /\ users'[u] = row /\ \A v \in Phones \ {u} : users'[v] = users[v]
    BY <1>1, <1>2, <1>4
  <2>2. \A v \in Phones \ {u} : row.email # NoEmail => users[v].email # row.email
    BY <1>1, <1>4 DEF Unclaimed, AccountsInv, OneEmailOwner
  <2>3. OneEmailOwner' BY <2>1, <2>2 DEF AccountsInv, OneEmailOwner
  <2> QED BY <2>1, <2>3
<1>5. CASE CreateUser(p)
  <2> DEFINE row == IF users[u].known THEN users[u] ELSE NewAccount
  <2>1. h[p].step # "expire" /\ UNCHANGED <<redis, orphaned>> /\ Return(p) /\ users' = [users EXCEPT ![u] = row]
    BY <1>5 DEF CreateUser
  <2>2. row \in Account /\ (row.email = NoEmail \/ row.email = users[u].email)
    BY <1>2, Blanks DEF NewAccount
  <2> HIDE DEF row
  <2>3. users' \in [Phones -> Account] /\ OneEmailOwner' BY <1>4, <2>1, <2>2
  <2>4. code' \in [Subjects -> Code] /\ issued' \in [Subjects -> 0..MaxCodes] /\ cooldown' \subseteq Subjects
    BY <2>1 DEF AccountsInv, AccountsTypeOK, redis
  <2> QED BY <2>1, <2>3, <2>4, Returns DEF redis
<1>6. CASE EmailSave(p)
  <2> DEFINE email == SetIfModified(h[p].doc.email, e, users[u].email)
             row == [users[u] EXCEPT !.email = email, !.pending = NoEmail]
  <2>1. h[p].step # "expire" /\ UNCHANGED <<redis, orphaned>> /\ Return(p)
    BY <1>6 DEF EmailSave
  <2>2. users' \in [Phones -> Account] /\ OneEmailOwner'
    <3>1. CASE ~Unclaimed(u, e)
      <4>1. users' = users BY <1>6, <3>1 DEF EmailSave
      <4> QED BY <4>1 DEF AccountsInv, AccountsTypeOK, OneEmailOwner
    <3>2. CASE Unclaimed(u, e)
      <4>1. users' = [users EXCEPT ![u] = row] BY <1>6, <3>2 DEF EmailSave
      <4>2. email = e \/ email = users[u].email BY DEF SetIfModified
      <4>3. email \in Emails \cup {NoEmail} BY <1>1, <1>2, <4>2 DEF Account
      <4>4. row \in Account /\ row.email = email BY <1>2, <4>3 DEF Account
      <4> HIDE DEF row, email
      <4> QED BY <1>4, <3>2, <4>1, <4>2, <4>4
    <3> QED BY <3>1, <3>2
  <2>3. code' \in [Subjects -> Code] /\ issued' \in [Subjects -> 0..MaxCodes] /\ cooldown' \subseteq Subjects
    BY <2>1 DEF AccountsInv, AccountsTypeOK, redis
  <2> QED BY <2>1, <2>2, <2>3, Returns DEF redis
<1> QED BY <1>3, <1>5, <1>6

(***************************************************************************)
(* A key that reaches its expiry.                                          *)
(***************************************************************************)
LEMMA KeySteps ==
    ASSUME AccountsAssumption, AccountsInv, NEW s \in Subjects, CodeExpires(s) \/ CooldownEnds(s) \/ WindowEnds(s)
    PROVE  AccountsInv'
<1>1. h' = h /\ users' = users /\ orphaned' = orphaned /\ issued' = issued
  BY DEF CodeExpires, CooldownEnds, WindowEnds
<1>2. code' \in [Subjects -> Code]
  BY Blanks DEF CodeExpires, CooldownEnds, WindowEnds, AccountsInv, AccountsTypeOK
<1>3. cooldown' \subseteq Subjects BY DEF CodeExpires, CooldownEnds, WindowEnds, AccountsInv, AccountsTypeOK
<1>4. window' \in [Subjects -> Window] /\ \A j \in Subjects : window'[j] = window[j] \/ window'[j] = NoWindow
  BY Blanks DEF CodeExpires, CooldownEnds, WindowEnds, AccountsInv, AccountsTypeOK
<1>5. AccountsTypeOK' BY <1>1, <1>2, <1>3, <1>4 DEF AccountsInv, AccountsTypeOK
<1>6. CountersExpire'
  <2>1. SUFFICES ASSUME NEW j \in Subjects, window'[j].count > 0, ~window'[j].timed
                 PROVE  (\E q \in Handlers : h[q].step = "expire" /\ h[q].subject = j) \/ j \in orphaned
    BY <1>1 DEF CountersExpire
  <2>2. window'[j] # NoWindow BY <2>1 DEF NoWindow
  <2>3. window'[j] = window[j] BY <1>4, <2>2
  <2> QED BY <2>1, <2>3 DEF AccountsInv, CountersExpire
<1>7. \A q \in Handlers : Informed(h[q])' BY <1>1 DEF AccountsInv, Informed
<1>8. OneEmailOwner' BY <1>1 DEF AccountsInv, OneEmailOwner
<1> QED BY <1>5, <1>6, <1>7, <1>8 DEF AccountsInv

-----------------------------------------------------------------------------
LEMMA AccountsInitInv == AccountsAssumption /\ AccountsInit => AccountsInv
<1> SUFFICES ASSUME AccountsAssumption, AccountsInit PROVE AccountsInv OBVIOUS
<1>1. PICK u \in Phones : u = CHOOSE v \in Phones : TRUE BY DEF AccountsAssumption
<1>2. PICK idle \in Handler : idle = Idle(u) /\ Informed(idle) BY IdleTyped
<1>3. h = [p \in Handlers |-> idle] BY <1>1, <1>2 DEF AccountsInit
<1>4. code \in [Subjects -> Code] /\ window \in [Subjects -> Window] BY Blanks DEF AccountsInit
<1>5. issued \in [Subjects -> 0..MaxCodes] BY Limits DEF AccountsInit
<1>6. users \in [Phones -> Account] BY Blanks DEF AccountsInit
<1>7. AccountsTypeOK BY <1>3, <1>4, <1>5, <1>6 DEF AccountsInit, AccountsTypeOK
<1>8. OneEmailOwner BY DEF AccountsInit, OneEmailOwner, NewAccount, NoAccount
<1>9. CountersExpire BY DEF AccountsInit, CountersExpire, NoWindow
<1>10. \A p \in Handlers : Informed(h[p]) BY <1>2, <1>3
<1> QED BY <1>7, <1>8, <1>9, <1>10 DEF AccountsInv

LEMMA AccountsNextKeeps ==
    ASSUME AccountsAssumption, AccountsInv, [AccountsNext]_accountVars
    PROVE  AccountsInv'
<1>1. CASE UNCHANGED accountVars
  BY <1>1 DEF accountVars, redis, AccountsInv, AccountsTypeOK, Informed, OneEmailOwner, CountersExpire
<1>2. ASSUME NEW p \in Handlers, Continue(p) PROVE AccountsInv'
  BY <1>2, RequestSteps, WindowSteps, VerifySteps, AccountSteps DEF Continue
<1>3. ASSUME NEW p \in Handlers, SignInCall(p) \/ EmailCall(p) \/ Crash(p) PROVE AccountsInv'
  BY <1>3, CallsBegin, WindowSteps
<1>4. ASSUME NEW s \in Subjects, CodeExpires(s) \/ CooldownEnds(s) \/ WindowEnds(s) PROVE AccountsInv'
  BY <1>4, KeySteps
<1> QED BY <1>1, <1>2, <1>3, <1>4 DEF AccountsNext

\* The invariant holds in every reachable state.
THEOREM AccountsInvariance == AccountsSpec => []AccountsInv
<1>1. AccountsInit => AccountsInv BY AccountsInitInv, AccountsAssumption
<1>2. AccountsInv /\ [AccountsNext]_accountVars => AccountsInv' BY AccountsNextKeeps, AccountsAssumption
<1> QED BY <1>1, <1>2, PTL DEF AccountsSpec

\* Every variable keeps its type: no counter passes its bound, whatever a
\* request writes back over what others wrote meanwhile.
THEOREM AccountsTyped == AccountsSpec => []AccountsTypeOK
<1>1. AccountsInv => AccountsTypeOK BY DEF AccountsInv
<1> QED BY <1>1, AccountsInvariance, PTL

\* Two accounts never share an email, however many requests attach it and
\* prove it at the same time: the unique index judges the save, not the check
\* attachEmail made long before.
THEOREM EmailBelongsToOne == AccountsSpec => []OneEmailOwner
<1>1. AccountsInv => OneEmailOwner BY DEF AccountsInv
<1> QED BY <1>1, AccountsInvariance, PTL

\* A counter that was started has its expiry, or the request that started it
\* is about to set it, or that very request died between INCR and EXPIRE.  The
\* last case does refuse a subject for ever (rate-limit.service.ts:12 says it
\* does not); no other interleaving or death of the handlers does.
THEOREM OnlyADeathOrphans == AccountsSpec => []CountersExpire
<1>1. AccountsInv => CountersExpire BY DEF AccountsInv
<1> QED BY <1>1, AccountsInvariance, PTL
=============================================================================
