---------------------------- MODULE SessionTabs -----------------------------
(***************************************************************************)
(* The tabs of one browser against the session table: apiFetch with its    *)
(* single refresh in flight, the auth store each tab keeps in memory and   *)
(* persists for all of them, sign-out, and the chat socket.                *)
(*                                                                         *)
(* A tab is single threaded: what a promise continuation does before its   *)
(* next await is one action.                                               *)
(***************************************************************************)
EXTENDS Sessions

CONSTANTS
    Calls,       \* authenticated calls in progress at the same time
    TabOf,       \* TabOf[c]: the tab that makes call c
    SignOuts,    \* the calls that are a sign-out
    ChatTabs,    \* the tabs that open a conversation
    Operations,  \* what the environment does in this instance
    MaxFaults    \* bound on lost answers and failed calls

ASSUME TabsAssumption ==
    /\ TabOf \in [Calls -> Tabs] /\ SignOuts \subseteq Calls /\ ChatTabs \subseteq Tabs
    /\ Operations \subseteq {"expire", "elsewhere", "reload", "lose", "offline"}
    /\ MaxFaults \in Nat

VARIABLES
    login,    \* login[t]: the step of the login page of tab t
    store,    \* store[t]: the tokens and the user in the memory of tab t
    disk,     \* the copy in localStorage, written by every change of a store
    flight,   \* flight[t]: refreshInFlight and how far the server is with it
    call,     \* call[c]: an apiFetch and the token it was sent with
    shared,   \* sessions whose refresh token two honest holders may present
    faults

client == <<login, store, disk, flight, call, shared, faults>>
vars   == <<tables, gateway, client>>

Store     == [token: Token \cup {NoToken}, user: Users \cup {NoUser}]
SignedOut == [token |-> NoToken, user |-> NoUser]

Flight   == [step: {"none", "rotate", "explain", "revoke", "granted", "denied"},
             token: Token \cup {NoToken}]
NoFlight == [step |-> "none", token |-> NoToken]

Call   == [step: {"none", "sent", "resent", "unauthorized", "waiting", "served", "failed"},
           token: Token \cup {NoToken}]
NoCall == [step |-> "none", token |-> NoToken]

\* The form asks for a number, then for the code that was sent to it; what the
\* server answered with, NoToken until then, is still to be stored.
LoginPage == [step: {"phone", "code"}, answer: Token \cup {NoToken}]
AskNumber == [step |-> "phone", answer |-> NoToken]

\* setSession, setTokens and clearSession of the store, persisted at once.
SetStore(t, s) == store' = [store EXCEPT ![t] = s] /\ disk' = s
Clear(t) == SetStore(t, SignedOut)

-----------------------------------------------------------------------------
(***************************************************************************)
(* The login page of a tab that is signed out.  One call is in progress at *)
(* most: its button is disabled while it loads, and a refusal or a failure *)
(* leaves the form as it is.                                               *)
(***************************************************************************)
RequestOtp(t) ==
    /\ login[t].step = "phone"
    /\ login' = [login EXCEPT ![t].step = "code"]
    /\ UNCHANGED <<tables, store, disk>>

\* The server creates the session and answers with its tokens.
VerifyOtp(t, s) ==
    /\ login[t] = [step |-> "code", answer |-> NoToken]
    /\ CreateSession(s)
    /\ login' = [login EXCEPT ![t].answer = [sid |-> s, version |-> 0]]
    /\ UNCHANGED <<store, disk>>

\* setSession, then the page gives way to the start screen.
TakeSession(t) ==
    LET answer == login[t].answer IN
    /\ answer # NoToken
    /\ SetStore(t, [token |-> answer, user |-> Owner[answer.sid]])
    /\ login' = [login EXCEPT ![t] = AskNumber]
    /\ UNCHANGED tables

Login(t) ==
    /\ store[t].user = NoUser
    /\ RequestOtp(t) \/ (\E s \in Sids : VerifyOtp(t, s)) \/ TakeSession(t)
    /\ UNCHANGED <<gateway, flight, call, shared, faults>>

\* A page of a signed-in user calls the API, or signOut does.
Send(c) ==
    LET t == TabOf[c] IN
    /\ call[c].step = "none" /\ store[t].user # NoUser
    /\ call' = [call EXCEPT ![c] = [step |-> "sent", token |-> store[t].token]]
    /\ UNCHANGED <<tables, gateway, store, disk, flight, shared, faults, login>>

\* AuthGuard, then the route: logout is the one that touches the session.
Serve(c) ==
    /\ call[c].step \in {"sent", "resent"}
    /\ IF Admitted(call[c].token)
       THEN /\ call' = [call EXCEPT ![c].step = "served"]
            /\ IF c \in SignOuts THEN Revoke(call[c].token.sid, "LOGOUT") ELSE UNCHANGED tables
       ELSE /\ call' = [call EXCEPT ![c].step = IF @ = "sent" THEN "unauthorized" ELSE "failed"]
            /\ UNCHANGED tables
    /\ UNCHANGED <<gateway, store, disk, flight, shared, faults, login>>

\* Mutant: every caller starts a refresh of its own.
RefreshAnyway(t) == [step |-> "rotate", token |-> store[t].token]

\* refreshSession: the refresh in flight, or a new one.
JoinFlight(t) == IF flight[t].step = "none"
                 THEN [step |-> "rotate", token |-> store[t].token]
                 ELSE flight[t]

\* The 401 reaches apiFetch: replay with a token set meanwhile, join the
\* refresh, or give up where the store holds no token any more.
OnUnauthorized(c) ==
    LET t == TabOf[c] IN
    /\ call[c].step = "unauthorized"
    /\ \/ /\ store[t].token \notin {NoToken, call[c].token}
          /\ call' = [call EXCEPT ![c] = [step |-> "resent", token |-> store[t].token]]
          /\ UNCHANGED <<store, disk, flight>>
       \/ /\ store[t].token = call[c].token
          /\ flight' = [flight EXCEPT ![t] = JoinFlight(t)]
          /\ call' = [call EXCEPT ![c].step = "waiting"]
          /\ UNCHANGED <<store, disk>>
       \/ /\ store[t].token = NoToken /\ flight[t].step # "none"
          /\ call' = [call EXCEPT ![c].step = "waiting"]
          /\ UNCHANGED <<store, disk, flight>>
       \/ /\ store[t].token = NoToken /\ flight[t].step = "none"
          /\ call' = [call EXCEPT ![c].step = "failed"]
          /\ Clear(t)
          /\ UNCHANGED flight
    /\ UNCHANGED <<tables, gateway, shared, faults, login>>

\* apiFetch returns or throws; signOut's finally block then clears the tab.
Finish(c) ==
    LET t == TabOf[c] IN
    /\ call[c].step \in {"served", "failed"}
    /\ call' = [call EXCEPT ![c] = NoCall]
    /\ IF c \in SignOuts
       THEN Clear(t) /\ socket' = [socket EXCEPT ![t] = NoSocket]
       ELSE UNCHANGED <<store, disk, socket>>
    /\ UNCHANGED <<tables, doomed, flight, shared, faults, login>>

-----------------------------------------------------------------------------
(***************************************************************************)
(* POST /auth/refresh, one database call at a time, and its answer.        *)
(***************************************************************************)
RefreshRotate(t) ==
    /\ flight[t].step = "rotate"
    /\ IF Rotates(flight[t].token)
       THEN /\ RotateVersion(flight[t].token)
            /\ flight' = [flight EXCEPT ![t] = [step |-> "granted", token |-> Successor(@.token)]]
       ELSE /\ flight' = [flight EXCEPT ![t].step = "explain"]
            /\ UNCHANGED tables
    /\ UNCHANGED <<gateway, store, disk, call, shared, faults, login>>

RefreshExplain(t) ==
    /\ flight[t].step = "explain"
    /\ flight' = [flight EXCEPT ![t].step = IF LooksLeaked(flight[t].token) THEN "revoke" ELSE "denied"]
    /\ UNCHANGED <<tables, gateway, store, disk, call, shared, faults, login>>

RefreshRevoke(t) ==
    /\ flight[t].step = "revoke"
    /\ Revoke(flight[t].token.sid, "REUSE_DETECTED")
    /\ flight' = [flight EXCEPT ![t].step = "denied"]
    /\ UNCHANGED <<gateway, store, disk, call, shared, faults, login>>

Waiting(t) == {c \in Calls : TabOf[c] = t /\ call[c].step = "waiting"}

\* setTokens keeps the user; everyone who waited goes on with the new token.
TakeTokens(t) ==
    LET fresh == flight[t].token IN
    /\ flight[t].step = "granted"
    /\ SetStore(t, [store[t] EXCEPT !.token = fresh])
    /\ flight' = [flight EXCEPT ![t] = NoFlight]
    /\ call' = [c \in Calls |-> IF c \in Waiting(t) THEN [step |-> "resent", token |-> fresh]
                                                    ELSE call[c]]
    /\ socket' = [socket EXCEPT ![t] = IF @.state = "waiting"
                                       THEN [@ EXCEPT !.state = "asking", !.token = fresh] ELSE @]
    /\ UNCHANGED <<tables, doomed, shared, faults, login>>

\* performRefresh resolves to false: each waiting caller clears the session.
TakeDenial(t) ==
    /\ flight[t].step = "denied"
    /\ flight' = [flight EXCEPT ![t] = NoFlight]
    /\ call' = [c \in Calls |-> IF c \in Waiting(t) THEN [call[c] EXCEPT !.step = "failed"]
                                                    ELSE call[c]]
    /\ IF Waiting(t) # {} \/ socket[t].state = "waiting" THEN Clear(t) ELSE UNCHANGED <<store, disk>>
    /\ socket' = [socket EXCEPT ![t].state = IF @ = "waiting" THEN "off" ELSE @]
    /\ UNCHANGED <<tables, doomed, shared, faults, login>>

-----------------------------------------------------------------------------
(***************************************************************************)
(* getChatSocket: the handshake reads the current token; one refresh per   *)
(* refusal, until a connection succeeds.                                   *)
(***************************************************************************)
ConnectSocket(t) ==
    /\ t \in ChatTabs
    /\ socket[t].state = "off" /\ store[t].user # NoUser
    /\ socket' = [socket EXCEPT ![t].state = "asking", ![t].token = store[t].token]
    /\ UNCHANGED <<tables, doomed, client>>

OnConnectError(t) ==
    /\ socket[t].state = "refused"
    /\ \/ /\ socket[t].attempted
          /\ socket' = [socket EXCEPT ![t].state = "off"]
          /\ UNCHANGED <<flight, store, disk>>
       \/ /\ ~socket[t].attempted /\ (store[t].token # NoToken \/ flight[t].step # "none")
          /\ socket' = [socket EXCEPT ![t].state = "waiting", ![t].attempted = TRUE]
          /\ flight' = [flight EXCEPT ![t] = JoinFlight(t)]
          /\ UNCHANGED <<store, disk>>
       \/ /\ ~socket[t].attempted /\ store[t].token = NoToken /\ flight[t].step = "none"
          /\ socket' = [socket EXCEPT ![t].state = "off", ![t].attempted = TRUE]
          /\ Clear(t)
          /\ UNCHANGED flight
    /\ UNCHANGED <<tables, doomed, call, shared, faults, login>>

-----------------------------------------------------------------------------
(***************************************************************************)
(* The environment.  A reload or a new tab starts from the copy in         *)
(* localStorage; a refresh whose answer it abandons has rotated the token. *)
(* A reload while the server is still at work is left to the second tab.   *)
(***************************************************************************)
HeldElsewhere(t, s) == \E u \in Tabs \ {t} : store[u].token.sid = s

Reload(t) ==
    /\ "reload" \in Operations
    /\ store[t] # disk \/ flight[t].step = "granted"
    /\ flight[t].step \in {"none", "granted"}
    /\ store' = [store EXCEPT ![t] = disk]
    /\ flight' = [flight EXCEPT ![t] = NoFlight]
    /\ call' = [c \in Calls |-> IF TabOf[c] = t THEN NoCall ELSE call[c]]
    /\ socket' = [socket EXCEPT ![t] = NoSocket]
    /\ login' = [login EXCEPT ![t] = AskNumber]
    /\ shared' = (shared \cup {flight[t].token.sid : x \in {y \in {t} : flight[y].step = "granted"}}
                         \cup {s \in {disk.token.sid} : HeldElsewhere(t, s)}) \ {NoSid}
    /\ UNCHANGED <<tables, doomed, disk, faults>>

\* The answer of a refresh never arrives: performRefresh catches and reports
\* false, whatever the server did.
LoseAnswer(t) ==
    /\ "lose" \in Operations /\ faults < MaxFaults
    /\ flight[t].step = "granted"
    /\ flight' = [flight EXCEPT ![t].step = "denied"]
    /\ shared' = shared \cup {flight[t].token.sid}
    /\ faults' = faults + 1
    /\ UNCHANGED <<tables, gateway, store, disk, call, login>>

\* The answer of a sign-in is lost: the session exists and nobody holds it.
LoseSession(t) ==
    /\ "lose" \in Operations /\ faults < MaxFaults
    /\ login[t].answer # NoToken
    /\ login' = [login EXCEPT ![t].answer = NoToken]
    /\ faults' = faults + 1
    /\ UNCHANGED <<tables, gateway, store, disk, flight, call, shared>>

\* fetch rejects: no answer, so no 401 either.
GoOffline(c) ==
    /\ "offline" \in Operations /\ faults < MaxFaults
    /\ call[c].step = "sent"
    /\ call' = [call EXCEPT ![c].step = "failed"]
    /\ faults' = faults + 1
    /\ UNCHANGED <<tables, gateway, store, disk, flight, shared, login>>

Clock ==
    /\ \/ \E t \in Tabs : store[t].token # NoToken /\ AccessExpires(store[t].token)
       \/ "expire" \in Operations /\ \E s \in Sids : SessionExpires(s)
       \/ "elsewhere" \in Operations /\ \E s \in Sids : EndElsewhere(s)
    /\ UNCHANGED <<gateway, client>>

Sweep == (SweepQuery \/ SweepDisconnect) /\ UNCHANGED client

Init ==
    /\ ServerInit
    /\ login = [t \in Tabs |-> AskNumber]
    /\ store = [t \in Tabs |-> SignedOut] /\ disk = SignedOut
    /\ flight = [t \in Tabs |-> NoFlight]
    /\ call = [c \in Calls |-> NoCall]
    /\ shared = {} /\ faults = 0

RefreshStep(t) == RefreshRotate(t) \/ RefreshExplain(t) \/ RefreshRevoke(t) \/ TakeTokens(t) \/ TakeDenial(t)
CallStep(c) == Serve(c) \/ OnUnauthorized(c) \/ Finish(c)
SocketStep(t) == (Authenticate(t) /\ UNCHANGED client) \/ OnConnectError(t)

Next ==
    \/ \E c \in Calls : Send(c) \/ CallStep(c) \/ GoOffline(c)
    \/ \E t \in Tabs : Login(t) \/ RefreshStep(t) \/ ConnectSocket(t) \/ SocketStep(t) \/ Reload(t) \/ LoseAnswer(t) \/ LoseSession(t)
    \/ Sweep \/ Clock

Spec == Init /\ [][Next]_vars

\* The timer of the sweep keeps firing and its query is answered.
FairSpec == Spec /\ WF_vars(Sweep)

-----------------------------------------------------------------------------
TypeOK ==
    /\ session \in [Sids -> Session] /\ lapsed \subseteq Sids /\ aged \subseteq Token
    /\ socket \in [Tabs -> Socket] /\ doomed \subseteq [tab: Tabs, sid: Sids]
    /\ login \in [Tabs -> LoginPage]
    /\ store \in [Tabs -> Store] /\ disk \in Store
    /\ flight \in [Tabs -> Flight] /\ call \in [Calls -> Call]
    /\ shared \subseteq Sids /\ faults \in Nat

Granted == {t \in Tabs : flight[t].step = "granted"}

\* Of the refreshes that present one token, one is granted, whichever tabs and
\* callers they come from, and no token is ahead of the session it belongs to
\* (session.service.ts:66, the audit of 2026-09-21).
OneSuccessor ==
    /\ \A t, u \in Granted : flight[t].token = flight[u].token => t = u
    /\ \A t \in Granted : flight[t].token.version <= session[flight[t].token.sid].version
    /\ \A t \in Granted, u \in Tabs : store[u].token # flight[t].token

\* As long as a session lives in one tab that hears every answer, its own
\* calls, its socket and its reloads never trip the reuse detection, however
\* they overlap: that is what the single refresh in flight is for.
OnlySharedTokensReused ==
    \A s \in Sids : session[s].reason = "REUSE_DETECTED" => s \in shared
=============================================================================
