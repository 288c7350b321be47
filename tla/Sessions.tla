------------------------------ MODULE Sessions ------------------------------
(***************************************************************************)
(* The session table of apps/api/src/auth and everything that checks a     *)
(* token against it: the rotation of refresh tokens, the guard of each     *)
(* authenticated call, and the sweep of the chat gateway that cuts the     *)
(* sockets of ended sessions.                                              *)
(*                                                                         *)
(* A signed-in browser holds one pair of tokens, an access token and the   *)
(* refresh token of the same session and version: the pair is one value    *)
(* here.                                                                   *)
(***************************************************************************)
EXTENDS Integers, FiniteSets

CONSTANTS
    Sids,         \* ids of the sessions logins create
    Users,
    Owner,        \* Owner[s]: the user who signs in with session s
    Tabs,         \* browser tabs, all of one browser profile
    MaxVersion,   \* bound on the rotations of one session
    NoSid, NoUser

ASSUME SessionsAssumption ==
    /\ Owner \in [Sids -> Users]
    /\ MaxVersion \in Nat \ {0}
    /\ NoSid \notin Sids /\ NoUser \notin Users

VARIABLES
    session,   \* user_sessions, status "NONE" before the login
    lapsed,    \* sessions whose expiresAt has passed
    aged,      \* access tokens older than JWT_ACCESS_TTL
    socket,    \* socket[t]: the chat socket of tab t and the session it carries
    doomed     \* sockets the running sweep is about to disconnect

tables == <<session, lapsed, aged>>
gateway == <<socket, doomed>>

Reasons == {"none", "LOGOUT", "LOGOUT_ALL", "REVOKED_BY_USER", "REUSE_DETECTED"}
Session == [status: {"NONE", "ACTIVE", "REVOKED"}, version: 0..MaxVersion, reason: Reasons]
Token   == [sid: Sids, version: 0..MaxVersion]
NoToken == [sid |-> NoSid, version |-> 0]

\* "asking": the handshake is under way, "waiting": for a refresh.
Socket   == [state: {"off", "asking", "refused", "waiting", "on"}, token: Token \cup {NoToken},
             attempted: BOOLEAN]
NoSocket == [state |-> "off", token |-> NoToken, attempted |-> FALSE]

NewSession == [status |-> "ACTIVE", version |-> 0, reason |-> "none"]

Active(s) == s \in Sids /\ session[s].status = "ACTIVE"

-----------------------------------------------------------------------------
(***************************************************************************)
(* SessionService.                                                         *)
(***************************************************************************)
CreateSession(s) ==
    /\ session[s].status = "NONE"
    /\ session' = [session EXCEPT ![s] = NewSession]
    /\ UNCHANGED <<lapsed, aged>>

\* Mutant: any version of the session is good enough.
AnyVersion(t) == Active(t.sid) /\ t.sid \notin lapsed

\* The filter of the conditional update of rotate().
Rotates(t) == Active(t.sid) /\ session[t.sid].version = t.version /\ t.sid \notin lapsed

Successor(t) == [t EXCEPT !.version = t.version + 1]

RotateVersion(t) ==
    /\ t.version < MaxVersion
    /\ session' = [session EXCEPT ![t.sid].version = @ + 1]
    /\ UNCHANGED <<lapsed, aged>>

\* Mutant: the update does not ask for an ACTIVE session.
Overwritten(s, reason) == [session EXCEPT ![s].status = "REVOKED", ![s].reason = reason]

Revoked(s, reason) ==
    IF session[s].status = "ACTIVE"
    THEN [session EXCEPT ![s].status = "REVOKED", ![s].reason = reason]
    ELSE session

Revoke(s, reason) == session' = Revoked(s, reason) /\ UNCHANGED <<lapsed, aged>>

\* revokeAllForUser.
RevokeAll(u) ==
    /\ session' = [s \in Sids |->
                     IF Owner[s] = u THEN Revoked(s, "LOGOUT_ALL")[s] ELSE session[s]]
    /\ UNCHANGED <<lapsed, aged>>

\* What explainFailedRotation sees: a session that is gone, ended or expired
\* needs no more, any other refusal is taken for a leaked token.
LooksLeaked(t) == Active(t.sid) /\ t.sid \notin lapsed

\* TokenService.verifyAccessToken, then findActiveById: AuthGuard and the
\* handshake of the gateway make the same two checks.
Admitted(t) == t \notin aged /\ Active(t.sid)

\* The clock passes JWT_ACCESS_TTL or the hard lifetime of a session.
AccessExpires(t) == t \notin aged /\ aged' = aged \cup {t} /\ UNCHANGED <<session, lapsed>>
SessionExpires(s) == /\ Active(s) /\ s \notin lapsed
                     /\ lapsed' = lapsed \cup {s}
                     /\ UNCHANGED <<session, aged>>

\* The user ends sessions from another device.
EndElsewhere(s) == Active(s) /\ (Revoke(s, "REVOKED_BY_USER") \/ RevokeAll(Owner[s]))

-----------------------------------------------------------------------------
(***************************************************************************)
(* ChatGateway: the handshake, and the sweep in its two steps, the query   *)
(* and the disconnections.                                                 *)
(***************************************************************************)
Authenticate(t) ==
    /\ socket[t].state = "asking"
    /\ socket' = [socket EXCEPT ![t].state = IF Admitted(socket[t].token) THEN "on" ELSE "refused",
                                ![t].attempted = IF Admitted(socket[t].token) THEN FALSE ELSE @]
    /\ UNCHANGED <<doomed, tables>>

\* Mutant: the query's answer is read the wrong way round.
StillActive(t) == socket[t].state = "on" /\ Active(socket[t].token.sid)

Ended(t) == socket[t].state = "on" /\ ~Active(socket[t].token.sid)

SweepQuery ==
    /\ doomed = {}
    /\ doomed' = {[tab |-> t, sid |-> socket[t].token.sid] : t \in {x \in Tabs : Ended(x)}}
    /\ doomed' # {}
    /\ UNCHANGED <<socket, tables>>

SweepDisconnect ==
    /\ doomed # {}
    /\ socket' = [t \in Tabs |->
                    IF /\ socket[t].state = "on"
                       /\ [tab |-> t, sid |-> socket[t].token.sid] \in doomed
                    THEN NoSocket ELSE socket[t]]
    /\ doomed' = {}
    /\ UNCHANGED tables

ServerInit ==
    /\ session = [s \in Sids |-> [NewSession EXCEPT !.status = "NONE"]]
    /\ lapsed = {} /\ aged = {}
    /\ socket = [t \in Tabs |-> NoSocket]
    /\ doomed = {}

\* A session that ended stays ended, for the reason it ended first: no late
\* rotation, reuse detection or logout revives it or rewrites its reason.
RevokedIsFinal ==
    [][\A s \in Sids : session[s].status = "REVOKED" => session'[s] = session[s]]_session

\* A socket whose session ended is cut by a later sweep (01_SPEC_PRODUCT #70,
\* the remote logout), although the handshake and the sweep each work from
\* what the session table held some awaits earlier.
EndedSocketIsCut ==
    \A t \in Tabs, s \in Sids :
        socket[t].state = "on" /\ socket[t].token.sid = s /\ session[s].status = "REVOKED"
            ~> socket[t].state # "on" \/ socket[t].token.sid # s
=============================================================================
