------------------------------ MODULE Accounts ------------------------------
(***************************************************************************)
(* Accounts and the codes that prove a phone number or an email: OtpService*)
(* and RateLimitService over Redis, and the handlers of AuthService that   *)
(* use them.  Every handler advances one Redis or MongoDB call at a time;  *)
(* Redis makes one command atomic, not a sequence of them.                 *)
(*                                                                         *)
(* A phone number has one account, so it is named by it.  A code is named  *)
(* by the rank of its issue; guess 0 is a wrong one.                       *)
(***************************************************************************)
EXTENDS Documents, Integers, FiniteSets

CONSTANTS
    Phones,        \* phone numbers, each the name of its account
    Registered,    \* the accounts that exist at first
    SignIns,       \* the phone numbers that sign in in this instance
    Emails, NoEmail,
    Handlers,      \* requests served at the same time
    MaxAttempts,   \* OTP_MAX_VERIFY_ATTEMPTS and EMAIL_MAX_VERIFY_ATTEMPTS
    MaxPerHour,    \* OTP_MAX_REQUESTS_PER_PHONE_PER_HOUR and the email's
    MaxCodes,      \* bound on the codes issued per subject
    MaxHits,       \* bound on the counter of a window
    Crashes        \* whether requests may die half way

ASSUME AccountsAssumption ==
    /\ Phones # {} /\ Registered \subseteq Phones /\ SignIns \subseteq Phones /\ NoEmail \notin Emails /\ Phones \cap Emails = {}
    /\ {MaxAttempts, MaxPerHour, MaxCodes} \subseteq Nat \ {0}
    /\ MaxHits \in Nat /\ MaxHits > MaxPerHour /\ Crashes \in BOOLEAN

VARIABLES
    code,      \* code[s]: otp:code of a subject, rank 0 when the key is absent
    issued,    \* issued[s]: codes sent to a subject so far
    cooldown,  \* subjects whose otp:cooldown key is set
    window,    \* window[s]: the fixed-window counter of otp-issue
    users,     \* users[u]: the account document
    h,         \* h[p]: what handler p is doing
    orphaned   \* subjects whose first request of a window died before its EXPIRE

redis == <<code, issued, cooldown, window>>
accountVars == <<redis, users, h, orphaned>>

Subjects == Phones \cup Emails
Code     == [rank: 0..MaxCodes, attempts: 0..MaxAttempts]
NoCode   == [rank |-> 0, attempts |-> 0]
Window   == [count: 0..MaxHits, timed: BOOLEAN]
NoWindow == [count |-> 0, timed |-> FALSE]

Account    == [known: BOOLEAN, email: Emails \cup {NoEmail}, pending: Emails \cup {NoEmail}]
NewAccount == [known |-> TRUE, email |-> NoEmail, pending |-> NoEmail]
NoAccount  == [NewAccount EXCEPT !.known = FALSE]

Steps == {"idle", "attachLoad", "attachSave", "cooldown", "consume", "expire", "store", "cool",
          "get", "drop", "accept", "ttl", "writeBack", "findUser", "createUser", "emailSave"}
Handler == [step: Steps, user: Phones, subject: Subjects, guess: 0..MaxCodes,
            code: Code, doc: Account]
Idle(u) == [step |-> "idle", user |-> u, subject |-> u, guess |-> 0, code |-> NoCode, doc |-> NoAccount]

Go(p, step) == h' = [h EXCEPT ![p].step = step]
Return(p)   == h' = [h EXCEPT ![p] = Idle(h[p].user)]

-----------------------------------------------------------------------------
(***************************************************************************)
(* POST /auth/otp/request and POST /auth/email, then issueCode.            *)
(***************************************************************************)
RequestPhoneOtp(p, u) ==
    /\ h[p].step = "idle"
    /\ h' = [h EXCEPT ![p] = [Idle(u) EXCEPT !.step = "cooldown"]]
    /\ UNCHANGED <<redis, users, orphaned>>

\* findOne: an email verified by another account is refused.
AttachEmail(p, u, e) ==
    /\ h[p].step = "idle" /\ users[u].known
    /\ \A v \in Phones \ {u} : users[v].email # e
    /\ h' = [h EXCEPT ![p] = [Idle(u) EXCEPT !.step = "attachLoad", !.subject = e]]
    /\ UNCHANGED <<redis, users, orphaned>>

AttachLoad(p) ==
    /\ h[p].step = "attachLoad"
    /\ h' = [h EXCEPT ![p].step = "attachSave", ![p].doc = users[h[p].user]]
    /\ UNCHANGED <<redis, users, orphaned>>

AttachSave(p) ==
    /\ h[p].step = "attachSave"
    /\ users' = [users EXCEPT ![h[p].user].pending = SetIfModified(h[p].doc.pending, h[p].subject, @)]
    /\ h' = [h EXCEPT ![p].step = "cooldown", ![p].doc = NoAccount]
    /\ UNCHANGED <<redis, orphaned>>

CheckCooldown(p) ==
    /\ h[p].step = "cooldown"
    /\ IF h[p].subject \in cooldown THEN Return(p) ELSE Go(p, "consume")
    /\ UNCHANGED <<redis, users, orphaned>>

\* Mutant: the first hit of a window is taken for count 0.
StartsAtZero(count) == count = 0

StartsWindow(count) == count = 1

\* INCR; the first hit of a window sets its expiry with a second command.
Consume(p) ==
    LET s == h[p].subject
        count == window[s].count + 1 IN
    /\ h[p].step = "consume" /\ count <= MaxHits
    /\ window' = [window EXCEPT ![s].count = count]
    /\ IF StartsWindow(count) THEN Go(p, "expire")
       ELSE IF count > MaxPerHour THEN Return(p) ELSE Go(p, "store")
    /\ UNCHANGED <<code, issued, cooldown, users, orphaned>>

ExpireWindow(p) ==
    /\ h[p].step = "expire"
    /\ window' = [window EXCEPT ![h[p].subject].timed = window[h[p].subject].count > 0]
    /\ Go(p, "store")
    /\ UNCHANGED <<code, issued, cooldown, users, orphaned>>

StoreCode(p) ==
    LET s == h[p].subject IN
    /\ h[p].step = "store" /\ issued[s] < MaxCodes
    /\ issued' = [issued EXCEPT ![s] = @ + 1]
    /\ code' = [code EXCEPT ![s] = [rank |-> issued[s] + 1, attempts |-> 0]]
    /\ Go(p, "cool")
    /\ UNCHANGED <<cooldown, window, users, orphaned>>

StartCooldown(p) ==
    /\ h[p].step = "cool"
    /\ cooldown' = cooldown \cup {h[p].subject}
    /\ Return(p)
    /\ UNCHANGED <<code, issued, window, users, orphaned>>

-----------------------------------------------------------------------------
(***************************************************************************)
(* POST /auth/otp/verify and POST /auth/email/verify, then verifyCode.     *)
(***************************************************************************)
VerifyPhoneOtp(p, u, guess) ==
    /\ h[p].step = "idle"
    /\ h' = [h EXCEPT ![p] = [Idle(u) EXCEPT !.step = "get", !.guess = guess]]
    /\ UNCHANGED <<redis, users, orphaned>>

\* The account is loaded first; its pending email names the code.
VerifyEmail(p, u, guess) ==
    /\ h[p].step = "idle" /\ users[u].pending # NoEmail
    /\ h' = [h EXCEPT ![p] = [Idle(u) EXCEPT !.step = "get", !.guess = guess,
                                             !.subject = users[u].pending, !.doc = users[u]]]
    /\ UNCHANGED <<redis, users, orphaned>>

\* What verifyCode does next with the record it read.
Verdict(record, guess) ==
    CASE record.rank = 0                      -> "idle"
      [] record.attempts >= MaxAttempts       -> "drop"
      [] record.rank = guess                  -> "accept"
      [] record.attempts + 1 >= MaxAttempts   -> "drop"
      [] OTHER                                -> "ttl"

GetCode(p) ==
    LET record == code[h[p].subject] IN
    /\ h[p].step = "get"
    /\ h' = [h EXCEPT ![p].step = Verdict(record, h[p].guess), ![p].guess = 0,
                      ![p].code = IF Verdict(record, h[p].guess) = "ttl" THEN record ELSE NoCode]
    /\ UNCHANGED <<redis, users, orphaned>>

DropCode(p) ==
    /\ h[p].step = "drop"
    /\ code' = [code EXCEPT ![h[p].subject] = NoCode]
    /\ Return(p)
    /\ UNCHANGED <<issued, cooldown, window, users, orphaned>>

AcceptCode(p) ==
    /\ h[p].step = "accept"
    /\ code' = [code EXCEPT ![h[p].subject] = NoCode]
    /\ Go(p, IF h[p].subject \in Phones THEN "findUser" ELSE "emailSave")
    /\ UNCHANGED <<issued, cooldown, window, users, orphaned>>

CheckTtl(p) ==
    /\ h[p].step = "ttl"
    /\ IF code[h[p].subject] = NoCode THEN Return(p) ELSE Go(p, "writeBack")
    /\ UNCHANGED <<redis, users, orphaned>>

\* The record read earlier, with one more attempt, replaces whatever code the
\* subject has now.
WriteBack(p) ==
    /\ h[p].step = "writeBack"
    /\ code' = [code EXCEPT ![h[p].subject] = [h[p].code EXCEPT !.attempts = @ + 1]]
    /\ Return(p)
    /\ UNCHANGED <<issued, cooldown, window, users, orphaned>>

\* The session of an existing account is opened (module Sessions).
FindUser(p) ==
    /\ h[p].step = "findUser"
    /\ IF users[h[p].user].known THEN Return(p) ELSE Go(p, "createUser")
    /\ UNCHANGED <<redis, users, orphaned>>

\* The unique phone index refuses a second account: the request fails.
CreateUser(p) ==
    /\ h[p].step = "createUser"
    /\ users' = [users EXCEPT ![h[p].user] = IF @.known THEN @ ELSE NewAccount]
    /\ Return(p)
    /\ UNCHANGED <<redis, orphaned>>

\* Mutant: the collection without its partial unique index.
Free(u, e) == TRUE

\* The partial unique index on email.
Unclaimed(u, e) == \A v \in Phones \ {u} : users[v].email # e

\* email := pendingEmail, pendingEmail := null, from the document loaded.
EmailSave(p) ==
    LET u == h[p].user
        e == h[p].doc.pending IN
    /\ h[p].step = "emailSave"
    /\ users' = IF Unclaimed(u, e)
                THEN [users EXCEPT ![u].email = SetIfModified(h[p].doc.email, e, @),
                                   ![u].pending = NoEmail]
                ELSE users
    /\ Return(p)
    /\ UNCHANGED <<redis, orphaned>>

-----------------------------------------------------------------------------
\* The keys reach their expiry; a counter without one never does.
CodeExpires(s) ==
    /\ code[s] # NoCode /\ code' = [code EXCEPT ![s] = NoCode]
    /\ UNCHANGED <<issued, cooldown, window, users, h, orphaned>>
CooldownEnds(s) ==
    /\ s \in cooldown /\ cooldown' = cooldown \ {s}
    /\ UNCHANGED <<code, issued, window, users, h, orphaned>>
WindowEnds(s) ==
    /\ window[s].timed /\ window' = [window EXCEPT ![s] = NoWindow]
    /\ UNCHANGED <<code, issued, cooldown, users, h, orphaned>>

\* A replica dies between two calls of a handler.
Crash(p) ==
    /\ Crashes /\ h[p].step # "idle"
    /\ orphaned' = IF h[p].step = "expire" THEN orphaned \cup {h[p].subject} ELSE orphaned
    /\ Return(p)
    /\ UNCHANGED <<redis, users>>

AccountsInit ==
    /\ code = [s \in Subjects |-> NoCode] /\ issued = [s \in Subjects |-> 0]
    /\ cooldown = {} /\ window = [s \in Subjects |-> NoWindow]
    /\ users = [u \in Phones |-> IF u \in Registered THEN NewAccount ELSE NoAccount]
    /\ h = [p \in Handlers |-> Idle(CHOOSE u \in Phones : TRUE)]
    /\ orphaned = {}

\* The routes of the two kinds of code.
SignInCall(p) ==
    \E u \in SignIns :
        RequestPhoneOtp(p, u) \/ \E guess \in 0..issued[u] : VerifyPhoneOtp(p, u, guess)

EmailCall(p) ==
    \E u \in Phones :
        \/ \E e \in Emails : AttachEmail(p, u, e)
        \/ \E guess \in 0..MaxCodes :
              users[u].pending # NoEmail /\ guess <= issued[users[u].pending] /\ VerifyEmail(p, u, guess)

Continue(p) ==
    \/ AttachLoad(p) \/ AttachSave(p) \/ CheckCooldown(p) \/ Consume(p) \/ ExpireWindow(p)
    \/ StoreCode(p) \/ StartCooldown(p) \/ GetCode(p) \/ DropCode(p) \/ AcceptCode(p)
    \/ CheckTtl(p) \/ WriteBack(p) \/ FindUser(p) \/ CreateUser(p) \/ EmailSave(p)

AccountsNext ==
    \/ \E p \in Handlers : SignInCall(p) \/ EmailCall(p) \/ Continue(p) \/ Crash(p)
    \/ \E s \in Subjects : CodeExpires(s) \/ CooldownEnds(s) \/ WindowEnds(s)

AccountsSpec == AccountsInit /\ [][AccountsNext]_accountVars

-----------------------------------------------------------------------------
AccountsTypeOK ==
    /\ code \in [Subjects -> Code] /\ issued \in [Subjects -> 0..MaxCodes]
    /\ cooldown \subseteq Subjects /\ window \in [Subjects -> Window]
    /\ users \in [Phones -> Account] /\ h \in [Handlers -> Handler] /\ orphaned \subseteq Subjects

\* Two accounts never share an email: both may attach it and prove it at the
\* same time, the check of attachEmail and the save are many awaits apart.
OneEmailOwner == \A u, v \in Phones : users[u].email = users[v].email /\ users[u].email # NoEmail => u = v

\* Only a death between INCR and EXPIRE refuses a subject for ever: any other
\* counter that was started has its expiry, or the request that started it is
\* about to set it (rate-limit.service.ts:12, "fixed-window counter").
CountersExpire ==
    \A s \in Subjects : window[s].count > 0 /\ ~window[s].timed
        => \/ \E p \in Handlers : h[p].step = "expire" /\ h[p].subject = s
           \/ s \in orphaned
=============================================================================
