------------------------------ MODULE Accounts ------------------------------
(***************************************************************************)
(* Signing in and out: the password step and its count of failures, the    *)
(* second factor, passkeys, password resets, and the sessions they open    *)
(* or end.  Rows of PostgreSQL change in a commit; what is short-lived is  *)
(* in Valkey under random tokens, and every command is a step of its own   *)
(* unless the code sends a MULTI.                                          *)
(*                                                                         *)
(* A password is how often it was set: 0 is an account not registered yet. *)
(***************************************************************************)
EXTENDS Naturals, FiniteSets

CONSTANTS
    Users, Callers, Keys,
    Tokens,         \* what secrets.token_urlsafe may return, each once
    Nobody,
    AttemptLimit,   \* settings.login_attempt_limit
    MaxPassword,    \* bound: how often a password is set
    MaxRestarts     \* bound

VARIABLES
    password, factor, \* rows of users
    passkeys,       \* rows of passkeys: whose an authenticator is
    key,            \* Valkey: what a token stands for, Nobody if nothing
    index,          \* accounts:user-sessions
    attempts,       \* accounts:login-attempts: the count, and whether it expires
    call,           \* where each request stands and what it has read
    used,           \* tokens handed out so far
    cutShort,       \* history: accounts whose reset a restart broke off
    restarts

accountVars == <<password, factor, passkeys, key, index, attempts, call, used,
                 cutShort, restarts>>
PasskeyRows == [Keys -> Users \union {Nobody}]
rows    == <<password, factor, passkeys>>
history == <<cutShort, restarts>>

Idle        == [at |-> "idle"]
At(c, step) == call[c].at = step
Goes(c, r)  == call' = [call EXCEPT ![c] = r]
User(c)     == call[c].user
Registered  == {u \in Users : password[u] > 0}

Holds(t, kind) == key[t] # Nobody /\ key[t].kind = kind
\* SET of a key nobody had before.
Save(t, r) ==
    /\ t \notin used /\ used' = used \union {t}
    /\ key' = [key EXCEPT ![t] = r]

\* GETDEL.
Take(t) == key' = [key EXCEPT ![t] = Nobody]

Init ==
    /\ password = [u \in Users |-> 0] /\ factor = [u \in Users |-> "off"]
    /\ passkeys = [k \in Keys |-> Nobody]
    /\ key = [t \in Tokens |-> Nobody] /\ index = [u \in Users |-> {}]
    /\ attempts = [u \in Users |-> [n |-> 0, expires |-> FALSE]]
    /\ call = [c \in Callers |-> Idle] /\ used = {}
    /\ cutShort = {} /\ restarts = 0

-----------------------------------------------------------------------------
(* Registration and the password step.                                     *)

\* The address is unique: the second of two inserts is refused.
register(u) == u \notin Registered /\ password' = [password EXCEPT ![u] = 1]

Register(c, u) ==
    /\ At(c, "idle") /\ register(u)
    /\ Goes(c, [at |-> "open", user |-> u])
    /\ UNCHANGED <<factor, passkeys, key, index, attempts, used, history>>

\* Mutant: one more try than the limit allows.
UnderLimitOrAt(n) == n <= AttemptLimit

UnderLimit(n) == n < AttemptLimit

\* Somebody comes with the present password or with another one.
Login(c, u) ==
    /\ At(c, "idle") /\ UnderLimit(attempts[u].n)
    /\ \E knows \in {0, password[u]} :
          Goes(c, [at |-> "verify", user |-> u, knows |-> knows])
    /\ UNCHANGED <<rows, key, index, attempts, used, history>>

VerifyPassword(c) ==
    /\ At(c, "verify")
    /\ LET u == User(c)
           right == u \in Registered /\ call[c].knows = password[u]
       IN  Goes(c, [at |-> IF right THEN "clear" ELSE "count", user |-> u,
                    owes |-> factor[u] = "on"])
    /\ UNCHANGED <<rows, key, index, attempts, used, history>>

CountFailedAttempt(c) ==
    /\ At(c, "count")
    /\ attempts' = [attempts EXCEPT ![User(c)].n = @ + 1]
    /\ Goes(c, IF attempts[User(c)].n = 0 THEN [at |-> "expire", user |-> User(c)] ELSE Idle)
    /\ UNCHANGED <<rows, key, index, used, history>>

\* Mutant: the key is given an expiry even if it is gone.
StartWindowAnyway(c) ==
    /\ At(c, "expire") /\ Goes(c, Idle)
    /\ attempts' = [attempts EXCEPT ![User(c)].expires = TRUE]
    /\ UNCHANGED <<rows, key, index, used, history>>

\* EXPIRE of a key that is gone does nothing.
StartWindow(c) ==
    /\ At(c, "expire") /\ Goes(c, Idle)
    /\ attempts' = IF attempts[User(c)].n = 0 THEN attempts
                    ELSE [attempts EXCEPT ![User(c)].expires = TRUE]
    /\ UNCHANGED <<rows, key, index, used, history>>

Cleared(u) == attempts' = [attempts EXCEPT ![u] = [n |-> 0, expires |-> FALSE]]

ClearFailedAttempts(c) ==
    /\ At(c, "clear") /\ Cleared(User(c))
    /\ Goes(c, [at |-> IF call[c].owes THEN "pend" ELSE "open", user |-> User(c)])
    /\ UNCHANGED <<rows, key, index, used, history>>

WindowEnds(u) ==
    /\ attempts[u].expires /\ Cleared(u)
    /\ UNCHANGED <<rows, key, index, call, used, history>>

CreatePendingLogin(c, t) ==
    /\ At(c, "pend") /\ Goes(c, Idle)
    /\ Save(t, [kind |-> "pending", user |-> User(c)])
    /\ UNCHANGED <<rows, index, attempts, history>>

\* One MULTI writes the session and the account's index of sessions.
CreateSession(c, t) ==
    /\ At(c, "open") /\ Goes(c, Idle)
    /\ Save(t, [kind |-> "session", user |-> User(c), made |-> password[User(c)]])
    /\ index' = [index EXCEPT ![User(c)] = @ \union {t}]
    /\ UNCHANGED <<rows, attempts, history>>

-----------------------------------------------------------------------------
(* The second factor.                                                      *)

TakePendingLogin(c, t) ==
    /\ At(c, "idle") /\ Holds(t, "pending") /\ Take(t)
    /\ Goes(c, [at |-> "code", user |-> key[t].user])
    /\ UNCHANGED <<rows, index, attempts, used, history>>

\* The code is right or wrong; without a secret there is nothing to check.
CompleteTotpLogin(c) ==
    /\ At(c, "code")
    /\ \/ factor[User(c)] # "off" /\ Goes(c, [at |-> "open", user |-> User(c)])
       \/ Goes(c, Idle)
    /\ UNCHANGED <<rows, key, index, attempts, used, history>>

SignedIn(u) == \E t \in Tokens : Holds(t, "session") /\ key[t].user = u

SetsFactor(u, to) ==
    /\ SignedIn(u) /\ factor[u] # to /\ factor' = [factor EXCEPT ![u] = to]
    /\ UNCHANGED <<password, passkeys, key, index, attempts, call, used, history>>

SetupTotp(u)   == SetsFactor(u, "enrolling")
ConfirmTotp(u) == factor[u] = "enrolling" /\ SetsFactor(u, "on")
DisableTotp(u) == SetsFactor(u, "off")

-----------------------------------------------------------------------------
(* Passkeys.  A challenge is for an account that registers, or for nobody. *)

SaveChallenge(t, who) ==
    /\ Save(t, [kind |-> "challenge", user |-> who])
    /\ UNCHANGED <<rows, index, attempts, call, history>>

StartRegistration(t, u) == SignedIn(u) /\ SaveChallenge(t, u)

StartAuthentication(t)  == SaveChallenge(t, Nobody)

TakeChallenge(c, t, k) ==
    /\ At(c, "idle") /\ Holds(t, "challenge") /\ Take(t)
    /\ Goes(c, [at |-> "answer", user |-> key[t].user, auth |-> k])
    /\ UNCHANGED <<rows, index, attempts, used, history>>

FinishRegistration(c) ==
    /\ At(c, "answer") /\ User(c) # Nobody /\ Goes(c, Idle)
    /\ passkeys[call[c].auth] = Nobody
    /\ passkeys' = [passkeys EXCEPT ![call[c].auth] = User(c)]
    /\ UNCHANGED <<password, factor, key, index, attempts, used, history>>

\* Any challenge will do here; an authenticator nobody registered opens nothing.
FinishAuthentication(c) ==
    /\ At(c, "answer")
    /\ LET owner == passkeys[call[c].auth]
       IN  Goes(c, IF owner = Nobody THEN Idle ELSE [at |-> "open", user |-> owner])
    /\ UNCHANGED <<rows, key, index, attempts, used, history>>

DeletePasskey(k) ==
    /\ passkeys[k] # Nobody /\ SignedIn(passkeys[k])
    /\ passkeys' = [passkeys EXCEPT ![k] = Nobody]
    /\ UNCHANGED <<password, factor, key, index, attempts, call, used, history>>

-----------------------------------------------------------------------------
(* Signing out and resetting the password.                                 *)

Logout(c, t) ==
    /\ At(c, "idle") /\ Holds(t, "session")
    /\ Goes(c, [at |-> "sweep", user |-> key[t].user, todo |-> {t}, mine |-> {},
                keep |-> t, reset |-> FALSE])
    /\ UNCHANGED <<rows, key, index, attempts, used, history>>

RequestReset(u, t) ==
    /\ u \in Registered /\ password[u] < MaxPassword
    /\ Save(t, [kind |-> "reset", user |-> u])
    /\ UNCHANGED <<rows, index, attempts, call, history>>

TakeResetLink(c, t) ==
    /\ At(c, "idle") /\ Holds(t, "reset") /\ Take(t)
    /\ Goes(c, [at |-> "commit", user |-> key[t].user])
    /\ UNCHANGED <<rows, index, attempts, used, history>>

\* Mutant: the sessions are listed before the password has changed.
CommitPasswordLate(c) ==
    /\ At(c, "commit")
    /\ password' = [password EXCEPT ![User(c)] = @ + 1]
    /\ Goes(c, [at |-> "sweep", user |-> User(c), todo |-> {}, mine |-> {},
                keep |-> Nobody, reset |-> TRUE])
    /\ UNCHANGED <<factor, passkeys, key, index, attempts, used, history>>

CommitPassword(c) ==
    /\ At(c, "commit")
    /\ password' = [password EXCEPT ![User(c)] = @ + 1]
    /\ Goes(c, [at |-> "list", user |-> User(c), keep |-> Nobody, reset |-> TRUE])
    /\ UNCHANGED <<factor, passkeys, key, index, attempts, used, history>>

LogoutOthers(c, t) ==
    /\ At(c, "idle") /\ Holds(t, "session")
    /\ Goes(c, [at |-> "list", user |-> key[t].user, keep |-> t, reset |-> FALSE])
    /\ UNCHANGED <<rows, key, index, attempts, used, history>>

\* SMEMBERS, a GET each, and SREM of those that have expired.
ListSessions(c) ==
    /\ At(c, "list")
    /\ LET live == {t \in index[User(c)] : key[t] # Nobody}
       IN  /\ index' = [index EXCEPT ![User(c)] = live]
           /\ Goes(c, [at |-> "sweep", user |-> User(c), todo |-> live \ {call[c].keep}, mine |-> {},
                       keep |-> call[c].keep, reset |-> call[c].reset])
    /\ UNCHANGED <<rows, key, attempts, used, history>>

\* delete_session: one that is gone by now keeps its place in the index.
DeleteSession(c, t) ==
    /\ At(c, "sweep") /\ t \in call[c].todo /\ call[c].mine = {}
    /\ Take(t)
    /\ Goes(c, [call[c] EXCEPT !.todo = @ \ {t}, !.mine = IF key[t] = Nobody THEN {} ELSE {t}])
    /\ UNCHANGED <<rows, index, attempts, used, history>>

ForgetSession(c) ==
    /\ At(c, "sweep") /\ call[c].mine # {}
    /\ index' = [index EXCEPT ![User(c)] = @ \ call[c].mine]
    /\ Goes(c, [call[c] EXCEPT !.mine = {}])
    /\ UNCHANGED <<rows, key, attempts, used, history>>

Swept(c) ==
    /\ At(c, "sweep") /\ call[c].todo = {} /\ call[c].mine = {} /\ Goes(c, Idle)
    /\ UNCHANGED <<rows, key, index, attempts, used, history>>

\* The lifetime of a session, a link, a challenge or a pending login ends.
Expires(t) ==
    /\ key[t] # Nobody /\ key' = [key EXCEPT ![t] = Nobody]
    /\ UNCHANGED <<rows, index, attempts, call, used, history>>

Resetting(u) == \E c \in Callers :
    call[c].at \in {"list", "sweep"} /\ User(c) = u /\ call[c].reset

Restart ==
    /\ restarts < MaxRestarts /\ restarts' = restarts + 1
    /\ \E c \in Callers : ~At(c, "idle")
    /\ call' = [c \in Callers |-> Idle]
    /\ cutShort' = cutShort \union {u \in Users : Resetting(u)}
    /\ UNCHANGED <<rows, key, index, attempts, used>>

Next ==
    \/ \E c \in Callers, u \in Users : Register(c, u) \/ Login(c, u)
    \/ \E c \in Callers :
          \/ VerifyPassword(c) \/ CountFailedAttempt(c) \/ StartWindow(c)
          \/ ClearFailedAttempts(c) \/ CompleteTotpLogin(c) \/ FinishRegistration(c)
          \/ FinishAuthentication(c) \/ CommitPassword(c) \/ ListSessions(c) \/ ForgetSession(c) \/ Swept(c)
    \/ \E c \in Callers, t \in Tokens :
          \/ CreatePendingLogin(c, t) \/ CreateSession(c, t) \/ TakePendingLogin(c, t)
          \/ Logout(c, t) \/ LogoutOthers(c, t) \/ TakeResetLink(c, t) \/ DeleteSession(c, t)
          \/ \E k \in Keys : TakeChallenge(c, t, k)
    \/ \E u \in Users :
          \/ WindowEnds(u) \/ SetupTotp(u) \/ ConfirmTotp(u) \/ DisableTotp(u)
          \/ \E t \in Tokens : RequestReset(u, t) \/ StartRegistration(t, u)
    \/ \E t \in Tokens : Expires(t) \/ StartAuthentication(t)
    \/ \E k \in Keys : DeletePasskey(k)
    \/ Restart

Spec == Init /\ [][Next]_accountVars

-----------------------------------------------------------------------------
(* Every row, key and request is of its kind. *)
TypeOK ==
    /\ password \in [Users -> Nat]
    /\ factor \in [Users -> {"off", "enrolling", "on"}]
    /\ passkeys \in PasskeyRows
    /\ index \in [Users -> SUBSET used] /\ used \subseteq Tokens
    /\ \A t \in Tokens \ used : key[t] = Nobody
    /\ \A u \in Users : attempts[u].expires => attempts[u].n > 0
    /\ cutShort \subseteq Users

(* Once a reset is through, no session stored before the new password was
   committed still works, unless a restart broke the reset off
   (password_reset.confirm_reset). *)
ResetSignsOut == \A t \in Tokens :
    Holds(t, "session") /\ key[t].made < password[key[t].user]
        => Resetting(key[t].user) \/ key[t].user \in cutShort

(* Requests that overtake each other may try past the limit, but never more
   of them than there are at a time (service.sign_in_with_password). *)
AttemptsAreBounded == \A u \in Users :
    attempts[u].n < AttemptLimit + Cardinality(Callers)
=============================================================================
