---------------------------- MODULE Credentials ----------------------------
(***************************************************************************)
(* Access tokens and SSH keys: what Git shows when it asks for a project.  *)
(* A credential is read, checked and marked as used in three statements,   *)
(* while its owner may remove it.                                          *)
(***************************************************************************)
EXTENDS FiniteSets, Naturals

CONSTANTS
    Users,          \* accounts
    Tokens, Keys,   \* credentials: each token is made once, a key may be added again
    Callers,        \* Git at the door, and people at the console
    MaxKeys         \* bound: keys added in all

VARIABLES
    token,          \* per token, its row: owner and scopes
    key,            \* per key, its row: the account it is registered for
    caller,         \* where a caller stands and what it has read
    dead,           \* history: credentials whose removal was answered
    late,           \* history: credentials that opened the door after that
    added           \* keys added in all

credentialVars == <<token, key, caller, dead, late, added>>

NoOne == "nobody"
TokenScopes == {"repo:read", "repo:write"}
TokenRows == [Tokens -> [user : Users \union {NoOne}, scopes : SUBSET TokenScopes]]
KeyRows == [Keys -> [user : Users \union {NoOne}, row : 0..MaxKeys]]
NoToken == [user |-> NoOne, scopes |-> {}]
NoKey   == [user |-> NoOne, row |-> 0]
Idle    == [at |-> "idle"]
In(c, s)   == caller[c].at = s
Then(c, q) == caller' = [caller EXCEPT ![c] = q]
Leaves(c)  == Then(c, Idle)

Init ==
    /\ token = [t \in Tokens |-> NoToken] /\ key = [k \in Keys |-> NoKey]
    /\ caller = [c \in Callers |-> Idle] /\ dead = {} /\ late = {} /\ added = 0

create(t, u, scopes) ==
    /\ token[t] = NoToken /\ t \notin dead /\ scopes # {}
    /\ token' = [token EXCEPT ![t] = [user |-> u, scopes |-> scopes]]
    /\ UNCHANGED <<key, caller, dead, late, added>>

\* The row is looked up, and removed in a later statement.
delete_token(c, t) ==
    /\ In(c, "idle") /\ token[t] # NoToken
    /\ Then(c, [at |-> "delete token", token |-> t])
    /\ UNCHANGED <<token, key, dead, late, added>>

delete(c) ==
    LET t == caller[c].token IN
    /\ In(c, "delete token") /\ Leaves(c)
    /\ token' = [token EXCEPT ![t] = NoToken] /\ dead' = dead \union {t}
    /\ UNCHANGED <<key, late, added>>

\* Somebody else's registration of the same key is looked for first; two that
\* look at once are told apart by the unique fingerprint.
add(c, k, u) ==
    /\ In(c, "idle") /\ key[k] = NoKey /\ added < MaxKeys /\ added' = added + 1
    /\ Then(c, [at |-> "add", key |-> k, is |-> [user |-> u, row |-> added']])
    /\ UNCHANGED <<token, key, dead, late>>

add_ssh_key(c) ==
    LET q == caller[c] IN
    /\ In(c, "add") /\ Leaves(c)
    /\ IF key[q.key] = NoKey
       THEN key' = [key EXCEPT ![q.key] = q.is] /\ dead' = dead \ {q.key}
       ELSE UNCHANGED <<key, dead>>
    /\ UNCHANGED <<token, late, added>>

\* A key may only be removed by the account that has it.
delete_ssh_key(c, k) ==
    /\ In(c, "idle") /\ key[k] # NoKey
    /\ Then(c, [at |-> "delete key", key |-> k, is |-> key[k]])
    /\ UNCHANGED <<token, key, dead, late, added>>

RemoveKey(c) ==
    LET q == caller[c] IN
    /\ In(c, "delete key") /\ Leaves(c)
    /\ IF key[q.key] = q.is
       THEN key' = [key EXCEPT ![q.key] = NoKey] /\ dead' = dead \union {q.key}
       ELSE UNCHANGED <<key, dead>>
    /\ UNCHANGED <<token, late, added>>

\* Git over HTTPS: the row of the token is read and its secret checked.
_holder_from_basic_auth(c, t, writing) ==
    /\ In(c, "idle") /\ token[t] # NoToken
    /\ Then(c, [at |-> "mark", token |-> t, holder |-> token[t], writing |-> writing])
    /\ UNCHANGED <<token, key, dead, late, added>>

\* Mutant: the use is noted somewhere else, after the answer.
BelieveWhatWasRead(c) ==
    LET q == caller[c] IN
    /\ In(c, "mark")
    /\ Then(c, [at |-> "holder", token |-> q.token, holder |-> q.holder, writing |-> q.writing])
    /\ late' = IF q.token \in dead THEN late \union {q.token} ELSE late
    /\ UNCHANGED <<token, key, dead, added>>

\* The use is written down before anybody is let in: the write fails, and the
\* request with it, when the row is gone.
authenticate(c) ==
    LET q == caller[c] IN
    /\ In(c, "mark")
    /\ IF token[q.token] = NoToken THEN Leaves(c) /\ UNCHANGED late
       ELSE /\ Then(c, [at |-> "holder", token |-> q.token, holder |-> q.holder, writing |-> q.writing])
            /\ late' = IF q.token \in dead THEN late \union {q.token} ELSE late
    /\ UNCHANGED <<token, key, dead, added>>

\* A token does what its scopes say; without the scope the caller is nobody.
_may_use(c) ==
    LET q == caller[c] IN
    /\ In(c, "holder")
    /\ Then(c, IF (IF q.writing THEN "repo:write" ELSE "repo:read") \in q.holder.scopes
               THEN [at |-> "git", user |-> q.holder.user, by |-> q.token, writing |-> q.writing]
               ELSE [at |-> "git", user |-> NoOne, by |-> q.token, writing |-> q.writing])
    /\ UNCHANGED <<token, key, dead, late, added>>

\* Git over SSH: the key names the account of the whole connection.
find_owner(c, k) ==
    /\ In(c, "idle") /\ key[k] # NoKey
    /\ Then(c, [at |-> "note", key |-> k, is |-> key[k]])
    /\ UNCHANGED <<token, key, dead, late, added>>

\* The write goes to the row that was read: one added again is another row.
validate_public_key(c) ==
    LET q == caller[c] IN
    /\ In(c, "note")
    /\ IF key[q.key] # q.is THEN Leaves(c) /\ UNCHANGED late
       ELSE /\ Then(c, [at |-> "connected", key |-> q.key, user |-> q.is.user])
            /\ late' = IF q.key \in dead THEN late \union {q.key} ELSE late
    /\ UNCHANGED <<token, key, dead, added>>

\* Any number of sessions follow, the key is not asked for again.
handle_session(c, writing) ==
    LET q == caller[c] IN
    /\ In(c, "connected")
    /\ Then(c, [at |-> "git", user |-> q.user, by |-> q.key, writing |-> writing])
    /\ UNCHANGED <<token, key, dead, late, added>>

Done(c) == In(c, "git") /\ Leaves(c) /\ UNCHANGED <<token, key, dead, late, added>>

Next ==
    \/ \E t \in Tokens, u \in Users, s \in SUBSET TokenScopes : create(t, u, s)
    \/ \E c \in Callers :
        \/ delete(c) \/ add_ssh_key(c) \/ RemoveKey(c) \/ authenticate(c) \/ _may_use(c)
        \/ validate_public_key(c) \/ Done(c)
        \/ \E t \in Tokens : delete_token(c, t) \/ \E b \in BOOLEAN : _holder_from_basic_auth(c, t, b)
        \/ \E k \in Keys : \/ delete_ssh_key(c, k) \/ find_owner(c, k)
                           \/ \E u \in Users : add(c, k, u)
        \/ \E b \in BOOLEAN : handle_session(c, b)

Spec == Init /\ [][Next]_credentialVars

-----------------------------------------------------------------------------
(* Tokens, keys and callers are of their kind. *)
TypeOK ==
    /\ token \in TokenRows /\ key \in KeyRows
    /\ dead \subseteq Tokens \union Keys /\ late \subseteq Tokens \union Keys /\ added \in 0..MaxKeys
    /\ \A c \in Callers : caller[c].at \in
         {"idle", "delete token", "add", "delete key", "mark", "holder", "note", "connected", "git"}

\* Once the removal of a credential was answered it opens the door to nobody
\* any more, even to a request that had read it before.  (A connection it
\* opened earlier goes on.)
RemovedOpensNothing == late = {}
=============================================================================
