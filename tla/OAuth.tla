------------------------------- MODULE OAuth -------------------------------
(***************************************************************************)
(* The OpenID Connect provider: a parked request, the consent, a one-time  *)
(* code, and refresh tokens that are replaced at every use.  Grants are    *)
(* rows; requests, codes and refresh tokens are keys of Valkey, with an    *)
(* index of refresh tokens per grant.  Each await is a step.               *)
(*                                                                         *)
(* Only the scope that asks for a refresh token is told apart from others. *)
(***************************************************************************)
EXTENDS Naturals, FiniteSets

CONSTANTS
    Grantors, Clients, Requesters,
    Scopes, Offline,    \* offline_access is one of the scopes
    Handles,            \* what the random generator returns, each once
    None,
    MaxRevocations, MaxStops

VARIABLES
    grants,         \* rows of oauth_grants: scopes allowed, None without a row
    kept,           \* Valkey: what a handle stands for
    listed,         \* accounts:oauth-refresh-index
    flow,           \* where each request stands
    given,          \* handles used so far
    revoked,        \* history: how often a grant was taken back
    halfRevoked,    \* history: grants whose revocation a restart broke off
    stops

oauthVars == <<grants, kept, listed, flow, given, revoked, halfRevoked, stops>>

\* Which of the unused ones it is makes no difference.
Fresh == CHOOSE h \in Handles : h \notin given
past == <<revoked, halfRevoked, stops>>

Pairs        == Grantors \X Clients
Resting      == [at |-> "idle"]
Stands(c, s) == flow[c].at = s
Moves(c, r)  == flow' = [flow EXCEPT ![c] = r]
Is(h, kind)  == kept[h] # None /\ kept[h].kind = kind
Gone(h)      == kept' = [kept EXCEPT ![h] = None]
GrantRows    == [Pairs -> (SUBSET Scopes) \union {None}]
Allowed(p)   == IF grants[p] = None THEN {} ELSE grants[p]

Keep(h, r) ==
    /\ given # Handles /\ h = Fresh /\ given' = given \union {h}
    /\ kept' = [kept EXCEPT ![h] = r]

Init ==
    /\ grants = [p \in Pairs |-> None] /\ kept = [h \in Handles |-> None]
    /\ listed = [p \in Pairs |-> {}] /\ flow = [c \in Requesters |-> Resting]
    /\ given = {} /\ revoked = [p \in Pairs |-> 0] /\ halfRevoked = {} /\ stops = 0

-----------------------------------------------------------------------------
(* From /authorize to a code.                                              *)

\* A visitor's request is parked until somebody signs in and decides.
StartAuthorization(h) ==
    /\ \E cl \in Clients, s \in SUBSET Scopes :
          Keep(h, [kind |-> "request", client |-> cl, scopes |-> s])
    /\ UNCHANGED <<grants, listed, flow, past>>

\* has_grant: who has allowed all of it before is not asked again.
HasGrant(p, scopes) == grants[p] # None /\ scopes \subseteq grants[p]

TakeRequest(c, u, h, step) ==
    /\ Stands(c, "idle") /\ Is(h, "request") /\ Gone(h)
    /\ Moves(c, [at |-> step, pair |-> <<u, kept[h].client>>, scopes |-> kept[h].scopes])
    /\ UNCHANGED <<grants, listed, given, past>>

AuthorizeAgain(c, u, h) ==
    /\ Is(h, "request") /\ HasGrant(<<u, kept[h].client>>, kept[h].scopes)
    /\ TakeRequest(c, u, h, "code")

Approve(c, u, h) == TakeRequest(c, u, h, "find")

Deny(h) ==
    /\ Is(h, "request") /\ Gone(h)
    /\ UNCHANGED <<grants, listed, flow, given, past>>

\* save_grant reads the row, and writes what it read and what was asked.
FindGrant(c) ==
    /\ Stands(c, "find")
    /\ LET p == flow[c].pair
       IN  Moves(c, [at |-> IF grants[p] = None THEN "insert" ELSE "add", pair |-> p,
                     scopes |-> flow[c].scopes \union Allowed(p), asked |-> flow[c].scopes, more |-> ~(flow[c].scopes \subseteq Allowed(p))])
    /\ UNCHANGED <<grants, kept, listed, given, past>>

\* uq_oauth_grants_user_client: the second of two first consents fails.
InsertGrant(c) ==
    /\ Stands(c, "insert")
    /\ LET p == flow[c].pair
       IN  IF grants[p] = None
           THEN /\ grants' = [grants EXCEPT ![p] = flow[c].scopes]
                /\ Moves(c, [at |-> "code", pair |-> p, scopes |-> flow[c].asked])
           ELSE Moves(c, Resting) /\ UNCHANGED grants
    /\ UNCHANGED <<kept, listed, given, past>>

\* An UPDATE of a row that is gone matches nothing and fails; none is sent
\* when the list stays as it was read.
AddToGrant(c) ==
    /\ Stands(c, "add")
    /\ LET p == flow[c].pair
           on == Moves(c, [at |-> "code", pair |-> p, scopes |-> flow[c].asked])
       IN  \/ grants[p] # None /\ grants' = [grants EXCEPT ![p] = flow[c].scopes] /\ on
           \/ grants[p] = None /\ Moves(c, Resting) /\ UNCHANGED grants
           \/ ~flow[c].more /\ on /\ UNCHANGED grants
    /\ UNCHANGED <<kept, listed, given, past>>

IssueCode(c, h) ==
    /\ Stands(c, "code") /\ Moves(c, Resting)
    /\ Keep(h, [kind |-> "code", pair |-> flow[c].pair, scopes |-> flow[c].scopes])
    /\ UNCHANGED <<grants, listed, past>>

-----------------------------------------------------------------------------
(* The token endpoint.                                                     *)

\* The code is spent even when the wrong application brings it.
TakeCode(c, h, cl) ==
    /\ Stands(c, "idle") /\ Is(h, "code") /\ Gone(h)
    /\ Moves(c, IF kept[h].pair[2] = cl
                THEN [at |-> "issue", pair |-> kept[h].pair, scopes |-> kept[h].scopes, root |-> h]
                ELSE Resting)
    /\ UNCHANGED <<grants, listed, given, past>>

\* Mutant: the old refresh token keeps working beside the new one.
TakeRefreshTokenAgain(c, h, cl) ==
    /\ Stands(c, "idle") /\ Is(h, "refresh")
    /\ Moves(c, [at |-> "unlist", pair |-> kept[h].pair, scopes |-> kept[h].scopes,
                 root |-> kept[h].root, old |-> h, right |-> kept[h].pair[2] = cl])
    /\ UNCHANGED <<grants, kept, listed, given, past>>

TakeRefreshToken(c, h, cl) ==
    /\ Stands(c, "idle") /\ Is(h, "refresh") /\ Gone(h)
    /\ Moves(c, [at |-> "unlist", pair |-> kept[h].pair, scopes |-> kept[h].scopes,
                 root |-> kept[h].root, old |-> h, right |-> kept[h].pair[2] = cl])
    /\ UNCHANGED <<grants, listed, given, past>>

TokenEndpoint(c, h, cl) == TakeCode(c, h, cl) \/ TakeRefreshToken(c, h, cl)

Unlist(c) ==
    /\ Stands(c, "unlist")
    /\ listed' = [listed EXCEPT ![flow[c].pair] = @ \ {flow[c].old}]
    /\ Moves(c, IF flow[c].right
                THEN [at |-> "issue", pair |-> flow[c].pair, scopes |-> flow[c].scopes,
                      root |-> flow[c].root]
                ELSE Resting)
    /\ UNCHANGED <<grants, kept, given, past>>

Revoking(p) == \E c \in Requesters :
    flow[c].at \in {"list", "drop", "forget"} /\ flow[c].pair = p

\* One MULTI saves the refresh token and its place in the index.
SaveRefreshToken(h, p, token) ==
    Keep(h, token) /\ listed' = [listed EXCEPT ![p] = @ \union {h}]

Issue(c, h) ==
    /\ Stands(c, "issue") /\ Moves(c, Resting)
    /\ LET p == flow[c].pair
       IN  IF Offline \in flow[c].scopes
           THEN SaveRefreshToken(h, p, [kind |-> "refresh", pair |-> p,
                   scopes |-> flow[c].scopes, root |-> flow[c].root,
                   born |-> revoked[p], late |-> Revoking(p)])
           ELSE UNCHANGED <<kept, given, listed>>
    /\ UNCHANGED <<grants, past>>

-----------------------------------------------------------------------------
(* Taking access away.                                                     *)

RevokeGrant(c, p) ==
    /\ Stands(c, "idle") /\ grants[p] # None /\ revoked[p] < MaxRevocations
    /\ grants' = [grants EXCEPT ![p] = None]
    /\ revoked' = [revoked EXCEPT ![p] = @ + 1]
    /\ Moves(c, [at |-> "list", pair |-> p])
    /\ UNCHANGED <<kept, listed, given, halfRevoked, stops>>

ListTokens(c) ==
    /\ Stands(c, "list")
    /\ Moves(c, [at |-> "drop", pair |-> flow[c].pair, todo |-> listed[flow[c].pair]])
    /\ UNCHANGED <<grants, kept, listed, given, past>>

\* Mutant: of several refresh tokens one is dropped.
DropOneToken(c) ==
    /\ Stands(c, "drop")
    /\ \E h \in flow[c].todo \union {None} :
          kept' = [x \in Handles |-> IF x = h THEN None ELSE kept[x]]
    /\ Moves(c, [at |-> "forget", pair |-> flow[c].pair])
    /\ UNCHANGED <<grants, listed, given, past>>

DropTokens(c) ==
    /\ Stands(c, "drop")
    /\ kept' = [h \in Handles |-> IF h \in flow[c].todo THEN None ELSE kept[h]]
    /\ Moves(c, [at |-> "forget", pair |-> flow[c].pair])
    /\ UNCHANGED <<grants, listed, given, past>>

\* The whole index goes, also what came into it since it was listed.
ForgetIndex(c) ==
    /\ Stands(c, "forget") /\ Moves(c, Resting)
    /\ listed' = [listed EXCEPT ![flow[c].pair] = {}]
    /\ UNCHANGED <<grants, kept, given, past>>

RunsOut(h) ==
    /\ kept[h] # None /\ Gone(h)
    /\ UNCHANGED <<grants, listed, flow, given, past>>

Stop ==
    /\ stops < MaxStops /\ stops' = stops + 1
    /\ \E c \in Requesters : ~Stands(c, "idle")
    /\ flow' = [c \in Requesters |-> Resting]
    /\ halfRevoked' = halfRevoked \union {p \in Pairs : Revoking(p)}
    /\ UNCHANGED <<grants, kept, listed, given, revoked>>

Next ==
    \/ \E h \in Handles : StartAuthorization(h) \/ Deny(h) \/ RunsOut(h)
    \/ \E c \in Requesters :
          \/ FindGrant(c) \/ InsertGrant(c) \/ AddToGrant(c) \/ Unlist(c)
          \/ ListTokens(c) \/ DropTokens(c) \/ ForgetIndex(c)
          \/ \E p \in Pairs : RevokeGrant(c, p)
          \/ \E h \in Handles :
                \/ IssueCode(c, h) \/ Issue(c, h)
                \/ \E u \in Grantors : AuthorizeAgain(c, u, h) \/ Approve(c, u, h)
                \/ \E cl \in Clients : TokenEndpoint(c, h, cl)
    \/ Stop

Spec == Init /\ [][Next]_oauthVars

-----------------------------------------------------------------------------
(* Every row, key and request is of its kind. *)
TypeOK ==
    /\ grants \in GrantRows
    /\ listed \in [Pairs -> SUBSET given] /\ given \subseteq Handles
    /\ \A h \in Handles \ given : kept[h] = None
    /\ halfRevoked \subseteq Pairs

Carries(c, h) == flow[c].at \in {"unlist", "issue"} /\ flow[c].root = h

(* What one code led to is one refresh token at a time, in the store or in
   the hands of one request (store.take_refresh_token: every use hands out
   a new one). *)
ChainHasOneToken == \A root \in given :
    Cardinality({h \in Handles : Is(h, "refresh") /\ kept[h].root = root})
      + Cardinality({c \in Requesters : Carries(c, root)}) <= 1

(* After a revocation no refresh token from before it works, unless the
   token was saved beside another revocation or a restart broke this one
   off (service.revoke_grant). *)
RevokedIsDropped == \A h \in Handles :
    Is(h, "refresh") /\ kept[h].born < revoked[kept[h].pair] =>
        \/ kept[h].late
        \/ Revoking(kept[h].pair) \/ kept[h].pair \in halfRevoked
=============================================================================
