---------------------------- MODULE AccessProofs ----------------------------
(* Proofs about who gets in: the OpenID Connect provider, signing in, the  *)
(* credentials of Git and the grants of machines, each for any number of   *)
(* accounts, tokens, keys and requests under way.  The components share no *)
(* state; each is an instance, with its own variables.                     *)
EXTENDS Services, FiniteSetTheorems, TLAPS

-----------------------------------------------------------------------------
(* The OpenID Connect provider.                                            *)

CarriesScopes == {"find", "insert", "add", "code", "issue", "unlist"}
Carriers      == {c \in Requesters : flow[c].at \in {"unlist", "issue"}}

\* What a request holds, at each of its steps.
FlowTyped ==
    /\ DOMAIN flow = Requesters
    /\ \A c \in Requesters :
          /\ flow[c].at \in CarriesScopes \union {"idle", "list", "drop", "forget"}
          /\ flow[c].at # "idle" => flow[c].pair \in O!Pairs
          /\ flow[c].at \in CarriesScopes => flow[c].scopes \subseteq Scopes
          /\ flow[c].at \in {"insert", "add"} => flow[c].asked \subseteq Scopes
          /\ flow[c].at \in {"issue", "unlist"} => flow[c].root \in given
          /\ flow[c].at = "unlist" => flow[c].old \in given

\* What a key stands for.  A handle not given yet stands for nothing.
KeptTyped ==
    /\ DOMAIN kept = Handles
    /\ \A h \in Handles : kept[h] # None =>
          /\ h \in given /\ kept[h].scopes \subseteq Scopes
          /\ kept[h].kind = "request" => kept[h].client \in Clients
          /\ kept[h].kind \in {"code", "refresh"} => kept[h].pair \in O!Pairs
          /\ kept[h].kind = "refresh" => kept[h].root \in given

OAuthTyped == O!TypeOK /\ revoked \in [O!Pairs -> Nat] /\ FlowTyped /\ KeptTyped

LEMMA FreshIsNew ==
  ASSUME given \subseteq Handles, given # Handles
  PROVE  O!Fresh \in Handles /\ O!Fresh \notin given
  BY DEF O!Fresh

LEMMA OAuthTypedInit == O!Init => OAuthTyped
  BY DEF O!Init, OAuthTyped, O!TypeOK, FlowTyped, KeptTyped, O!GrantRows, O!Resting, CarriesScopes

LEMMA MovesTyped ==
  ASSUME FlowTyped, NEW c \in Requesters, NEW r, O!Moves(c, r)
  PROVE  /\ DOMAIN flow' = Requesters /\ flow'[c] = r
         /\ \A d \in Requesters \ {c} : flow'[d] = flow[d]
  BY DEF FlowTyped, O!Moves

LEMMA KeepTyped ==
  ASSUME OAuthTyped, NEW h \in Handles, NEW r, O!Keep(h, r)
  PROVE  /\ h \notin given /\ given' = given \union {h} /\ given' \subseteq Handles
         /\ kept[h] = None
         /\ DOMAIN kept' = Handles /\ kept'[h] = r
         /\ \A g \in Handles \ {h} : kept'[g] = kept[g]
  BY FreshIsNew DEF OAuthTyped, O!TypeOK, KeptTyped, O!Keep

LEMMA GoneTyped ==
  ASSUME OAuthTyped, NEW h \in Handles, O!Gone(h)
  PROVE  /\ DOMAIN kept' = Handles /\ kept'[h] = None
         /\ \A g \in Handles \ {h} : kept'[g] = kept[g]
  BY DEF OAuthTyped, KeptTyped, O!Gone

LEMMA OAuthTypedNext == OAuthTyped /\ [O!Next]_O!oauthVars => OAuthTyped'
<1> SUFFICES ASSUME OAuthTyped, [O!Next]_O!oauthVars PROVE OAuthTyped'
  OBVIOUS
<1> USE DEF OAuthTyped, O!TypeOK, O!past
<1>0. FlowTyped /\ KeptTyped /\ grants \in O!GrantRows
      /\ listed \in [O!Pairs -> SUBSET given] /\ given \subseteq Handles
  OBVIOUS
<1>a. ASSUME NEW p \in O!Pairs PROVE O!Allowed(p) \subseteq Scopes
  BY <1>0 DEF O!Allowed, O!GrantRows
<1>1. ASSUME NEW h \in Handles, O!StartAuthorization(h) PROVE OAuthTyped'
  <2>1. PICK cl \in Clients, s \in SUBSET Scopes :
          O!Keep(h, [kind |-> "request", client |-> cl, scopes |-> s])
    BY <1>1 DEF O!StartAuthorization
  <2>2. KeptTyped' /\ O!TypeOK'
    BY <1>1, <2>1, KeepTyped DEF O!StartAuthorization, KeptTyped
  <2> QED
    BY <1>1, <2>1, <2>2, KeepTyped DEF O!StartAuthorization, FlowTyped
<1>2. ASSUME NEW h \in Handles, O!Deny(h) PROVE OAuthTyped'
  BY <1>2, GoneTyped DEF O!Deny, FlowTyped, KeptTyped
<1>3. ASSUME NEW h \in Handles, O!RunsOut(h) PROVE OAuthTyped'
  BY <1>3, GoneTyped DEF O!RunsOut, FlowTyped, KeptTyped
<1>4. ASSUME NEW c \in Requesters, O!FindGrant(c) PROVE OAuthTyped'
  <2> DEFINE p == flow[c].pair
             r == [at |-> IF grants[p] = None THEN "insert" ELSE "add", pair |-> p,
                   scopes |-> flow[c].scopes \union O!Allowed(p), asked |-> flow[c].scopes,
                   more |-> ~(flow[c].scopes \subseteq O!Allowed(p))]
  <2>1. flow[c].at = "find" /\ O!Moves(c, r) /\ UNCHANGED <<grants, kept, listed, given, O!past>>
    BY <1>4 DEF O!FindGrant, O!Stands
  <2>2. p \in O!Pairs /\ flow[c].scopes \subseteq Scopes /\ O!Allowed(p) \subseteq Scopes
    BY <1>a, <2>1 DEF FlowTyped, CarriesScopes
  <2>3. /\ r.at \in {"insert", "add"} /\ r.pair = p /\ r.asked = flow[c].scopes
        /\ r.scopes = flow[c].scopes \union O!Allowed(p)
    OBVIOUS
  <2> HIDE DEF r
  <2>4. FlowTyped'
    BY <2>1, <2>2, <2>3, MovesTyped DEF FlowTyped, CarriesScopes
  <2> QED
    BY <2>1, <2>4 DEF KeptTyped
<1>5. ASSUME NEW c \in Requesters, NEW r, O!Moves(c, r),
             r = O!Resting \/ r = [at |-> "code", pair |-> flow[c].pair, scopes |-> flow[c].asked],
             flow[c].at \in {"insert", "add"}, UNCHANGED <<kept, listed, given, O!past>>,
             grants' \in O!GrantRows
      PROVE  OAuthTyped'
  <2>1. FlowTyped'
    BY <1>5, MovesTyped DEF FlowTyped, CarriesScopes, O!Resting
  <2> QED
    BY <1>5, <2>1 DEF KeptTyped
<1>6. ASSUME NEW c \in Requesters, O!InsertGrant(c) PROVE OAuthTyped'
  <2>1. flow[c].pair \in O!Pairs /\ flow[c].scopes \subseteq Scopes
        /\ flow[c].at = "insert"
    BY <1>6 DEF O!InsertGrant, O!Stands, FlowTyped, CarriesScopes
  <2>2. [grants EXCEPT ![flow[c].pair] = flow[c].scopes] \in O!GrantRows
    BY <2>1 DEF O!GrantRows
  <2> QED
    BY <1>5, <1>6, <2>1, <2>2 DEF O!InsertGrant
<1>7. ASSUME NEW c \in Requesters, O!AddToGrant(c) PROVE OAuthTyped'
  <2>1. flow[c].pair \in O!Pairs /\ flow[c].scopes \subseteq Scopes
        /\ flow[c].at = "add"
    BY <1>7 DEF O!AddToGrant, O!Stands, FlowTyped, CarriesScopes
  <2>2. [grants EXCEPT ![flow[c].pair] = flow[c].scopes] \in O!GrantRows
    BY <2>1 DEF O!GrantRows
  <2> QED
    BY <1>5, <1>7, <2>1, <2>2 DEF O!AddToGrant
<1>8. ASSUME NEW c \in Requesters, O!Unlist(c) PROVE OAuthTyped'
  <2>1. FlowTyped'
    BY <1>8, MovesTyped DEF O!Unlist, O!Stands, FlowTyped, CarriesScopes, O!Resting
  <2> QED
    BY <1>8, <2>1 DEF O!Unlist, O!Stands, KeptTyped
<1>9. ASSUME NEW c \in Requesters, O!ListTokens(c) PROVE OAuthTyped'
  <2>1. FlowTyped'
    BY <1>9, MovesTyped DEF O!ListTokens, O!Stands, FlowTyped, CarriesScopes
  <2> QED
    BY <1>9, <2>1 DEF O!ListTokens, KeptTyped
<1>10. ASSUME NEW c \in Requesters, O!DropTokens(c) PROVE OAuthTyped'
  <2>1. FlowTyped'
    BY <1>10, MovesTyped DEF O!DropTokens, O!Stands, FlowTyped, CarriesScopes
  <2> QED
    BY <1>10, <2>1 DEF O!DropTokens, KeptTyped
<1>11. ASSUME NEW c \in Requesters, O!ForgetIndex(c) PROVE OAuthTyped'
  <2>1. FlowTyped'
    BY <1>11, MovesTyped DEF O!ForgetIndex, O!Stands, FlowTyped, CarriesScopes, O!Resting
  <2> QED
    BY <1>11, <2>1 DEF O!ForgetIndex, KeptTyped
<1>12. ASSUME NEW c \in Requesters, NEW p \in O!Pairs, O!RevokeGrant(c, p) PROVE OAuthTyped'
  <2>1. FlowTyped'
    BY <1>12, MovesTyped DEF O!RevokeGrant, O!Stands, FlowTyped, CarriesScopes
  <2>2. grants' \in O!GrantRows
    BY <1>12 DEF O!RevokeGrant, O!GrantRows
  <2> QED
    BY <1>12, <2>1, <2>2 DEF O!RevokeGrant, KeptTyped
<1>13. ASSUME NEW c \in Requesters, NEW h \in Handles, O!IssueCode(c, h) PROVE OAuthTyped'
  <2>1. FlowTyped'
    BY <1>13, MovesTyped, KeepTyped DEF O!IssueCode, O!Stands, FlowTyped, CarriesScopes, O!Resting
  <2>2. flow[c].pair \in O!Pairs /\ flow[c].scopes \subseteq Scopes
    BY <1>13 DEF O!IssueCode, O!Stands, FlowTyped, CarriesScopes
  <2>3. KeptTyped' /\ O!TypeOK'
    BY <1>13, <2>2, KeepTyped DEF O!IssueCode, KeptTyped
  <2> QED
    BY <1>13, <2>1, <2>3 DEF O!IssueCode
<1>14. ASSUME NEW c \in Requesters, NEW h \in Handles, O!Issue(c, h) PROVE OAuthTyped'
  <2>0. /\ flow[c].at = "issue" /\ O!Moves(c, O!Resting)
        /\ UNCHANGED <<grants, O!past>>
        /\ flow[c].pair \in O!Pairs /\ flow[c].scopes \subseteq Scopes /\ flow[c].root \in given
    BY <1>14 DEF O!Issue, O!Stands, FlowTyped, CarriesScopes
  <2>1. CASE Offline \in flow[c].scopes
    <3>1. PICK entry : /\ O!Keep(h, entry) /\ entry.kind = "refresh"
                       /\ entry.pair = flow[c].pair /\ entry.scopes = flow[c].scopes
                       /\ entry.root = flow[c].root
                       /\ listed' = [listed EXCEPT ![flow[c].pair] = @ \union {h}]
      BY <1>14, <2>1 DEF O!Issue, O!SaveRefreshToken
    <3>2. FlowTyped'
      BY <2>0, <3>1, MovesTyped, KeepTyped DEF FlowTyped, CarriesScopes, O!Resting
    <3>3. KeptTyped'
      BY <2>0, <3>1, KeepTyped DEF KeptTyped
    <3>4. O!TypeOK'
      BY <2>0, <3>1, KeepTyped DEF O!GrantRows
    <3> QED
      BY <2>0, <3>2, <3>3, <3>4
  <2>2. CASE Offline \notin flow[c].scopes
    <3>1. UNCHANGED <<kept, given, listed>>
      BY <1>14, <2>2 DEF O!Issue
    <3>2. FlowTyped'
      BY <2>0, <3>1, MovesTyped DEF FlowTyped, CarriesScopes, O!Resting
    <3> QED
      BY <2>0, <3>1, <3>2 DEF KeptTyped
  <2> QED
    BY <2>1, <2>2
<1>15. ASSUME NEW c \in Requesters, NEW h \in Handles, NEW u \in Grantors,
              NEW step \in {"find", "code"}, O!TakeRequest(c, u, h, step)
       PROVE  OAuthTyped'
  <2>1. kept[h].client \in Clients /\ kept[h].scopes \subseteq Scopes
    BY <1>15 DEF O!TakeRequest, O!Is, KeptTyped
  <2>2. <<u, kept[h].client>> \in O!Pairs
    BY <2>1 DEF O!Pairs
  <2>3. FlowTyped'
    BY <1>15, <2>1, <2>2, MovesTyped DEF O!TakeRequest, FlowTyped, CarriesScopes
  <2>4. KeptTyped' /\ O!TypeOK'
    BY <1>15, GoneTyped DEF O!TakeRequest, KeptTyped
  <2> QED
    BY <1>15, <2>3, <2>4 DEF O!TakeRequest
<1>16. ASSUME NEW c \in Requesters, NEW h \in Handles, NEW u \in Grantors,
              O!AuthorizeAgain(c, u, h) \/ O!Approve(c, u, h)
       PROVE  OAuthTyped'
  BY <1>15, <1>16 DEF O!AuthorizeAgain, O!Approve
<1>17. ASSUME NEW c \in Requesters, NEW h \in Handles, NEW cl \in Clients, O!TakeCode(c, h, cl)
       PROVE  OAuthTyped'
  <2>1. h \in given /\ kept[h].pair \in O!Pairs /\ kept[h].scopes \subseteq Scopes
    BY <1>17 DEF O!TakeCode, O!Is, KeptTyped
  <2>2. FlowTyped'
    BY <1>17, <2>1, MovesTyped DEF O!TakeCode, FlowTyped, CarriesScopes, O!Resting
  <2>3. KeptTyped' /\ O!TypeOK'
    BY <1>17, GoneTyped DEF O!TakeCode, KeptTyped
  <2> QED
    BY <1>17, <2>2, <2>3 DEF O!TakeCode
<1>18. ASSUME NEW c \in Requesters, NEW h \in Handles, NEW cl \in Clients,
              O!TakeRefreshToken(c, h, cl)
       PROVE  OAuthTyped'
  <2>1. /\ h \in given /\ kept[h].pair \in O!Pairs /\ kept[h].scopes \subseteq Scopes
        /\ kept[h].root \in given
    BY <1>18 DEF O!TakeRefreshToken, O!Is, KeptTyped
  <2>2. FlowTyped'
    BY <1>18, <2>1, MovesTyped DEF O!TakeRefreshToken, FlowTyped, CarriesScopes
  <2>3. KeptTyped' /\ O!TypeOK'
    BY <1>18, GoneTyped DEF O!TakeRefreshToken, KeptTyped
  <2> QED
    BY <1>18, <2>2, <2>3 DEF O!TakeRefreshToken
<1>19. ASSUME O!Stop PROVE OAuthTyped'
  BY <1>19 DEF O!Stop, FlowTyped, KeptTyped, O!Resting, CarriesScopes
<1>20. ASSUME UNCHANGED O!oauthVars PROVE OAuthTyped'
  BY <1>20 DEF O!oauthVars, FlowTyped, KeptTyped
<1> HIDE DEF OAuthTyped, O!TypeOK, O!past
<1> QED
  BY <1>1, <1>2, <1>3, <1>4, <1>6, <1>7, <1>8, <1>9, <1>10, <1>11, <1>12, <1>13, <1>14,
     <1>16, <1>17, <1>18, <1>19, <1>20 DEF O!Next, O!TokenEndpoint

-----------------------------------------------------------------------------
(* What is revoked is dropped.                                             *)

\* Refresh tokens the revocation answers for: none that was saved beside
\* another revocation, none whose revocation a restart broke off.
InTime(h) == /\ O!Is(h, "refresh") /\ ~kept[h].late
             /\ kept[h].pair \notin halfRevoked

\* Such a token is in the index; a revocation that has read the index has read
\* the token there, and one that has dropped what it read finds none left.
Indexed(h)  == h \in listed[kept[h].pair]
OnItsWay(h) == kept[h].born < revoked[kept[h].pair] => O!Revoking(kept[h].pair)
OnList(h)   == \A c \in Requesters :
    flow[c].at \in {"drop", "forget"} /\ flow[c].pair = kept[h].pair =>
        flow[c].at = "drop" /\ h \in flow[c].todo

InIndex == \A h \in Handles : InTime(h) => Indexed(h) /\ OnItsWay(h) /\ OnList(h)

\* The place in the index that a refreshed token gives up was its own.
UnlistsGone == \A c \in Requesters :
    flow[c].at = "unlist" => flow[c].old \in given /\ kept[flow[c].old] = None

RevokeInv == OAuthTyped /\ UnlistsGone /\ InIndex

\* A step that adds no token, keeps the index, and neither begins nor ends a
\* part of a revocation keeps what is said of it.
LEMMA InIndexKept ==
  ASSUME RevokeInv, UNCHANGED <<listed, revoked, halfRevoked>>,
         \A h \in Handles : kept'[h] = kept[h] \/ ~O!Is(h, "refresh")',
         \A c \in Requesters :
            \/ flow'[c] = flow[c]
            \/ /\ flow[c].at \notin {"list", "drop", "forget"}
               /\ flow'[c].at \notin {"list", "drop", "forget"}
  PROVE  InIndex'
<1>1. \A p : O!Revoking(p) <=> O!Revoking(p)'
  BY DEF O!Revoking
<1>2. ASSUME NEW h \in Handles, InTime(h)' PROVE kept'[h] = kept[h] /\ InTime(h)
  BY <1>2 DEF InTime, O!Is
<1>3. ASSUME NEW h \in Handles, InTime(h)' PROVE (Indexed(h) /\ OnItsWay(h) /\ OnList(h))'
  <2>1. kept'[h] = kept[h] /\ Indexed(h) /\ OnItsWay(h) /\ OnList(h)
    BY <1>2, <1>3 DEF RevokeInv, InIndex
  <2>2. Indexed(h)' /\ OnItsWay(h)'
    BY <1>1, <2>1 DEF Indexed, OnItsWay
  <2>3. OnList(h)'
    BY <2>1 DEF OnList
  <2> QED
    BY <2>2, <2>3
<1> QED
  BY <1>3 DEF InIndex

LEMMA RevokeInit == O!Init => RevokeInv
  BY OAuthTypedInit DEF O!Init, RevokeInv, UnlistsGone, InIndex, InTime, O!Is, O!Resting

LEMMA RevokeNext == RevokeInv /\ [O!Next]_O!oauthVars => RevokeInv'
<1> SUFFICES ASSUME RevokeInv, [O!Next]_O!oauthVars PROVE (UnlistsGone /\ InIndex)'
  BY OAuthTypedNext DEF RevokeInv
<1>0. OAuthTyped /\ UnlistsGone /\ FlowTyped /\ KeptTyped
      /\ listed \in [O!Pairs -> SUBSET given] /\ given \subseteq Handles
      /\ revoked \in [O!Pairs -> Nat]
  BY DEF RevokeInv, OAuthTyped, O!TypeOK
<1> DEFINE Safe == UnlistsGone /\ InIndex
<1>a. ASSUME NEW h \in Handles, NEW r, O!Keep(h, r),
             r.kind \in {"request", "code"}, UNCHANGED <<listed, revoked, halfRevoked>>,
             \/ UNCHANGED flow
             \/ \E c \in Requesters : flow[c].at = "code" /\ O!Moves(c, O!Resting)
      PROVE  Safe'
  <2>1. \A c \in Requesters : \/ flow'[c] = flow[c]
                              \/ flow[c].at = "code" /\ flow'[c].at = "idle"
    BY <1>0, <1>a, MovesTyped DEF O!Resting
  <2>2. \A g \in Handles : kept'[g] = kept[g] \/ ~O!Is(g, "refresh")'
    BY <1>0, <1>a, KeepTyped DEF O!Is
  <2>3. InIndex'
    BY <1>a, <2>1, <2>2, InIndexKept
  <2>4. UnlistsGone'
    BY <1>0, <1>a, <2>1, KeepTyped DEF UnlistsGone
  <2> QED
    BY <2>3, <2>4
<1>b. ASSUME NEW c \in Requesters, NEW r, O!Moves(c, r),
             flow[c].at \notin {"list", "drop", "forget"},
             r.at \notin {"list", "drop", "forget", "unlist"},
             UNCHANGED <<kept, listed, given, revoked, halfRevoked>>
      PROVE  Safe'
  <2>1. flow'[c] = r /\ \A d \in Requesters \ {c} : flow'[d] = flow[d]
    BY <1>0, <1>b, MovesTyped
  <2>2. InIndex'
    BY <1>b, <2>1, InIndexKept
  <2> QED
    BY <1>0, <1>b, <2>1, <2>2 DEF UnlistsGone
<1>c. ASSUME NEW h \in Handles, O!Gone(h), UNCHANGED <<flow, listed, given, revoked, halfRevoked>>
      PROVE  Safe'
  <2>1. \A g \in Handles : kept'[g] = kept[g] \/ ~O!Is(g, "refresh")'
    BY <1>0, <1>c, GoneTyped DEF O!Is
  <2>2. InIndex'
    BY <1>c, <2>1, InIndexKept
  <2> QED
    BY <1>0, <1>c, <2>2, GoneTyped DEF UnlistsGone
<1>d. ASSUME NEW h \in Handles, O!Gone(h), O!Is(h, "request") \/ O!Is(h, "code") \/ O!Is(h, "refresh"),
             NEW c \in Requesters, NEW r, O!Moves(c, r), flow[c].at = "idle",
             r.at \notin {"list", "drop", "forget"}, r.at = "unlist" => r.old = h,
             UNCHANGED <<listed, given, revoked, halfRevoked>>
      PROVE  Safe'
  <2>1. flow'[c] = r /\ \A d \in Requesters \ {c} : flow'[d] = flow[d]
    BY <1>0, <1>d, MovesTyped
  <2>2. \A g \in Handles : kept'[g] = kept[g] \/ ~O!Is(g, "refresh")'
    BY <1>0, <1>d, GoneTyped DEF O!Is
  <2>3. InIndex'
    BY <1>d, <2>1, <2>2, InIndexKept
  <2>4. h \in given
    BY <1>0, <1>d DEF KeptTyped, O!Is
  <2> QED
    BY <1>0, <1>d, <2>1, <2>3, <2>4, GoneTyped DEF UnlistsGone
<1> USE DEF O!past
<1>1. ASSUME NEW h \in Handles, O!StartAuthorization(h) PROVE Safe'
  BY <1>a, <1>1 DEF O!StartAuthorization
<1>2. ASSUME NEW h \in Handles, O!Deny(h) \/ O!RunsOut(h) PROVE Safe'
  BY <1>c, <1>2 DEF O!Deny, O!RunsOut
<1>3. ASSUME NEW c \in Requesters, O!FindGrant(c) PROVE Safe'
  BY <1>b, <1>3 DEF O!FindGrant, O!Stands
<1>4. ASSUME NEW c \in Requesters, O!InsertGrant(c) PROVE Safe'
  BY <1>b, <1>4 DEF O!InsertGrant, O!Stands, O!Resting
<1>5. ASSUME NEW c \in Requesters, O!AddToGrant(c) PROVE Safe'
  BY <1>b, <1>5 DEF O!AddToGrant, O!Stands, O!Resting
<1>6. ASSUME NEW c \in Requesters, O!Unlist(c) PROVE Safe'
  <2> DEFINE old == flow[c].old
  <2>1. flow[c].at = "unlist" /\ flow[c].pair \in O!Pairs /\ kept[old] = None
    BY <1>0, <1>6 DEF O!Unlist, O!Stands, FlowTyped, UnlistsGone
  <2>2. /\ listed' = [listed EXCEPT ![flow[c].pair] = @ \ {old}]
        /\ UNCHANGED <<grants, kept, given, revoked, halfRevoked>>
    BY <1>6 DEF O!Unlist
  <2>3. \A d \in Requesters : \/ flow'[d] = flow[d]
                              \/ d = c /\ flow'[d].at \in {"issue", "idle"}
    BY <1>0, <1>6, MovesTyped DEF O!Unlist, O!Resting
  <2> HIDE DEF old
  <2>4. \A p : O!Revoking(p) <=> O!Revoking(p)'
    BY <2>1, <2>3 DEF O!Revoking
  <2>5. ASSUME NEW h \in Handles, InTime(h)' PROVE (Indexed(h) /\ OnItsWay(h) /\ OnList(h))'
    <3>1. Indexed(h) /\ OnItsWay(h) /\ OnList(h) /\ kept[h] # None /\ kept[h].pair \in O!Pairs
      BY <1>0, <2>2, <2>5 DEF RevokeInv, InIndex, InTime, O!Is, KeptTyped
    <3>2. h # old
      BY <2>1, <3>1
    <3>3. Indexed(h)'
      BY <1>0, <2>2, <3>1, <3>2 DEF Indexed
    <3>4. OnItsWay(h)'
      BY <2>2, <2>4, <3>1 DEF OnItsWay
    <3>5. OnList(h)'
      BY <2>2, <2>3, <3>1 DEF OnList
    <3> QED
      BY <3>3, <3>4, <3>5
  <2>6. InIndex'
    BY <2>5 DEF InIndex
  <2> QED
    BY <1>0, <2>2, <2>3, <2>6 DEF UnlistsGone
<1>7. ASSUME NEW c \in Requesters, NEW h \in Handles, O!IssueCode(c, h) PROVE Safe'
  BY <1>a, <1>7 DEF O!IssueCode, O!Stands
<1>8. ASSUME NEW c \in Requesters, NEW h \in Handles, O!Issue(c, h) PROVE Safe'
  <2> DEFINE p == flow[c].pair
  <2>0. flow[c].at = "issue" /\ p \in O!Pairs /\ O!Moves(c, O!Resting)
        /\ UNCHANGED <<revoked, halfRevoked>>
    BY <1>0, <1>8 DEF O!Issue, O!Stands, FlowTyped
  <2>1. CASE Offline \notin flow[c].scopes
    <3>1. UNCHANGED <<kept, given, listed>>
      BY <1>8, <2>1 DEF O!Issue
    <3> QED
      BY <1>b, <2>0, <3>1 DEF O!Resting
  <2>2. CASE Offline \in flow[c].scopes
    <3>1. PICK entry : /\ O!Keep(h, entry) /\ entry.kind = "refresh" /\ entry.pair = p
                       /\ entry.born = revoked[p] /\ entry.late = O!Revoking(p)
                       /\ listed' = [listed EXCEPT ![p] = @ \union {h}]
      BY <1>8, <2>2 DEF O!Issue, O!SaveRefreshToken
    <3>2. /\ kept'[h] = entry /\ \A g \in Handles \ {h} : kept'[g] = kept[g]
          /\ given' = given \union {h} /\ h \notin given
      BY <1>0, <3>1, KeepTyped
    <3>3. flow'[c].at = "idle" /\ \A d \in Requesters \ {c} : flow'[d] = flow[d]
      BY <1>0, <2>0, MovesTyped DEF O!Resting
    <3>4. \A q : O!Revoking(q) <=> O!Revoking(q)'
      BY <2>0, <3>3 DEF O!Revoking
    <3> HIDE DEF p
    <3>5. ASSUME NEW g \in Handles, InTime(g)', g # h
          PROVE  (Indexed(g) /\ OnItsWay(g) /\ OnList(g))'
      <4>1. Indexed(g) /\ OnItsWay(g) /\ OnList(g) /\ kept'[g] = kept[g] /\ kept[g].pair \in O!Pairs
        BY <1>0, <2>0, <3>2, <3>5 DEF RevokeInv, InIndex, InTime, O!Is, KeptTyped
      <4>2. Indexed(g)'
        BY <1>0, <3>1, <4>1 DEF Indexed
      <4>3. OnItsWay(g)'
        BY <2>0, <3>4, <4>1 DEF OnItsWay
      <4>4. OnList(g)'
        BY <3>3, <4>1 DEF OnList
      <4> QED
        BY <4>2, <4>3, <4>4
    <3>6. ASSUME InTime(h)' PROVE (Indexed(h) /\ OnItsWay(h) /\ OnList(h))'
      <4>1. ~O!Revoking(p)
        BY <3>1, <3>2, <3>6 DEF InTime
      <4>2. Indexed(h)'
        BY <1>0, <2>0, <3>1, <3>2 DEF Indexed
      <4>3. OnItsWay(h)'
        <5>1. ~(revoked[p] < revoked[p])
          BY <1>0, <2>0
        <5> QED
          BY <2>0, <3>1, <3>2, <5>1 DEF OnItsWay
      <4>4. OnList(h)'
        BY <3>1, <3>2, <3>3, <4>1 DEF OnList, O!Revoking
      <4> QED
        BY <4>2, <4>3, <4>4
    <3>7. InIndex'
      BY <3>5, <3>6 DEF InIndex
    <3>8. UnlistsGone'
      BY <1>0, <3>2, <3>3 DEF UnlistsGone
    <3> QED
      BY <3>7, <3>8
  <2> QED
    BY <2>1, <2>2
<1>9. ASSUME NEW c \in Requesters, NEW h \in Handles, NEW u \in Grantors,
             O!AuthorizeAgain(c, u, h) \/ O!Approve(c, u, h)
      PROVE  Safe'
  BY <1>d, <1>9 DEF O!AuthorizeAgain, O!Approve, O!TakeRequest, O!Stands
<1>10. ASSUME NEW c \in Requesters, NEW h \in Handles, NEW cl \in Clients, O!TakeCode(c, h, cl)
       PROVE  Safe'
  BY <1>d, <1>10 DEF O!TakeCode, O!Stands, O!Resting
<1>11. ASSUME NEW c \in Requesters, NEW h \in Handles, NEW cl \in Clients,
              O!TakeRefreshToken(c, h, cl)
       PROVE  Safe'
  BY <1>d, <1>11 DEF O!TakeRefreshToken, O!Stands
<1>12. ASSUME NEW c \in Requesters, NEW p \in O!Pairs, O!RevokeGrant(c, p) PROVE Safe'
  <2>1. /\ revoked' = [revoked EXCEPT ![p] = @ + 1] /\ flow[c].at = "idle"
        /\ UNCHANGED <<kept, listed, given, halfRevoked>>
    BY <1>12 DEF O!RevokeGrant, O!Stands
  <2>2. flow'[c].at = "list" /\ flow'[c].pair = p /\ \A d \in Requesters \ {c} : flow'[d] = flow[d]
    BY <1>0, <1>12, MovesTyped DEF O!RevokeGrant
  <2>3. O!Revoking(p)' /\ \A q : O!Revoking(q) => O!Revoking(q)'
    BY <2>1, <2>2 DEF O!Revoking
  <2>4. ASSUME NEW h \in Handles, InTime(h)' PROVE (Indexed(h) /\ OnItsWay(h) /\ OnList(h))'
    <3>1. Indexed(h) /\ OnItsWay(h) /\ OnList(h)
      BY <2>1, <2>4 DEF RevokeInv, InIndex, InTime, O!Is
    <3>2. OnItsWay(h)'
      BY <1>0, <2>1, <2>3, <3>1 DEF OnItsWay
    <3>3. OnList(h)'
      BY <2>1, <2>2, <3>1 DEF OnList
    <3> QED
      BY <2>1, <3>1, <3>2, <3>3 DEF Indexed
  <2> QED
    BY <1>0, <2>1, <2>2, <2>4 DEF InIndex, UnlistsGone
<1>13. ASSUME NEW c \in Requesters, O!ListTokens(c) PROVE Safe'
  <2>1. /\ flow[c].at = "list" /\ flow'[c].at = "drop" /\ flow'[c].pair = flow[c].pair
        /\ flow'[c].todo = listed[flow[c].pair]
        /\ \A d \in Requesters \ {c} : flow'[d] = flow[d]
        /\ UNCHANGED <<kept, listed, given, revoked, halfRevoked>>
    BY <1>0, <1>13, MovesTyped DEF O!ListTokens, O!Stands
  <2>2. \A p : O!Revoking(p) <=> O!Revoking(p)'
    BY <2>1 DEF O!Revoking
  <2>3. ASSUME NEW h \in Handles, InTime(h)' PROVE (Indexed(h) /\ OnItsWay(h) /\ OnList(h))'
    <3>1. Indexed(h) /\ OnItsWay(h) /\ OnList(h)
      BY <2>1, <2>3 DEF RevokeInv, InIndex, InTime, O!Is
    <3>2. OnList(h)'
      BY <2>1, <3>1 DEF OnList, Indexed
    <3> QED
      BY <2>1, <2>2, <3>1, <3>2 DEF Indexed, OnItsWay
  <2> QED
    BY <1>0, <2>1, <2>3 DEF InIndex, UnlistsGone
<1>14. ASSUME NEW c \in Requesters, O!DropTokens(c) PROVE Safe'
  <2>1. /\ flow[c].at = "drop" /\ flow'[c].at = "forget" /\ flow'[c].pair = flow[c].pair
        /\ \A d \in Requesters \ {c} : flow'[d] = flow[d]
        /\ \A h \in Handles : kept'[h] = IF h \in flow[c].todo THEN None ELSE kept[h]
        /\ UNCHANGED <<listed, given, revoked, halfRevoked>>
    BY <1>0, <1>14, MovesTyped DEF O!DropTokens, O!Stands
  <2>2. \A p : O!Revoking(p) <=> O!Revoking(p)'
    BY <2>1 DEF O!Revoking
  <2>3. ASSUME NEW h \in Handles, InTime(h)' PROVE (Indexed(h) /\ OnItsWay(h) /\ OnList(h))'
    <3>1. /\ kept'[h] = kept[h] /\ h \notin flow[c].todo
          /\ Indexed(h) /\ OnItsWay(h) /\ OnList(h)
      BY <2>1, <2>3 DEF RevokeInv, InIndex, InTime, O!Is
    <3>2. OnList(h)'
      BY <2>1, <3>1 DEF OnList
    <3> QED
      BY <2>1, <2>2, <3>1, <3>2 DEF Indexed, OnItsWay
  <2>4. UnlistsGone'
    BY <1>0, <2>1 DEF UnlistsGone
  <2> QED
    BY <2>3, <2>4 DEF InIndex
<1>15. ASSUME NEW c \in Requesters, O!ForgetIndex(c) PROVE Safe'
  <2>1. /\ flow[c].at = "forget" /\ flow'[c].at = "idle" /\ flow[c].pair \in O!Pairs
        /\ \A d \in Requesters \ {c} : flow'[d] = flow[d]
        /\ listed' = [listed EXCEPT ![flow[c].pair] = {}]
        /\ UNCHANGED <<kept, given, revoked, halfRevoked>>
    BY <1>0, <1>15, MovesTyped DEF O!ForgetIndex, O!Stands, O!Resting, FlowTyped
  <2>2. ASSUME NEW h \in Handles, InTime(h)' PROVE (Indexed(h) /\ OnItsWay(h) /\ OnList(h))'
    <3>1. /\ Indexed(h) /\ OnItsWay(h) /\ OnList(h) /\ kept[h].pair \in O!Pairs
      BY <1>0, <2>1, <2>2 DEF RevokeInv, InIndex, InTime, O!Is, KeptTyped
    <3>2. kept[h].pair # flow[c].pair
      BY <2>1, <3>1 DEF OnList
    <3>3. O!Revoking(kept[h].pair) => O!Revoking(kept[h].pair)'
      BY <2>1, <3>2 DEF O!Revoking
    <3>4. OnList(h)' /\ OnItsWay(h)'
      BY <2>1, <3>1, <3>3 DEF OnList, OnItsWay
    <3>5. Indexed(h)'
      BY <1>0, <2>1, <3>1, <3>2 DEF Indexed
    <3> QED
      BY <3>4, <3>5
  <2> QED
    BY <1>0, <2>1, <2>2 DEF InIndex, UnlistsGone
<1>16. ASSUME O!Stop PROVE Safe'
  <2>1. /\ \A c \in Requesters : flow'[c].at = "idle"
        /\ halfRevoked' = halfRevoked \union {p \in O!Pairs : O!Revoking(p)}
        /\ UNCHANGED <<kept, listed, given, revoked>>
    BY <1>16 DEF O!Stop, O!Resting
  <2>2. ASSUME NEW h \in Handles, InTime(h)' PROVE (Indexed(h) /\ OnItsWay(h) /\ OnList(h))'
    <3>1. InTime(h) /\ kept[h].pair \in O!Pairs
      BY <1>0, <2>1, <2>2 DEF InTime, O!Is, KeptTyped
    <3>2. ~O!Revoking(kept[h].pair)
      BY <2>1, <2>2, <3>1 DEF InTime
    <3>3. Indexed(h) /\ OnItsWay(h)
      BY <3>1 DEF RevokeInv, InIndex
    <3> QED
      BY <2>1, <3>2, <3>3 DEF Indexed, OnItsWay, OnList
  <2> QED
    BY <2>1, <2>2 DEF InIndex, UnlistsGone
<1>17. ASSUME UNCHANGED O!oauthVars PROVE Safe'
  BY <1>0, <1>17, InIndexKept DEF O!oauthVars, UnlistsGone
<1> HIDE DEF Safe, O!past
<1>18. Safe'
  BY <1>1, <1>2, <1>3, <1>4, <1>5, <1>6, <1>7, <1>8, <1>9, <1>10, <1>11, <1>12, <1>13, <1>14,
     <1>15, <1>16, <1>17 DEF O!Next, O!TokenEndpoint
<1> QED
  BY <1>18 DEF Safe

(* RevokedIsDropped: once a grant was taken back, no refresh token from    *)
(* before that works, for any number of tokens that are issued, refreshed  *)
(* and revoked at once (service.revoke_grant).  With it, that the store    *)
(* and the requests are of their kind.                                     *)
THEOREM TokensGoWithTheGrant == O!Spec => [](O!TypeOK /\ O!RevokedIsDropped)
<1>1. RevokeInv => O!TypeOK /\ O!RevokedIsDropped
  BY DEF RevokeInv, OAuthTyped, InIndex, InTime, OnItsWay, O!RevokedIsDropped
<1> QED
  BY <1>1, RevokeInit, RevokeNext, PTL DEF O!Spec

-----------------------------------------------------------------------------
(* One refresh token per chain.                                            *)

\* What stands for a chain: a token in the store, or a request that took one
\* (or the code the chain begins with) and has not given the next one out.
Token(h) == O!Is(h, "refresh")

OneToken ==
    /\ \A g, h \in Handles : Token(g) /\ Token(h) /\ kept[g].root = kept[h].root => g = h
    /\ \A c, d \in Carriers : flow[c].root = flow[d].root => c = d
    /\ \A h \in Handles, c \in Carriers : Token(h) => kept[h].root # flow[c].root

\* A code that was not spent has led to nothing yet.
CodeIsUnspent == \A g \in Handles : O!Is(g, "code") =>
    /\ \A h \in Handles : Token(h) => kept[h].root # g
    /\ \A c \in Carriers : flow[c].root # g

ChainInv == OAuthTyped /\ OneToken /\ CodeIsUnspent

\* A step that adds no token, no code and no carrier keeps all that.
LEMMA ChainKept ==
  ASSUME ChainInv,
         \A h \in Handles : kept'[h] = kept[h] \/ ~(Token(h) \/ O!Is(h, "code"))',
         \A c \in Carriers' : c \in Carriers /\ flow'[c].root = flow[c].root
  PROVE  (OneToken /\ CodeIsUnspent)'
<1>1. \A h \in Handles : Token(h)' => Token(h) /\ kept'[h] = kept[h]
  BY DEF Token, O!Is
<1>2. \A h \in Handles : O!Is(h, "code")' => O!Is(h, "code") /\ kept'[h] = kept[h]
  BY DEF O!Is
<1>3. OneToken'
  BY <1>1 DEF ChainInv, OneToken
<1>4. CodeIsUnspent'
  BY <1>1, <1>2 DEF ChainInv, CodeIsUnspent
<1> QED
  BY <1>3, <1>4

LEMMA ChainInit == O!Init => ChainInv
  BY OAuthTypedInit DEF O!Init, ChainInv, OneToken, CodeIsUnspent, Carriers, Token, O!Is, O!Resting

LEMMA ChainNext == ChainInv /\ [O!Next]_O!oauthVars => ChainInv'
<1> SUFFICES ASSUME ChainInv, [O!Next]_O!oauthVars PROVE (OneToken /\ CodeIsUnspent)'
  BY OAuthTypedNext DEF ChainInv
<1>0. OAuthTyped /\ FlowTyped /\ KeptTyped /\ OneToken /\ CodeIsUnspent /\ given \subseteq Handles
  BY DEF ChainInv, OAuthTyped, O!TypeOK
<1> DEFINE Safe == OneToken /\ CodeIsUnspent
\* Steps of a request that carry nothing on.
<1>a. ASSUME NEW c \in Requesters, NEW r, O!Moves(c, r), r.at \notin {"unlist", "issue"},
             \A h \in Handles : kept'[h] = kept[h] \/ ~(Token(h) \/ O!Is(h, "code"))'
      PROVE  Safe'
  <2>1. flow'[c] = r /\ \A d \in Requesters \ {c} : flow'[d] = flow[d]
    BY <1>0, <1>a, MovesTyped
  <2>2. \A d \in Carriers' : d \in Carriers /\ flow'[d].root = flow[d].root
    BY <1>a, <2>1 DEF Carriers
  <2> QED
    BY <1>a, <2>2, ChainKept
<1>b. ASSUME NEW c \in Requesters, NEW r, NEW h \in Handles, O!Moves(c, r),
             r.at \notin {"unlist", "issue"}, O!Gone(h)
      PROVE  Safe'
  BY <1>0, <1>a, <1>b, GoneTyped DEF Token, O!Is
\* A new key that is no refresh token.
<1>c. ASSUME NEW h \in Handles, NEW r, O!Keep(h, r), r.kind \in {"request", "code"},
             \A c \in Carriers' : c \in Carriers /\ flow'[c].root = flow[c].root
      PROVE  Safe'
  <2>1. /\ kept'[h] = r /\ kept[h] = None /\ h \notin given
        /\ \A g \in Handles \ {h} : kept'[g] = kept[g]
    BY <1>0, <1>c, KeepTyped
  <2>2. \A g \in Handles : Token(g)' => Token(g) /\ kept'[g] = kept[g]
    BY <1>c, <2>1 DEF Token, O!Is
  <2>3. OneToken'
    BY <1>0, <1>c, <2>2 DEF OneToken
  <2>4. ASSUME NEW g \in Handles, O!Is(g, "code")', g # h
        PROVE  /\ \A k \in Handles : Token(k)' => kept'[k].root # g
               /\ \A c \in Carriers' : flow'[c].root # g
    <3>1. O!Is(g, "code")
      BY <2>1, <2>4 DEF O!Is
    <3> QED
      BY <1>0, <1>c, <2>2, <3>1 DEF CodeIsUnspent
  <2>5. /\ \A k \in Handles : Token(k)' => kept'[k].root # h
        /\ \A c \in Carriers' : flow'[c].root # h
    <3>1. \A k \in Handles : Token(k)' => kept'[k].root \in given
      BY <1>0, <2>2 DEF KeptTyped, Token, O!Is
    <3>2. \A c \in Carriers' : flow'[c].root \in given
      BY <1>0, <1>c DEF FlowTyped, Carriers
    <3> QED
      BY <2>1, <3>1, <3>2
  <2>6. CodeIsUnspent'
    BY <2>4, <2>5 DEF CodeIsUnspent
  <2> QED
    BY <2>3, <2>6
\* The chain that a code or a token stands for goes over to a request.
<1>d. ASSUME NEW c \in Requesters, NEW h \in Handles, NEW r, NEW root, O!Gone(h), O!Moves(c, r),
             flow[c].at = "idle", r.at \in {"unlist", "issue"}, r.root = root,
             \/ O!Is(h, "code") /\ root = h
             \/ O!Is(h, "refresh") /\ root = kept[h].root
      PROVE  Safe'
  <2>1. flow'[c] = r /\ \A d \in Requesters \ {c} : flow'[d] = flow[d]
    BY <1>0, <1>d, MovesTyped
  <2>2. kept'[h] = None /\ \A g \in Handles \ {h} : kept'[g] = kept[g]
    BY <1>0, <1>d, GoneTyped
  <2>3. c \notin Carriers /\ Carriers' = Carriers \union {c} /\ flow'[c].root = root
    BY <1>d, <2>1 DEF Carriers
  <2>4. \A g \in Handles : Token(g)' => Token(g) /\ kept'[g] = kept[g] /\ g # h
    BY <2>2 DEF Token, O!Is
  <2>5. \A g \in Handles : O!Is(g, "code")' => O!Is(g, "code") /\ g # h
    BY <2>2 DEF O!Is
  <2>6. \A g \in Handles : Token(g)' => kept[g].root # root
    BY <1>0, <1>d, <2>4 DEF OneToken, CodeIsUnspent, Token
  <2>7. \A d \in Carriers : flow[d].root # root /\ flow'[d].root = flow[d].root
    BY <1>0, <1>d, <2>1, <2>3 DEF OneToken, CodeIsUnspent, Token, Carriers
  <2>8. OneToken'
    BY <1>0, <2>3, <2>4, <2>6, <2>7 DEF OneToken
  <2>9. \A g \in Handles : O!Is(g, "code")' => root # g
    BY <1>0, <1>d, <2>5 DEF CodeIsUnspent, Token
  <2>10. CodeIsUnspent'
    BY <1>0, <2>3, <2>4, <2>5, <2>7, <2>9 DEF CodeIsUnspent
  <2> QED
    BY <2>8, <2>10
<1>1. ASSUME NEW h \in Handles, O!StartAuthorization(h) PROVE Safe'
  BY <1>c, <1>1 DEF O!StartAuthorization, Carriers
<1>2. ASSUME NEW h \in Handles, O!Deny(h) \/ O!RunsOut(h) PROVE Safe'
  <2>1. O!Gone(h) /\ UNCHANGED flow
    BY <1>2 DEF O!Deny, O!RunsOut
  <2> QED
    BY <1>0, <2>1, GoneTyped, ChainKept DEF Token, O!Is, Carriers
<1>3. ASSUME NEW c \in Requesters, O!FindGrant(c) PROVE Safe'
  BY <1>a, <1>3 DEF O!FindGrant
<1>4. ASSUME NEW c \in Requesters, O!InsertGrant(c) PROVE Safe'
  BY <1>a, <1>4 DEF O!InsertGrant, O!Resting
<1>5. ASSUME NEW c \in Requesters, O!AddToGrant(c) PROVE Safe'
  BY <1>a, <1>5 DEF O!AddToGrant, O!Resting
<1>6. ASSUME NEW c \in Requesters, O!Unlist(c) PROVE Safe'
  <2>1. /\ UNCHANGED kept /\ flow[c].at = "unlist"
        /\ \A d \in Requesters \ {c} : flow'[d] = flow[d]
        /\ \/ flow'[c].at = "issue" /\ flow'[c].root = flow[c].root
           \/ flow'[c].at = "idle"
    BY <1>0, <1>6, MovesTyped DEF O!Unlist, O!Stands, O!Resting
  <2> QED
    BY <2>1, ChainKept DEF Carriers
<1>7. ASSUME NEW c \in Requesters, NEW h \in Handles, O!IssueCode(c, h) PROVE Safe'
  <2>1. flow'[c].at = "idle" /\ \A d \in Requesters \ {c} : flow'[d] = flow[d]
    BY <1>0, <1>7, MovesTyped DEF O!IssueCode, O!Resting
  <2>2. \A d \in Carriers' : d \in Carriers /\ flow'[d].root = flow[d].root
    BY <2>1 DEF Carriers
  <2> QED
    BY <1>c, <1>7, <2>2 DEF O!IssueCode
<1>8. ASSUME NEW c \in Requesters, NEW h \in Handles, O!Issue(c, h) PROVE Safe'
  <2>0. flow[c].at = "issue" /\ O!Moves(c, O!Resting) /\ c \in Carriers
    BY <1>8 DEF O!Issue, O!Stands, Carriers
  <2>1. CASE Offline \notin flow[c].scopes
    BY <1>8, <1>a, <2>0, <2>1 DEF O!Issue, O!Resting
  <2>2. CASE Offline \in flow[c].scopes
    <3>1. PICK entry : O!Keep(h, entry) /\ entry.kind = "refresh" /\ entry.root = flow[c].root
      BY <1>8, <2>2 DEF O!Issue, O!SaveRefreshToken
    <3>2. /\ kept'[h] = entry /\ kept[h] = None
          /\ \A g \in Handles \ {h} : kept'[g] = kept[g]
      BY <1>0, <3>1, KeepTyped
    <3>3. flow'[c].at = "idle" /\ \A d \in Requesters \ {c} : flow'[d] = flow[d]
      BY <1>0, <2>0, MovesTyped DEF O!Resting
    <3>4. Carriers' = Carriers \ {c} /\ \A d \in Carriers' : flow'[d] = flow[d]
      BY <3>3 DEF Carriers
    <3>5. \A g \in Handles \ {h} : Token(g)' => Token(g) /\ kept'[g] = kept[g]
      BY <3>2 DEF Token, O!Is
    <3>6. \A g \in Handles \ {h} : Token(g)' => kept[g].root # entry.root
      BY <1>0, <2>0, <3>1, <3>5 DEF OneToken
    <3>7. \A d \in Carriers' : flow[d].root # entry.root
      BY <1>0, <2>0, <3>1, <3>4 DEF OneToken
    <3>8. OneToken'
      BY <1>0, <3>2, <3>4, <3>5, <3>6, <3>7 DEF OneToken
    <3>9. \A g \in Handles : O!Is(g, "code")' => O!Is(g, "code") /\ entry.root # g
      BY <1>0, <2>0, <3>1, <3>2 DEF CodeIsUnspent, O!Is
    <3>10. CodeIsUnspent'
      BY <1>0, <3>2, <3>4, <3>5, <3>9 DEF CodeIsUnspent
    <3> QED
      BY <3>8, <3>10
  <2> QED
    BY <2>1, <2>2
<1>9. ASSUME NEW c \in Requesters, NEW h \in Handles, NEW u \in Grantors,
             O!AuthorizeAgain(c, u, h) \/ O!Approve(c, u, h)
      PROVE  Safe'
  BY <1>b, <1>9 DEF O!AuthorizeAgain, O!Approve, O!TakeRequest
<1>10. ASSUME NEW c \in Requesters, NEW h \in Handles, NEW cl \in Clients, O!TakeCode(c, h, cl)
       PROVE  Safe'
  <2>1. CASE kept[h].pair[2] = cl
    BY <1>d, <1>10, <2>1 DEF O!TakeCode, O!Stands
  <2>2. CASE kept[h].pair[2] # cl
    BY <1>b, <1>10, <2>2 DEF O!TakeCode, O!Resting
  <2> QED
    BY <2>1, <2>2
<1>11. ASSUME NEW c \in Requesters, NEW h \in Handles, NEW cl \in Clients,
              O!TakeRefreshToken(c, h, cl)
       PROVE  Safe'
  BY <1>d, <1>11 DEF O!TakeRefreshToken, O!Stands
<1>12. ASSUME NEW c \in Requesters, NEW p \in O!Pairs, O!RevokeGrant(c, p) PROVE Safe'
  BY <1>a, <1>12 DEF O!RevokeGrant
<1>13. ASSUME NEW c \in Requesters, O!ListTokens(c) PROVE Safe'
  BY <1>a, <1>13 DEF O!ListTokens
<1>14. ASSUME NEW c \in Requesters, O!DropTokens(c) PROVE Safe'
  <2>1. \A h \in Handles : kept'[h] = kept[h] \/ ~(Token(h) \/ O!Is(h, "code"))'
    BY <1>14 DEF O!DropTokens, Token, O!Is
  <2> QED
    BY <1>a, <1>14, <2>1 DEF O!DropTokens
<1>15. ASSUME NEW c \in Requesters, O!ForgetIndex(c) PROVE Safe'
  BY <1>a, <1>15 DEF O!ForgetIndex, O!Resting
<1>16. ASSUME O!Stop PROVE Safe'
  BY <1>16, ChainKept DEF O!Stop, O!Resting, Carriers
<1>17. ASSUME UNCHANGED O!oauthVars PROVE Safe'
  BY <1>17, ChainKept DEF O!oauthVars, Carriers
<1> HIDE DEF Safe
<1>18. Safe'
  BY <1>1, <1>2, <1>3, <1>4, <1>5, <1>6, <1>7, <1>8, <1>9, <1>10, <1>11, <1>12, <1>13, <1>14,
     <1>15, <1>16, <1>17 DEF O!Next, O!TokenEndpoint
<1> QED
  BY <1>18 DEF Safe

LEMMA AtMostOne ==
  ASSUME NEW B, \A x, y \in B : x = y
  PROVE  \/ B = {} /\ Cardinality(B) = 0
         \/ (\E x \in B : TRUE) /\ Cardinality(B) = 1
<1>1. CASE B = {}
  BY <1>1, FS_EmptySet
<1>2. ASSUME NEW x \in B PROVE Cardinality(B) = 1
  <2>1. B = {x}
    OBVIOUS
  <2> QED
    BY <2>1, FS_Singleton
<1> QED
  BY <1>1, <1>2

\* The instance counts as this module does.
LEMMA CountsAlike == \A B : O!Cardinality(B) = Cardinality(B)
  BY DEF O!Cardinality, Cardinality

LEMMA ChainCounted ==
  ASSUME ChainInv, NEW root, NEW T, NEW K,
         T = {h \in Handles : Token(h) /\ kept[h].root = root},
         K = {c \in Carriers : flow[c].root = root}
  PROVE  Cardinality(T) + Cardinality(K) <= 1
<1>1. (\A x, y \in T : x = y) /\ (\A x, y \in K : x = y) /\ (T = {} \/ K = {})
  BY DEF ChainInv, OneToken
<1>2. Cardinality(T) \in {0, 1} /\ (T = {} => Cardinality(T) = 0)
  BY <1>1, AtMostOne, FS_EmptySet
<1>3. Cardinality(K) \in {0, 1} /\ (K = {} => Cardinality(K) = 0)
  BY <1>1, AtMostOne, FS_EmptySet
<1>4. CASE Cardinality(T) = 0
  BY <1>3, <1>4
<1>5. CASE Cardinality(K) = 0
  BY <1>2, <1>5
<1> QED
  BY <1>1, <1>2, <1>3, <1>4, <1>5

(* ChainHasOneToken: what one code led to is never two refresh tokens, in  *)
(* the store or in the hands of requests, for any number of clients that   *)
(* bring the same code or token at once (store.take_refresh_token).        *)
THEOREM OneTokenPerChain == O!Spec => []O!ChainHasOneToken
<1>1. ChainInv => O!ChainHasOneToken
  <2> SUFFICES ASSUME ChainInv PROVE O!ChainHasOneToken
    OBVIOUS
  <2>1. ASSUME NEW root \in given
        PROVE  Cardinality({h \in Handles : O!Is(h, "refresh") /\ kept[h].root = root})
                 + Cardinality({c \in Requesters : O!Carries(c, root)}) <= 1
    <3>1. {c \in Requesters : O!Carries(c, root)} = {c \in Carriers : flow[c].root = root}
      BY DEF Carriers, O!Carries
    <3>2. {h \in Handles : O!Is(h, "refresh") /\ kept[h].root = root}
            = {h \in Handles : Token(h) /\ kept[h].root = root}
      BY DEF Token
    <3> QED
      BY <3>1, <3>2, ChainCounted
  <2> QED
    BY <2>1, CountsAlike DEF O!ChainHasOneToken
<1> QED
  BY <1>1, ChainInit, ChainNext, PTL DEF O!Spec

-----------------------------------------------------------------------------
(* The credentials of Git.                                                 *)

TokenRow == [user : Holders \union {C!NoOne}, scopes : SUBSET C!TokenScopes]
KeyRow   == [user : Holders \union {C!NoOne}, row : 0..MaxKeys]

\* A row that was read of a key was one: it is not what no row looks like.
CallerTyped ==
    /\ DOMAIN caller = Visitors
    /\ \A c \in Visitors :
          /\ caller[c].at \in {"idle", "delete token", "add", "delete key", "mark", "holder",
                               "note", "connected", "git"}
          /\ caller[c].at \in {"delete token", "mark", "holder"} => caller[c].token \in AccessTokens
          /\ caller[c].at \in {"add", "delete key", "note", "connected"} => caller[c].key \in SshKeys
          /\ caller[c].at = "add" => caller[c].is \in KeyRow
          /\ caller[c].at = "note" => caller[c].is # C!NoKey

RowsTyped ==
    /\ token \in [AccessTokens -> TokenRow] /\ sshKey \in [SshKeys -> KeyRow]
    /\ dead \subseteq AccessTokens \union SshKeys /\ added \in 0..MaxKeys

\* What was removed has no row: a token is made once, and a key that is added
\* again is not removed any more.
DeadIsGone ==
    /\ \A t \in AccessTokens : t \in dead => token[t] = C!NoToken
    /\ \A k \in SshKeys : k \in dead => sshKey[k] = C!NoKey

CredentialsInv == RowsTyped /\ CallerTyped /\ DeadIsGone /\ late = {}

LEMMA CredentialsTyped == CredentialsInv => C!TypeOK
  BY DEF CredentialsInv, RowsTyped, CallerTyped, C!TypeOK, C!TokenRows, C!KeyRows, TokenRow, KeyRow

LEMMA NoRowsTyped ==
  ASSUME CredentialsAssumption
  PROVE  /\ C!NoToken \in TokenRow /\ C!NoKey \in KeyRow
         /\ \A u \in Holders, s \in SUBSET C!TokenScopes : [user |-> u, scopes |-> s] \in TokenRow
         /\ \A u \in Holders, n \in 0..MaxKeys : [user |-> u, row |-> n] \in KeyRow
<1>1. 0 \in 0..MaxKeys
  BY DEF CredentialsAssumption
<1> QED
  BY <1>1 DEF C!NoToken, C!NoKey, TokenRow, KeyRow

\* Whoever takes a step leaves the others where they are.
LEMMA CallerMoves ==
  ASSUME CallerTyped, NEW c \in Visitors, NEW q, C!Then(c, q),
         q.at \in {"idle", "delete token", "add", "delete key", "mark", "holder",
                   "note", "connected", "git"},
         q.at \in {"delete token", "mark", "holder"} => q.token \in AccessTokens,
         q.at \in {"add", "delete key", "note", "connected"} => q.key \in SshKeys,
         q.at = "add" => q.is \in KeyRow, q.at = "note" => q.is # C!NoKey
  PROVE  CallerTyped'
<1>1. /\ DOMAIN caller' = Visitors /\ caller'[c] = q
      /\ \A d \in Visitors \ {c} : caller'[d] = caller[d]
  BY DEF CallerTyped, C!Then
<1> QED
  BY <1>1 DEF CallerTyped

LEMMA CredentialsInit == CredentialsAssumption /\ C!Init => CredentialsInv
<1> SUFFICES ASSUME CredentialsAssumption, C!Init PROVE CredentialsInv
  OBVIOUS
<1>0. 0 \in 0..MaxKeys
  BY DEF CredentialsAssumption
<1>1. RowsTyped
  BY <1>0, NoRowsTyped DEF C!Init, RowsTyped
<1>2. CallerTyped
  BY DEF C!Init, C!Idle, CallerTyped
<1>3. DeadIsGone /\ late = {}
  BY DEF C!Init, DeadIsGone
<1> QED
  BY <1>1, <1>2, <1>3 DEF CredentialsInv

LEMMA CredentialsNext ==
  CredentialsAssumption /\ CredentialsInv /\ [C!Next]_C!credentialVars => CredentialsInv'
<1> SUFFICES ASSUME CredentialsAssumption, CredentialsInv, [C!Next]_C!credentialVars
             PROVE  CredentialsInv'
  OBVIOUS
<1>0. /\ RowsTyped /\ CallerTyped /\ DeadIsGone /\ late = {}
      /\ AccessTokens \intersect SshKeys = {} /\ MaxKeys \in Nat
  BY DEF CredentialsAssumption, CredentialsInv
<1> USE DEF C!In, C!Leaves
\* Steps that leave the rows alone, and open the door to nobody new.
<1>a. ASSUME CallerTyped', UNCHANGED <<token, sshKey, dead, late, added>> PROVE CredentialsInv'
  BY <1>0, <1>a DEF CredentialsInv, RowsTyped, DeadIsGone
<1>1. ASSUME NEW t \in AccessTokens, NEW u \in Holders, NEW s \in SUBSET C!TokenScopes, C!create(t, u, s)
      PROVE  CredentialsInv'
  <2>1. /\ token' = [token EXCEPT ![t] = [user |-> u, scopes |-> s]] /\ t \notin dead
        /\ UNCHANGED <<sshKey, caller, dead, late, added>>
    BY <1>1 DEF C!create
  <2>2. [user |-> u, scopes |-> s] \in TokenRow
    BY NoRowsTyped
  <2>3. RowsTyped' /\ DeadIsGone' /\ CallerTyped'
    BY <1>0, <2>1, <2>2 DEF RowsTyped, DeadIsGone, CallerTyped
  <2> QED
    BY <1>0, <2>1, <2>3 DEF CredentialsInv
<1>2. ASSUME NEW c \in Visitors, C!delete(c) PROVE CredentialsInv'
  <2> DEFINE t == caller[c].token
  <2>1. /\ t \in AccessTokens /\ C!Then(c, C!Idle) /\ UNCHANGED <<sshKey, late, added>>
        /\ token' = [token EXCEPT ![t] = C!NoToken] /\ dead' = dead \union {t}
    BY <1>0, <1>2 DEF C!delete, CallerTyped
  <2> HIDE DEF t
  <2>2. RowsTyped' /\ DeadIsGone'
    BY <1>0, <2>1, NoRowsTyped DEF RowsTyped, DeadIsGone
  <2>3. CallerTyped'
    BY <1>0, <2>1, CallerMoves DEF C!Idle
  <2> QED
    BY <1>0, <2>1, <2>2, <2>3 DEF CredentialsInv
<1>3. ASSUME NEW c \in Visitors, C!add_ssh_key(c) PROVE CredentialsInv'
  <2> DEFINE k == caller[c].key
  <2>1. /\ k \in SshKeys /\ caller[c].is \in KeyRow /\ C!Then(c, C!Idle)
        /\ \/ sshKey' = [sshKey EXCEPT ![k] = caller[c].is] /\ dead' = dead \ {k}
           \/ UNCHANGED <<sshKey, dead>>
        /\ UNCHANGED <<token, late, added>>
    BY <1>0, <1>3 DEF C!add_ssh_key, CallerTyped
  <2> HIDE DEF k
  <2>2. RowsTyped' /\ DeadIsGone'
    BY <1>0, <2>1 DEF RowsTyped, DeadIsGone
  <2>3. CallerTyped'
    BY <1>0, <2>1, CallerMoves DEF C!Idle
  <2> QED
    BY <1>0, <2>1, <2>2, <2>3 DEF CredentialsInv
<1>4. ASSUME NEW c \in Visitors, C!RemoveKey(c) PROVE CredentialsInv'
  <2> DEFINE k == caller[c].key
  <2>1. /\ k \in SshKeys /\ C!Then(c, C!Idle)
        /\ \/ sshKey' = [sshKey EXCEPT ![k] = C!NoKey] /\ dead' = dead \union {k}
           \/ UNCHANGED <<sshKey, dead>>
        /\ UNCHANGED <<token, late, added>>
    BY <1>0, <1>4 DEF C!RemoveKey, CallerTyped
  <2> HIDE DEF k
  <2>2. RowsTyped' /\ DeadIsGone'
    BY <1>0, <2>1, NoRowsTyped DEF RowsTyped, DeadIsGone
  <2>3. CallerTyped'
    BY <1>0, <2>1, CallerMoves DEF C!Idle
  <2> QED
    BY <1>0, <2>1, <2>2, <2>3 DEF CredentialsInv
\* Writing down the use is what finds out that the row has gone.
<1>5. ASSUME NEW c \in Visitors, C!authenticate(c) PROVE CredentialsInv'
  <2>1. caller[c].token \in AccessTokens /\ UNCHANGED <<token, sshKey, dead, added>>
    BY <1>0, <1>5 DEF C!authenticate, CallerTyped
  <2>2. UNCHANGED late
    BY <1>0, <1>5, <2>1 DEF C!authenticate, DeadIsGone
  <2>3. ASSUME token[caller[c].token] = C!NoToken PROVE CallerTyped'
    BY <1>0, <1>5, <2>3, CallerMoves DEF C!authenticate, C!Idle
  <2>4. ASSUME ~(token[caller[c].token] = C!NoToken) PROVE CallerTyped'
    BY <1>0, <1>5, <2>1, <2>4, CallerMoves DEF C!authenticate
  <2> QED
    BY <1>a, <2>1, <2>2, <2>3, <2>4
<1>6. ASSUME NEW c \in Visitors, C!_may_use(c) PROVE CredentialsInv'
  <2>1. PICK q : C!Then(c, q) /\ q.at = "git"
    BY <1>6 DEF C!_may_use
  <2>2. CallerTyped'
    BY <1>0, <2>1, CallerMoves
  <2> QED
    BY <1>a, <1>6, <2>2 DEF C!_may_use
<1>7. ASSUME NEW c \in Visitors, C!validate_public_key(c) PROVE CredentialsInv'
  <2>1. /\ caller[c].key \in SshKeys /\ caller[c].is # C!NoKey
        /\ UNCHANGED <<token, sshKey, dead, added>>
    BY <1>0, <1>7 DEF C!validate_public_key, CallerTyped
  <2>2. UNCHANGED late
    BY <1>0, <1>7, <2>1 DEF C!validate_public_key, DeadIsGone
  <2>3. ASSUME sshKey[caller[c].key] # caller[c].is PROVE CallerTyped'
    BY <1>0, <1>7, <2>3, CallerMoves DEF C!validate_public_key, C!Idle
  <2>4. ASSUME ~(sshKey[caller[c].key] # caller[c].is) PROVE CallerTyped'
    BY <1>0, <1>7, <2>1, <2>4, CallerMoves DEF C!validate_public_key
  <2> QED
    BY <1>a, <2>1, <2>2, <2>3, <2>4
<1>8. ASSUME NEW c \in Visitors, C!Done(c) PROVE CredentialsInv'
  <2>1. CallerTyped'
    BY <1>0, <1>8, CallerMoves DEF C!Done, C!Idle
  <2> QED
    BY <1>a, <1>8, <2>1 DEF C!Done
<1>9. ASSUME NEW c \in Visitors, NEW t \in AccessTokens, C!delete_token(c, t) PROVE CredentialsInv'
  <2>1. CallerTyped'
    BY <1>0, <1>9, CallerMoves DEF C!delete_token
  <2> QED
    BY <1>a, <1>9, <2>1 DEF C!delete_token
<1>10. ASSUME NEW c \in Visitors, NEW t \in AccessTokens, NEW b \in BOOLEAN,
              C!_holder_from_basic_auth(c, t, b)
       PROVE  CredentialsInv'
  <2>1. CallerTyped'
    BY <1>0, <1>10, CallerMoves DEF C!_holder_from_basic_auth
  <2> QED
    BY <1>a, <1>10, <2>1 DEF C!_holder_from_basic_auth
<1>11. ASSUME NEW c \in Visitors, NEW k \in SshKeys, C!delete_ssh_key(c, k) PROVE CredentialsInv'
  <2>1. CallerTyped'
    BY <1>0, <1>11, CallerMoves DEF C!delete_ssh_key
  <2> QED
    BY <1>a, <1>11, <2>1 DEF C!delete_ssh_key
<1>12. ASSUME NEW c \in Visitors, NEW k \in SshKeys, C!find_owner(c, k) PROVE CredentialsInv'
  <2>1. CallerTyped'
    BY <1>0, <1>12, CallerMoves DEF C!find_owner
  <2> QED
    BY <1>a, <1>12, <2>1 DEF C!find_owner
<1>13. ASSUME NEW c \in Visitors, NEW k \in SshKeys, NEW u \in Holders, C!add(c, k, u)
       PROVE  CredentialsInv'
  <2>1. added \in 0..MaxKeys /\ added < MaxKeys /\ added' = added + 1
        /\ UNCHANGED <<token, sshKey, dead, late>>
    BY <1>0, <1>13 DEF C!add, RowsTyped
  <2>2. added' \in 0..MaxKeys
    BY <1>0, <2>1
  <2>3. [user |-> u, row |-> added'] \in KeyRow
    BY <2>2, NoRowsTyped
  <2>4. CallerTyped'
    BY <1>0, <1>13, <2>3, CallerMoves DEF C!add
  <2> QED
    BY <1>0, <2>1, <2>2, <2>4 DEF CredentialsInv, RowsTyped, DeadIsGone
<1>14. ASSUME NEW c \in Visitors, NEW b \in BOOLEAN, C!handle_session(c, b) PROVE CredentialsInv'
  <2>1. CallerTyped'
    BY <1>0, <1>14, CallerMoves DEF C!handle_session
  <2> QED
    BY <1>a, <1>14, <2>1 DEF C!handle_session
<1>15. ASSUME UNCHANGED C!credentialVars PROVE CredentialsInv'
  BY <1>0, <1>a, <1>15 DEF C!credentialVars, CallerTyped
<1> QED
  BY <1>1, <1>2, <1>3, <1>4, <1>5, <1>6, <1>7, <1>8, <1>9, <1>10, <1>11, <1>12, <1>13,
     <1>14, <1>15 DEF C!Next

(* RemovedOpensNothing: once the removal of an access token or an SSH key  *)
(* was answered it opens the door to nobody, also to a request that had    *)
(* read it before (tokens.authenticate, ssh_keys.validate_public_key).     *)
THEOREM RemovedStaysOut ==
  ASSUME CredentialsAssumption
  PROVE  C!Spec => [](C!TypeOK /\ C!RemovedOpensNothing)
<1>1. CredentialsInv => C!TypeOK /\ C!RemovedOpensNothing
  BY CredentialsTyped DEF CredentialsInv, C!RemovedOpensNothing
<1>2. C!Init => CredentialsInv
  BY CredentialsInit
<1>3. CredentialsInv /\ [C!Next]_C!credentialVars => CredentialsInv'
  BY CredentialsNext
<1> QED
  BY <1>1, <1>2, <1>3, PTL DEF C!Spec

-----------------------------------------------------------------------------
(* Machine identities and what they were granted.                          *)

Role == {G!NoRole, Viewer, Operator, Admin}

AskTyped ==
    /\ DOMAIN ask = Requests
    /\ \A c \in Requests :
          /\ ask[c].at \in {"find", "write", "revoke"} => ask[c].subject \in G!Subjects
          /\ ask[c].at \in {"find", "write", "revoke"} => ask[c].resource \in Resources
          /\ ask[c].at \in {"find", "write"} => ask[c].role \in Role
          /\ ask[c].at \in {"remove", "removing", "known", "try", "work"} => ask[c].subject \in Machines
          /\ ask[c].at = "try" => /\ ask[c].needed \in {Viewer, Operator, Admin}
                                  /\ ask[c].left \subseteq Resources

GrantsTyped ==
    /\ roles \in [Resources -> [G!Subjects -> Role]] /\ AskTyped
    /\ crew \subseteq People \X Crews /\ machines \subseteq Machines

WritesFor(m)     == \E c \in Requests : ask[c].at \in {"find", "write"} /\ ask[c].subject = m
Removing(c, m) == ask[c].at \in {"remove", "removing"} /\ ask[c].subject = m

\* Unless a grant was written beside the removal: the removal has read every
\* grant that is left, and when it is through there is none.
RemovalSeesAll(m) == \A c \in Requests : Removing(c, m) =>
    /\ ~WritesFor(m)
    /\ ask[c].at = "removing" =>
          \A r \in Resources : roles[r][m] # G!NoRole => r \in ask[c].doomed
NothingLeft(m)    == m \in removed =>
    /\ ~WritesFor(m) /\ \A r \in Resources : roles[r][m] = G!NoRole

RemovalInv == \A m \in Machines \ grantCrossed : RemovalSeesAll(m) /\ NothingLeft(m)

\* Who was allowed something after the removal had a grant written beside it.
LateAreCrossed == \A c \in Requests : ask[c].at = "work" => ask[c].late \subseteq grantCrossed

GrantsInv == /\ GrantsTyped /\ machines \intersect removed = {} /\ RemovalInv
             /\ LateAreCrossed /\ ghosts \subseteq grantCrossed

LEMMA GrantsTypeOK == GrantsInv => G!TypeOK
  BY DEF GrantsInv, GrantsTyped, G!TypeOK, G!GrantRows, Role

LEMMA AskMoves ==
  ASSUME AskTyped, NEW c \in Requests, NEW q, G!Then(c, q)
  PROVE  /\ DOMAIN ask' = Requests /\ ask'[c] = q
         /\ \A d \in Requests \ {c} : ask'[d] = ask[d]
  BY DEF AskTyped, G!Then

LEMMA AskMovesTyped ==
  ASSUME AskTyped, NEW c \in Requests, NEW q, G!Then(c, q),
         q.at \in {"find", "write", "revoke"} =>
             q.subject \in G!Subjects /\ q.resource \in Resources,
         q.at \in {"find", "write"} => q.role \in Role,
         q.at \in {"remove", "removing", "known", "try", "work"} => q.subject \in Machines,
         q.at = "try" => q.needed \in {Viewer, Operator, Admin} /\ q.left \subseteq Resources
  PROVE  AskTyped'
  BY AskMoves DEF AskTyped

\* A machine reaches a resource by a grant of its own: no group takes it, and
\* it owns nothing.
LEMMA GhostsNeedAGrant ==
  ASSUME GrantsAssumption, GrantsTyped, NEW m \in Machines, NEW r \in Resources,
         NEW needed \in {Viewer, Operator, Admin}, roles[r][m] = G!NoRole
  PROVE  ~G!allows(m, r, needed)
<1>1. m \notin People /\ m # OwnerOf[r]
  BY DEF GrantsAssumption
<1>2. G!subjects(m) = {m}
  BY <1>1 DEF G!subjects, GrantsTyped
<1>3. G!role_of(m, r) = G!NoRole
  BY <1>1, <1>2 DEF G!role_of, G!NoRole
<1> QED
  BY <1>3 DEF G!allows, G!NoRole, GrantsAssumption

\* A step of one call that is not allowed anything by it, or of nobody's.
LEMMA LateKept ==
  ASSUME LateAreCrossed, grantCrossed \subseteq grantCrossed',
         \A c \in Requests : ask'[c] = ask[c] \/ ask'[c].at # "work"
  PROVE  LateAreCrossed'
  BY DEF LateAreCrossed

\* A step after which no more is written, read or granted for a machine.
LEMMA RemovalKept ==
  ASSUME GrantsInv, UNCHANGED removed, grantCrossed \subseteq grantCrossed',
         \A m \in Machines \ grantCrossed' :
            /\ \A r \in Resources : roles'[r][m] \in {roles[r][m], G!NoRole}
            /\ WritesFor(m)' => WritesFor(m)
            /\ \A c \in Requests : Removing(c, m)' => ask'[c] = ask[c]
  PROVE  RemovalInv'
<1> SUFFICES ASSUME NEW m \in Machines \ grantCrossed' PROVE RemovalSeesAll(m)' /\ NothingLeft(m)'
  BY DEF RemovalInv
<1>1. RemovalSeesAll(m) /\ NothingLeft(m)
  BY DEF GrantsInv, RemovalInv
<1>2. \A r \in Resources : roles'[r][m] # G!NoRole => roles[r][m] # G!NoRole
  OBVIOUS
<1>3. RemovalSeesAll(m)'
  BY <1>1, <1>2 DEF RemovalSeesAll, Removing
<1>4. NothingLeft(m)'
  BY <1>1, <1>2 DEF NothingLeft
<1> QED
  BY <1>3, <1>4

LEMMA GrantsInit == G!Init => GrantsInv
  BY DEF G!Init, G!Idle, GrantsInv, GrantsTyped, AskTyped, RemovalInv, RemovalSeesAll, NothingLeft,
         Removing, WritesFor, Role, LateAreCrossed

LEMMA GrantsNext == GrantsAssumption /\ GrantsInv /\ [G!Next]_G!grantVars => GrantsInv'
<1> SUFFICES ASSUME GrantsAssumption, GrantsInv, [G!Next]_G!grantVars PROVE GrantsInv'
  OBVIOUS
<1>0. /\ GrantsTyped /\ AskTyped /\ RemovalInv /\ machines \intersect removed = {}
      /\ LateAreCrossed /\ ghosts \subseteq grantCrossed /\ roles \in [Resources -> [G!Subjects -> Role]]
      /\ Machines \subseteq G!Subjects
  BY DEF GrantsInv, GrantsTyped, G!Subjects
<1> USE DEF G!In, G!Leaves
\* Steps of a call that is not in the middle of a removal or a write.
<1>a. ASSUME NEW c \in Requests, NEW q, G!Then(c, q), AskTyped',
             q.at \notin {"find", "write", "remove", "removing"},
             UNCHANGED <<roles, crew, machines, removed, grantCrossed>>
      PROVE  GrantsTyped' /\ RemovalInv' /\ (q.at # "work" => LateAreCrossed')
  <2>1. ask'[c] = q /\ \A d \in Requests \ {c} : ask'[d] = ask[d]
    BY <1>0, <1>a, AskMoves
  <2>2. \A m : (WritesFor(m)' => WritesFor(m)) /\ \A d \in Requests : Removing(d, m)' => ask'[d] = ask[d]
    BY <1>a, <2>1 DEF WritesFor, Removing
  <2>3. RemovalInv'
    BY <1>0, <1>a, <2>2, RemovalKept
  <2>4. q.at # "work" => LateAreCrossed'
    BY <1>0, <1>a, <2>1, LateKept
  <2> QED
    BY <1>0, <1>a, <2>3, <2>4 DEF GrantsTyped
\* Steps of nobody's call.
<1>b. ASSUME UNCHANGED <<roles, ask, removed, grantCrossed>>
      PROVE  RemovalInv' /\ AskTyped' /\ LateAreCrossed'
  <2>1. \A m : (WritesFor(m)' => WritesFor(m)) /\ \A d \in Requests : Removing(d, m)' => ask'[d] = ask[d]
    BY <1>b DEF WritesFor, Removing
  <2> QED
    BY <1>0, <1>b, <2>1, RemovalKept DEF AskTyped, LateAreCrossed
<1>1. ASSUME NEW m \in Machines, G!create_service_account(m) PROVE GrantsInv'
  BY <1>0, <1>b, <1>1 DEF G!create_service_account, GrantsInv, GrantsTyped
<1>2. ASSUME NEW p \in People, NEW g \in Crews, G!JoinOrLeave(p, g) PROVE GrantsInv'
  <2>1. crew' \subseteq People \X Crews
    BY <1>0, <1>2 DEF G!JoinOrLeave, GrantsTyped
  <2> QED
    BY <1>0, <1>b, <1>2, <2>1 DEF G!JoinOrLeave, GrantsInv, GrantsTyped
<1>3. ASSUME NEW c \in Requests, NEW a \in People, NEW r \in Resources, NEW s \in G!Subjects,
             NEW what \in {Viewer, Operator, Admin}, G!write_grant(c, a, r, s, what)
      PROVE  GrantsInv'
  <2>1. /\ ask'[c].at = "find" /\ ask'[c].subject = s /\ ask[c].at = "idle"
        /\ \A d \in Requests \ {c} : ask'[d] = ask[d]
    BY <1>0, <1>3, AskMoves DEF G!write_grant
  <2>2. AskTyped'
    BY <1>0, <1>3, AskMovesTyped DEF G!write_grant, Role
  <2>3. /\ UNCHANGED <<roles, crew, machines, removed, ghosts>>
        /\ grantCrossed \subseteq grantCrossed' /\ (s \in Machines => s \in machines)
        /\ (\E d \in Requests : Removing(d, s)) => s \in grantCrossed'
    BY <1>3 DEF G!write_grant, G!_subject_id, Removing
  <2>4. ASSUME NEW m \in Machines \ grantCrossed' PROVE RemovalSeesAll(m)' /\ NothingLeft(m)'
    <3>1. RemovalSeesAll(m) /\ NothingLeft(m)
      BY <1>0, <2>3 DEF RemovalInv
    <3>2. CASE m = s
      <4>1. m \notin removed /\ \A d \in Requests : ~Removing(d, m)
        BY <1>0, <2>3, <2>4, <3>2
      <4>2. \A d \in Requests : ~Removing(d, m)'
        BY <2>1, <4>1 DEF Removing
      <4> QED
        BY <2>3, <4>1, <4>2 DEF RemovalSeesAll, NothingLeft
    <3>3. CASE m # s
      <4>1. (WritesFor(m)' => WritesFor(m)) /\ \A d \in Requests : Removing(d, m)' => ask'[d] = ask[d]
        BY <2>1, <3>3 DEF WritesFor, Removing
      <4> QED
        BY <2>3, <3>1, <4>1 DEF RemovalSeesAll, NothingLeft, Removing
    <3> QED
      BY <3>2, <3>3
  <2>5. RemovalInv'
    BY <2>4 DEF RemovalInv
  <2>6. LateAreCrossed'
    BY <1>0, <2>1, <2>3, LateKept
  <2> QED
    BY <1>0, <2>2, <2>3, <2>5, <2>6 DEF GrantsInv, GrantsTyped
<1>4. ASSUME NEW c \in Requests, NEW a \in People, NEW r \in Resources, NEW s \in G!Subjects,
             G!revoke_grant(c, a, r, s)
      PROVE  GrantsInv'
  <2>1. AskTyped'
    BY <1>0, <1>4, AskMovesTyped DEF G!revoke_grant
  <2> QED
    BY <1>0, <1>a, <1>4, <2>1 DEF G!revoke_grant, GrantsInv
<1>5. ASSUME NEW c \in Requests, G!find(c) PROVE GrantsInv'
  <2>1. /\ ask[c].at = "find" /\ ask'[c].at = "write" /\ ask'[c].subject = ask[c].subject
        /\ \A d \in Requests \ {c} : ask'[d] = ask[d]
        /\ UNCHANGED <<roles, crew, machines, removed, grantCrossed, ghosts>>
    BY <1>0, <1>5, AskMoves DEF G!find
  <2>2. AskTyped'
    BY <1>0, <1>5, AskMovesTyped DEF G!find, AskTyped
  <2>3. \A m : (WritesFor(m)' => WritesFor(m)) /\ \A d \in Requests : Removing(d, m)' => ask'[d] = ask[d]
    BY <2>1 DEF WritesFor, Removing
  <2>4. RemovalInv'
    BY <1>0, <2>1, <2>3, RemovalKept
  <2>5. LateAreCrossed'
    BY <1>0, <2>1, LateKept
  <2> QED
    BY <1>0, <2>1, <2>2, <2>4, <2>5 DEF GrantsInv, GrantsTyped
<1>6. ASSUME NEW c \in Requests, G!grant(c) PROVE GrantsInv'
  <2> DEFINE s == ask[c].subject  r == ask[c].resource
  <2>1. /\ ask[c].at = "write" /\ s \in G!Subjects /\ r \in Resources /\ ask[c].role \in Role
        /\ UNCHANGED <<crew, machines, removed, grantCrossed, ghosts>>
    BY <1>0, <1>6 DEF G!grant, AskTyped
  <2>2. ask'[c].at = "idle" /\ \A d \in Requests \ {c} : ask'[d] = ask[d]
    BY <1>0, <1>6, AskMoves DEF G!grant, G!Idle
  <2>3. AskTyped'
    BY <1>0, <1>6, AskMovesTyped DEF G!grant, G!Idle
  <2>4. roles' = roles \/ roles' = [roles EXCEPT ![r][s] = ask[c].role]
    BY <1>6 DEF G!grant
  <2>5. WritesFor(s)
    BY <2>1 DEF WritesFor
  <2> HIDE DEF s, r
  <2>6. roles' \in [Resources -> [G!Subjects -> Role]]
    BY <1>0, <2>1, <2>4
  <2>7. ASSUME NEW m \in Machines \ grantCrossed' PROVE RemovalSeesAll(m)' /\ NothingLeft(m)'
    <3>1. RemovalSeesAll(m) /\ NothingLeft(m)
      BY <1>0, <2>1 DEF RemovalInv
    <3>2. (WritesFor(m)' => WritesFor(m)) /\ \A d \in Requests : Removing(d, m)' => ask'[d] = ask[d]
      BY <2>2 DEF WritesFor, Removing
    <3>3. CASE m = s
      <4>1. m \notin removed /\ \A d \in Requests : ~Removing(d, m)
        BY <2>5, <3>1, <3>3 DEF RemovalSeesAll, NothingLeft
      <4> QED
        BY <2>1, <3>2, <4>1 DEF RemovalSeesAll, NothingLeft, Removing
    <3>4. CASE m # s
      <4>1. m \in G!Subjects /\ \A x \in Resources : roles'[x][m] = roles[x][m]
        BY <1>0, <2>1, <2>4, <3>4
      <4> QED
        BY <2>1, <3>1, <3>2, <4>1 DEF RemovalSeesAll, NothingLeft, Removing
    <3> QED
      BY <3>3, <3>4
  <2>8. RemovalInv'
    BY <2>7 DEF RemovalInv
  <2>9. LateAreCrossed'
    BY <1>0, <2>1, <2>2, LateKept
  <2> QED
    BY <1>0, <2>1, <2>3, <2>6, <2>8, <2>9 DEF GrantsInv, GrantsTyped
<1>7. ASSUME NEW c \in Requests, G!revoke(c) PROVE GrantsInv'
  <2> DEFINE s == ask[c].subject  r == ask[c].resource
  <2>1. /\ s \in G!Subjects /\ r \in Resources /\ roles' = [roles EXCEPT ![r][s] = G!NoRole]
        /\ UNCHANGED <<crew, machines, removed, grantCrossed, ghosts>>
    BY <1>0, <1>7 DEF G!revoke, AskTyped
  <2>2. ask[c].at = "revoke" /\ ask'[c].at = "idle" /\ \A d \in Requests \ {c} : ask'[d] = ask[d]
    BY <1>0, <1>7, AskMoves DEF G!revoke, G!Idle
  <2>3. AskTyped'
    BY <1>0, <1>7, AskMovesTyped DEF G!revoke, G!Idle
  <2> HIDE DEF s, r
  <2>4. /\ roles' \in [Resources -> [G!Subjects -> Role]]
        /\ \A x \in Resources, m \in G!Subjects : roles'[x][m] \in {roles[x][m], G!NoRole}
    BY <1>0, <2>1 DEF Role
  <2>5. \A m : (WritesFor(m)' => WritesFor(m)) /\ \A d \in Requests : Removing(d, m)' => ask'[d] = ask[d]
    BY <2>2 DEF WritesFor, Removing
  <2>6. RemovalInv'
    BY <1>0, <2>1, <2>4, <2>5, RemovalKept
  <2>7. LateAreCrossed'
    BY <1>0, <2>1, <2>2, LateKept
  <2> QED
    BY <1>0, <2>1, <2>3, <2>4, <2>6, <2>7 DEF GrantsInv, GrantsTyped
<1>8. ASSUME NEW c \in Requests, NEW m \in Machines, G!delete_service_account(c, m) PROVE GrantsInv'
  <2>1. /\ ask[c].at = "idle" /\ ask'[c].at = "remove" /\ ask'[c].subject = m
        /\ \A d \in Requests \ {c} : ask'[d] = ask[d]
        /\ UNCHANGED <<roles, crew, machines, removed, ghosts>> /\ grantCrossed \subseteq grantCrossed'
    BY <1>0, <1>8, AskMoves DEF G!delete_service_account
  <2>2. AskTyped'
    BY <1>0, <1>8, AskMovesTyped DEF G!delete_service_account
  <2>3. WritesFor(m) => m \in grantCrossed'
    BY <1>8 DEF G!delete_service_account, WritesFor
  <2>4. \A x : WritesFor(x)' => WritesFor(x)
    BY <2>1 DEF WritesFor
  <2>5. ASSUME NEW x \in Machines \ grantCrossed' PROVE RemovalSeesAll(x)' /\ NothingLeft(x)'
    <3>1. RemovalSeesAll(x) /\ NothingLeft(x)
      BY <1>0, <2>1 DEF RemovalInv
    <3>2. ASSUME NEW d \in Requests, Removing(d, x)'
          PROVE  \/ d = c /\ x = m
                 \/ d # c /\ Removing(d, x) /\ ask'[d] = ask[d]
      BY <2>1, <3>2 DEF Removing
    <3>3. RemovalSeesAll(x)'
      BY <2>1, <2>3, <2>4, <3>1, <3>2 DEF RemovalSeesAll
    <3> QED
      BY <2>1, <2>4, <3>1, <3>3 DEF NothingLeft
  <2>6. RemovalInv'
    BY <2>5 DEF RemovalInv
  <2>7. LateAreCrossed'
    BY <1>0, <2>1, LateKept
  <2> QED
    BY <1>0, <2>1, <2>2, <2>6, <2>7 DEF GrantsInv, GrantsTyped
<1>9. ASSUME NEW c \in Requests, G!remove(c) PROVE GrantsInv'
  <2> DEFINE m == ask[c].subject
  <2>0. m \in Machines /\ m \in G!Subjects /\ Removing(c, m) /\ UNCHANGED <<crew, grantCrossed, ghosts>>
    BY <1>0, <1>9 DEF G!remove, AskTyped, Removing
  <2>1. CASE ask[c].at = "remove"
    <3>1. /\ ask'[c].at = "removing" /\ ask'[c].subject = m
          /\ ask'[c].doomed = {r \in Resources : roles[r][m] # G!NoRole}
          /\ \A d \in Requests \ {c} : ask'[d] = ask[d]
          /\ UNCHANGED <<roles, machines, removed>>
      BY <1>0, <1>9, <2>1, AskMoves DEF G!remove
    <3>2. AskTyped'
      BY <1>0, <1>9, <2>0, <2>1, AskMovesTyped DEF G!remove
    <3>3. \A x : WritesFor(x)' => WritesFor(x)
      BY <2>1, <3>1 DEF WritesFor
    <3> HIDE DEF m
    <3>4. ASSUME NEW x \in Machines \ grantCrossed' PROVE RemovalSeesAll(x)' /\ NothingLeft(x)'
      <4>1. RemovalSeesAll(x) /\ NothingLeft(x)
        BY <1>0, <2>0 DEF RemovalInv
      <4>2. ASSUME NEW d \in Requests, Removing(d, x)'
            PROVE  \/ d = c /\ x = m
                   \/ d # c /\ Removing(d, x) /\ ask'[d] = ask[d]
        BY <3>1, <4>2 DEF Removing
      <4>3. RemovalSeesAll(x)'
        BY <2>0, <3>1, <3>3, <4>1, <4>2 DEF RemovalSeesAll
      <4> QED
        BY <3>1, <3>3, <4>1, <4>3 DEF NothingLeft
    <3>5. RemovalInv'
      BY <3>4 DEF RemovalInv
    <3>6. LateAreCrossed'
      BY <1>0, <2>0, <3>1, LateKept
    <3> QED
      BY <1>0, <2>0, <3>1, <3>2, <3>5, <3>6 DEF GrantsInv, GrantsTyped
  <2>2. CASE ask[c].at = "removing"
    <3>1. /\ G!Then(c, G!Idle) /\ machines' = machines \ {m} /\ removed' = removed \union {m}
          /\ roles' = [r \in Resources |->
                         IF r \in ask[c].doomed THEN [roles[r] EXCEPT ![m] = G!NoRole] ELSE roles[r]]
      BY <1>9, <2>2 DEF G!remove
    <3>2. ask'[c].at = "idle" /\ \A d \in Requests \ {c} : ask'[d] = ask[d]
      BY <1>0, <3>1, AskMoves DEF G!Idle
    <3>3. AskTyped'
      BY <1>0, <3>1, AskMovesTyped DEF G!Idle
    <3>4. \A x : (WritesFor(x)' => WritesFor(x)) /\ \A d \in Requests : Removing(d, x)' => ask'[d] = ask[d]
      BY <2>2, <3>2 DEF WritesFor, Removing
    <3> HIDE DEF m
    <3>5. /\ roles' \in [Resources -> [G!Subjects -> Role]]
          /\ \A r \in Resources, x \in G!Subjects : roles'[r][x] \in {roles[r][x], G!NoRole}
          /\ \A r \in ask[c].doomed \intersect Resources : roles'[r][m] = G!NoRole
      BY <1>0, <2>0, <3>1 DEF Role
    <3>6. ASSUME NEW x \in Machines \ grantCrossed' PROVE RemovalSeesAll(x)' /\ NothingLeft(x)'
      <4>1. RemovalSeesAll(x) /\ NothingLeft(x) /\ x \in G!Subjects
        BY <1>0, <2>0 DEF RemovalInv
      <4>2. \A r \in Resources : roles'[r][x] # G!NoRole => roles[r][x] # G!NoRole
        BY <3>5, <4>1
      <4>3. RemovalSeesAll(x)'
        BY <3>4, <4>1, <4>2 DEF RemovalSeesAll, Removing
      <4>4. CASE x = m
        <5>1. ~WritesFor(m) /\ \A r \in Resources : roles[r][m] # G!NoRole => r \in ask[c].doomed
          BY <2>0, <2>2, <4>1, <4>4 DEF RemovalSeesAll
        <5>2. \A r \in Resources : roles'[r][m] = G!NoRole
          BY <2>0, <3>5, <5>1
        <5> QED
          BY <3>4, <4>3, <4>4, <5>1, <5>2 DEF NothingLeft
      <4>5. CASE x # m
        BY <3>1, <3>4, <4>1, <4>2, <4>3, <4>5 DEF NothingLeft
      <4> QED
        BY <4>4, <4>5
    <3>7. RemovalInv'
      BY <3>6 DEF RemovalInv
    <3>8. LateAreCrossed'
      BY <1>0, <2>0, <3>2, LateKept
    <3> QED
      BY <1>0, <2>0, <3>1, <3>3, <3>5, <3>7, <3>8 DEF GrantsInv, GrantsTyped
  <2> QED
    BY <1>9, <2>1, <2>2 DEF G!remove
<1>10. ASSUME NEW c \in Requests, NEW m \in Machines, G!authenticate_service(c, m) PROVE GrantsInv'
  <2>1. AskTyped'
    BY <1>0, <1>10, AskMovesTyped DEF G!authenticate_service
  <2> QED
    BY <1>0, <1>a, <1>10, <2>1 DEF G!authenticate_service, GrantsInv
<1>11. ASSUME NEW c \in Requests, NEW needed \in {Viewer, Operator, Admin}, G!Reaches(c, needed)
       PROVE  GrantsInv'
  <2> DEFINE m == ask[c].subject
             q == IF G!_reach(m) = {} THEN G!Idle
                  ELSE [at |-> "try", subject |-> m, needed |-> needed, left |-> G!_reach(m)]
  <2>1. m \in Machines /\ G!Then(c, q)
        /\ UNCHANGED <<roles, crew, machines, removed, grantCrossed, ghosts>>
    BY <1>0, <1>11 DEF G!Reaches, AskTyped
  <2>2. G!_reach(m) \subseteq Resources
    BY DEF G!_reach, G!readable_ids
  <2>3. AskTyped'
    BY <1>0, <2>1, <2>2, AskMovesTyped DEF G!Idle
  <2>4. q.at \notin {"find", "write", "remove", "removing", "work"}
    BY DEF G!Idle
  <2> HIDE DEF m, q
  <2> QED
    BY <1>0, <1>a, <2>1, <2>3, <2>4 DEF GrantsInv
<1>13. ASSUME NEW c \in Requests, G!allowed(c) PROVE GrantsInv'
  <2> DEFINE m == ask[c].subject
  <2>1. /\ ask[c].at = "try" /\ m \in Machines /\ ask[c].needed \in {Viewer, Operator, Admin}
        /\ ask[c].left \subseteq Resources
        /\ UNCHANGED <<roles, crew, machines, removed, grantCrossed, ghosts>>
    BY <1>0, <1>13 DEF G!allowed, AskTyped
  <2>2. PICK r \in ask[c].left :
           IF G!allows(m, r, ask[c].needed)
           THEN G!Then(c, [at |-> "work", subject |-> m, late |-> {m} \intersect removed])
           ELSE IF ask[c].left = {r} THEN G!Then(c, G!Idle)
           ELSE G!Then(c, [ask[c] EXCEPT !.left = @ \ {r}])
    BY <1>13 DEF G!allowed
  <2>3. CASE G!allows(m, r, ask[c].needed)
    <3> DEFINE q == [at |-> "work", subject |-> m, late |-> {m} \intersect removed]
    <3>1. G!Then(c, q)
      BY <2>2, <2>3
    <3>2. AskTyped'
      BY <1>0, <2>1, <3>1, AskMovesTyped
    <3>3. GrantsTyped' /\ RemovalInv'
      BY <1>a, <2>1, <3>1, <3>2
    <3>4. ask'[c] = q /\ \A d \in Requests \ {c} : ask'[d] = ask[d]
      BY <1>0, <3>1, AskMoves
    <3>5. m \in removed => m \in grantCrossed
      BY <1>0, <2>1, <2>3, GhostsNeedAGrant DEF RemovalInv, NothingLeft
    <3>6. ask'[c].late \subseteq grantCrossed
      BY <3>4, <3>5
    <3> HIDE DEF q, m
    <3>7. LateAreCrossed'
      BY <1>0, <2>1, <3>4, <3>6 DEF LateAreCrossed
    <3> QED
      BY <1>0, <2>1, <3>3, <3>7 DEF GrantsInv
  <2>4. CASE ~G!allows(m, r, ask[c].needed)
    <3>1. PICK q : q \in {G!Idle, [ask[c] EXCEPT !.left = @ \ {r}]} /\ G!Then(c, q)
      BY <2>2, <2>4
    <3>2. q = G!Idle \/ q = [ask[c] EXCEPT !.left = @ \ {r}]
      BY <3>1
    <3>3. AskTyped' /\ q.at \notin {"find", "write", "remove", "removing", "work"}
      <4>1. CASE q = G!Idle
        BY <1>0, <3>1, <4>1, AskMovesTyped DEF G!Idle
      <4>2. CASE q = [ask[c] EXCEPT !.left = @ \ {r}]
        <5>1. q.at = "try" /\ q.subject = m /\ q.needed = ask[c].needed /\ q.left \subseteq Resources
          BY <2>1, <1>13, <4>2 DEF G!allowed
        <5> QED
          BY <1>0, <2>1, <3>1, <5>1, AskMovesTyped
      <4> QED
        BY <3>2, <4>1, <4>2
    <3> QED
      BY <1>0, <1>a, <2>1, <3>1, <3>3 DEF GrantsInv
  <2> QED
    BY <2>3, <2>4
<1>14. ASSUME NEW c \in Requests, G!Works(c) PROVE GrantsInv'
  <2>1. /\ ask[c].at = "work" /\ G!Then(c, G!Idle)
        /\ UNCHANGED <<roles, crew, machines, removed, grantCrossed>>
        /\ ghosts' = ghosts \union ask[c].late
    BY <1>14 DEF G!Works
  <2>2. AskTyped'
    BY <1>0, <2>1, AskMovesTyped DEF G!Idle
  <2>3. GrantsTyped' /\ RemovalInv' /\ LateAreCrossed'
    BY <1>a, <2>1, <2>2 DEF G!Idle
  <2>4. ghosts' \subseteq grantCrossed'
    BY <1>0, <2>1 DEF LateAreCrossed
  <2> QED
    BY <1>0, <2>1, <2>3, <2>4 DEF GrantsInv
<1>12. ASSUME UNCHANGED G!grantVars PROVE GrantsInv'
  BY <1>0, <1>b, <1>12 DEF G!grantVars, GrantsInv, GrantsTyped
<1> QED
  BY <1>1, <1>2, <1>3, <1>4, <1>5, <1>6, <1>7, <1>8, <1>9, <1>10, <1>11, <1>12, <1>13, <1>14 DEF G!Next

(* RemovedMachinesDoNothing: nothing is done for a machine by a call that  *)
(* was allowed it after the removal was answered, though the call was let  *)
(* in and read its reach before, unless somebody was writing a grant for   *)
(* it (iam.delete_service_account).  What a call was allowed before the    *)
(* removal it may still do.                                                *)
THEOREM RemovedMachinesRest ==
  ASSUME GrantsAssumption
  PROVE  G!Spec => [](G!TypeOK /\ G!RemovedMachinesDoNothing)
<1>1. GrantsInv => G!TypeOK /\ G!RemovedMachinesDoNothing
  BY GrantsTypeOK DEF GrantsInv, G!RemovedMachinesDoNothing
<1>2. G!Init => GrantsInv
  BY GrantsInit
<1>3. GrantsInv /\ [G!Next]_G!grantVars => GrantsInv'
  BY GrantsNext
<1> QED
  BY <1>1, <1>2, <1>3, PTL DEF G!Spec

-----------------------------------------------------------------------------
(* Signing in and out.                                                     *)

AttemptRow == [n : Nat, expires : BOOLEAN]
ForAUser   == {"open", "verify", "count", "expire", "clear", "pend", "code", "commit",
               "list", "sweep"}

KeyTyped ==
    /\ DOMAIN key = Tokens
    /\ \A t \in Tokens : key[t] # Nobody =>
          /\ t \in used
          /\ key[t].kind \in {"pending", "session", "reset"} => key[t].user \in Users
          /\ key[t].kind = "challenge" => key[t].user \in Users \union {Nobody}

CallTyped ==
    /\ DOMAIN call = Callers
    /\ \A c \in Callers :
          /\ call[c].at \in ForAUser => call[c].user \in Users
          /\ call[c].at = "answer" => /\ call[c].auth \in Keys
                                      /\ call[c].user \in Users \union {Nobody}

TablesTyped ==
    /\ password \in [Users -> Nat] /\ factor \in [Users -> {"off", "enrolling", "on"}]
    /\ passkeys \in [Keys -> Users \union {Nobody}]
    /\ index \in [Users -> SUBSET used] /\ used \subseteq Tokens
    /\ attempts \in [Users -> AttemptRow]
    /\ \A u \in Users : attempts[u].expires => attempts[u].n > 0
    /\ cutShort \subseteq Users

AccountsTyped == TablesTyped /\ KeyTyped /\ CallTyped

LEMMA AccountsTypeOK == AccountsTyped => A!TypeOK
  BY DEF AccountsTyped, TablesTyped, KeyTyped, A!TypeOK, A!PasskeyRows

LEMMA CallMoves ==
  ASSUME CallTyped, NEW c \in Callers, NEW r, A!Goes(c, r)
  PROVE  /\ DOMAIN call' = Callers /\ call'[c] = r
         /\ \A d \in Callers \ {c} : call'[d] = call[d]
  BY DEF CallTyped, A!Goes

LEMMA CallMovesTyped ==
  ASSUME CallTyped, NEW c \in Callers, NEW r, A!Goes(c, r),
         r.at \in ForAUser => r.user \in Users,
         r.at = "answer" => r.auth \in Keys /\ r.user \in Users \union {Nobody}
  PROVE  CallTyped'
  BY CallMoves DEF CallTyped

LEMMA SaveTyped ==
  ASSUME TablesTyped, KeyTyped, NEW t \in Tokens, NEW r, A!Save(t, r),
         r.kind \in {"pending", "session", "reset"} => r.user \in Users,
         r.kind = "challenge" => r.user \in Users \union {Nobody}
  PROVE  /\ KeyTyped' /\ t \notin used /\ used' = used \union {t} /\ used' \subseteq Tokens
         /\ key'[t] = r /\ \A x \in Tokens \ {t} : key'[x] = key[x]
<1>1. /\ t \notin used /\ used' = used \union {t} /\ DOMAIN key' = Tokens
      /\ key'[t] = r /\ \A x \in Tokens \ {t} : key'[x] = key[x]
  BY DEF A!Save, KeyTyped
<1> QED
  BY <1>1 DEF KeyTyped, TablesTyped

LEMMA TakeTyped ==
  ASSUME KeyTyped, NEW t \in Tokens, A!Take(t), UNCHANGED used
  PROVE  /\ KeyTyped' /\ key'[t] = Nobody
         /\ \A x \in Tokens \ {t} : key'[x] = key[x]
<1>1. DOMAIN key' = Tokens /\ key'[t] = Nobody /\ \A x \in Tokens \ {t} : key'[x] = key[x]
  BY DEF A!Take, KeyTyped
<1> QED
  BY <1>1 DEF KeyTyped

LEMMA ClearedTyped ==
  ASSUME TablesTyped, NEW u \in Users, A!Cleared(u)
  PROVE  /\ attempts' \in [Users -> AttemptRow] /\ attempts'[u].n = 0
         /\ \A v \in Users : attempts'[v].expires => attempts'[v].n > 0
         /\ \A v \in Users \ {u} : attempts'[v] = attempts[v]
<1>1. [n |-> 0, expires |-> FALSE] \in AttemptRow
  BY DEF AttemptRow
<1> QED
  BY <1>1 DEF TablesTyped, A!Cleared

LEMMA AccountsTypedInit == A!Init => AccountsTyped
<1>1. [n |-> 0, expires |-> FALSE] \in AttemptRow
  BY DEF AttemptRow
<1> QED
  BY <1>1 DEF A!Init, A!Idle, AccountsTyped, TablesTyped, KeyTyped, CallTyped, ForAUser

LEMMA AccountsTypedNext ==
  ASSUME AccountsTyped, [A!Next]_A!accountVars
  PROVE  AccountsTyped'
<1>a. TablesTyped /\ KeyTyped /\ CallTyped
  BY DEF AccountsTyped
<1>b. ASSUME UNCHANGED <<A!rows, key, used, index, attempts, A!history>>, CallTyped'
      PROVE  AccountsTyped'
  BY <1>a, <1>b DEF A!rows, A!history, AccountsTyped, TablesTyped, KeyTyped
<1>c. ASSUME UNCHANGED <<A!rows, index, attempts, A!history>>, KeyTyped', CallTyped',
             used \subseteq used', used' \subseteq Tokens
      PROVE  AccountsTyped'
  BY <1>a, <1>c DEF A!rows, A!history, AccountsTyped, TablesTyped
<1>1. ASSUME NEW c \in Callers, NEW u \in Users, A!Register(c, u) PROVE AccountsTyped'
  <2>1. password' \in [Users -> Nat]
    BY <1>a, <1>1 DEF A!Register, A!register, TablesTyped
  <2>2. CallTyped'
    BY <1>a, <1>1, CallMovesTyped DEF A!Register
  <2> QED
    BY <1>a, <1>1, <2>1, <2>2 DEF A!Register, A!history, AccountsTyped, TablesTyped, KeyTyped
<1>2. ASSUME NEW c \in Callers, NEW u \in Users, A!Login(c, u) PROVE AccountsTyped'
  <2>1. PICK knows \in {0, password[u]} : A!Goes(c, [at |-> "verify", user |-> u, knows |-> knows])
    BY <1>2 DEF A!Login
  <2>2. CallTyped'
    BY <1>a, <2>1, CallMovesTyped
  <2> QED
    BY <1>b, <1>2, <2>2 DEF A!Login
<1>3. ASSUME NEW c \in Callers, A!VerifyPassword(c) PROVE AccountsTyped'
  <2>1. call[c].user \in Users
    BY <1>a, <1>3 DEF A!VerifyPassword, A!At, CallTyped, ForAUser
  <2>2. CallTyped'
    BY <1>a, <1>3, <2>1, CallMovesTyped DEF A!VerifyPassword, A!User
  <2> QED
    BY <1>b, <1>3, <2>2 DEF A!VerifyPassword
<1>4. ASSUME NEW c \in Callers, A!CountFailedAttempt(c) PROVE AccountsTyped'
  <2>1. call[c].user \in Users
    BY <1>a, <1>4 DEF A!CountFailedAttempt, A!At, CallTyped, ForAUser
  <2>2. CallTyped'
    <3>1. CASE attempts[call[c].user].n = 0
      BY <1>a, <1>4, <2>1, <3>1, CallMovesTyped DEF A!CountFailedAttempt, A!User
    <3>2. CASE attempts[call[c].user].n # 0
      BY <1>a, <1>4, <2>1, <3>2, CallMovesTyped DEF A!CountFailedAttempt, A!User, A!Idle, ForAUser
    <3> QED
      BY <3>1, <3>2
  <2>3. /\ attempts' \in [Users -> AttemptRow]
        /\ \A v \in Users : attempts'[v].expires => attempts'[v].n > 0
    BY <1>a, <1>4, <2>1 DEF A!CountFailedAttempt, A!User, TablesTyped, AttemptRow
  <2> QED
    BY <1>a, <1>4, <2>2, <2>3 DEF A!CountFailedAttempt, A!rows, A!history, AccountsTyped, TablesTyped, KeyTyped
<1>5. ASSUME NEW c \in Callers, A!StartWindow(c) PROVE AccountsTyped'
  <2>1. call[c].user \in Users
    BY <1>a, <1>5 DEF A!StartWindow, A!At, CallTyped, ForAUser
  <2>2. CallTyped'
    BY <1>a, <1>5, CallMovesTyped DEF A!StartWindow, A!Idle, ForAUser
  <2>3. /\ attempts' \in [Users -> AttemptRow]
        /\ \A v \in Users : attempts'[v].expires => attempts'[v].n > 0
    <3>1. CASE attempts[call[c].user].n = 0
      BY <1>a, <1>5, <3>1 DEF A!StartWindow, A!User, TablesTyped
    <3>2. CASE attempts[call[c].user].n # 0
      <4> DEFINE r == [attempts[call[c].user] EXCEPT !.expires = TRUE]
      <4>1. attempts[call[c].user] \in AttemptRow
        BY <1>a, <2>1 DEF TablesTyped
      <4>2. r \in AttemptRow /\ r.n = attempts[call[c].user].n
        BY <4>1 DEF AttemptRow
      <4>3. attempts' = [attempts EXCEPT ![call[c].user] = r]
        BY <1>5, <3>2 DEF A!StartWindow, A!User
      <4>4. attempts[call[c].user].n > 0
        BY <3>2, <4>1 DEF AttemptRow
      <4> HIDE DEF r
      <4> QED
        BY <1>a, <2>1, <4>2, <4>3, <4>4 DEF TablesTyped
    <3> QED
      BY <3>1, <3>2
  <2> QED
    BY <1>a, <1>5, <2>2, <2>3 DEF A!StartWindow, A!rows, A!history, AccountsTyped, TablesTyped, KeyTyped
<1>6. ASSUME NEW c \in Callers, A!ClearFailedAttempts(c) PROVE AccountsTyped'
  <2>1. call[c].user \in Users
    BY <1>a, <1>6 DEF A!ClearFailedAttempts, A!At, CallTyped, ForAUser
  <2>2. CallTyped'
    BY <1>a, <1>6, <2>1, CallMovesTyped DEF A!ClearFailedAttempts, A!User
  <2>3. /\ attempts' \in [Users -> AttemptRow]
        /\ \A v \in Users : attempts'[v].expires => attempts'[v].n > 0
    BY <1>a, <1>6, <2>1, ClearedTyped DEF A!ClearFailedAttempts, A!User
  <2> QED
    BY <1>a, <1>6, <2>2, <2>3 DEF A!ClearFailedAttempts, A!rows, A!history, AccountsTyped, TablesTyped, KeyTyped
<1>7. ASSUME NEW u \in Users, A!WindowEnds(u) PROVE AccountsTyped'
  <2>1. /\ attempts' \in [Users -> AttemptRow]
        /\ \A v \in Users : attempts'[v].expires => attempts'[v].n > 0
    BY <1>a, <1>7, ClearedTyped DEF A!WindowEnds
  <2> QED
    BY <1>a, <1>7, <2>1 DEF A!WindowEnds, A!rows, A!history, AccountsTyped, TablesTyped, KeyTyped, CallTyped
<1>8. ASSUME NEW c \in Callers, NEW t \in Tokens, A!CreatePendingLogin(c, t) PROVE AccountsTyped'
  <2>1. call[c].user \in Users
    BY <1>a, <1>8 DEF A!CreatePendingLogin, A!At, CallTyped, ForAUser
  <2>2. CallTyped'
    BY <1>a, <1>8, CallMovesTyped DEF A!CreatePendingLogin, A!Idle, ForAUser
  <2>3. KeyTyped' /\ used \subseteq used' /\ used' \subseteq Tokens
    BY <1>a, <1>8, <2>1, SaveTyped DEF A!CreatePendingLogin, A!User
  <2> QED
    BY <1>c, <1>8, <2>2, <2>3 DEF A!CreatePendingLogin
<1>9. ASSUME NEW c \in Callers, NEW t \in Tokens, A!CreateSession(c, t) PROVE AccountsTyped'
  <2>1. call[c].user \in Users
    BY <1>a, <1>9 DEF A!CreateSession, A!At, CallTyped, ForAUser
  <2>2. CallTyped'
    BY <1>a, <1>9, CallMovesTyped DEF A!CreateSession, A!Idle, ForAUser
  <2>3. KeyTyped' /\ used' = used \union {t} /\ used' \subseteq Tokens
    BY <1>a, <1>9, <2>1, SaveTyped DEF A!CreateSession, A!User
  <2>4. index' \in [Users -> SUBSET used']
    BY <1>a, <1>9, <2>1, <2>3 DEF A!CreateSession, A!User, TablesTyped
  <2> QED
    BY <1>a, <1>9, <2>2, <2>3, <2>4 DEF A!CreateSession, A!rows, A!history, AccountsTyped, TablesTyped
<1>10. ASSUME NEW c \in Callers, NEW t \in Tokens, A!TakePendingLogin(c, t) PROVE AccountsTyped'
  <2>1. key[t].user \in Users
    BY <1>a, <1>10 DEF A!TakePendingLogin, A!Holds, KeyTyped
  <2>2. CallTyped'
    BY <1>a, <1>10, <2>1, CallMovesTyped DEF A!TakePendingLogin
  <2>3. KeyTyped'
    BY <1>a, <1>10, TakeTyped DEF A!TakePendingLogin
  <2> QED
    BY <1>a, <1>10, <2>2, <2>3 DEF A!TakePendingLogin, A!rows, A!history, AccountsTyped, TablesTyped
<1>11. ASSUME NEW c \in Callers, A!CompleteTotpLogin(c) PROVE AccountsTyped'
  <2>1. call[c].user \in Users
    BY <1>a, <1>11 DEF A!CompleteTotpLogin, A!At, CallTyped, ForAUser
  <2>2. CallTyped'
    <3>1. CASE A!Goes(c, A!Idle)
      BY <1>a, <3>1, CallMovesTyped DEF A!Idle, ForAUser
    <3>2. CASE A!Goes(c, [at |-> "open", user |-> call[c].user])
      BY <1>a, <2>1, <3>2, CallMovesTyped
    <3> QED
      BY <1>11, <3>1, <3>2 DEF A!CompleteTotpLogin, A!User
  <2> QED
    BY <1>b, <1>11, <2>2 DEF A!CompleteTotpLogin
<1>12. ASSUME NEW u \in Users, A!SetupTotp(u) \/ A!ConfirmTotp(u) \/ A!DisableTotp(u)
       PROVE  AccountsTyped'
  <2>1. PICK to \in {"off", "enrolling", "on"} : A!SetsFactor(u, to)
    BY <1>12 DEF A!SetupTotp, A!ConfirmTotp, A!DisableTotp
  <2> QED
    BY <1>a, <2>1 DEF A!SetsFactor, A!history, AccountsTyped, TablesTyped, KeyTyped, CallTyped
<1>13. ASSUME NEW t \in Tokens, NEW who \in Users \union {Nobody}, A!SaveChallenge(t, who)
       PROVE  AccountsTyped'
  <2>1. KeyTyped' /\ used \subseteq used' /\ used' \subseteq Tokens
    BY <1>a, <1>13, SaveTyped DEF A!SaveChallenge
  <2> QED
    BY <1>a, <1>c, <1>13, <2>1 DEF A!SaveChallenge, CallTyped
<1>14. ASSUME NEW c \in Callers, NEW t \in Tokens, NEW k \in Keys, A!TakeChallenge(c, t, k)
       PROVE  AccountsTyped'
  <2>1. key[t].user \in Users \union {Nobody}
    BY <1>a, <1>14 DEF A!TakeChallenge, A!Holds, KeyTyped
  <2>2. CallTyped'
    BY <1>a, <1>14, <2>1, CallMovesTyped DEF A!TakeChallenge, ForAUser
  <2>3. KeyTyped'
    BY <1>a, <1>14, TakeTyped DEF A!TakeChallenge
  <2> QED
    BY <1>a, <1>14, <2>2, <2>3 DEF A!TakeChallenge, A!rows, A!history, AccountsTyped, TablesTyped
<1>15. ASSUME NEW c \in Callers, A!FinishRegistration(c) PROVE AccountsTyped'
  <2>1. call[c].user \in Users \union {Nobody} /\ call[c].auth \in Keys
    BY <1>a, <1>15 DEF A!FinishRegistration, A!At, CallTyped
  <2>2. CallTyped'
    BY <1>a, <1>15, CallMovesTyped DEF A!FinishRegistration, A!Idle, ForAUser
  <2>3. passkeys' \in [Keys -> Users \union {Nobody}]
    BY <1>a, <1>15, <2>1 DEF A!FinishRegistration, A!User, TablesTyped
  <2> QED
    BY <1>a, <1>15, <2>2, <2>3 DEF A!FinishRegistration, A!history, AccountsTyped, TablesTyped, KeyTyped
<1>16. ASSUME NEW c \in Callers, A!FinishAuthentication(c) PROVE AccountsTyped'
  <2>1. call[c].auth \in Keys
    BY <1>a, <1>16 DEF A!FinishAuthentication, A!At, CallTyped
  <2>2. CallTyped'
    <3>1. CASE passkeys[call[c].auth] = Nobody
      BY <1>a, <1>16, <3>1, CallMovesTyped DEF A!FinishAuthentication, A!Idle, ForAUser
    <3>2. CASE passkeys[call[c].auth] # Nobody
      <4>1. passkeys[call[c].auth] \in Users
        BY <1>a, <2>1, <3>2 DEF TablesTyped
      <4> QED
        BY <1>a, <1>16, <3>2, <4>1, CallMovesTyped DEF A!FinishAuthentication
    <3> QED
      BY <3>1, <3>2
  <2> QED
    BY <1>b, <1>16, <2>2 DEF A!FinishAuthentication
<1>17. ASSUME NEW k \in Keys, A!DeletePasskey(k) PROVE AccountsTyped'
  BY <1>a, <1>17 DEF A!DeletePasskey, A!history, AccountsTyped, TablesTyped, KeyTyped, CallTyped
<1>18. ASSUME NEW c \in Callers, NEW t \in Tokens, A!Logout(c, t) \/ A!LogoutOthers(c, t)
       PROVE  AccountsTyped'
  <2>1. key[t].user \in Users
    BY <1>a, <1>18 DEF A!Logout, A!LogoutOthers, A!Holds, KeyTyped
  <2>2. CallTyped'
    BY <1>a, <1>18, <2>1, CallMovesTyped DEF A!Logout, A!LogoutOthers
  <2> QED
    BY <1>b, <1>18, <2>2 DEF A!Logout, A!LogoutOthers
<1>19. ASSUME NEW u \in Users, NEW t \in Tokens, A!RequestReset(u, t) PROVE AccountsTyped'
  <2>1. KeyTyped' /\ used \subseteq used' /\ used' \subseteq Tokens
    BY <1>a, <1>19, SaveTyped DEF A!RequestReset
  <2> QED
    BY <1>a, <1>c, <1>19, <2>1 DEF A!RequestReset, CallTyped
<1>20. ASSUME NEW c \in Callers, NEW t \in Tokens, A!TakeResetLink(c, t) PROVE AccountsTyped'
  <2>1. key[t].user \in Users
    BY <1>a, <1>20 DEF A!TakeResetLink, A!Holds, KeyTyped
  <2>2. CallTyped'
    BY <1>a, <1>20, <2>1, CallMovesTyped DEF A!TakeResetLink
  <2>3. KeyTyped'
    BY <1>a, <1>20, TakeTyped DEF A!TakeResetLink
  <2> QED
    BY <1>a, <1>20, <2>2, <2>3 DEF A!TakeResetLink, A!rows, A!history, AccountsTyped, TablesTyped
<1>21. ASSUME NEW c \in Callers, A!CommitPassword(c) PROVE AccountsTyped'
  <2>1. call[c].user \in Users
    BY <1>a, <1>21 DEF A!CommitPassword, A!At, CallTyped, ForAUser
  <2>2. CallTyped'
    BY <1>a, <1>21, <2>1, CallMovesTyped DEF A!CommitPassword, A!User
  <2>3. password' \in [Users -> Nat]
    BY <1>a, <1>21, <2>1 DEF A!CommitPassword, A!User, TablesTyped
  <2> QED
    BY <1>a, <1>21, <2>2, <2>3 DEF A!CommitPassword, A!history, AccountsTyped, TablesTyped, KeyTyped
<1>22. ASSUME NEW c \in Callers, A!ListSessions(c) PROVE AccountsTyped'
  <2>1. call[c].user \in Users
    BY <1>a, <1>22 DEF A!ListSessions, A!At, CallTyped, ForAUser
  <2>2. CallTyped'
    BY <1>a, <1>22, <2>1, CallMovesTyped DEF A!ListSessions, A!User
  <2>3. index' \in [Users -> SUBSET used]
    BY <1>a, <1>22, <2>1 DEF A!ListSessions, A!User, TablesTyped
  <2> QED
    BY <1>a, <1>22, <2>2, <2>3 DEF A!ListSessions, A!rows, A!history, AccountsTyped, TablesTyped, KeyTyped
<1>23. ASSUME NEW c \in Callers, NEW t \in Tokens, A!DeleteSession(c, t) PROVE AccountsTyped'
  <2>1. call[c].user \in Users /\ call[c].at = "sweep"
    BY <1>a, <1>23 DEF A!DeleteSession, A!At, CallTyped, ForAUser
  <2>2. CallTyped'
    <3> DEFINE r == [call[c] EXCEPT !.todo = @ \ {t}, !.mine = IF key[t] = Nobody THEN {} ELSE {t}]
    <3>1. r.at = call[c].at /\ r.user = call[c].user
      OBVIOUS
    <3>2. A!Goes(c, r)
      BY <1>23 DEF A!DeleteSession
    <3> HIDE DEF r
    <3> QED
      BY <1>a, <2>1, <3>1, <3>2, CallMovesTyped
  <2>3. KeyTyped'
    BY <1>a, <1>23, TakeTyped DEF A!DeleteSession
  <2> QED
    BY <1>a, <1>23, <2>2, <2>3 DEF A!DeleteSession, A!rows, A!history, AccountsTyped, TablesTyped
<1>24. ASSUME NEW c \in Callers, A!ForgetSession(c) PROVE AccountsTyped'
  <2>1. call[c].user \in Users /\ call[c].at = "sweep"
    BY <1>a, <1>24 DEF A!ForgetSession, A!At, CallTyped, ForAUser
  <2>2. CallTyped'
    <3> DEFINE r == [call[c] EXCEPT !.mine = {}]
    <3>1. r.at = call[c].at /\ r.user = call[c].user
      OBVIOUS
    <3>2. A!Goes(c, r)
      BY <1>24 DEF A!ForgetSession
    <3> HIDE DEF r
    <3> QED
      BY <1>a, <2>1, <3>1, <3>2, CallMovesTyped
  <2>3. index' \in [Users -> SUBSET used]
    BY <1>a, <1>24, <2>1 DEF A!ForgetSession, A!User, TablesTyped
  <2> QED
    BY <1>a, <1>24, <2>2, <2>3 DEF A!ForgetSession, A!rows, A!history, AccountsTyped, TablesTyped, KeyTyped
<1>25. ASSUME NEW c \in Callers, A!Swept(c) PROVE AccountsTyped'
  <2>1. CallTyped'
    BY <1>a, <1>25, CallMovesTyped DEF A!Swept, A!Idle, ForAUser
  <2> QED
    BY <1>b, <1>25, <2>1 DEF A!Swept
<1>26. ASSUME NEW t \in Tokens, A!Expires(t) PROVE AccountsTyped'
  <2>1. KeyTyped'
    BY <1>a, <1>26, TakeTyped DEF A!Expires, A!Take
  <2> QED
    BY <1>a, <1>26, <2>1 DEF A!Expires, A!rows, A!history, AccountsTyped, TablesTyped, CallTyped
<1>27. ASSUME A!Restart PROVE AccountsTyped'
  <2>1. CallTyped'
    BY <1>27 DEF A!Restart, A!Idle, CallTyped, ForAUser
  <2>2. cutShort' \subseteq Users
    BY <1>a, <1>27 DEF A!Restart, TablesTyped
  <2> QED
    BY <1>a, <1>27, <2>1, <2>2 DEF A!Restart, A!rows, AccountsTyped, TablesTyped, KeyTyped
<1>28. ASSUME UNCHANGED A!accountVars PROVE AccountsTyped'
  BY <1>28, <1>a DEF A!accountVars, AccountsTyped, TablesTyped, KeyTyped, CallTyped
<1>29. ASSUME NEW t \in Tokens,
              A!StartAuthentication(t) \/ \E u \in Users : A!StartRegistration(t, u)
       PROVE  AccountsTyped'
  BY <1>13, <1>29 DEF A!StartAuthentication, A!StartRegistration
<1> QED
  BY <1>1, <1>2, <1>3, <1>4, <1>5, <1>6, <1>7, <1>8, <1>9, <1>10, <1>11, <1>12, <1>14, <1>15,
     <1>16, <1>17, <1>18, <1>19, <1>20, <1>21, <1>22, <1>23, <1>24, <1>25, <1>26, <1>27, <1>28, <1>29
     DEF A!Next

-----------------------------------------------------------------------------
(* How often somebody may try a password.                                  *)

TryingSteps == {"verify", "count"}
Trying(u)   == {c \in Callers : call[c].at \in TryingSteps /\ call[c].user = u}

\* Each request let in may still fail, and none is let in at the limit.
AttemptsFit == \A u \in Users :
    attempts[u].n + Cardinality(Trying(u)) < AttemptLimit + Cardinality(Callers)

LEMMA SubsetsCount ==
  ASSUME AccountsAssumption, NEW S \in SUBSET Callers, NEW T \in SUBSET S
  PROVE  /\ IsFiniteSet(S) /\ Cardinality(S) \in Nat /\ Cardinality(T) \in Nat
         /\ Cardinality(T) <= Cardinality(S) /\ Cardinality(S) <= Cardinality(Callers)
         /\ Cardinality(Callers) \in Nat
<1>1. IsFiniteSet(S) /\ IsFiniteSet(Callers)
  BY FS_Subset DEF AccountsAssumption
<1>2. IsFiniteSet(T)
  BY <1>1, FS_Subset
<1> QED
  BY <1>1, <1>2, FS_Subset, FS_CardinalityType

\* A step that lets nobody in.
NobodyTries == \A c \in Callers : call'[c].at \in TryingSteps =>
    call[c].at \in TryingSteps /\ call'[c].user = call[c].user

LEMMA GoesOn ==
  ASSUME CallTyped, NEW c \in Callers, NEW r, A!Goes(c, r),
         r.at \in TryingSteps => call[c].at \in TryingSteps /\ r.user = call[c].user
  PROVE  NobodyTries
  BY CallMoves DEF NobodyTries

LEMMA AttemptsKept ==
  ASSUME AccountsAssumption, AccountsTyped, AccountsTyped', AttemptsFit, NobodyTries,
         \A u \in Users : attempts'[u].n <= attempts[u].n
  PROVE  AttemptsFit'
<1> SUFFICES ASSUME NEW u \in Users
             PROVE  attempts'[u].n + Cardinality(Trying(u)') < AttemptLimit + Cardinality(Callers)
  BY DEF AttemptsFit
<1>1. Trying(u) \subseteq Callers /\ Trying(u)' \subseteq Trying(u)
  BY DEF Trying, NobodyTries
<1>2. /\ Cardinality(Trying(u)) \in Nat /\ Cardinality(Trying(u)') \in Nat
      /\ Cardinality(Trying(u)') <= Cardinality(Trying(u)) /\ Cardinality(Callers) \in Nat
  BY <1>1, SubsetsCount
<1>3. attempts[u].n \in Nat /\ attempts'[u].n \in Nat /\ AttemptLimit \in Nat
  BY DEF AccountsAssumption, AccountsTyped, TablesTyped, AttemptRow
<1>4. attempts[u].n + Cardinality(Trying(u)) < AttemptLimit + Cardinality(Callers)
  BY DEF AttemptsFit
<1>5. attempts'[u].n <= attempts[u].n
  OBVIOUS
<1> QED
  BY <1>2, <1>3, <1>4, <1>5

BoundInv == AccountsTyped /\ AttemptsFit

LEMMA BoundInit == AccountsAssumption /\ A!Init => BoundInv
<1> SUFFICES ASSUME AccountsAssumption, A!Init PROVE BoundInv
  OBVIOUS
<1>1. AccountsTyped
  BY AccountsTypedInit
<1>2. ASSUME NEW u \in Users
      PROVE  attempts[u].n + Cardinality(Trying(u)) < AttemptLimit + Cardinality(Callers)
  <2>1. Trying(u) = {} /\ attempts[u].n = 0
    BY DEF A!Init, A!Idle, Trying, TryingSteps
  <2>2. Cardinality(Callers) \in Nat /\ AttemptLimit \in Nat \ {0}
    BY FS_CardinalityType DEF AccountsAssumption
  <2> QED
    BY <2>1, <2>2, FS_EmptySet
<1> QED
  BY <1>1, <1>2 DEF BoundInv, AttemptsFit

LEMMA BoundNext ==
  ASSUME AccountsAssumption, BoundInv, [A!Next]_A!accountVars
  PROVE  BoundInv'
<1>a. AccountsTyped /\ AccountsTyped' /\ AttemptsFit /\ CallTyped
  BY AccountsTypedNext DEF BoundInv, AccountsTyped
<1>b. \A u \in Users : attempts[u].n \in Nat
  BY <1>a DEF AccountsTyped, TablesTyped, AttemptRow
<1>c. ASSUME NobodyTries, UNCHANGED attempts PROVE AttemptsFit'
  <2>1. \A u \in Users : attempts'[u].n <= attempts[u].n
    BY <1>b, <1>c
  <2> QED
    BY <1>a, <1>c, <2>1, AttemptsKept
<1>d. ASSUME UNCHANGED call PROVE NobodyTries
  BY <1>d DEF NobodyTries
<1>e. ASSUME NEW c \in Callers, NEW r, A!Goes(c, r), r.at \notin TryingSteps PROVE NobodyTries
  BY <1>a, <1>e, GoesOn
<1>1. ASSUME NEW c \in Callers, NEW u \in Users, A!Login(c, u) PROVE AttemptsFit'
  <2>1. PICK knows : A!Goes(c, [at |-> "verify", user |-> u, knows |-> knows])
    BY <1>1 DEF A!Login
  <2>2. /\ call'[c].at = "verify" /\ call'[c].user = u
        /\ \A d \in Callers \ {c} : call'[d] = call[d]
    BY <1>a, <2>1, CallMoves
  <2>3. attempts[u].n < AttemptLimit /\ attempts' = attempts
    BY <1>1 DEF A!Login, A!UnderLimit
  <2>4. ASSUME NEW v \in Users, v # u
        PROVE  attempts'[v].n + Cardinality(Trying(v)') < AttemptLimit + Cardinality(Callers)
    <3>1. Trying(v)' = Trying(v)
      <4>1. \A d \in Callers : d \in Trying(v)' => d \in Trying(v)
        BY <2>2, <2>4 DEF Trying
      <4>2. call[c].at \notin TryingSteps
        BY <1>1 DEF A!Login, A!At, TryingSteps
      <4>3. \A d \in Callers : d \in Trying(v) => d \in Trying(v)'
        BY <2>2, <4>2 DEF Trying
      <4> QED
        BY <4>1, <4>3 DEF Trying
    <3> QED
      BY <1>a, <2>3, <3>1 DEF AttemptsFit
  <2>5. attempts'[u].n + Cardinality(Trying(u)') < AttemptLimit + Cardinality(Callers)
    <3>1. Trying(u)' \subseteq Callers
      BY DEF Trying
    <3>2. /\ Cardinality(Trying(u)') \in Nat /\ Cardinality(Callers) \in Nat
          /\ Cardinality(Trying(u)') <= Cardinality(Callers)
      BY <3>1, SubsetsCount
    <3> QED
      BY <1>b, <2>3, <3>2 DEF AccountsAssumption
  <2> QED
    BY <2>4, <2>5 DEF AttemptsFit
<1>2. ASSUME NEW c \in Callers, A!CountFailedAttempt(c) PROVE AttemptsFit'
  <2>0. PICK u \in Users : u = call[c].user /\ call[c].at = "count"
    BY <1>a, <1>2 DEF A!CountFailedAttempt, A!At, CallTyped, ForAUser
  <2>1. u \in Users /\ u = call[c].user /\ call[c].at = "count"
    BY <2>0
  <2>2. /\ attempts'[u].n = attempts[u].n + 1
        /\ \A v \in Users \ {u} : attempts'[v] = attempts[v]
    BY <1>a, <1>2, <2>1 DEF A!CountFailedAttempt, A!User, AccountsTyped, TablesTyped, AttemptRow
  <2>3. /\ call'[c].at \notin TryingSteps
        /\ \A d \in Callers \ {c} : call'[d] = call[d]
    <3>1. CASE attempts[u].n = 0
      BY <1>a, <1>2, <2>1, <3>1, CallMoves DEF A!CountFailedAttempt, A!User, TryingSteps
    <3>2. CASE attempts[u].n # 0
      BY <1>a, <1>2, <2>1, <3>2, CallMoves DEF A!CountFailedAttempt, A!User, A!Idle, TryingSteps
    <3> QED
      BY <3>1, <3>2
  <2>4. ASSUME NEW v \in Users, v # u
        PROVE  attempts'[v].n + Cardinality(Trying(v)') < AttemptLimit + Cardinality(Callers)
    <3>1. Trying(v)' \subseteq Trying(v) /\ Trying(v) \subseteq Callers
      BY <2>3 DEF Trying
    <3>2. /\ Cardinality(Trying(v)) \in Nat /\ Cardinality(Trying(v)') \in Nat
          /\ Cardinality(Trying(v)') <= Cardinality(Trying(v)) /\ Cardinality(Callers) \in Nat
      BY <3>1, SubsetsCount
    <3>3. attempts[v].n + Cardinality(Trying(v)) < AttemptLimit + Cardinality(Callers)
      BY <1>a DEF AttemptsFit
    <3>4. attempts'[v].n = attempts[v].n
      BY <2>2, <2>4
    <3> QED
      BY <1>b, <3>2, <3>3, <3>4 DEF AccountsAssumption
  <2>5. attempts'[u].n + Cardinality(Trying(u)') < AttemptLimit + Cardinality(Callers)
    <3>1. c \in Trying(u) /\ Trying(u) \subseteq Callers
      BY <2>1 DEF Trying, TryingSteps
    <3>2. Trying(u)' = Trying(u) \ {c}
      BY <2>3 DEF Trying
    <3>3. Cardinality(Trying(u)) \in Nat /\ Cardinality(Callers) \in Nat /\ IsFiniteSet(Trying(u))
      BY <3>1, SubsetsCount
    <3>4. Cardinality(Trying(u)') = Cardinality(Trying(u)) - 1
      BY <3>1, <3>2, <3>3, FS_RemoveElement
    <3>5. attempts[u].n + Cardinality(Trying(u)) < AttemptLimit + Cardinality(Callers)
      BY <1>a, <2>1 DEF AttemptsFit
    <3> QED
      BY <1>b, <2>1, <2>2, <3>3, <3>4, <3>5 DEF AccountsAssumption
  <2> QED
    BY <2>4, <2>5 DEF AttemptsFit
<1>3. ASSUME NEW u \in Users, A!Cleared(u), NobodyTries PROVE AttemptsFit'
  <2>1. \A v \in Users : attempts'[v].n <= attempts[v].n
    BY <1>a, <1>b, <1>3, ClearedTyped DEF AccountsTyped
  <2> QED
    BY <1>a, <1>3, <2>1, AttemptsKept
<1>4. ASSUME NEW c \in Callers, A!ClearFailedAttempts(c) PROVE AttemptsFit'
  <2>1. call[c].user \in Users
    BY <1>a, <1>4 DEF A!ClearFailedAttempts, A!At, CallTyped, ForAUser
  <2>2. NobodyTries
    BY <1>4, <1>e DEF A!ClearFailedAttempts, TryingSteps
  <2> QED
    BY <1>3, <1>4, <2>1, <2>2 DEF A!ClearFailedAttempts, A!User
<1>5. ASSUME NEW u \in Users, A!WindowEnds(u) PROVE AttemptsFit'
  BY <1>3, <1>5, <1>d DEF A!WindowEnds
<1>6. ASSUME NEW c \in Callers, A!StartWindow(c) PROVE AttemptsFit'
  <2>1. call[c].user \in Users
    BY <1>a, <1>6 DEF A!StartWindow, A!At, CallTyped, ForAUser
  <2>2. NobodyTries
    BY <1>6, <1>e DEF A!StartWindow, A!Idle, TryingSteps
  <2>3. \A v \in Users : attempts'[v].n = attempts[v].n
    BY <1>a, <1>6, <2>1 DEF A!StartWindow, A!User, AccountsTyped, TablesTyped, AttemptRow
  <2>4. \A v \in Users : attempts'[v].n <= attempts[v].n
    BY <1>b, <2>3
  <2> QED
    BY <1>a, <2>2, <2>4, AttemptsKept
<1>7. ASSUME NEW c \in Callers, A!VerifyPassword(c) PROVE AttemptsFit'
  <2>1. NobodyTries
    <3> DEFINE r == [at |-> IF call[c].user \in A!Registered /\ call[c].knows = password[call[c].user]
                            THEN "clear" ELSE "count",
                     user |-> call[c].user, owes |-> factor[call[c].user] = "on"]
    <3>1. A!Goes(c, r)
      BY <1>7 DEF A!VerifyPassword, A!User
    <3>2. call[c].at \in TryingSteps /\ r.user = call[c].user
      BY <1>7 DEF A!VerifyPassword, A!At, TryingSteps
    <3> HIDE DEF r
    <3> QED
      BY <1>a, <3>1, <3>2, GoesOn
  <2> QED
    BY <1>7, <1>c, <2>1 DEF A!VerifyPassword
<1>8. ASSUME NEW c \in Callers,
             A!CompleteTotpLogin(c) \/ A!FinishRegistration(c) \/ A!FinishAuthentication(c)
             \/ A!CommitPassword(c) \/ A!Swept(c) \/ A!ListSessions(c)
      PROVE  AttemptsFit'
  <2>1. NobodyTries
    BY <1>8, <1>e DEF A!CompleteTotpLogin, A!FinishRegistration, A!FinishAuthentication,
       A!CommitPassword, A!Swept, A!ListSessions, A!Idle, TryingSteps
  <2> QED
    BY <1>8, <1>c, <2>1 DEF A!CompleteTotpLogin, A!FinishRegistration, A!FinishAuthentication,
       A!CommitPassword, A!Swept, A!ListSessions
<1>9. ASSUME NEW c \in Callers, A!ForgetSession(c) \/ \E t \in Tokens : A!DeleteSession(c, t)
      PROVE  AttemptsFit'
  <2>1. PICK r : A!Goes(c, r) /\ r.at = "sweep"
    <3>1. CASE A!ForgetSession(c)
      <4> DEFINE r == [call[c] EXCEPT !.mine = {}]
      <4>1. A!Goes(c, r) /\ r.at = "sweep"
        BY <3>1 DEF A!ForgetSession, A!At
      <4> QED
        BY <4>1
    <3>2. CASE \E t \in Tokens : A!DeleteSession(c, t)
      <4>1. PICK t \in Tokens : A!DeleteSession(c, t)
        BY <3>2
      <4> DEFINE r == [call[c] EXCEPT !.todo = @ \ {t}, !.mine = IF key[t] = Nobody THEN {} ELSE {t}]
      <4>2. A!Goes(c, r) /\ r.at = "sweep"
        BY <4>1 DEF A!DeleteSession, A!At
      <4> QED
        BY <4>2
    <3> QED
      BY <1>9, <3>1, <3>2
  <2>2. NobodyTries
    BY <1>e, <2>1 DEF TryingSteps
  <2> QED
    BY <1>9, <1>c, <2>2 DEF A!ForgetSession, A!DeleteSession
<1>10. ASSUME NEW c \in Callers, NEW t \in Tokens,
              A!CreatePendingLogin(c, t) \/ A!CreateSession(c, t) \/ A!TakePendingLogin(c, t)
              \/ A!Logout(c, t) \/ A!LogoutOthers(c, t) \/ A!TakeResetLink(c, t)
              \/ \E k \in Keys : A!TakeChallenge(c, t, k)
       PROVE  AttemptsFit'
  <2>1. NobodyTries
    BY <1>10, <1>e DEF A!CreatePendingLogin, A!CreateSession, A!TakePendingLogin,
       A!Logout, A!LogoutOthers, A!TakeResetLink, A!TakeChallenge, A!Idle, TryingSteps
  <2> QED
    BY <1>10, <1>c, <2>1 DEF A!CreatePendingLogin, A!CreateSession, A!TakePendingLogin,
       A!Logout, A!LogoutOthers, A!TakeResetLink, A!TakeChallenge
<1>11. ASSUME NEW c \in Callers, NEW u \in Users, A!Register(c, u) PROVE AttemptsFit'
  <2>1. NobodyTries
    BY <1>11, <1>e DEF A!Register, TryingSteps
  <2> QED
    BY <1>11, <1>c, <2>1 DEF A!Register
<1>12. ASSUME UNCHANGED <<attempts, call>> PROVE AttemptsFit'
  BY <1>12, <1>c, <1>d
<1>13. ASSUME \/ \E u \in Users : \/ A!SetupTotp(u) \/ A!ConfirmTotp(u) \/ A!DisableTotp(u)
                                  \/ \E t \in Tokens : A!RequestReset(u, t) \/ A!StartRegistration(t, u)
              \/ \E t \in Tokens : A!Expires(t) \/ A!StartAuthentication(t)
              \/ \E k \in Keys : A!DeletePasskey(k)
              \/ UNCHANGED A!accountVars
       PROVE  AttemptsFit'
  BY <1>13, <1>12 DEF A!SetupTotp, A!ConfirmTotp, A!DisableTotp, A!SetsFactor, A!RequestReset,
     A!StartRegistration, A!StartAuthentication, A!SaveChallenge, A!Expires, A!DeletePasskey,
     A!accountVars
<1>14. ASSUME A!Restart PROVE AttemptsFit'
  <2>1. NobodyTries
    BY <1>14 DEF A!Restart, A!Idle, NobodyTries, TryingSteps
  <2> QED
    BY <1>14, <1>c, <2>1 DEF A!Restart
<1>15. AttemptsFit'
  BY <1>1, <1>2, <1>4, <1>5, <1>6, <1>7, <1>8, <1>9, <1>10, <1>11, <1>13, <1>14 DEF A!Next
<1> QED
  BY <1>a, <1>15 DEF BoundInv

LEMMA CountsTheSame == A!Cardinality(Callers) = Cardinality(Callers)
  BY DEF A!Cardinality, Cardinality

(* AttemptsAreBounded: however the requests to sign in overtake each       *)
(* other, an account is never tried more often than the limit and one try  *)
(* for each request there can be at a time                                 *)
(* (service.sign_in_with_password).                                        *)
THEOREM TriesAreBounded ==
  ASSUME AccountsAssumption
  PROVE  A!Spec => []A!AttemptsAreBounded
<1>1. BoundInv => A!AttemptsAreBounded
  <2> SUFFICES ASSUME BoundInv, NEW u \in Users
               PROVE  attempts[u].n < AttemptLimit + Cardinality(Callers)
    BY CountsTheSame DEF A!AttemptsAreBounded
  <2>1. Cardinality(Trying(u)) \in Nat /\ Cardinality(Callers) \in Nat
    <3>1. Trying(u) \subseteq Callers
      BY DEF Trying
    <3> QED
      BY <3>1, SubsetsCount
  <2>2. attempts[u].n \in Nat /\ AttemptLimit \in Nat
    BY DEF AccountsAssumption, BoundInv, AccountsTyped, TablesTyped, AttemptRow
  <2>3. attempts[u].n + Cardinality(Trying(u)) < AttemptLimit + Cardinality(Callers)
    BY DEF BoundInv, AttemptsFit
  <2> QED
    BY <2>1, <2>2, <2>3
<1>2. A!Init => BoundInv
  BY BoundInit
<1>3. BoundInv /\ [A!Next]_A!accountVars => BoundInv'
  BY BoundNext
<1> QED
  BY <1>1, <1>2, <1>3, PTL DEF A!Spec

-----------------------------------------------------------------------------
(* Resetting the password signs everybody out.                             *)

\* Only somebody who registered gets past the password step.
Admitted   == {"open", "clear", "pend", "code", "commit", "list", "sweep"}
KnownCalls == \A c \in Callers :
    /\ call[c].at \in Admitted => call[c].user \in A!Registered
    /\ call[c].at = "answer" => call[c].user \in A!Registered \union {Nobody}
KnownKeys  == \A t \in Tokens : key[t] # Nobody =>
    /\ key[t].kind \in {"pending", "session", "reset"} => key[t].user \in A!Registered
    /\ key[t].kind = "challenge" => key[t].user \in A!Registered \union {Nobody}
KnownPasskeys == \A k \in Keys : passkeys[k] \in A!Registered \union {Nobody}
Known == KnownCalls /\ KnownKeys /\ KnownPasskeys

LEMMA KnownGoes ==
  ASSUME CallTyped, KnownCalls, A!Registered \subseteq A!Registered',
         NEW c \in Callers, NEW r, A!Goes(c, r),
         r.at \in Admitted => r.user \in A!Registered',
         r.at = "answer" => r.user \in A!Registered' \union {Nobody}
  PROVE  KnownCalls'
  BY CallMoves DEF KnownCalls

LEMMA KnownSave ==
  ASSUME TablesTyped, KeyTyped, KnownKeys, UNCHANGED A!Registered, NEW t \in Tokens, NEW r,
         A!Save(t, r),
         r.kind \in {"pending", "session", "reset"} => r.user \in A!Registered,
         r.kind = "challenge" => r.user \in A!Registered \union {Nobody}
  PROVE  KnownKeys'
<1>1. key'[t] = r /\ \A x \in Tokens \ {t} : key'[x] = key[x]
  BY DEF A!Save, KeyTyped
<1> QED
  BY <1>1 DEF KnownKeys

LEMMA KnownTake ==
  ASSUME KeyTyped, KnownKeys, UNCHANGED A!Registered, NEW t \in Tokens, A!Take(t)
  PROVE  KnownKeys'
<1>1. key'[t] = Nobody /\ \A x \in Tokens \ {t} : key'[x] = key[x]
  BY DEF A!Take, KeyTyped
<1> QED
  BY <1>1 DEF KnownKeys

LEMMA KnownInit == A!Init => Known
  BY DEF A!Init, A!Idle, Known, KnownCalls, KnownKeys, KnownPasskeys, Admitted

LEMMA KnownNext ==
  ASSUME AccountsTyped, Known, [A!Next]_A!accountVars
  PROVE  Known' /\ A!Registered \subseteq A!Registered'
<1>a. /\ TablesTyped /\ KeyTyped /\ CallTyped
      /\ KnownCalls /\ KnownKeys /\ KnownPasskeys
  BY DEF AccountsTyped, Known
<1> DEFINE Goal == Known' /\ A!Registered \subseteq A!Registered'
<1>b. ASSUME UNCHANGED A!rows PROVE A!Registered' = A!Registered /\ KnownPasskeys'
  BY <1>a, <1>b DEF A!rows, A!Registered, KnownPasskeys
<1>c. ASSUME UNCHANGED <<A!rows, key>>, KnownCalls' PROVE Goal
  BY <1>a, <1>b, <1>c DEF Known, KnownKeys
<1>d. ASSUME UNCHANGED <<A!rows, call>>, KnownKeys' PROVE Goal
  BY <1>a, <1>b, <1>d DEF Known, KnownCalls
<1>e. ASSUME NEW c \in Callers, NEW r, A!Goes(c, r), UNCHANGED <<A!rows, key>>,
             r.at \in Admitted => r.user \in A!Registered,
             r.at # "answer"
      PROVE  Goal
  <2>1. KnownCalls'
    BY <1>a, <1>b, <1>e, KnownGoes
  <2> QED
    BY <1>c, <1>e, <2>1
<1>f. ASSUME NEW u \in Users, A!SignedIn(u) PROVE u \in A!Registered
  BY <1>a, <1>f DEF A!SignedIn, A!Holds, KnownKeys
<1>1. ASSUME NEW c \in Callers, NEW u \in Users, A!Register(c, u) PROVE Goal
  <2>1. A!Registered \subseteq A!Registered' /\ u \in A!Registered'
    BY <1>a, <1>1 DEF A!Register, A!register, A!Registered, TablesTyped
  <2>2. KnownCalls'
    BY <1>a, <1>1, <2>1, KnownGoes DEF A!Register
  <2> QED
    BY <1>a, <1>1, <2>1, <2>2 DEF A!Register, Known, KnownKeys, KnownPasskeys
<1>2. ASSUME NEW c \in Callers, NEW u \in Users, A!Login(c, u) PROVE Goal
  <2>1. PICK knows : A!Goes(c, [at |-> "verify", user |-> u, knows |-> knows])
    BY <1>2 DEF A!Login
  <2> QED
    BY <1>e, <1>2, <2>1 DEF A!Login, Admitted
<1>3. ASSUME NEW c \in Callers, A!VerifyPassword(c) PROVE Goal
  <2> DEFINE right == call[c].user \in A!Registered /\ call[c].knows = password[call[c].user]
  <2>1. CASE right
    BY <1>e, <1>3, <2>1 DEF A!VerifyPassword, A!User
  <2>2. CASE ~right
    BY <1>e, <1>3, <2>2 DEF A!VerifyPassword, A!User, Admitted
  <2> QED
    BY <2>1, <2>2
<1>4. ASSUME NEW c \in Callers, A!CountFailedAttempt(c) PROVE Goal
  <2>1. CASE attempts[call[c].user].n = 0
    BY <1>e, <1>4, <2>1 DEF A!CountFailedAttempt, A!User, Admitted
  <2>2. CASE attempts[call[c].user].n # 0
    BY <1>e, <1>4, <2>2 DEF A!CountFailedAttempt, A!User, A!Idle, Admitted
  <2> QED
    BY <2>1, <2>2
<1>5. ASSUME NEW c \in Callers, A!StartWindow(c) \/ A!Swept(c) PROVE Goal
  BY <1>e, <1>5 DEF A!StartWindow, A!Swept, A!Idle, Admitted
<1>6. ASSUME NEW c \in Callers, A!ClearFailedAttempts(c) PROVE Goal
  <2>1. call[c].user \in A!Registered
    BY <1>a, <1>6 DEF A!ClearFailedAttempts, A!At, KnownCalls, Admitted
  <2> QED
    BY <1>e, <1>6, <2>1 DEF A!ClearFailedAttempts, A!User
<1>7. ASSUME NEW u \in Users, A!WindowEnds(u) PROVE Goal
  BY <1>a, <1>d, <1>7 DEF A!WindowEnds, KnownKeys, A!rows, A!Registered
<1>8. ASSUME NEW c \in Callers, NEW t \in Tokens, A!CreatePendingLogin(c, t) \/ A!CreateSession(c, t)
      PROVE  Goal
  <2>1. call[c].user \in A!Registered
    BY <1>a, <1>8 DEF A!CreatePendingLogin, A!CreateSession, A!At, KnownCalls, Admitted
  <2>2. UNCHANGED A!rows /\ A!Registered' = A!Registered /\ KnownPasskeys'
    BY <1>8, <1>b DEF A!CreatePendingLogin, A!CreateSession
  <2>3. KnownCalls'
    BY <1>a, <1>8, <2>2, KnownGoes DEF A!CreatePendingLogin, A!CreateSession, A!Idle, Admitted
  <2>4. KnownKeys'
    BY <1>a, <1>8, <2>1, <2>2, KnownSave DEF A!CreatePendingLogin, A!CreateSession, A!User
  <2> QED
    BY <2>2, <2>3, <2>4 DEF Known
<1>9. ASSUME NEW c \in Callers, NEW t \in Tokens, A!TakePendingLogin(c, t) \/ A!TakeResetLink(c, t)
      PROVE  Goal
  <2>1. key[t].user \in A!Registered
    BY <1>a, <1>9 DEF A!TakePendingLogin, A!TakeResetLink, A!Holds, KnownKeys
  <2>2. UNCHANGED A!rows /\ A!Registered' = A!Registered /\ KnownPasskeys'
    BY <1>9, <1>b DEF A!TakePendingLogin, A!TakeResetLink
  <2>3. KnownCalls'
    BY <1>a, <1>9, <2>1, <2>2, KnownGoes DEF A!TakePendingLogin, A!TakeResetLink
  <2>4. KnownKeys'
    BY <1>a, <1>9, <2>2, KnownTake DEF A!TakePendingLogin, A!TakeResetLink
  <2> QED
    BY <2>2, <2>3, <2>4 DEF Known
<1>10. ASSUME NEW c \in Callers, A!CompleteTotpLogin(c) PROVE Goal
  <2>1. call[c].user \in A!Registered
    BY <1>a, <1>10 DEF A!CompleteTotpLogin, A!At, KnownCalls, Admitted
  <2> QED
    BY <1>e, <1>10, <2>1 DEF A!CompleteTotpLogin, A!User, A!Idle, Admitted
<1>11. ASSUME NEW u \in Users, A!SetupTotp(u) \/ A!ConfirmTotp(u) \/ A!DisableTotp(u) PROVE Goal
  <2>1. UNCHANGED <<password, passkeys, key, call>>
    BY <1>11 DEF A!SetupTotp, A!ConfirmTotp, A!DisableTotp, A!SetsFactor
  <2> QED
    BY <1>a, <2>1 DEF A!Registered, Known, KnownCalls, KnownKeys, KnownPasskeys
<1>12. ASSUME NEW t \in Tokens, NEW who \in A!Registered \union {Nobody}, A!SaveChallenge(t, who)
       PROVE  Goal
  <2>1. KnownKeys'
    BY <1>a, <1>b, <1>12, KnownSave DEF A!SaveChallenge
  <2> QED
    BY <1>d, <1>12, <2>1 DEF A!SaveChallenge
<1>13. ASSUME NEW t \in Tokens, NEW u \in Users, A!StartRegistration(t, u) PROVE Goal
  BY <1>f, <1>12, <1>13 DEF A!StartRegistration
<1>14. ASSUME NEW t \in Tokens, A!StartAuthentication(t) PROVE Goal
  BY <1>12, <1>14 DEF A!StartAuthentication
<1>15. ASSUME NEW c \in Callers, NEW t \in Tokens, NEW k \in Keys, A!TakeChallenge(c, t, k) PROVE Goal
  <2>1. key[t].user \in A!Registered \union {Nobody}
    BY <1>a, <1>15 DEF A!TakeChallenge, A!Holds, KnownKeys
  <2>2. UNCHANGED A!rows /\ A!Registered' = A!Registered /\ KnownPasskeys'
    BY <1>15, <1>b DEF A!TakeChallenge
  <2>3. KnownCalls'
    BY <1>a, <1>15, <2>1, <2>2, KnownGoes DEF A!TakeChallenge, Admitted
  <2>4. KnownKeys'
    BY <1>a, <1>15, <2>2, KnownTake DEF A!TakeChallenge
  <2> QED
    BY <2>2, <2>3, <2>4 DEF Known
<1>16. ASSUME NEW c \in Callers, A!FinishRegistration(c) PROVE Goal
  <2>1. A!Registered' = A!Registered
    BY <1>16 DEF A!FinishRegistration, A!Registered
  <2>2. call[c].user \in A!Registered /\ call[c].auth \in Keys
    BY <1>a, <1>16 DEF A!FinishRegistration, A!At, A!User, KnownCalls, CallTyped
  <2>3. KnownPasskeys'
    BY <1>a, <1>16, <2>1, <2>2 DEF A!FinishRegistration, A!User, KnownPasskeys, TablesTyped
  <2>4. KnownCalls'
    BY <1>a, <1>16, <2>1, KnownGoes DEF A!FinishRegistration, A!Idle, Admitted
  <2> QED
    BY <1>a, <1>16, <2>1, <2>3, <2>4 DEF A!FinishRegistration, Known, KnownKeys
<1>17. ASSUME NEW c \in Callers, A!FinishAuthentication(c) PROVE Goal
  <2>1. call[c].auth \in Keys
    BY <1>a, <1>17 DEF A!FinishAuthentication, A!At, CallTyped
  <2>2. CASE passkeys[call[c].auth] = Nobody
    BY <1>e, <1>17, <2>2 DEF A!FinishAuthentication, A!Idle, Admitted
  <2>3. CASE passkeys[call[c].auth] # Nobody
    <3>1. passkeys[call[c].auth] \in A!Registered
      BY <1>a, <2>1, <2>3 DEF KnownPasskeys
    <3> QED
      BY <1>e, <1>17, <2>3, <3>1 DEF A!FinishAuthentication
  <2> QED
    BY <2>2, <2>3
<1>18. ASSUME NEW k \in Keys, A!DeletePasskey(k) PROVE Goal
  <2>1. UNCHANGED <<password, key, call>>
    BY <1>18 DEF A!DeletePasskey
  <2>2. \A j \in Keys : passkeys'[j] = passkeys[j] \/ passkeys'[j] = Nobody
    BY <1>a, <1>18 DEF A!DeletePasskey, TablesTyped
  <2> QED
    BY <1>a, <2>1, <2>2 DEF A!Registered, Known, KnownCalls, KnownKeys, KnownPasskeys
<1>19. ASSUME NEW c \in Callers, NEW t \in Tokens, A!Logout(c, t) \/ A!LogoutOthers(c, t) PROVE Goal
  <2>1. key[t].user \in A!Registered
    BY <1>a, <1>19 DEF A!Logout, A!LogoutOthers, A!Holds, KnownKeys
  <2> QED
    BY <1>e, <1>19, <2>1 DEF A!Logout, A!LogoutOthers
<1>20. ASSUME NEW u \in Users, NEW t \in Tokens, A!RequestReset(u, t) PROVE Goal
  <2>1. u \in A!Registered
    BY <1>20 DEF A!RequestReset
  <2>2. KnownKeys'
    BY <1>a, <1>b, <1>20, <2>1, KnownSave DEF A!RequestReset
  <2> QED
    BY <1>d, <1>20, <2>2 DEF A!RequestReset
<1>21. ASSUME NEW c \in Callers, A!CommitPassword(c) PROVE Goal
  <2>1. call[c].user \in A!Registered
    BY <1>a, <1>21 DEF A!CommitPassword, A!At, KnownCalls, Admitted
  <2>2. A!Registered' = A!Registered
    BY <1>a, <1>21, <2>1 DEF A!CommitPassword, A!User, A!Registered, TablesTyped
  <2>3. KnownCalls'
    BY <1>a, <1>21, <2>1, <2>2, KnownGoes DEF A!CommitPassword, A!User
  <2> QED
    BY <1>a, <1>21, <2>2, <2>3 DEF A!CommitPassword, Known, KnownKeys, KnownPasskeys
<1>22. ASSUME NEW c \in Callers, A!ListSessions(c) PROVE Goal
  <2>1. call[c].user \in A!Registered
    BY <1>a, <1>22 DEF A!ListSessions, A!At, KnownCalls, Admitted
  <2> QED
    BY <1>e, <1>22, <2>1 DEF A!ListSessions, A!User
<1>23. ASSUME NEW c \in Callers, NEW r, A!Goes(c, r), call[c].at = "sweep",
              r.at = "sweep" /\ r.user = call[c].user
       PROVE  r.user \in A!Registered
  BY <1>a, <1>23 DEF KnownCalls, Admitted
<1>24. ASSUME NEW c \in Callers, NEW t \in Tokens, A!DeleteSession(c, t) PROVE Goal
  <2> DEFINE r == [call[c] EXCEPT !.todo = @ \ {t}, !.mine = IF key[t] = Nobody THEN {} ELSE {t}]
  <2>1. A!Goes(c, r) /\ r.at = "sweep" /\ r.user = call[c].user /\ call[c].at = "sweep"
    BY <1>24 DEF A!DeleteSession, A!At
  <2> HIDE DEF r
  <2>2. r.user \in A!Registered
    BY <1>23, <2>1
  <2>3. UNCHANGED A!rows /\ A!Registered' = A!Registered /\ KnownPasskeys'
    BY <1>24, <1>b DEF A!DeleteSession
  <2>4. KnownCalls'
    BY <1>a, <2>1, <2>2, <2>3, KnownGoes
  <2>5. KnownKeys'
    BY <1>a, <1>24, <2>3, KnownTake DEF A!DeleteSession
  <2> QED
    BY <2>3, <2>4, <2>5 DEF Known
<1>25. ASSUME NEW c \in Callers, A!ForgetSession(c) PROVE Goal
  <2> DEFINE r == [call[c] EXCEPT !.mine = {}]
  <2>1. A!Goes(c, r) /\ r.at = "sweep" /\ r.user = call[c].user /\ call[c].at = "sweep"
    BY <1>25 DEF A!ForgetSession, A!At
  <2> HIDE DEF r
  <2>2. r.user \in A!Registered
    BY <1>23, <2>1
  <2> QED
    BY <1>e, <1>25, <2>1, <2>2 DEF A!ForgetSession
<1>26. ASSUME NEW t \in Tokens, A!Expires(t) PROVE Goal
  <2>1. KnownKeys'
    BY <1>a, <1>b, <1>26, KnownTake DEF A!Expires, A!Take
  <2> QED
    BY <1>d, <1>26, <2>1 DEF A!Expires
<1>27. ASSUME A!Restart PROVE Goal
  <2>1. KnownCalls'
    BY <1>27 DEF A!Restart, A!Idle, KnownCalls, Admitted
  <2> QED
    BY <1>c, <1>27, <2>1 DEF A!Restart
<1>28. ASSUME UNCHANGED A!accountVars PROVE Goal
  BY <1>a, <1>28 DEF A!accountVars, Known, KnownCalls, KnownKeys, KnownPasskeys, A!Registered
<1> QED
  BY <1>1, <1>2, <1>3, <1>4, <1>5, <1>6, <1>7, <1>8, <1>9, <1>10, <1>11, <1>13, <1>14, <1>15,
     <1>16, <1>17, <1>18, <1>19, <1>20, <1>21, <1>22, <1>24, <1>25, <1>26, <1>27, <1>28
     DEF A!Next

\* A session is in the index of its account, from the step that stores it.
Listed == \A t \in Tokens : A!Holds(t, "session") =>
    key[t].made \in Nat /\ t \in index[key[t].user]

Signing == {"list", "sweep"}
\* A request that signs others out forgets only what is gone by then.
Forgets(c) ==
    /\ call[c].at = "list" /\ call[c].reset => call[c].keep = Nobody
    /\ call[c].at = "sweep" => \A x \in call[c].mine : x \in used /\ key[x] = Nobody

\* A reset that will still come to session t.
Ends(c, t) ==
    /\ call[c].at \in Signing /\ call[c].reset /\ call[c].user = key[t].user
    /\ call[c].at = "sweep" => t \in call[c].todo
Stale(t)   == A!Holds(t, "session") /\ key[t].made < password[key[t].user]
Covered    == \A t \in Tokens : Stale(t) /\ key[t].user \notin cutShort =>
                 \E c \in Callers : Ends(c, t)

ResetInv == /\ AccountsTyped /\ Known /\ Listed /\ Covered
            /\ \A c \in Callers : Forgets(c)

\* What a step may do to the keys: store one, which is no session, or drop one.
KeysKept == \A x \in Tokens :
    \/ key'[x] = key[x] \/ key'[x] = Nobody
    \/ x \notin used /\ key'[x].kind # "session"
IndexKept == \A u \in Users : \A x \in index[u] : key'[x] # Nobody => x \in index'[u]
\* What it may do to a request.
EndsKept(c) == \A t \in Tokens :
    A!Holds(t, "session") /\ key'[t] = key[t] /\ Ends(c, t) => Ends(c, t)'
CallKept(c) == EndsKept(c) /\ Forgets(c)'

LEMMA ResetKept ==
  ASSUME ResetInv, AccountsTyped', Known', UNCHANGED <<password, cutShort>>,
         used \subseteq used', KeysKept, IndexKept,
         \A c \in Callers : call'[c] = call[c] \/ CallKept(c)
  PROVE  ResetInv'
<1>a. /\ KeyTyped /\ KeyTyped' /\ TablesTyped /\ Listed /\ Covered
      /\ \A c \in Callers : Forgets(c)
  BY DEF ResetInv, AccountsTyped
<1>b. ASSUME NEW t \in Tokens, A!Holds(t, "session")'
      PROVE  key'[t] = key[t] /\ A!Holds(t, "session")
  BY <1>a, <1>b DEF A!Holds, KeysKept, KeyTyped
<1>1. Listed'
  <2> SUFFICES ASSUME NEW t \in Tokens, A!Holds(t, "session")'
               PROVE  key'[t].made \in Nat /\ t \in index'[key'[t].user]
    BY DEF Listed
  <2>1. key[t].user \in Users /\ key'[t] # Nobody
    BY <1>a, <1>b DEF A!Holds, KeyTyped
  <2> QED
    BY <1>a, <1>b, <2>1 DEF Listed, IndexKept
<1>2. Covered'
  <2> SUFFICES ASSUME NEW t \in Tokens, Stale(t)', key'[t].user \notin cutShort'
               PROVE  \E c \in Callers : Ends(c, t)'
    BY DEF Covered
  <2>1. key'[t] = key[t] /\ A!Holds(t, "session")
    BY <1>b DEF Stale
  <2>2. Stale(t) /\ key[t].user \notin cutShort
    BY <2>1 DEF Stale
  <2>3. PICK c \in Callers : Ends(c, t)
    BY <1>a, <2>2 DEF Covered
  <2>4. CASE call'[c] = call[c]
    BY <2>1, <2>3, <2>4 DEF Ends
  <2>5. CASE CallKept(c)
    BY <2>1, <2>3, <2>5 DEF CallKept, EndsKept
  <2> QED
    BY <2>4, <2>5
<1>3. ASSUME NEW c \in Callers PROVE Forgets(c)'
  <2>1. CASE call'[c] = call[c]
    <3>1. \A x \in Tokens : x \in used /\ key[x] = Nobody => x \in used' /\ key'[x] = Nobody
      BY DEF KeysKept
    <3> QED
      BY <1>a, <2>1, <3>1 DEF Forgets, TablesTyped
  <2>2. CASE CallKept(c)
    BY <2>2 DEF CallKept
  <2> QED
    BY <2>1, <2>2
<1> QED
  BY <1>1, <1>2, <1>3 DEF ResetInv

LEMMA SaveKeeps ==
  ASSUME KeyTyped, NEW t \in Tokens, NEW r, A!Save(t, r), r.kind # "session"
  PROVE  KeysKept /\ used \subseteq used'
  BY DEF A!Save, KeyTyped, KeysKept

LEMMA TakeKeeps ==
  ASSUME KeyTyped, NEW t \in Tokens, A!Take(t)
  PROVE  KeysKept
  BY DEF A!Take, KeyTyped, KeysKept

LEMMA ResetInit == A!Init => ResetInv
<1> SUFFICES ASSUME A!Init PROVE ResetInv
  OBVIOUS
<1>1. \A t \in Tokens : key[t] = Nobody
  BY DEF A!Init
<1>2. \A c \in Callers : call[c].at = "idle"
  BY DEF A!Init, A!Idle
<1> QED
  BY <1>1, <1>2, AccountsTypedInit, KnownInit
     DEF ResetInv, Listed, Covered, Forgets, Stale, A!Holds

LEMMA ResetNext ==
  ASSUME AccountsAssumption, ResetInv, [A!Next]_A!accountVars
  PROVE  ResetInv'
<1>a. /\ AccountsTyped' /\ Known' /\ KeyTyped /\ TablesTyped /\ CallTyped /\ Listed /\ Covered
      /\ KnownKeys /\ KnownCalls /\ \A c \in Callers : Forgets(c)
  BY AccountsTypedNext, KnownNext DEF ResetInv, AccountsTyped, Known
<1>b. ASSUME UNCHANGED key PROVE KeysKept
  BY <1>b DEF KeysKept
<1>c. ASSUME UNCHANGED index PROVE IndexKept
  BY <1>c DEF IndexKept
<1>d. ASSUME NEW c \in Callers, NEW r, A!Goes(c, r), CallKept(c)
      PROVE  \A d \in Callers : call'[d] = call[d] \/ CallKept(d)
  BY <1>a, <1>d, CallMoves
<1>e. ASSUME NEW c \in Callers, NEW r, A!Goes(c, r), call[c].at \notin Signing, r.at \notin Signing
      PROVE  \A d \in Callers : call'[d] = call[d] \/ CallKept(d)
  <2>1. call'[c] = r
    BY <1>a, <1>e, CallMoves
  <2>2. CallKept(c)
    BY <1>e, <2>1 DEF CallKept, EndsKept, Ends, Forgets, Signing
  <2> QED
    BY <1>d, <1>e, <2>2
\* Nothing but requests that sign nobody out.
<1>f. ASSUME NEW c \in Callers, NEW r, A!Goes(c, r), call[c].at \notin Signing, r.at \notin Signing,
             UNCHANGED <<password, cutShort, index>>, used \subseteq used', KeysKept
      PROVE  ResetInv'
  BY <1>a, <1>c, <1>e, <1>f, ResetKept
<1>g. ASSUME UNCHANGED <<password, cutShort, index, call>>, used \subseteq used', KeysKept
      PROVE  ResetInv'
  BY <1>a, <1>c, <1>g, ResetKept
<1>1. ASSUME NEW c \in Callers, NEW u \in Users, A!Register(c, u) PROVE ResetInv'
  <2>1. /\ u \notin A!Registered /\ password' = [password EXCEPT ![u] = 1]
        /\ UNCHANGED <<key, index, cutShort, used>>
    BY <1>1 DEF A!Register, A!register, A!history
  <2>2. \A d \in Callers : call'[d] = call[d] \/ CallKept(d)
    BY <1>1, <1>e DEF A!Register, A!At, Signing
  <2>3. \A t \in Tokens : A!Holds(t, "session") => key[t].user # u
    BY <1>a, <2>1 DEF KnownKeys, A!Holds
  <2>4. \A v \in Users \ {u} : password'[v] = password[v]
    BY <1>a, <2>1 DEF TablesTyped
  <2>5. Covered'
    <3> SUFFICES ASSUME NEW t \in Tokens, Stale(t)', key[t].user \notin cutShort
                 PROVE  \E d \in Callers : Ends(d, t)'
      BY <2>1 DEF Covered
    <3>1. A!Holds(t, "session")
      BY <2>1 DEF Stale, A!Holds
    <3>2. key[t].user \in Users \ {u}
      BY <1>a, <2>3, <3>1 DEF A!Holds, KeyTyped
    <3>3. Stale(t)
      BY <2>1, <2>4, <3>1, <3>2 DEF Stale
    <3>4. PICK d \in Callers : Ends(d, t)
      BY <1>a, <3>3 DEF Covered
    <3>5. key'[t] = key[t]
      BY <2>1
    <3> QED
      BY <2>2, <3>1, <3>4, <3>5 DEF Ends, CallKept, EndsKept
  <2>6. \A d \in Callers : Forgets(d)'
    BY <1>a, <2>1, <2>2 DEF Forgets, CallKept
  <2>7. Listed'
    BY <1>a, <2>1 DEF Listed, A!Holds
  <2> QED
    BY <1>a, <2>5, <2>6, <2>7 DEF ResetInv
<1>2. ASSUME NEW c \in Callers, NEW u \in Users, A!Login(c, u) PROVE ResetInv'
  <2>1. PICK knows : A!Goes(c, [at |-> "verify", user |-> u, knows |-> knows])
    BY <1>2 DEF A!Login
  <2> QED
    BY <1>b, <1>f, <1>2, <2>1 DEF A!Login, A!At, A!rows, A!history, Signing
<1>3. ASSUME NEW c \in Callers, A!VerifyPassword(c) PROVE ResetInv'
  <2> DEFINE r == [at |-> IF call[c].user \in A!Registered /\ call[c].knows = password[call[c].user]
                          THEN "clear" ELSE "count",
                   user |-> call[c].user, owes |-> factor[call[c].user] = "on"]
  <2>1. A!Goes(c, r) /\ r.at \in {"clear", "count"}
    BY <1>3 DEF A!VerifyPassword, A!User
  <2> HIDE DEF r
  <2> QED
    BY <1>b, <1>f, <1>3, <2>1 DEF A!VerifyPassword, A!At, A!rows, A!history, Signing
<1>4. ASSUME NEW c \in Callers, A!CountFailedAttempt(c) PROVE ResetInv'
  <2>1. PICK r : A!Goes(c, r) /\ r.at \in {"idle", "expire"}
    <3>1. CASE attempts[call[c].user].n = 0
      BY <1>4, <3>1 DEF A!CountFailedAttempt, A!User
    <3>2. CASE attempts[call[c].user].n # 0
      BY <1>4, <3>2 DEF A!CountFailedAttempt, A!User, A!Idle
    <3> QED
      BY <3>1, <3>2
  <2> QED
    BY <1>b, <1>f, <1>4, <2>1 DEF A!CountFailedAttempt, A!At, A!rows, A!history, Signing
<1>5. ASSUME NEW c \in Callers, A!StartWindow(c) PROVE ResetInv'
  BY <1>b, <1>f, <1>5 DEF A!StartWindow, A!At, A!Idle, A!rows, A!history, Signing
<1>6. ASSUME NEW c \in Callers, A!ClearFailedAttempts(c) PROVE ResetInv'
  BY <1>b, <1>f, <1>6 DEF A!ClearFailedAttempts, A!At, A!rows, A!history, Signing
<1>7. ASSUME \E u \in Users : A!WindowEnds(u) PROVE ResetInv'
  BY <1>b, <1>g, <1>7 DEF A!WindowEnds, A!rows, A!history
<1>8. ASSUME NEW c \in Callers, NEW t \in Tokens, A!CreatePendingLogin(c, t) PROVE ResetInv'
  <2>1. KeysKept /\ used \subseteq used'
    BY <1>a, <1>8, SaveKeeps DEF A!CreatePendingLogin
  <2> QED
    BY <1>f, <1>8, <2>1 DEF A!CreatePendingLogin, A!At, A!Idle, A!rows, A!history, Signing
<1>10. ASSUME NEW c \in Callers, NEW t \in Tokens,
              \/ A!TakePendingLogin(c, t) \/ A!TakeResetLink(c, t)
              \/ \E k \in Keys : A!TakeChallenge(c, t, k)
       PROVE  ResetInv'
  <2>1. KeysKept
    BY <1>a, <1>10, TakeKeeps DEF A!TakePendingLogin, A!TakeResetLink, A!TakeChallenge
  <2> QED
    BY <1>f, <1>10, <2>1 DEF A!TakePendingLogin, A!TakeResetLink, A!TakeChallenge, A!At, A!rows,
       A!history, Signing
<1>11. ASSUME NEW c \in Callers, A!CompleteTotpLogin(c) PROVE ResetInv'
  BY <1>b, <1>f, <1>11 DEF A!CompleteTotpLogin, A!At, A!Idle, A!rows, A!history, Signing
<1>12. ASSUME \E u \in Users : A!SetupTotp(u) \/ A!ConfirmTotp(u) \/ A!DisableTotp(u) PROVE ResetInv'
  BY <1>b, <1>g, <1>12 DEF A!SetupTotp, A!ConfirmTotp, A!DisableTotp, A!SetsFactor, A!history
<1>13. ASSUME NEW t \in Tokens, NEW who, A!SaveChallenge(t, who) PROVE ResetInv'
  <2>1. KeysKept /\ used \subseteq used'
    BY <1>a, <1>13, SaveKeeps DEF A!SaveChallenge
  <2> QED
    BY <1>g, <1>13, <2>1 DEF A!SaveChallenge, A!rows, A!history
<1>14. ASSUME NEW t \in Tokens,
              A!StartAuthentication(t) \/ \E u \in Users : A!StartRegistration(t, u)
       PROVE  ResetInv'
  BY <1>13, <1>14 DEF A!StartAuthentication, A!StartRegistration
<1>15. ASSUME NEW c \in Callers, A!FinishRegistration(c) PROVE ResetInv'
  BY <1>b, <1>f, <1>15 DEF A!FinishRegistration, A!At, A!Idle, A!history, Signing
<1>16. ASSUME NEW c \in Callers, A!FinishAuthentication(c) PROVE ResetInv'
  <2>1. PICK r : A!Goes(c, r) /\ r.at \in {"idle", "open"}
    <3>1. CASE passkeys[call[c].auth] = Nobody
      BY <1>16, <3>1 DEF A!FinishAuthentication, A!Idle
    <3>2. CASE passkeys[call[c].auth] # Nobody
      BY <1>16, <3>2 DEF A!FinishAuthentication
    <3> QED
      BY <3>1, <3>2
  <2> QED
    BY <1>b, <1>f, <1>16, <2>1 DEF A!FinishAuthentication, A!At, A!rows, A!history, Signing
<1>17. ASSUME \E k \in Keys : A!DeletePasskey(k) PROVE ResetInv'
  BY <1>b, <1>g, <1>17 DEF A!DeletePasskey, A!history
<1>18. ASSUME NEW u \in Users, NEW t \in Tokens, A!RequestReset(u, t) PROVE ResetInv'
  <2>1. KeysKept /\ used \subseteq used'
    BY <1>a, <1>18, SaveKeeps DEF A!RequestReset
  <2> QED
    BY <1>g, <1>18, <2>1 DEF A!RequestReset, A!rows, A!history
<1>19. ASSUME NEW t \in Tokens, A!Expires(t) PROVE ResetInv'
  <2>1. KeysKept
    BY <1>a, <1>19, TakeKeeps DEF A!Expires, A!Take
  <2> QED
    BY <1>g, <1>19, <2>1 DEF A!Expires, A!rows, A!history
<1>20. ASSUME UNCHANGED A!accountVars PROVE ResetInv'
  BY <1>b, <1>g, <1>20 DEF A!accountVars
<1>21. ASSUME NEW c \in Callers, NEW t \in Tokens, A!Logout(c, t) \/ A!LogoutOthers(c, t)
       PROVE  ResetInv'
  <2>1. CallKept(c)
    <3>1. call[c].at \notin Signing
      BY <1>21 DEF A!Logout, A!LogoutOthers, A!At, Signing
    <3>2. ~call'[c].reset /\ (call'[c].at = "sweep" => call'[c].mine = {})
      <4>1. CASE A!Logout(c, t)
        BY <1>a, <4>1, CallMoves DEF A!Logout
      <4>2. CASE A!LogoutOthers(c, t)
        BY <1>a, <4>2, CallMoves DEF A!LogoutOthers
      <4> QED
        BY <1>21, <4>1, <4>2
    <3> QED
      BY <3>1, <3>2 DEF CallKept, EndsKept, Ends, Forgets
  <2>2. \A d \in Callers : call'[d] = call[d] \/ CallKept(d)
    BY <1>21, <1>d, <2>1 DEF A!Logout, A!LogoutOthers
  <2> QED
    BY <1>a, <1>b, <1>c, <1>21, <2>2, ResetKept DEF A!Logout, A!LogoutOthers, A!rows, A!history
<1>22. ASSUME NEW c \in Callers, A!ListSessions(c) PROVE ResetInv'
  <2> DEFINE live == {t \in index[call[c].user] : key[t] # Nobody}
             r == [at |-> "sweep", user |-> call[c].user, todo |-> live \ {call[c].keep}, mine |-> {},
                   keep |-> call[c].keep, reset |-> call[c].reset]
  <2>1. /\ call[c].at = "list" /\ call[c].user \in Users /\ A!Goes(c, r)
        /\ index' = [index EXCEPT ![call[c].user] = live]
        /\ UNCHANGED <<password, cutShort, key, used>>
    BY <1>a, <1>22 DEF A!ListSessions, A!At, A!User, A!rows, A!history, CallTyped, ForAUser
  <2>2. IndexKept
    BY <1>a, <2>1 DEF IndexKept, TablesTyped
  <2>3. call'[c] = r
    BY <1>a, <2>1, CallMoves
  <2>4. EndsKept(c)
    <3> SUFFICES ASSUME NEW t \in Tokens, A!Holds(t, "session"), key'[t] = key[t], Ends(c, t)
                 PROVE  Ends(c, t)'
      BY DEF EndsKept
    <3>1. call[c].reset /\ call[c].user = key[t].user /\ call[c].keep = Nobody
      BY <1>a, <2>1 DEF Ends, Forgets
    <3>2. t \in live
      BY <1>a, <3>1 DEF Listed, A!Holds
    <3>3. t # Nobody
      BY DEF AccountsAssumption
    <3> QED
      BY <2>3, <3>1, <3>2, <3>3 DEF Ends, Signing
  <2>5. Forgets(c)'
    BY <2>3 DEF Forgets
  <2>6. \A d \in Callers : call'[d] = call[d] \/ CallKept(d)
    BY <1>d, <2>1, <2>4, <2>5 DEF CallKept
  <2> HIDE DEF r, live
  <2> QED
    BY <1>a, <1>b, <2>1, <2>2, <2>6, ResetKept
<1>23. ASSUME NEW c \in Callers, NEW t \in Tokens, A!DeleteSession(c, t) PROVE ResetInv'
  <2> DEFINE mine == IF key[t] = Nobody THEN {} ELSE {t}
             r == [call[c] EXCEPT !.todo = @ \ {t}, !.mine = mine]
  <2>1. /\ call[c].at = "sweep" /\ A!Goes(c, r) /\ A!Take(t)
        /\ UNCHANGED <<password, cutShort, index, used>>
    BY <1>23 DEF A!DeleteSession, A!At, A!rows, A!history
  <2>2. /\ r.at = call[c].at /\ r.user = call[c].user /\ r.reset = call[c].reset
        /\ \A x : x \in call[c].todo /\ x # t => x \in r.todo
        /\ \A x \in r.mine : x = t /\ key[t] # Nobody
    <3>1. r.at = call[c].at /\ r.user = call[c].user /\ r.reset = call[c].reset
      OBVIOUS
    <3>2. r.todo = call[c].todo \ {t} /\ r.mine = mine
      OBVIOUS
    <3>3. \A x \in mine : x = t /\ key[t] # Nobody
      OBVIOUS
    <3> HIDE DEF r, mine
    <3> QED
      BY <3>1, <3>2, <3>3
  <2> HIDE DEF r
  <2>3. call'[c] = r
    BY <1>a, <2>1, CallMoves
  <2>4. key'[t] = Nobody /\ KeysKept
    BY <1>a, <2>1, TakeKeeps DEF A!Take, KeyTyped
  <2>5. EndsKept(c)
    <3> SUFFICES ASSUME NEW x \in Tokens, A!Holds(x, "session"), key'[x] = key[x], Ends(c, x)
                 PROVE  Ends(c, x)'
      BY DEF EndsKept
    <3>1. x # t
      BY <2>4 DEF A!Holds
    <3> QED
      BY <2>1, <2>2, <2>3, <3>1 DEF Ends
  <2>6. Forgets(c)'
    BY <1>a, <2>1, <2>2, <2>3, <2>4 DEF Forgets, KeyTyped
  <2>7. \A d \in Callers : call'[d] = call[d] \/ CallKept(d)
    BY <1>d, <2>1, <2>5, <2>6 DEF CallKept
  <2> QED
    BY <1>a, <1>c, <2>1, <2>4, <2>7, ResetKept
<1>24. ASSUME NEW c \in Callers, A!ForgetSession(c) PROVE ResetInv'
  <2> DEFINE r == [call[c] EXCEPT !.mine = {}]
  <2>1. /\ call[c].at = "sweep" /\ call[c].user \in Users /\ A!Goes(c, r)
        /\ index' = [index EXCEPT ![call[c].user] = @ \ call[c].mine]
        /\ UNCHANGED <<password, cutShort, key, used>>
    BY <1>a, <1>24 DEF A!ForgetSession, A!At, A!User, A!rows, A!history, CallTyped, ForAUser
  <2>2. /\ r.at = call[c].at /\ r.user = call[c].user /\ r.reset = call[c].reset
        /\ r.todo = call[c].todo /\ \A x \in r.mine : FALSE
    OBVIOUS
  <2> HIDE DEF r
  <2>3. call'[c] = r
    BY <1>a, <2>1, CallMoves
  <2>4. IndexKept
    BY <1>a, <2>1 DEF IndexKept, TablesTyped, Forgets
  <2>5. CallKept(c)
    BY <2>1, <2>2, <2>3 DEF CallKept, EndsKept, Ends, Forgets
  <2>6. \A d \in Callers : call'[d] = call[d] \/ CallKept(d)
    BY <1>d, <2>1, <2>5
  <2> QED
    BY <1>a, <1>b, <2>1, <2>4, <2>6, ResetKept
<1>25. ASSUME NEW c \in Callers, A!Swept(c) PROVE ResetInv'
  <2>1. call'[c].at = "idle"
    BY <1>a, <1>25, CallMoves DEF A!Swept, A!Idle
  <2>2. CallKept(c)
    BY <1>25, <2>1 DEF A!Swept, A!At, CallKept, EndsKept, Ends, Forgets
  <2>3. \A d \in Callers : call'[d] = call[d] \/ CallKept(d)
    BY <1>25, <1>d, <2>2 DEF A!Swept
  <2> QED
    BY <1>a, <1>b, <1>c, <1>25, <2>3, ResetKept DEF A!Swept, A!rows, A!history
<1>26. ASSUME NEW c \in Callers, NEW t \in Tokens, A!CreateSession(c, t) PROVE ResetInv'
  <2> DEFINE r == [kind |-> "session", user |-> call[c].user, made |-> password[call[c].user]]
  <2>1. /\ call[c].user \in Users /\ A!Save(t, r) /\ A!Goes(c, A!Idle) /\ call[c].at = "open"
        /\ index' = [index EXCEPT ![call[c].user] = @ \union {t}]
        /\ UNCHANGED <<password, cutShort>>
    BY <1>a, <1>26 DEF A!CreateSession, A!At, A!User, A!rows, A!history, CallTyped, ForAUser
  <2>2. /\ t \notin used /\ used' = used \union {t} /\ key'[t] = r
        /\ \A x \in Tokens \ {t} : key'[x] = key[x]
    BY <1>a, <2>1, SaveTyped
  <2>3. \A d \in Callers : call'[d] = call[d] \/ CallKept(d)
    BY <1>e, <2>1 DEF A!Idle, Signing
  <2>4. \A u \in Users : index[u] \subseteq index'[u]
    BY <1>a, <2>1 DEF TablesTyped
  <2>5. Listed'
    <3> SUFFICES ASSUME NEW x \in Tokens, A!Holds(x, "session")'
                 PROVE  key'[x].made \in Nat /\ x \in index'[key'[x].user]
      BY DEF Listed
    <3>1. CASE x = t
      <4>1. key'[x].made = password[call[c].user] /\ key'[x].user = call[c].user
        BY <2>2, <3>1
      <4> QED
        BY <1>a, <2>1, <3>1, <4>1 DEF TablesTyped
    <3>2. CASE x # t
      <4>1. key'[x] = key[x] /\ A!Holds(x, "session")
        BY <2>2, <3>2 DEF A!Holds
      <4>2. key[x].user \in Users
        BY <1>a, <4>1 DEF A!Holds, KeyTyped
      <4> QED
        BY <1>a, <2>4, <4>1, <4>2 DEF Listed
    <3> QED
      BY <3>1, <3>2
  <2>6. Covered'
    <3> SUFFICES ASSUME NEW x \in Tokens, Stale(x)', key'[x].user \notin cutShort
                 PROVE  \E d \in Callers : Ends(d, x)'
      BY <2>1 DEF Covered
    <3>1. x # t
      <4>1. ASSUME x = t PROVE FALSE
        <5>1. key'[x].made = password[call[c].user] /\ key'[x].user = call[c].user
          BY <2>2, <4>1
        <5>2. password[call[c].user] < password[call[c].user]
          BY <2>1, <5>1 DEF Stale
        <5> QED
          BY <1>a, <2>1, <5>2 DEF TablesTyped
      <4> QED
        BY <4>1
    <3>2. key'[x] = key[x]
      BY <2>2, <3>1
    <3>3. Stale(x) /\ key[x].user \notin cutShort
      BY <2>1, <3>2 DEF Stale, A!Holds
    <3>4. PICK d \in Callers : Ends(d, x)
      BY <1>a, <3>3 DEF Covered
    <3> QED
      BY <2>3, <3>2, <3>3, <3>4 DEF Ends, CallKept, EndsKept, Stale
  <2>7. ASSUME NEW d \in Callers PROVE Forgets(d)'
    <3>1. CASE call'[d] = call[d]
      <4>1. \A x : x \in used => x # t /\ x \in used' /\ key'[x] = key[x]
        BY <1>a, <2>2 DEF TablesTyped
      <4> QED
        BY <1>a, <3>1, <4>1 DEF Forgets
    <3>2. CASE CallKept(d)
      BY <3>2 DEF CallKept
    <3> QED
      BY <2>3, <3>1, <3>2
  <2> QED
    BY <1>a, <2>5, <2>6, <2>7 DEF ResetInv
<1>27. ASSUME NEW c \in Callers, A!CommitPassword(c) PROVE ResetInv'
  <2> DEFINE r == [at |-> "list", user |-> call[c].user, keep |-> Nobody, reset |-> TRUE]
  <2>1. /\ call[c].user \in Users /\ A!Goes(c, r) /\ call[c].at = "commit"
        /\ password' = [password EXCEPT ![call[c].user] = @ + 1]
        /\ UNCHANGED <<key, index, used, cutShort>>
    BY <1>a, <1>27 DEF A!CommitPassword, A!At, A!User, A!history, CallTyped, ForAUser
  <2>2. /\ call'[c] = r
        /\ \A d \in Callers \ {c} : call'[d] = call[d]
    BY <1>a, <2>1, CallMoves
  <2>3. \A v \in Users : v # call[c].user => password'[v] = password[v]
    BY <1>a, <2>1 DEF TablesTyped
  <2>4. Covered'
    <3> SUFFICES ASSUME NEW x \in Tokens, Stale(x)', key[x].user \notin cutShort
                 PROVE  \E d \in Callers : Ends(d, x)'
      BY <2>1 DEF Covered
    <3>0. key'[x] = key[x] /\ A!Holds(x, "session") /\ key[x].user \in Users
      BY <1>a, <2>1 DEF Stale, A!Holds, KeyTyped
    <3>1. CASE key[x].user = call[c].user
      <4>1. Ends(c, x)'
        BY <2>2, <3>0, <3>1 DEF Ends, Signing
      <4> QED
        BY <4>1
    <3>2. CASE key[x].user # call[c].user
      <4>1. Stale(x)
        BY <2>3, <3>0, <3>2 DEF Stale
      <4>2. PICK d \in Callers : Ends(d, x)
        BY <1>a, <4>1 DEF Covered
      <4>3. d # c
        BY <2>1, <4>2 DEF Ends, Signing
      <4> QED
        BY <2>2, <3>0, <4>2, <4>3 DEF Ends
    <3> QED
      BY <3>1, <3>2
  <2>5. ASSUME NEW d \in Callers PROVE Forgets(d)'
    <3>1. CASE d = c
      BY <2>2, <3>1 DEF Forgets
    <3>2. CASE d # c
      BY <1>a, <2>1, <2>2, <3>2 DEF Forgets
    <3> QED
      BY <3>1, <3>2
  <2>6. Listed'
    BY <1>a, <2>1 DEF Listed, A!Holds
  <2> QED
    BY <1>a, <2>4, <2>5, <2>6 DEF ResetInv
<1>28. ASSUME A!Restart PROVE ResetInv'
  <2>1. /\ cutShort' = cutShort \union {u \in Users : A!Resetting(u)}
        /\ UNCHANGED <<password, key, index, used>>
        /\ \A d \in Callers : call'[d].at = "idle"
    BY <1>28 DEF A!Restart, A!rows, A!Idle
  <2>2. Covered'
    <3> SUFFICES ASSUME NEW x \in Tokens, Stale(x), key[x].user \notin cutShort'
                 PROVE  FALSE
      BY <2>1 DEF Covered, Stale, A!Holds
    <3>1. PICK d \in Callers : Ends(d, x)
      BY <1>a, <2>1 DEF Covered
    <3>2. key[x].user \in Users
      BY <1>a DEF Stale, A!Holds, KeyTyped
    <3>3. A!Resetting(key[x].user)
      BY <3>1 DEF Ends, Signing, A!Resetting, A!User
    <3> QED
      BY <2>1, <3>2, <3>3
  <2>3. \A d \in Callers : Forgets(d)'
    BY <2>1 DEF Forgets
  <2>4. Listed'
    BY <1>a, <2>1 DEF Listed, A!Holds
  <2> QED
    BY <1>a, <2>2, <2>3, <2>4 DEF ResetInv
<1> QED
  BY <1>1, <1>2, <1>3, <1>4, <1>5, <1>6, <1>7, <1>8, <1>10, <1>11, <1>12, <1>14, <1>15, <1>16, <1>17,
     <1>18, <1>19, <1>20, <1>21, <1>22, <1>23, <1>24, <1>25, <1>26, <1>27, <1>28
     DEF A!Next

(* ResetSignsOut: once a password reset is through, no session stored      *)
(* before the new password was committed works, whoever signed in or out   *)
(* meanwhile, unless a restart broke the reset off                         *)
(* (password_reset.confirm_reset).  With it, that every row, key and       *)
(* request is of its kind.                                                 *)
THEOREM ResetEndsSessions ==
  ASSUME AccountsAssumption
  PROVE  A!Spec => [](A!TypeOK /\ A!ResetSignsOut)
<1>1. ResetInv => A!TypeOK /\ A!ResetSignsOut
  <2> SUFFICES ASSUME ResetInv, NEW t \in Tokens, Stale(t), key[t].user \notin cutShort
               PROVE  A!Resetting(key[t].user)
    BY AccountsTypeOK DEF ResetInv, A!ResetSignsOut, Stale
  <2>1. PICK c \in Callers : Ends(c, t)
    BY DEF ResetInv, Covered
  <2> QED
    BY <2>1 DEF Ends, Signing, A!Resetting, A!User
<1>2. A!Init => ResetInv
  BY ResetInit
<1>3. ResetInv /\ [A!Next]_A!accountVars => ResetInv'
  BY ResetNext
<1> QED
  BY <1>1, <1>2, <1>3, PTL DEF A!Spec
-----------------------------------------------------------------------------
(* The services together: a component behaves as it does alone.            *)

LEMMA AccessBegins == Init =>
    /\ scene = "accounts" => A!Init
    /\ scene = "oauth" => O!Init
    /\ scene = "credentials" => C!Init
    /\ scene = "grants" => G!Init
  BY DEF Init

LEMMA AccessGoesOn == [Next]_serviceVars =>
    /\ scene' = scene
    /\ scene = "accounts" => [A!Next]_A!accountVars
    /\ scene = "oauth" => [O!Next]_O!oauthVars
    /\ scene = "credentials" => [C!Next]_C!credentialVars
    /\ scene = "grants" => [G!Next]_G!grantVars
<1> SUFFICES ASSUME [Next]_serviceVars
    PROVE  /\ scene' = scene
           /\ scene = "accounts" => [A!Next]_A!accountVars
           /\ scene = "oauth" => [O!Next]_O!oauthVars
           /\ scene = "credentials" => [C!Next]_C!credentialVars
           /\ scene = "grants" => [G!Next]_G!grantVars
  OBVIOUS
<1>1. CASE UNCHANGED serviceVars \/ Storage \/ Running
  BY <1>1 DEF serviceVars, Storage, Running, accessVars,
    accountVars, A!accountVars, oauthVars, O!oauthVars, credentialVars, C!credentialVars, grantVars, G!grantVars
<1>2. CASE Access
  BY <1>2 DEF Access,
    accountVars, A!accountVars, oauthVars, O!oauthVars, credentialVars, C!credentialVars, grantVars, G!grantVars
<1> QED
  BY <1>1, <1>2 DEF Next

\* Who gets in is looked up in state of its kind.
AccessTyped ==
    /\ scene = "accounts" => A!TypeOK
    /\ scene = "oauth" => O!TypeOK
    /\ scene = "credentials" => C!TypeOK
    /\ scene = "grants" => G!TypeOK

LEMMA AccessTypedStands == Spec => []AccessTyped
<1>1. Spec => [](scene = "accounts" => A!TypeOK)
  <2>1. Init => (scene = "accounts" => A!Init)
    BY AccessBegins
  <2>2. [Next]_serviceVars => /\ scene = "accounts" <=> (scene = "accounts")'
                              /\ scene = "accounts" => [A!Next]_A!accountVars
    BY AccessGoesOn
  <2>3. A!Spec => []A!TypeOK
    BY ResetEndsSessions, ServicesAssumption, PTL
  <2> QED
    BY <2>1, <2>2, <2>3, PTL DEF Spec, A!Spec
<1>2. Spec => [](scene = "oauth" => O!TypeOK)
  <2>1. Init => (scene = "oauth" => O!Init)
    BY AccessBegins
  <2>2. [Next]_serviceVars => /\ scene = "oauth" <=> (scene = "oauth")'
                              /\ scene = "oauth" => [O!Next]_O!oauthVars
    BY AccessGoesOn
  <2>3. O!Spec => []O!TypeOK
    BY TokensGoWithTheGrant, ServicesAssumption, PTL
  <2> QED
    BY <2>1, <2>2, <2>3, PTL DEF Spec, O!Spec
<1>3. Spec => [](scene = "credentials" => C!TypeOK)
  <2>1. Init => (scene = "credentials" => C!Init)
    BY AccessBegins
  <2>2. [Next]_serviceVars => /\ scene = "credentials" <=> (scene = "credentials")'
                              /\ scene = "credentials" => [C!Next]_C!credentialVars
    BY AccessGoesOn
  <2>3. C!Spec => []C!TypeOK
    BY RemovedStaysOut, ServicesAssumption, PTL
  <2> QED
    BY <2>1, <2>2, <2>3, PTL DEF Spec, C!Spec
<1>4. Spec => [](scene = "grants" => G!TypeOK)
  <2>1. Init => (scene = "grants" => G!Init)
    BY AccessBegins
  <2>2. [Next]_serviceVars => /\ scene = "grants" <=> (scene = "grants")'
                              /\ scene = "grants" => [G!Next]_G!grantVars
    BY AccessGoesOn
  <2>3. G!Spec => []G!TypeOK
    BY RemovedMachinesRest, ServicesAssumption, PTL
  <2> QED
    BY <2>1, <2>2, <2>3, PTL DEF Spec, G!Spec
<1>5. (scene = "accounts" => A!TypeOK) /\ (scene = "oauth" => O!TypeOK) /\ (scene = "credentials" => C!TypeOK) /\ (scene = "grants" => G!TypeOK) <=> AccessTyped
  BY DEF AccessTyped
<1> QED
  BY <1>1, <1>2, <1>3, <1>4, <1>5, PTL

(* A password reset ends every session from before it, in the services as  *)
(* they run together (password_reset.confirm_reset).                       *)
THEOREM ResetSignsOutHolds == Spec => []ResetSignsOut
<1>1. Init => (scene = "accounts" => A!Init)
  BY AccessBegins
<1>2. [Next]_serviceVars => /\ scene = "accounts" <=> (scene = "accounts")'
                            /\ scene = "accounts" => [A!Next]_A!accountVars
  BY AccessGoesOn
<1>3. A!Spec => []A!ResetSignsOut
  BY ResetEndsSessions, ServicesAssumption, PTL
<1>4. (scene = "accounts" => A!ResetSignsOut) <=> ResetSignsOut
  BY DEF ResetSignsOut
<1> QED
  BY <1>1, <1>2, <1>3, <1>4, PTL DEF Spec, A!Spec

(* Passwords are tried at most as often as the limit allows and once more  *)
(* for each request under way (service.sign_in_with_password).             *)
THEOREM AttemptsAreBoundedHolds == Spec => []AttemptsAreBounded
<1>1. Init => (scene = "accounts" => A!Init)
  BY AccessBegins
<1>2. [Next]_serviceVars => /\ scene = "accounts" <=> (scene = "accounts")'
                            /\ scene = "accounts" => [A!Next]_A!accountVars
  BY AccessGoesOn
<1>3. A!Spec => []A!AttemptsAreBounded
  BY TriesAreBounded, ServicesAssumption, PTL
<1>4. (scene = "accounts" => A!AttemptsAreBounded) <=> AttemptsAreBounded
  BY DEF AttemptsAreBounded
<1> QED
  BY <1>1, <1>2, <1>3, <1>4, PTL DEF Spec, A!Spec

(* One code never leads to two refresh tokens (store.take_refresh_token).  *)
THEOREM ChainHasOneTokenHolds == Spec => []ChainHasOneToken
<1>1. Init => (scene = "oauth" => O!Init)
  BY AccessBegins
<1>2. [Next]_serviceVars => /\ scene = "oauth" <=> (scene = "oauth")'
                            /\ scene = "oauth" => [O!Next]_O!oauthVars
  BY AccessGoesOn
<1>3. O!Spec => []O!ChainHasOneToken
  BY OneTokenPerChain, PTL
<1>4. (scene = "oauth" => O!ChainHasOneToken) <=> ChainHasOneToken
  BY DEF ChainHasOneToken
<1> QED
  BY <1>1, <1>2, <1>3, <1>4, PTL DEF Spec, O!Spec

(* A grant taken back takes its refresh tokens with it                     *)
(* (service.revoke_grant).                                                 *)
THEOREM RevokedIsDroppedHolds == Spec => []RevokedIsDropped
<1>1. Init => (scene = "oauth" => O!Init)
  BY AccessBegins
<1>2. [Next]_serviceVars => /\ scene = "oauth" <=> (scene = "oauth")'
                            /\ scene = "oauth" => [O!Next]_O!oauthVars
  BY AccessGoesOn
<1>3. O!Spec => []O!RevokedIsDropped
  BY TokensGoWithTheGrant, PTL
<1>4. (scene = "oauth" => O!RevokedIsDropped) <=> RevokedIsDropped
  BY DEF RevokedIsDropped
<1> QED
  BY <1>1, <1>2, <1>3, <1>4, PTL DEF Spec, O!Spec

(* Once its removal was answered, an access token or an SSH key opens the  *)
(* door to nobody and a machine is allowed nothing, but where a grant was  *)
(* written for it meanwhile; what was let in or allowed before goes on     *)
(* (tokens.delete, ssh_keys.delete, iam.delete_service_account).           *)
THEOREM RemovedOpensNothingHolds == Spec => []RemovedOpensNothing
<1>1. Init => (scene = "credentials" => C!Init)
  BY AccessBegins
<1>2. [Next]_serviceVars => /\ scene = "credentials" <=> (scene = "credentials")'
                            /\ scene = "credentials" => [C!Next]_C!credentialVars
  BY AccessGoesOn
<1>3. C!Spec => []C!RemovedOpensNothing
  BY RemovedStaysOut, ServicesAssumption, PTL
<1>4. Init => (scene = "grants" => G!Init)
  BY AccessBegins
<1>5. [Next]_serviceVars => /\ scene = "grants" <=> (scene = "grants")'
                            /\ scene = "grants" => [G!Next]_G!grantVars
  BY AccessGoesOn
<1>6. G!Spec => []G!RemovedMachinesDoNothing
  BY RemovedMachinesRest, ServicesAssumption, PTL
<1>7. (scene = "credentials" => C!RemovedOpensNothing) /\ (scene = "grants" => G!RemovedMachinesDoNothing) <=> RemovedOpensNothing
  BY DEF RemovedOpensNothing
<1> QED
  BY <1>1, <1>2, <1>3, <1>4, <1>5, <1>6, <1>7, PTL DEF Spec, C!Spec, G!Spec
=============================================================================
