------------------------------ MODULE Services ------------------------------
(***************************************************************************)
(* The services beside the repositories: accounts and what lets somebody   *)
(* in, what is stored for them, and what runs for them.                    *)
(*                                                                         *)
(* The components share no state, so nothing is learned from moving two of *)
(* them between one state and the next: a behaviour is of one component,   *)
(* named by scene, and the others stay as they began.                      *)
(***************************************************************************)
EXTENDS Naturals, FiniteSets, Sequences

CONSTANTS
    None, Nobody,
    Users, Callers, Keys, Tokens, AttemptLimit, MaxPassword, MaxRestarts,       \* accounts
    Grantors, Clients, Requesters, Scopes, Offline, Handles,                    \* OpenID Connect
    MaxRevocations, MaxStops,
    Holders, AccessTokens, SshKeys, Visitors, MaxKeys,                          \* credentials
    People, Crews, Machines, Keeper, Resources, OwnerOf, Newer, Requests,       \* grants
    Viewer, Operator, Admin, MaxWrites,
    Askers, Unset, Default, Given, Sizes, MaxHeld,                              \* quotas
    Pushers, UploadIds, MaxPieces, Manifests, Tags, Needs, Absent,              \* registry
    MaxDeletions, MaxHalts,
    Addresses, Uploads, Contents, Nothing, MaxCuts,                             \* objects
    Names, Calls, MaxRows, MaxVersion, MaxCalls,                                \* functions
    Sources, Fingerprints, MaxReports,                                          \* errors
    Checks, Persons, Kept, MaxLooks, MaxLost,                             \* monitoring
    Dbs, Owners, NoPassword, MaxPasswords, MaxBreaks                            \* databases

VARIABLES
    scene,
    password, factor, passkeys, key, index, attempts, call, used, cutShort, restarts,
    grants, kept, listed, flow, given, revoked, halfRevoked, stops,
    token, sshKey, caller, dead, late, added,
    roles, crew, machines, removed, ask, grantCrossed, ghosts, writes,
    things, bytes, asks,
    staged, blobFile, blobRows, manifest, tag, push, deletions, halts,
    rows, reserved, file, part, inode, upload, doomed, crossed, torn, unwritten, cuts,
    bucket, sweeping,
    functions, fresh, begun, exec, ended, doubled,
    sources, gone, issues, delivery, overlapped, sent,
    checks, results, list, looker, looks, lost, unpruned,
    record, role, holds, order, born, sole, made, breaks

A == INSTANCE Accounts
O == INSTANCE OAuth
C == INSTANCE Credentials WITH
        Users <- Holders, Tokens <- AccessTokens, Keys <- SshKeys, Callers <- Visitors, key <- sshKey
G == INSTANCE Grants WITH
        Calls <- Requests, grants <- roles, call <- ask, crossed <- grantCrossed
Q == INSTANCE Quotas
R == INSTANCE Registry
V == INSTANCE Objects
F == INSTANCE FunctionCalls WITH call <- exec, crossed <- doubled
X == INSTANCE Errors WITH call <- delivery, crossed <- overlapped
M == INSTANCE Monitoring WITH Callers <- Persons, MaxCuts <- MaxLost, cuts <- lost
D == INSTANCE Databases WITH used <- born

-----------------------------------------------------------------------------
(* What the constants are assumed to be. *)

\* One try at least is allowed, by finitely many requests at a time.
AccountsAssumption ==
    Nobody \notin Tokens /\ IsFiniteSet(Callers) /\ AttemptLimit \in Nat \ {0}

\* Tokens and keys are told apart by what they are; keys are numbered from 1.
CredentialsAssumption == AccessTokens \intersect SshKeys = {} /\ MaxKeys \in Nat

\* A machine is not a person, persons own what there is, and a role is more
\* than none.
GrantsAssumption ==
    /\ Machines \intersect People = {}
    /\ {Viewer, Operator, Admin} \subseteq Nat \ {0}
    /\ OwnerOf \in [Resources -> People]

\* There is a limit of each kind, and somebody may ask.
QuotasAssumption ==
    /\ IsFiniteSet(Askers) /\ Askers # {} /\ Sizes \subseteq Nat
    /\ Q!LimitOf("things") \in Nat /\ Q!LimitOf("bytes") \in Nat

RegistryAssumption == MaxDeletions \in Nat
ObjectsAssumption  == Nothing \notin Uploads /\ Nothing \notin Contents

\* What is counted is counted for finitely many requests at a time.
FunctionsAssumption ==
    IsFiniteSet(Calls) /\ MaxRows \in Nat /\ MaxVersion \in Nat \ {0} /\ MaxCalls \in Nat
ErrorsAssumption == IsFiniteSet(Calls) /\ MaxReports \in Nat
WatchAssumption ==
    IsFiniteSet(Checks) /\ IsFiniteSet(Persons) /\ Kept \in Nat /\ MaxLooks \in Nat /\ MaxLost \in Nat

DatabasesAssumption == NoPassword \notin Nat /\ MaxPasswords \in Nat

ASSUME ServicesAssumption ==
    /\ AccountsAssumption /\ CredentialsAssumption /\ GrantsAssumption
    /\ QuotasAssumption /\ RegistryAssumption /\ ObjectsAssumption
    /\ FunctionsAssumption /\ ErrorsAssumption /\ WatchAssumption /\ DatabasesAssumption

-----------------------------------------------------------------------------
Scenes == {"accounts", "oauth", "credentials", "grants", "quotas", "registry", "objects",
           "functions", "errors", "monitoring", "databases"}

\* A component that is not looked at has no state.
NoAccount ==
    /\ password = None /\ factor = None /\ passkeys = None /\ key = None /\ index = None
    /\ attempts = None /\ call = None /\ used = None /\ cutShort = None /\ restarts = None
NoOauth ==
    /\ grants = None /\ kept = None /\ listed = None /\ flow = None /\ given = None
    /\ revoked = None /\ halfRevoked = None /\ stops = None
NoCredential ==
    /\ token = None /\ sshKey = None /\ caller = None /\ dead = None /\ late = None
    /\ added = None
NoGrant ==
    /\ roles = None /\ crew = None /\ machines = None /\ removed = None /\ ask = None
    /\ grantCrossed = None /\ ghosts = None /\ writes = None
NoQuota == things = None /\ bytes = None /\ asks = None
NoRegistry ==
    /\ staged = None /\ blobFile = None /\ blobRows = None /\ manifest = None /\ tag = None
    /\ push = None /\ deletions = None /\ halts = None
NoObject ==
    /\ rows = None /\ reserved = None /\ file = None /\ part = None /\ inode = None
    /\ upload = None /\ doomed = None /\ crossed = None /\ torn = None
    /\ unwritten = None /\ cuts = None
    /\ bucket = None /\ sweeping = None
NoFunction ==
    /\ functions = None /\ fresh = None /\ begun = None /\ exec = None /\ ended = None
    /\ doubled = None
NoError ==
    /\ sources = None /\ gone = None /\ issues = None /\ delivery = None
    /\ overlapped = None /\ sent = None
NoWatch ==
    /\ checks = None /\ results = None /\ list = None /\ looker = None /\ looks = None
    /\ lost = None /\ unpruned = None
NoDatabase ==
    /\ record = None /\ role = None /\ holds = None /\ order = None /\ born = None
    /\ sole = None /\ made = None /\ breaks = None

Init ==
    /\ scene \in Scenes
    /\ IF scene = "accounts" THEN A!Init ELSE NoAccount
    /\ IF scene = "oauth" THEN O!Init ELSE NoOauth
    /\ IF scene = "credentials" THEN C!Init ELSE NoCredential
    /\ IF scene = "grants" THEN G!Init ELSE NoGrant
    /\ IF scene = "quotas" THEN Q!Init ELSE NoQuota
    /\ IF scene = "registry" THEN R!Init ELSE NoRegistry
    /\ IF scene = "objects" THEN V!InitObjects ELSE NoObject
    /\ IF scene = "functions" THEN F!Init ELSE NoFunction
    /\ IF scene = "errors" THEN X!Init ELSE NoError
    /\ IF scene = "monitoring" THEN M!Init ELSE NoWatch
    /\ IF scene = "databases" THEN D!Init ELSE NoDatabase

accountVars    == <<password, factor, passkeys, key, index, attempts, call, used, cutShort, restarts>>
oauthVars      == <<grants, kept, listed, flow, given, revoked, halfRevoked, stops>>
credentialVars == <<token, sshKey, caller, dead, late, added>>
grantVars      == <<roles, crew, machines, removed, ask, grantCrossed, ghosts, writes>>
quotaVars      == <<things, bytes, asks>>
registryVars   == <<staged, blobFile, blobRows, manifest, tag, push, deletions, halts>>
objectVars     == <<rows, reserved, file, part, inode, upload, doomed, crossed, torn,
                    unwritten, cuts, bucket, sweeping>>
functionVars   == <<functions, fresh, begun, exec, ended, doubled>>
errorVars      == <<sources, gone, issues, delivery, overlapped, sent>>
watchVars      == <<checks, results, list, looker, looks, lost, unpruned>>
databaseVars   == <<record, role, holds, order, born, sole, made, breaks>>

\* What lets somebody in, what is kept, and what runs.
accessVars   == <<accountVars, oauthVars, credentialVars, grantVars>>
storageVars  == <<quotaVars, registryVars, objectVars>>
runningVars  == <<functionVars, errorVars, watchVars, databaseVars>>

Access ==
    /\ \/ scene = "accounts" /\ A!Next /\ UNCHANGED <<oauthVars, credentialVars, grantVars>>
       \/ scene = "oauth" /\ O!Next /\ UNCHANGED <<accountVars, credentialVars, grantVars>>
       \/ scene = "credentials" /\ C!Next /\ UNCHANGED <<accountVars, oauthVars, grantVars>>
       \/ scene = "grants" /\ G!Next /\ UNCHANGED <<accountVars, oauthVars, credentialVars>>
    /\ UNCHANGED <<scene, storageVars, runningVars>>

Storage ==
    /\ \/ scene = "quotas" /\ Q!Next /\ UNCHANGED <<registryVars, objectVars>>
       \/ scene = "registry" /\ R!Next /\ UNCHANGED <<quotaVars, objectVars>>
       \/ scene = "objects" /\ V!NextObjects /\ UNCHANGED <<quotaVars, registryVars>>
    /\ UNCHANGED <<scene, accessVars, runningVars>>

Running ==
    /\ \/ scene = "functions" /\ F!Next /\ UNCHANGED <<errorVars, watchVars, databaseVars>>
       \/ scene = "errors" /\ X!Next /\ UNCHANGED <<functionVars, watchVars, databaseVars>>
       \/ scene = "monitoring" /\ M!Next /\ UNCHANGED <<functionVars, errorVars, databaseVars>>
       \/ scene = "databases" /\ D!Next /\ UNCHANGED <<functionVars, errorVars, watchVars>>
    /\ UNCHANGED <<scene, accessVars, storageVars>>

serviceVars == <<scene, accessVars, storageVars, runningVars>>

Next == Access \/ Storage \/ Running

Spec == Init /\ [][Next]_serviceVars

-----------------------------------------------------------------------------
(* Every component's state is of its kind. *)
TypeOK ==
    /\ scene = "accounts" => A!TypeOK
    /\ scene = "oauth" => O!TypeOK
    /\ scene = "credentials" => C!TypeOK
    /\ scene = "grants" => G!TypeOK
    /\ scene = "quotas" => Q!TypeOK
    /\ scene = "registry" => R!TypeOK
    /\ scene = "objects" => V!ObjectsTypeOK
    /\ scene = "functions" => F!TypeOK
    /\ scene = "errors" => X!TypeOK
    /\ scene = "monitoring" => M!TypeOK
    /\ scene = "databases" => D!TypeOK

(* A reset ends every session from before it (password_reset.confirm_reset). *)
ResetSignsOut == scene = "accounts" => A!ResetSignsOut

(* Passwords are tried about as often as the limit allows, by however many
   requests at a time (service.sign_in_with_password). *)
AttemptsAreBounded == scene = "accounts" => A!AttemptsAreBounded

(* One code leads to one refresh token at a time (store.take_refresh_token). *)
ChainHasOneToken == scene = "oauth" => O!ChainHasOneToken

(* A grant taken back takes its refresh tokens with it (service.revoke_grant). *)
RevokedIsDropped == scene = "oauth" => O!RevokedIsDropped

(* Once its removal was answered, an access token or an SSH key opens the door
   to nobody and a machine is allowed nothing, also in a request that had read
   rows before; what was let in or allowed before the removal goes on, and so
   does a machine somebody wrote a grant for while it was removed
   (tokens.delete, ssh_keys.delete, iam.delete_service_account). *)
RemovedOpensNothing ==
    /\ scene = "credentials" => C!RemovedOpensNothing
    /\ scene = "grants" => G!RemovedMachinesDoNothing

(* A limit is passed by those weighed at the same time, and no further
   (quotas/service.py ensure_room_for_one_more). *)
PassedByFewOnly == scene = "quotas" => Q!PassedByFewOnly

(* An image that is listed can be pulled (registry/service.py write_manifest). *)
TaggedImagesPull == scene = "registry" => R!TaggedImagesPull

(* What a row names is on disk (storage/service.py, artifacts/service.py). *)
RowsHaveFiles == scene = "objects" => V!RowsHaveFiles

(* A download is what its digest says, unless two uploads wrote it at a time, its
   row was not committed, or was left as it was (artifacts/service.py write). *)
DigestTellsContents == scene = "objects" => V!DigestTellsContents

(* What is counted and kept is neither invented nor without end: reports of a
   problem, calls of a function, results of a check (errors/service.py report,
   functions/service.py _record, monitoring/service.py _forget_old). *)
CountersAreHonest ==
    /\ scene = "errors" => X!CountsWhatCame
    /\ scene = "functions" => F!CountersAreHonest
    /\ scene = "monitoring" => M!HistoryIsBounded

(* The password a record keeps is the one the server takes
   (databases/service.py rotate_password). *)
PasswordOpens == scene = "databases" => D!PasswordOpens
=============================================================================
