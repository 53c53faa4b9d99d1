------------------------------- MODULE Grants -------------------------------
(***************************************************************************)
(* Permissions for resources that share one name: people, groups and       *)
(* machine identities, what each was granted, and the calls that read      *)
(* those rows one statement at a time while others change them.            *)
(***************************************************************************)
EXTENDS Naturals, FiniteSets

CONSTANTS
    People, Crews,      \* accounts, and groups
    Machines,           \* machine identities
    Keeper,             \* the account they belong to
    Resources,          \* what the grants are about
    OwnerOf,            \* the account each resource belongs to
    Newer,              \* per resource, those of the same name made after it
    Calls,              \* requests under way
    Viewer, Operator, Admin, \* the roles, in their order, above 0 for none
    MaxWrites           \* bound: grants asked for in all

VARIABLES
    grants,         \* per resource and subject, the role granted
    crew,           \* members of the groups: pairs
    machines,       \* machine identities there are
    removed,        \* history: those whose removal was answered
    call,           \* where a request stands and what it has read
    crossed,        \* history: machines a grant was written for as they were removed
    ghosts,         \* history: machines something was done for in a call that was
                    \* allowed it after their removal was answered
    writes

grantVars == <<grants, crew, machines, removed, call, crossed, ghosts, writes>>

Subjects == People \union Crews \union Machines
NoRole     == 0
GrantRows == [Resources -> [Subjects -> {NoRole, Viewer, Operator, Admin}]]
Idle     == [at |-> "idle"]
In(c, s) == call[c].at = s
Then(c, q) == call' = [call EXCEPT ![c] = q]
Leaves(c)  == Then(c, Idle)

\* A person stands for their groups as well, a machine for itself only.
subjects(a) == {a} \union {g \in Crews : <<a, g>> \in crew}

\* Whoever owns a resource may do everything with it; a machine owns nothing.
role_of(a, r) ==
    IF a = OwnerOf[r] THEN Admin
    ELSE CHOOSE role \in {grants[r][s] : s \in subjects(a)} :
            \A s \in subjects(a) : grants[r][s] <= role

allows(a, r, needed) == role_of(a, r) >= needed
readable_ids(a) == {r \in Resources : \E s \in subjects(a) : grants[r][s] # NoRole}
_reach(a)       == readable_ids(a) \union {r \in Resources : OwnerOf[r] = a}

Init ==
    /\ grants = [r \in Resources |-> [s \in Subjects |-> NoRole]]
    /\ crew = {} /\ machines = {} /\ removed = {}
    /\ call = [c \in Calls |-> Idle]
    /\ crossed = {} /\ ghosts = {} /\ writes = 0

create_service_account(m) ==
    /\ m \notin machines \union removed /\ machines' = machines \union {m}
    /\ UNCHANGED <<grants, crew, removed, call, crossed, ghosts, writes>>

JoinOrLeave(p, g) ==
    /\ crew' = IF <<p, g>> \in crew THEN crew \ {<<p, g>>} ELSE crew \union {<<p, g>>}
    /\ UNCHANGED <<grants, machines, removed, call, crossed, ghosts, writes>>

_may_share(a, r)  == role_of(a, r) = Admin
\* Machines are looked up among one's own.
_subject_id(a, s) == s \in Machines => s \in machines /\ a = Keeper

write_grant(c, a, r, s, role) ==
    /\ In(c, "idle") /\ writes < MaxWrites /\ writes' = writes + 1
    /\ _may_share(a, r) /\ _subject_id(a, s)
    /\ Then(c, [at |-> "find", subject |-> s, resource |-> r, role |-> role])
    /\ crossed' = IF \E d \in Calls : call[d].at \in {"remove", "removing"} /\ call[d].subject = s
                  THEN crossed \union {s} ELSE crossed
    /\ UNCHANGED <<grants, crew, machines, removed, ghosts>>

find(c) ==
    LET q == call[c] IN
    /\ In(c, "find")
    /\ Then(c, [at |-> "write", subject |-> q.subject, resource |-> q.resource, role |-> q.role,
                found |-> grants[q.resource][q.subject]])
    /\ UNCHANGED <<grants, crew, machines, removed, crossed, ghosts, writes>>

\* A second row for the pair, and an update of one that is gone, are refused;
\* a change that is none is not written.
grant(c) ==
    LET q == call[c]  now == grants[q.resource][q.subject] IN
    /\ In(c, "write") /\ Leaves(c)
    /\ grants' = IF (q.found = NoRole) = (now = NoRole) /\ q.found # q.role
                 THEN [grants EXCEPT ![q.resource][q.subject] = q.role] ELSE grants
    /\ UNCHANGED <<crew, machines, removed, crossed, ghosts, writes>>

revoke_grant(c, a, r, s) ==
    /\ In(c, "idle") /\ _may_share(a, r) /\ grants[r][s] # NoRole
    /\ Then(c, [at |-> "revoke", subject |-> s, resource |-> r])
    /\ UNCHANGED <<grants, crew, machines, removed, crossed, ghosts, writes>>

revoke(c) ==
    LET q == call[c] IN
    /\ In(c, "revoke") /\ Leaves(c)
    /\ grants' = [grants EXCEPT ![q.resource][q.subject] = NoRole]
    /\ UNCHANGED <<crew, machines, removed, crossed, ghosts, writes>>

delete_service_account(c, m) ==
    /\ In(c, "idle") /\ m \in machines
    /\ Then(c, [at |-> "remove", subject |-> m])
    /\ crossed' = IF \E d \in Calls : call[d].at \in {"find", "write"} /\ call[d].subject = m
                  THEN crossed \union {m} ELSE crossed
    /\ UNCHANGED <<grants, crew, machines, removed, ghosts, writes>>

\* Mutant: what the machine was granted is left to nobody.
RemoveTheRowOnly(c) ==
    LET m == call[c].subject IN
    /\ \/ /\ In(c, "remove") /\ UNCHANGED <<grants, machines, removed>>
          /\ Then(c, [at |-> "removing", subject |-> m, doomed |-> {}])
       \/ In(c, "removing") /\ Leaves(c) /\ UNCHANGED grants
          /\ machines' = machines \ {m} /\ removed' = removed \union {m}
    /\ UNCHANGED <<crew, crossed, ghosts, writes>>

\* The grants that are there when the statement runs, then the machine, at one commit.
remove(c) ==
    LET m == call[c].subject IN
    /\ \/ /\ In(c, "remove") /\ UNCHANGED <<grants, machines, removed>>
          /\ Then(c, [at |-> "removing", subject |-> m,
                      doomed |-> {r \in Resources : grants[r][m] # NoRole}])
       \/ /\ In(c, "removing") /\ Leaves(c)
          /\ machines' = machines \ {m} /\ removed' = removed \union {m}
          /\ grants' = [r \in Resources |->
                          IF r \in call[c].doomed THEN [grants[r] EXCEPT ![m] = NoRole] ELSE grants[r]]
    /\ UNCHANGED <<crew, crossed, ghosts, writes>>

\* The token is checked, and writing down when it was used ends the check.
authenticate_service(c, m) ==
    /\ In(c, "idle") /\ m \in machines
    /\ Then(c, [at |-> "known", subject |-> m])
    /\ UNCHANGED <<grants, crew, machines, removed, crossed, ghosts, writes>>

\* Only now does a call look for the rows of the name within its reach.
Reaches(c, needed) ==
    LET m == call[c].subject IN
    /\ In(c, "known")
    /\ IF _reach(m) = {} THEN Leaves(c)
       ELSE Then(c, [at |-> "try", subject |-> m, needed |-> needed, left |-> _reach(m)])
    /\ UNCHANGED <<grants, crew, machines, removed, crossed, ghosts, writes>>

\* They are tried one by one, the newest first; the first that allows the work is it.
allowed(c) ==
    LET q == call[c] IN
    /\ In(c, "try")
    /\ \E r \in q.left :
          /\ Newer[r] \intersect q.left = {}
          /\ IF allows(q.subject, r, q.needed)
             THEN Then(c, [at |-> "work", subject |-> q.subject, late |-> {q.subject} \intersect removed])
             ELSE IF q.left = {r} THEN Leaves(c)
             ELSE Then(c, [q EXCEPT !.left = @ \ {r}])
    /\ UNCHANGED <<grants, crew, machines, removed, crossed, ghosts, writes>>

\* The work comes later still, after quotas, a body or another server were waited
\* for, and nothing is looked up again.
Works(c) ==
    /\ In(c, "work") /\ Leaves(c)
    /\ ghosts' = ghosts \union call[c].late
    /\ UNCHANGED <<grants, crew, machines, removed, crossed, writes>>

Next ==
    \/ \E m \in Machines : create_service_account(m)
    \/ \E p \in People, g \in Crews : JoinOrLeave(p, g)
    \/ \E c \in Calls :
          \/ \E a \in People, r \in Resources, s \in Subjects :
                \/ \E role \in {Viewer, Operator, Admin} : write_grant(c, a, r, s, role)
                \/ revoke_grant(c, a, r, s)
          \/ find(c) \/ grant(c) \/ revoke(c) \/ remove(c)
          \/ allowed(c) \/ Works(c)
          \/ \E m \in Machines : delete_service_account(c, m) \/ authenticate_service(c, m)
          \/ \E needed \in {Viewer, Operator, Admin} : Reaches(c, needed)

Spec == Init /\ [][Next]_grantVars

-----------------------------------------------------------------------------
(* Roles, members and machines are of their kind. *)
TypeOK ==
    /\ grants \in GrantRows
    /\ crew \subseteq People \X Crews /\ machines \subseteq Machines

(* Nothing is done for a machine by a call that was allowed it after the
   removal of the machine was answered, though the call was let in before and
   may have read its reach before, unless somebody was writing a grant for it
   at the time (service.delete_service_account).  A call that was allowed its
   work before the removal may still do it afterwards: between scope.allowed
   and the work there is no other look at the grants. *)
RemovedMachinesDoNothing == ghosts \subseteq crossed
=============================================================================
