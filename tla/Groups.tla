------------------------------- MODULE Groups -------------------------------
(***************************************************************************)
(* Groups, who belongs to them, and what that allows in the projects they  *)
(* own.  A request looks (who is asking, who is a member, who else is an   *)
(* owner, is anything at that address, does the group hold a project) and  *)
(* writes later, in a transaction of its own; whatever it looked at may    *)
(* have changed by then.  Only a unique or a foreign key is looked at      *)
(* again when it writes.                                                   *)
(***************************************************************************)
EXTENDS Naturals, FiniteSets

CONSTANTS
    People,
    Slugs,          \* first parts of an address: handles and groups share them
    Calls,          \* requests under way
    Roles,          \* a subset of guest, developer, maintainer, owner
    Nobody,
    MaxCrossings    \* bound: how often requests about one group may overlap

VARIABLES
    handle,         \* addresses an account answers at
    groups,         \* addresses a group answers at
    members,        \* per group: the role of each person, or Nobody
    held,           \* groups that hold a project
    project_members, \* the role of each person in the project itself
    call,
    crossed,        \* history: what was written while another was looking
    orphans,        \* history: projects that went with their group
    crossings

groupVars == <<handle, groups, members, held, project_members, call, crossed,
               orphans, crossings>>
project   == <<held, project_members>>

MANAGING_ROLES == {"maintainer", "owner"}

Now(c)      == call[c]
Begin(c, r) == Now(c).at = "free" /\ call' = [call EXCEPT ![c] = r]
Goes(c, r)  == call' = [call EXCEPT ![c] = r]
Ends(c)     == call' = [call EXCEPT ![c] = [at |-> "free"]]
MemberRows  == [Slugs -> [People -> Roles \union {Nobody}]]
NoOne       == [p \in People |-> Nobody]
role_of(s, p) == members[s][p]
Looking(c, s) == {d \in Calls \ {c} : Now(d).at # "free" /\ Now(d).slug = s}

\* A write that another request about the same address overlaps with.
Crosses(c, s) ==
    LET met == Looking(c, s) # {}
    IN  /\ met => crossings < MaxCrossings
        /\ crossed' = IF met THEN crossed \union {s} ELSE crossed
        /\ crossings' = IF met THEN crossings + 1 ELSE crossings
NoCrossing == UNCHANGED <<crossed, crossings>>

Init ==
    /\ handle = {} /\ groups = {} /\ held = {} /\ crossed = {} /\ orphans = {} /\ crossings = 0
    /\ members = [s \in Slugs |-> NoOne] /\ project_members = NoOne
    /\ call = [c \in Calls |-> [at |-> "free"]]

\* slug_is_free, and _free_login of the accounts: both kinds are looked at.
slug_is_free(s) == s \notin handle \union groups

LookForAddress(c, s, what, p) ==
    /\ slug_is_free(s)
    /\ Begin(c, [at |-> what, slug |-> s, who |-> p])
    /\ UNCHANGED <<handle, groups, members, project, orphans>> /\ NoCrossing

AskForGroup(c, s, p) == LookForAddress(c, s, "group", p)
AskForAccount(c, s)  == LookForAddress(c, s, "account", Nobody)

Register(c) ==
    /\ Now(c).at = "account" /\ Ends(c)
    /\ handle' = handle \union {Now(c).slug}
    /\ Crosses(c, Now(c).slug) /\ UNCHANGED <<groups, members, project, orphans>>

\* The group and its first owner are one transaction.
CreateGroup(c) ==
    LET s == Now(c).slug
    IN  /\ Now(c).at = "group" /\ Ends(c)
        /\ IF s \in groups THEN UNCHANGED <<groups, members>>
           ELSE /\ groups' = groups \union {s}
                /\ members' = [members EXCEPT ![s] = [NoOne EXCEPT ![Now(c).who] = "owner"]]
        /\ Crosses(c, s) /\ UNCHANGED <<handle, project, orphans>>

\* _managed, and only an owner names another owner.
AskToAdd(c, s, by, p, r) ==
    /\ s \in groups /\ role_of(s, by) \in MANAGING_ROLES
    /\ r = "owner" => role_of(s, by) = "owner"
    /\ role_of(s, p) # r
    /\ Begin(c, [at |-> "add", slug |-> s, who |-> p, role |-> r])
    /\ UNCHANGED <<handle, groups, members, project, orphans>> /\ NoCrossing

\* Anybody may take themselves out.
AskToRemove(c, s, by, p) ==
    /\ s \in groups /\ role_of(s, p) # Nobody
    /\ by = p \/ role_of(s, by) \in MANAGING_ROLES
    /\ Begin(c, [at |-> "remove", slug |-> s, who |-> p, role |-> Nobody])
    /\ UNCHANGED <<handle, groups, members, project, orphans>> /\ NoCrossing

_refuse_without_owner(s, leaving) == \E p \in People \ {leaving} : members[s][p] = "owner"

\* The member's row is read, and whether an owner stays.
LookAtMember(c) ==
    LET m == Now(c) IN
    /\ m.at \in {"add", "remove"}
    /\ IF \/ m.slug \notin groups
          \/ m.at = "remove" /\ role_of(m.slug, m.who) = Nobody
          \/ role_of(m.slug, m.who) = "owner" /\ ~_refuse_without_owner(m.slug, m.who)
       THEN Ends(c)
       ELSE Goes(c, [at |-> "write", slug |-> m.slug, who |-> m.who, role |-> m.role,
                     found |-> role_of(m.slug, m.who)])
    /\ UNCHANGED <<handle, groups, members, project, orphans>> /\ NoCrossing

\* The insert of one who is there already, or of one whose group is gone,
\* fails; so does the change of one who is gone.  What is no change is not written.
WriteMember(c) ==
    LET m == Now(c) IN
    /\ m.at = "write" /\ Ends(c)
    /\ IF /\ m.slug \in groups /\ m.found # m.role
          /\ m.found = Nobody <=> role_of(m.slug, m.who) = Nobody
       THEN members' = [members EXCEPT ![m.slug][m.who] = m.role]
       ELSE UNCHANGED members
    /\ Crosses(c, m.slug) /\ UNCHANGED <<handle, groups, project, orphans>>

AskToDelete(c, s, by) ==
    /\ s \in groups /\ role_of(s, by) = "owner"
    /\ Begin(c, [at |-> "holds", slug |-> s])
    /\ UNCHANGED <<handle, groups, members, project, orphans>> /\ NoCrossing

\* Mutant: a group goes whatever it holds.
LooksAtNothing(c) ==
    /\ Now(c).at = "holds" /\ Goes(c, [Now(c) EXCEPT !.at = "delete"])
    /\ UNCHANGED <<handle, groups, members, project, orphans>> /\ NoCrossing

LookForProjects(c) ==
    /\ Now(c).at = "holds"
    /\ IF Now(c).slug \in held THEN Ends(c) ELSE Goes(c, [Now(c) EXCEPT !.at = "delete"])
    /\ UNCHANGED <<handle, groups, members, project, orphans>> /\ NoCrossing

\* ON DELETE CASCADE: what the group holds goes with it, its repository stays.
DeleteGroup(c) ==
    LET s == Now(c).slug
    IN  /\ Now(c).at = "delete" /\ Ends(c)
        /\ groups' = groups \ {s} /\ members' = [members EXCEPT ![s] = NoOne]
        /\ held' = held \ {s}
        /\ project_members' = IF s \in held THEN NoOne ELSE project_members
        /\ orphans' = IF s \in held THEN orphans \union {s} ELSE orphans
        /\ Crosses(c, s) /\ UNCHANGED handle

AskForProject(c, s, by) ==
    /\ s \in groups /\ s \notin held /\ role_of(s, by) \in MANAGING_ROLES
    /\ Begin(c, [at |-> "project", slug |-> s])
    /\ UNCHANGED <<handle, groups, members, project, orphans>> /\ NoCrossing

\* Mutant: no foreign key looks whether the group is still there.
InsertAnyway(c) ==
    LET s == Now(c).slug
    IN  /\ Now(c).at = "project" /\ Ends(c)
        /\ held' = held \union {s} /\ Crosses(c, s)
        /\ UNCHANGED <<handle, groups, members, project_members, orphans>>

InsertProject(c) ==
    LET s == Now(c).slug
    IN  /\ Now(c).at = "project" /\ Ends(c)
        /\ held' = IF s \in groups THEN held \union {s} ELSE held
        /\ Crosses(c, s)
        /\ UNCHANGED <<handle, groups, members, project_members, orphans>>

DeleteProject(s, by) ==
    /\ s \in held /\ role_of(s, by) = "owner"
    /\ held' = held \ {s} /\ project_members' = NoOne
    /\ UNCHANGED <<handle, groups, members, call, orphans>> /\ NoCrossing

-----------------------------------------------------------------------------
(* The rights in a project of a group (repositories/service.py). *)

\* access_of: the most of what the group and the project itself give.
may_manage(s, p) ==
    role_of(s, p) = "owner" \/ "maintainer" \in {project_members[p], role_of(s, p)}

\* add_member and remove_member of a project, by whoever may manage it.
SetProjectMember(s, by, p, r) ==
    /\ s \in held /\ may_manage(s, by)
    /\ project_members[p] # r /\ r # "owner"
    /\ project_members' = [project_members EXCEPT ![p] = r]
    /\ UNCHANGED <<handle, groups, members, held, call, orphans>> /\ NoCrossing

-----------------------------------------------------------------------------
Next ==
    \/ \E c \in Calls, s \in Slugs :
          \/ \E p \in People : AskForGroup(c, s, p)
          \/ AskForAccount(c, s)
          \/ \E by, p \in People : AskToRemove(c, s, by, p)
          \/ \E by, p \in People, r \in Roles : AskToAdd(c, s, by, p, r)
          \/ \E by \in People : AskToDelete(c, s, by) \/ AskForProject(c, s, by)
    \/ \E c \in Calls :
          \/ Register(c) \/ CreateGroup(c) \/ LookAtMember(c) \/ WriteMember(c)
          \/ LookForProjects(c) \/ DeleteGroup(c) \/ InsertProject(c)
    \/ \E s \in Slugs, by \in People : DeleteProject(s, by)
    \/ \E s \in Slugs, by, p \in People, r \in Roles \union {Nobody} : SetProjectMember(s, by, p, r)

Spec == Init /\ [][Next]_groupVars

-----------------------------------------------------------------------------
(* Addresses, members and requests are of their kind. *)
TypeOK ==
    /\ handle \subseteq Slugs /\ groups \subseteq Slugs /\ held \subseteq groups
    /\ members \in MemberRows
    /\ project_members \in [People -> Roles \union {Nobody}]
    /\ crossed \subseteq Slugs /\ crossings \in 0..MaxCrossings

(* An address is an account's or a group's, and no project goes with the
   group that held it, unless two requests about that address overlapped. *)
AddressesAndProjectsAreKept ==
    /\ handle \intersect groups \subseteq crossed
    /\ orphans \subseteq crossed

(* groups.py, LastOwnerError: "A group must keep at least one owner."  Two
   owners who leave at a time each see the other stay. *)
AGroupKeepsAnOwner == \A s \in groups : \E p \in People : members[s][p] = "owner"
=============================================================================
