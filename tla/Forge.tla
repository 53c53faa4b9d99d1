------------------------------- MODULE Forge --------------------------------
(***************************************************************************)
(* What stands around the repositories of projects: groups, pages,         *)
(* applications and their routes, workspaces, pushes, the making and       *)
(* removing of projects, templates, issues, suggestions, and the scan for  *)
(* secrets.                                                                *)
(*                                                                         *)
(* Composed as in Services: a behaviour is of one component, named by      *)
(* scene, and the others stay as they began.  Routing is of applications   *)
(* and shares their state.                                                 *)
(***************************************************************************)
EXTENDS Naturals, FiniteSets, Sequences

CONSTANTS
    None, Nobody,
    People, Slugs, Askers, Roles, MaxCrossings,                                 \* groups
    Publishers, Heads, NoDir, MaxKills,                                         \* pages
    Apps, AppCalls, Ports, NoRow, Gone, NoId, NoPort, MaxRuns, MaxFaults,       \* applications
    RoutedCalls, MaxRouted, Names, Hops, Outside, NoRoute,                      \* routing
    Spaces, Tasks, NotYet, Removed, NoBox,                                      \* workspaces
    Links, Unexported, MaxWork, MaxBoxes, MaxTroubles,
    Branches, Default, Requests, MaxCommits, MaxUpsets,                         \* pushes
    Projects, Callers, MaxCuts,                                                 \* projects
    Takers, Tips, Nil, MaxRows, MaxMoves,                                       \* templates
    Members, Managers, Titles, NoTime, MaxNumber, MaxChanges,                   \* issues
    Comments, Appliers, Lines, Blank, Replacements, MaxLines, MaxSuggested,     \* suggestions
    Secrets, Scanners, MaxPushes, MaxDecisions                                  \* scanning

VARIABLES
    scene,
    handle, groups, members, held, project_members, ask, crossed, orphans,
    crossings,
    site, enabled, branch, dir, publishing, joined, remains, kills,
    app, engine, request, settled, runs, faults,
    route, hop, together, strays, deserted,
    history, space, box, task, tangled, taken, work, boxes, troubles,
    tip, parents, rules, hook, push, told, looked, answered, alongside, torn,
    rewritten, byHand, returned, rulings, failures,
    row, repo, files, caller, made, dropped, met, halfMade, cuts,
    offering, rows, source, taker, copy, seen, moves,
    issues, member, conflicts, changes,
    commits, gone, comments, apply,
    tree, twice, findings, scan, lone, waived, beside, pushes, decisions

N == INSTANCE Groups WITH Calls <- Askers, call <- ask
P == INSTANCE Pages WITH Commits <- Heads, tip <- branch, work <- publishing, met <- joined
E == INSTANCE Apps
B == INSTANCE Routing WITH AppCalls <- RoutedCalls, MaxRuns <- MaxRouted
W == INSTANCE Workspaces
U == INSTANCE Pushes WITH request <- push, changes <- rulings
J == INSTANCE Projects
K == INSTANCE Templates WITH made <- copy, held <- seen
I == INSTANCE Issues
L == INSTANCE Suggestions WITH MaxCommits <- MaxSuggested
Z == INSTANCE Scanning WITH Calls <- Scanners, call <- scan

-----------------------------------------------------------------------------
(* What the constants are assumed to be. *)

GroupsAssumption == "owner" \in Roles /\ MaxCrossings \in Nat

AppsAssumption ==
    /\ MaxRuns \in Nat /\ NoRow # Gone
    /\ NoRow \notin [state : {"stopped", "running", "failed"}, container : Nat \union {NoId}, port : Ports \union {NoPort}]
    /\ Gone \notin [state : {"stopped", "running", "failed"}, container : Nat \union {NoId}, port : Ports \union {NoPort}]

RoutingAssumption == MaxRouted \in Nat /\ NoPort \notin Ports

WorkspacesAssumption ==
    /\ MaxBoxes \in Nat /\ NotYet # Removed
    /\ NotYet \notin [state : {"stopped", "running", "failed"}, container : Nat, commit : Nat]
    /\ Removed \notin [state : {"stopped", "running", "failed"}, container : Nat, commit : Nat]
    /\ NoBox \notin [id : Nat, holds : SUBSET Nat]

PushesAssumption == Default \in Branches

SuggestionsAssumption ==
    /\ Blank \in Lines /\ Replacements \subseteq Seq(Lines)
    /\ MaxLines \in Nat /\ MaxSuggested \in Nat \ {0}

TemplatesAssumption == IsFiniteSet(Takers) /\ MaxRows \in Nat

IssuesAssumption ==
    /\ MaxNumber \in Nat /\ MaxChanges \in Nat /\ NoTime \notin 1..MaxChanges

ASSUME ForgeAssumption ==
    /\ GroupsAssumption /\ AppsAssumption /\ RoutingAssumption /\ WorkspacesAssumption
    /\ PushesAssumption /\ TemplatesAssumption /\ SuggestionsAssumption /\ IssuesAssumption

-----------------------------------------------------------------------------
Scenes == {"groups", "pages", "apps", "routing", "workspaces", "pushes", "projects",
           "templates", "issues", "suggestions", "scanning"}

\* A component that is not looked at has no state.
NoGroup ==
    /\ handle = None /\ groups = None /\ members = None /\ held = None
    /\ project_members = None /\ ask = None /\ crossed = None /\ orphans = None
    /\ crossings = None
NoPages ==
    /\ site = None /\ enabled = None /\ branch = None /\ dir = None
    /\ publishing = None /\ joined = None /\ remains = None /\ kills = None
NoApp ==
    /\ app = None /\ engine = None /\ request = None /\ settled = None
    /\ runs = None /\ faults = None
NoRouting ==
    /\ route = None /\ hop = None /\ together = None /\ strays = None
    /\ deserted = None
NoWorkspace ==
    /\ history = None /\ space = None /\ box = None /\ task = None
    /\ tangled = None /\ taken = None /\ work = None /\ boxes = None
    /\ troubles = None
NoPush ==
    /\ tip = None /\ parents = None /\ rules = None /\ hook = None
    /\ push = None /\ told = None /\ looked = None /\ answered = None
    /\ alongside = None /\ torn = None /\ rewritten = None /\ byHand = None
    /\ returned = None /\ rulings = None /\ failures = None
NoProject ==
    /\ row = None /\ repo = None /\ files = None /\ caller = None
    /\ made = None /\ dropped = None /\ met = None /\ halfMade = None
    /\ cuts = None
NoTemplate ==
    /\ offering = None /\ rows = None /\ source = None /\ taker = None
    /\ copy = None /\ seen = None /\ moves = None
NoIssue == issues = None /\ member = None /\ conflicts = None /\ changes = None
NoSuggestion == commits = None /\ gone = None /\ comments = None /\ apply = None
NoScan ==
    /\ tree = None /\ twice = None /\ findings = None /\ scan = None
    /\ lone = None /\ waived = None /\ beside = None /\ pushes = None /\ decisions = None

Init ==
    /\ scene \in Scenes
    /\ IF scene = "groups" THEN N!Init ELSE NoGroup
    /\ IF scene = "pages" THEN P!Init ELSE NoPages
    /\ IF scene = "routing" THEN B!RoutingInit
       ELSE NoRouting /\ IF scene = "apps" THEN E!Init ELSE NoApp
    /\ IF scene = "workspaces" THEN W!Init ELSE NoWorkspace
    /\ IF scene = "pushes" THEN U!Init ELSE NoPush
    /\ IF scene = "projects" THEN J!Init ELSE NoProject
    /\ IF scene = "templates" THEN K!Init ELSE NoTemplate
    /\ IF scene = "issues" THEN I!Init ELSE NoIssue
    /\ IF scene = "suggestions" THEN L!Init ELSE NoSuggestion
    /\ IF scene = "scanning" THEN Z!Init ELSE NoScan

groupVars == <<handle, groups, members, held, project_members, ask, crossed,
               orphans, crossings>>
pagesVars == <<site, enabled, branch, dir, publishing, joined, remains, kills>>
appVars == <<app, engine, request, settled, runs, faults>>
routeVars == <<route, hop, together, strays, deserted>>
workspaceVars == <<history, space, box, task, tangled, taken, work, boxes,
                   troubles>>
pushVars == <<tip, parents, rules, hook, push, told, looked, answered,
              alongside, torn, rewritten, byHand, returned, rulings, failures>>
projectVars == <<row, repo, files, caller, made, dropped, met, halfMade, cuts>>
templateVars == <<offering, rows, source, taker, copy, seen, moves>>
issueVars == <<issues, member, conflicts, changes>>
suggestionVars == <<commits, gone, comments, apply>>
scanVars == <<tree, twice, findings, scan, lone, waived, beside, pushes, decisions>>

\* What is hosted, how projects come to be and change, and what is said of them.
hostingVars   == <<groupVars, pagesVars, appVars, routeVars, workspaceVars>>
makingVars    == <<pushVars, projectVars, templateVars>>
reviewingVars == <<issueVars, suggestionVars, scanVars>>

Hosting ==
    /\ \/ scene = "groups" /\ N!Next /\ UNCHANGED <<pagesVars, appVars, routeVars, workspaceVars>>
       \/ scene = "pages" /\ P!Next /\ UNCHANGED <<groupVars, appVars, routeVars, workspaceVars>>
       \/ scene = "apps" /\ E!Next /\ UNCHANGED <<groupVars, pagesVars, routeVars, workspaceVars>>
       \/ scene = "routing" /\ B!RoutingNext /\ UNCHANGED <<groupVars, pagesVars, workspaceVars>>
       \/ scene = "workspaces" /\ W!Next /\ UNCHANGED <<groupVars, pagesVars, appVars, routeVars>>
    /\ UNCHANGED <<scene, makingVars, reviewingVars>>

Making ==
    /\ \/ scene = "pushes" /\ U!Next /\ UNCHANGED <<projectVars, templateVars>>
       \/ scene = "projects" /\ J!Next /\ UNCHANGED <<pushVars, templateVars>>
       \/ scene = "templates" /\ K!Next /\ UNCHANGED <<pushVars, projectVars>>
    /\ UNCHANGED <<scene, hostingVars, reviewingVars>>

Reviewing ==
    /\ \/ scene = "issues" /\ I!Next /\ UNCHANGED <<suggestionVars, scanVars>>
       \/ scene = "suggestions" /\ L!Next /\ UNCHANGED <<issueVars, scanVars>>
       \/ scene = "scanning" /\ Z!Next /\ UNCHANGED <<issueVars, suggestionVars>>
    /\ UNCHANGED <<scene, hostingVars, makingVars>>

forgeVars == <<scene, hostingVars, makingVars, reviewingVars>>

Next == Hosting \/ Making \/ Reviewing

Spec == Init /\ [][Next]_forgeVars

-----------------------------------------------------------------------------
(* Every component's state is of its kind. *)
TypeOK ==
    /\ scene = "groups" => N!TypeOK
    /\ scene = "pages" => P!TypeOK
    /\ scene = "apps" => E!TypeOK
    /\ scene = "routing" => B!RoutingTypeOK
    /\ scene = "workspaces" => W!TypeOK
    /\ scene = "pushes" => U!TypeOK
    /\ scene = "projects" => J!TypeOK
    /\ scene = "templates" => K!TypeOK
    /\ scene = "issues" => I!TypeOK
    /\ scene = "suggestions" => L!TypeOK
    /\ scene = "scanning" => Z!TypeOK

(* An address is one thing's, and a group does not take its projects with it
   (community/groups.py create, delete); issues are numbered without a gap and
   say when they were closed (collaboration/service.py open_issue, update_issue). *)
AddressesAndProjectsAreKept ==
    /\ scene = "groups" => N!AddressesAndProjectsAreKept
    /\ scene = "issues" => I!IssuesAreKept

(* Visitors see one commit, whole, unless publications met, or a removal left some
   of the files (pages/service.py publish, remove). *)
SiteIsWhole == scene = "pages" => P!SiteIsWhole

(* An application's row and the engine agree (apps/service.py start, stop),
   and a call reaches what its route names, unless the two applications were
   given their ports at one time or the one it meant was deleted while it came
   in (routing/service.py resolve). *)
RowTellsEngine ==
    /\ scene = "apps" => E!RowTellsEngine
    /\ scene = "routing" => B!CallsReachTheirTarget

(* Saving a workspace takes no regular file that git archives carry out of the
   branch, unless two requests changed a workspace at a time (workspaces/service.py
   save), and taking a suggestion changes one line of the last commit
   (collaboration/suggestions.py apply). *)
WorkIsNotUndone ==
    /\ scene = "workspaces" => W!WorkIsNotUndone
    /\ scene = "suggestions" => L!OneLineAtATime

(* The sweep takes containers of removed workspaces only
   (workspaces/service.py sweep). *)
SweepSparesTheLiving == scene = "workspaces" => W!SweepSparesTheLiving

(* Every tip a push leaves was handed to pipelines and scan, but where it put a
   branch back to the tip it was compared with (repositories/after_push.py
   handle). *)
TipsAreTold == scene = "pushes" => U!TipsAreTold

(* A protection that was answered holds (repositories/service.py
   protect_branch, git.py PRE_RECEIVE_HOOK). *)
AnsweredIsEnforced == scene = "pushes" => U!AnsweredIsEnforced

(* A project has its repository, and a removed one leaves none
   (repositories/service.py create, delete); one that was made from a template
   holds a whole copy and was counted once (templates/router.py take_template). *)
RowHasRepository ==
    /\ scene = "projects" => J!RowHasRepository
    /\ scene = "templates" => K!CopiesAreTheTakers
    /\ scene = "templates" => K!TakenIsHonest

(* A scan that saves while the tip and the findings stand as it read them leaves
   the findings telling what the branch holds, unless a new secret on several
   lines of one file takes it back; and no scan puts back on the list what somebody
   said is fine, but one that had read the finding before that was said
   (scanning/service.py scan, set_state). *)
FindingsAreKept ==
    /\ scene = "scanning" => Z!LoneScanTells
    /\ scene = "scanning" => Z!IgnoredStays
=============================================================================
