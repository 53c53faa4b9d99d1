----------------------------- MODULE MergeQueue -----------------------------
(***************************************************************************)
(* The merge queue of a forge: merge requests, the approvals they need,    *)
(* the line they stand in, the background loop that builds, tests and      *)
(* lands the merge result, and everything that runs beside it: pushes,     *)
(* direct merges, closing, reopening, leaving the line, CI runs that end   *)
(* or are cancelled, and a restart of the server.                          *)
(*                                                                         *)
(* The server is one asyncio process.  An action below is what happens     *)
(* between two awaits at which other work can change what was read: a      *)
(* handler that reads a row, awaits, and writes it back is two actions.    *)
(* Rows are committed one by one (READ COMMITTED, no version column), and  *)
(* an ORM object keeps the value it was loaded with, so a late write wins. *)
(*                                                                         *)
(* A commit is the set of changes it contains: itself and its ancestors,   *)
(* each a number.  A new commit adds a number no other commit has, so two  *)
(* commits are the same exactly when their sets are, and one is an         *)
(* ancestor of another when it is a subset.                                *)
(***************************************************************************)
EXTENDS Naturals, FiniteSets

CONSTANTS
    Requests,       \* merge requests that can be opened
    Branches,       \* branches of all projects, under distinct names
    Projects,       \* projects, each with a queue of its own
    Users,          \* accounts; each has at most one direct merge in flight
    JobNames,       \* names of pipeline jobs
    ProjectOf,      \* the project of a request
    Source,         \* the source branch of a request
    FirstTarget,    \* the target branch a request is opened with
    Author,         \* who opened it
    Protected,      \* branches whose history the pre-receive hook keeps
    FirstTip,       \* where the branches stand at first
    Changes,        \* the numbers commits can have; 0 is the root commit
    Config,         \* what the pipeline file of a merge result may be
    Jobs,           \* the jobs that file names
    Required,       \* approvals the project asks for
    OwnerGroups,    \* owner groups of the paths a request touches
    MaxEntries,     \* bound: places ever taken in line
    MaxUpsets       \* bound: how often anything gets in the way of the line

VARIABLES
    tip,        \* refs/heads: branch -> commit, Gone when there is none
    temp,       \* requests whose throwaway branch grod-queue/mr-N exists
    state,      \* merge_requests.state
    target,     \* merge_requests.target_branch
    landed,     \* merge_requests.merge_commit
    into,       \* history: the branch the merge commit was put on
    yes,        \* approvals: request -> account -> commit, Gone when none
    checks,     \* required_checks
    entry,      \* merge_queue rows, numbered by created_at
    overtaken,  \* history: <<f, e>> when f was put in line before e, which
                \* the loop tested or held already
    said,       \* history: who ever approved a request
    green,      \* history: commits whose run once ended well
    pc, todo, snap, cur, wTarget, wBase, wCommit,   \* the queue loop
    hpc, hReq, hTarget, hBase, hCommit,             \* direct merges
    closing, reopening, leaving,    \* handlers between read and write
    entering,   \* the same, with the place the row will have: <<request, place>>
    upsets

git     == <<tip, temp>>
rows    == <<state, target, landed, into, yes, said, checks>>
line    == <<entry, overtaken, green>>
loop    == <<pc, todo, snap, cur, wTarget, wBase, wCommit>>
direct  == <<hpc, hReq, hTarget, hBase, hCommit>>
pending == <<closing, reopening, entering, leaving>>
vars    == <<git, rows, line, loop, direct, pending, upsets>>

Gone    == {}
Commits == SUBSET Changes
Entries == 1..MaxEntries

ActiveStates == {"waiting", "testing"}
QueueStates  == ActiveStates \union {"none", "merged", "failed", "cancelled"}
\* "stopping" is a pipeline already written down as canceled while a runner
\* still works on one of its jobs and will report how that ended.
RunStates    == {"none", "pending", "stopping", "success", "failed", "canceled"}

EntryRows == [mr: Requests, state: QueueStates, tested: Commits,
              base: Commits, run: RunStates]

ASSUME ConstantsAssumption ==
    /\ Requests # {} /\ Branches # {} /\ Users # {} /\ IsFiniteSet(Users)
    /\ ProjectOf \in [Requests -> Projects]
    /\ Source \in [Requests -> Branches]
    /\ FirstTarget \in [Requests -> Branches]
    /\ Author \in [Requests -> Users]
    /\ Protected \subseteq Branches
    /\ Changes \subseteq Nat /\ 0 \in Changes
    /\ FirstTip \in [Branches -> SUBSET Changes]
    /\ Config \in [Requests -> (SUBSET {"none", "jobs", "unreadable"}) \ {{}}]
    /\ Jobs \in [Requests -> SUBSET JobNames]
    /\ Required \in Nat
    /\ OwnerGroups \in [Requests -> SUBSET SUBSET Users]
    /\ MaxEntries \in Nat /\ MaxUpsets \in Nat

-----------------------------------------------------------------------------
\* The commits something still refers to, and the first number none has.
Known == {tip[b] : b \in Branches} \union {landed[r] : r \in Requests}
         \union {yes[r][u] : r \in Requests, u \in Users} \union green
         \union {entry[e].tested : e \in Entries} \union {entry[e].base : e \in Entries}
         \union {hBase[u] : u \in Users} \union {hCommit[u] : u \in Users}
         \union {wBase, wCommit}
NewChange == LET unused == Changes \ UNION Known
             IN {c \in unused : \A d \in unused : c <= d}

Active == {e \in Entries : entry[e].state \in ActiveStates}

Testing == {e \in Entries : entry[e].state = "testing"}

\* The place the loop is at work on, until its target has been moved.
InHand == IF pc \in {"build", "start", "record", "look", "move"} THEN {cur} ELSE {}

\* Mutant: the last in line goes first.
HeadsBackwards == {e \in Active : \A f \in Active :
                     ProjectOf[entry[f].mr] = ProjectOf[entry[e].mr] => e >= f}

\* Only the first entry of each project moves in one tick.
Heads == {e \in Active : \A f \in Active :
             ProjectOf[entry[f].mr] = ProjectOf[entry[e].mr] => e <= f}

\* Mutant: there is no unique index.
HoldsNoIndex(e) == TRUE

\* The partial unique index: no other active row of the same request.
HoldsIndex(e) == \A f \in Active \ {e} : entry[f].mr # entry[e].mr

\* A yes counts while the source branch stands where it was given, and while
\* the branch cannot be resolved at all.
Fresh(r) == {u \in Users : yes[r][u] # Gone
                /\ (tip[Source[r]] = Gone \/ yes[r][u] = tip[Source[r]])}

\* The project wants a number of people; the owners file on the target wants
\* one owner of every touched path.  Without either branch there is no diff.
Satisfied(r) ==
    /\ Cardinality(Fresh(r)) >= Required
    /\ \/ Gone \in {tip[Source[r]], tip[target[r]]}
       \/ \A owners \in OwnerGroups[r] : owners \intersect Fresh(r) # {}

MissingChecks(r) == checks \ Jobs[r]

\* Whatever open request stands on the merged one now stands where it went.
Restacked(r, where) ==
    [q \in Requests |->
        IF state[q] = "open" /\ target[q] = Source[r] THEN where ELSE target[q]]

-----------------------------------------------------------------------------
Init ==
    /\ tip = FirstTip /\ temp = {}
    /\ state = [r \in Requests |-> "absent"]
    /\ target = FirstTarget
    /\ landed = [r \in Requests |-> Gone]
    /\ into = FirstTarget
    /\ yes = [r \in Requests |-> [u \in Users |-> Gone]]
    /\ said = [r \in Requests |-> {}] /\ checks = {}
    /\ entry = [e \in Entries |-> [mr |-> CHOOSE r \in Requests : TRUE, state |-> "none",
                                   tested |-> Gone, base |-> Gone, run |-> "none"]]
    /\ overtaken = {} /\ green = {}
    /\ pc = "idle" /\ todo = {} /\ snap = [e \in Entries |-> "none"] /\ cur = 0
    /\ wTarget = (CHOOSE b \in Branches : TRUE) /\ wBase = Gone /\ wCommit = Gone
    /\ hpc = [u \in Users |-> "idle"]
    /\ hReq = [u \in Users |-> CHOOSE r \in Requests : TRUE]
    /\ hTarget = [u \in Users |-> CHOOSE b \in Branches : TRUE]
    /\ hBase = [u \in Users |-> Gone] /\ hCommit = [u \in Users |-> Gone]
    /\ closing = {} /\ reopening = {} /\ entering = {} /\ leaving = {}
    /\ upsets = 0

-----------------------------------------------------------------------------
(* People: requests and reviews.                                           *)

\* One of the few things that may cross the line's way in a bounded run.
Upset == upsets < MaxUpsets /\ upsets' = upsets + 1

OpenRequest(r) ==
    /\ state[r] = "absent"
    /\ Source[r] # target[r]
    /\ tip[Source[r]] # Gone /\ tip[target[r]] # Gone
    /\ state' = [state EXCEPT ![r] = "open"]
    /\ UNCHANGED <<git, target, landed, into, yes, said, checks, line, loop, direct, pending, upsets>>

\* Mutant: an author may approve what they wrote.
ApproveOwn(r, u) ==
    /\ state[r] # "absent" /\ tip[Source[r]] # Gone /\ yes[r][u] = Gone
    /\ yes' = [yes EXCEPT ![r][u] = tip[Source[r]]]
    /\ said' = [said EXCEPT ![r] = @ \union {u}]
    /\ UNCHANGED <<git, state, target, landed, into, checks, line, loop, direct, pending, upsets>>

\* An account has one approval per request; a second insert is refused.
Approve(r, u) ==
    /\ state[r] # "absent"
    /\ u # Author[r]
    /\ tip[Source[r]] # Gone
    /\ yes[r][u] = Gone
    /\ yes' = [yes EXCEPT ![r][u] = tip[Source[r]]]
    /\ said' = [said EXCEPT ![r] = @ \union {u}]
    /\ UNCHANGED <<git, state, target, landed, into, checks, line, loop, direct, pending, upsets>>

Revoke(r, u) ==
    /\ yes[r][u] # Gone
    /\ Upset
    /\ yes' = [yes EXCEPT ![r][u] = Gone]
    /\ UNCHANGED <<git, state, target, landed, into, said, checks, line, loop, direct, pending>>

\* Mutant: a name of blanks only is kept.
SetBlankCheck(names) ==
    /\ checks # names /\ Upset
    /\ checks' = names \union {""}
    /\ UNCHANGED <<git, state, target, landed, into, yes, said, line, loop, direct, pending>>

SetRequiredChecks(names) ==
    /\ checks # names
    /\ Upset
    /\ checks' = names
    /\ UNCHANGED <<git, state, target, landed, into, yes, said, line, loop, direct, pending>>

CloseReads(r) ==
    /\ state[r] = "open" /\ r \notin closing
    /\ Upset
    /\ closing' = closing \union {r}
    /\ UNCHANGED <<git, rows, line, loop, direct, reopening, entering, leaving>>

CloseWrites(r) ==
    /\ r \in closing
    /\ closing' = closing \ {r}
    /\ state' = [state EXCEPT ![r] = "closed"]
    /\ UNCHANGED <<git, target, landed, into, yes, said, checks, line, loop, direct, reopening,
                   entering, leaving, upsets>>

ReopenReads(r) ==
    /\ state[r] = "closed" /\ r \notin reopening
    /\ Upset
    /\ reopening' = reopening \union {r}
    /\ UNCHANGED <<git, rows, line, loop, direct, closing, entering, leaving>>

ReopenWrites(r) ==
    /\ r \in reopening
    /\ reopening' = reopening \ {r}
    /\ state' = [state EXCEPT ![r] = "open"]
    /\ UNCHANGED <<git, target, landed, into, yes, said, checks, line, loop, direct, closing,
                   entering, leaving, upsets>>

-----------------------------------------------------------------------------
(* People: the line.                                                       *)

\* A row is dated by the start of its handler's transaction (created_at is
\* now() of the database), long before it is committed: the place is whatever
\* place nobody has, and who begins first may well write last.
EnterReads(r, e) ==
    /\ state[r] = "open"
    /\ entry[e].state = "none" /\ \A p \in entering : p[2] # e
    /\ \A f \in Active : entry[f].mr # r
    /\ entering' = entering \union {<<r, e>>}
    /\ UNCHANGED <<git, rows, line, loop, direct, closing, reopening, leaving, upsets>>

\* Those behind e whom the loop tests, holds or is about to walk.
Passed(r, e) == {f \in Testing \union todo \union InHand :
                    e < f /\ ProjectOf[entry[f].mr] = ProjectOf[r]}

\* By now the request may be closed; the index refuses a second place.
EnterWrites(r, e) ==
    /\ <<r, e>> \in entering
    /\ entering' = entering \ {<<r, e>>}
    /\ \/ /\ \A f \in Active : entry[f].mr # r
          /\ entry' = [entry EXCEPT ![e] = [mr |-> r, state |-> "waiting", tested |-> Gone,
                                            base |-> Gone, run |-> "none"]]
          /\ overtaken' = overtaken \union {<<e, f>> : f \in Passed(r, e)}
       \/ (\E f \in Active : entry[f].mr = r) /\ UNCHANGED <<overtaken, entry>>
    /\ UNCHANGED <<git, rows, green, loop, direct, closing, reopening, leaving, upsets>>

LeaveReads(e) ==
    /\ e \in Active /\ e \notin leaving
    /\ Upset
    /\ leaving' = leaving \union {e}
    /\ UNCHANGED <<git, rows, line, loop, direct, closing, reopening, entering>>

LeaveWrites(e) ==
    /\ e \in leaving
    /\ leaving' = leaving \ {e}
    /\ entry' = [entry EXCEPT ![e].state = "cancelled"]
    /\ temp' = temp \ {entry[e].mr}
    /\ UNCHANGED <<tip, rows, overtaken, green, loop, direct, closing, reopening, entering, upsets>>

-----------------------------------------------------------------------------
(* Git: somebody pushes, rewrites or deletes a branch.                     *)

PushTo(b, commit) ==
    /\ Upset
    /\ tip' = [tip EXCEPT ![b] = commit]
    /\ UNCHANGED <<temp, rows, line, loop, direct, pending>>

Push(b)       == \E c \in NewChange : PushTo(b, tip[b] \union {0, c})

\* The pre-receive hook refuses these two on a protected branch.
ForcePush(b)  == b \notin Protected /\ \E c \in NewChange : PushTo(b, {0, c})
DropBranch(b) == b \notin Protected /\ tip[b] # Gone /\ PushTo(b, Gone)

-----------------------------------------------------------------------------
(* CI: what the run of an entry does, seen from the queue.  These are the  *)
(* steps of RunLife, which Pipelines is checked to keep to.                *)

\* What becomes of the run of a place that ended for good concerns nobody.
RunChanges(e, to) ==
    /\ entry[e].state \notin {"merged", "failed"}
    /\ entry' = [entry EXCEPT ![e].run = to]
    /\ green' = IF to = "success" THEN green \union {entry[e].tested} ELSE green
    /\ UNCHANGED <<git, rows, overtaken, loop, direct, pending>>

\* A runner reports the last job; nothing looks at whether it was canceled.
RunReports(e) ==
    /\ entry[e].run \in {"pending", "stopping"}
    /\ \E to \in {"success", "failed"} : RunChanges(e, to)
    /\ UNCHANGED upsets

\* Somebody cancels the run, and may do so after it ended.
RunCanceled(e) ==
    /\ Upset
    /\ entry[e].run \in {"pending", "success", "failed"}
    /\ \E to \in {"stopping", "canceled"} : RunChanges(e, to)

RunStops(e) == entry[e].run = "stopping" /\ RunChanges(e, "canceled") /\ UNCHANGED upsets

-----------------------------------------------------------------------------
(* The queue loop.                                                         *)

\* The ORM writes an attribute only when it differs from what was loaded.
WrittenState(e, to) == IF snap[e] = to THEN entry[e].state ELSE to

NextEntry == /\ pc' = "pick" /\ snap' = [snap EXCEPT ![cur] = "none"]
             /\ cur' = 0 /\ wBase' = Gone /\ wCommit' = Gone
             /\ UNCHANGED <<todo, wTarget>>

\* An exception rolls the session back, which expires the rows the loop still
\* has to walk; touching the next one fails outside the try and ends the tick.
Stumble == /\ pc' = "idle" /\ todo' = {} /\ snap' = [e \in Entries |-> "none"]
           /\ cur' = 0 /\ wBase' = Gone /\ wCommit' = Gone
           /\ UNCHANGED wTarget

\* Mutant: the reason is written down, the place is not given up.
GiveUpNothing(e) ==
    /\ temp' = temp \ {entry[e].mr}
    /\ NextEntry
    /\ UNCHANGED <<tip, entry, overtaken, green>>

GiveUp(e) ==
    /\ entry' = [entry EXCEPT ![e].state = "failed"]
    /\ temp' = temp \ {entry[e].mr}
    /\ NextEntry
    /\ UNCHANGED <<tip, overtaken, green>>

\* Back in line, to be built again; refused by the index when the request
\* holds another place by now.
BackInLine(e) ==
    \/ /\ WrittenState(e, "waiting") \in ActiveStates => HoldsIndex(e)
       /\ entry' = [entry EXCEPT ![e].state = WrittenState(e, "waiting"), ![e].run = "none"]
       /\ NextEntry
    \/ /\ WrittenState(e, "waiting") \in ActiveStates /\ ~HoldsIndex(e)
       /\ Stumble
       /\ UNCHANGED entry

Advance ==
    /\ pc = "idle" /\ Active # {}
    /\ pc' = "pick" /\ todo' = Heads
    /\ snap' = [e \in Entries |-> IF e \in Heads THEN entry[e].state ELSE "none"]
    /\ overtaken' = {p \in overtaken : p[2] \in Testing}
    /\ UNCHANGED <<git, rows, entry, green, cur, wTarget, wBase, wCommit, direct, pending, upsets>>

TickEnds ==
    /\ pc = "pick" /\ todo = {}
    /\ Stumble
    /\ UNCHANGED <<git, rows, line, direct, pending, upsets>>

\* _step: the request is loaded and its approvals are weighed.
Step(e) ==
    /\ pc = "pick" /\ e \in todo /\ \A f \in todo : e <= f
    /\ LET r == entry[e].mr IN
       \/ /\ state[r] # "open" \/ ~Satisfied(r)
          /\ entry' = [entry EXCEPT ![e].state = "failed"]
          /\ temp' = temp \ {r}
          /\ todo' = todo \ {e} /\ snap' = [snap EXCEPT ![e] = "none"]
          /\ UNCHANGED <<pc, cur, wTarget>>
       \/ /\ state[r] = "open" /\ Satisfied(r)
          /\ pc' = IF snap[e] = "waiting" THEN "build" ELSE "look"
          /\ cur' = e /\ todo' = todo \ {e}
          /\ wTarget' = target[r]
          /\ UNCHANGED <<entry, temp, snap>>
    /\ UNCHANGED <<tip, rows, overtaken, green, wBase, wCommit, direct, pending, upsets>>

\* merge_preview: the branches are resolved only now, and may clash or be gone.
Build ==
    /\ pc = "build"
    /\ LET from == tip[Source[entry[cur].mr]]
           onto == tip[wTarget]
       IN \/ GiveUp(cur)
          \/ /\ from # Gone /\ onto # Gone
             /\ \E c \in NewChange : wCommit' = onto \union from \union {c}
             /\ wBase' = onto
             /\ pc' = "start"
             /\ UNCHANGED <<tip, temp, line, todo, snap, cur, wTarget>>
    /\ UNCHANGED <<rows, direct, pending, upsets>>

\* The result goes on the throwaway branch and its pipeline file is read.
StartPipeline ==
    /\ pc = "start"
    /\ temp' = temp \union {entry[cur].mr}
    /\ \E file \in Config[entry[cur].mr] :
       \/ file = "unreadable" /\ Stumble
       \/ /\ file # "unreadable"
          /\ pc' = IF file = "none" THEN "move" ELSE "record"
          /\ UNCHANGED <<todo, snap, cur, wTarget, wBase, wCommit>>
    /\ UNCHANGED <<tip, rows, line, direct, pending, upsets>>

RecordTesting ==
    /\ pc = "record"
    /\ \/ /\ HoldsIndex(cur)
          /\ entry' = [entry EXCEPT ![cur].state = "testing", ![cur].tested = wCommit,
                                    ![cur].base = wBase, ![cur].run = "pending"]
          /\ NextEntry
       \/ ~HoldsIndex(cur) /\ Stumble /\ UNCHANGED entry
    /\ UNCHANGED <<git, rows, overtaken, green, direct, pending, upsets>>

LookAtTheRun ==
    /\ pc = "look"
    /\ LET row == entry[cur] IN
       \/ /\ row.run = "pending"
          /\ NextEntry
          /\ UNCHANGED <<git, line>>
       \/ /\ row.run \notin {"success", "pending"} \/ (row.run = "success" /\ MissingChecks(row.mr) # {})
          /\ GiveUp(cur)
       \/ /\ row.run = "success" /\ MissingChecks(row.mr) = {} /\ tip[wTarget] # row.base
          /\ BackInLine(cur)
          /\ temp' = IF entry' = entry THEN temp ELSE temp \ {row.mr}
          /\ UNCHANGED <<tip, overtaken, green>>
       \/ /\ row.run = "success" /\ MissingChecks(row.mr) = {} /\ tip[wTarget] = row.base
          /\ pc' = "move" /\ wBase' = row.base /\ wCommit' = row.tested
          /\ UNCHANGED <<git, line, todo, snap, cur, wTarget>>
    /\ UNCHANGED <<rows, direct, pending, upsets>>

\* Mutant: the branch is moved without saying where it is expected to stand.
MoveBlindly ==
    /\ pc = "move" /\ pc' = "commit"
    /\ tip' = [tip EXCEPT ![wTarget] = wCommit]
    /\ UNCHANGED <<entry, todo, snap, cur, wTarget, wBase, wCommit, temp, rows, overtaken,
                   green, direct, pending, upsets>>

\* Mutant: a branch that moved gets the tested commit merged on top of it.
MoveAnyway ==
    /\ pc = "move" /\ pc' = "commit"
    /\ wCommit' = wCommit \union tip[wTarget]
    /\ tip' = [tip EXCEPT ![wTarget] = wCommit']
    /\ UNCHANGED <<entry, todo, snap, cur, wTarget, wBase, temp, rows, overtaken,
                   green, direct, pending, upsets>>

\* update-ref is handed the base it expects; Git refuses when it has moved.
MoveTarget ==
    /\ pc = "move"
    /\ \/ /\ tip[wTarget] = wBase
          /\ tip' = [tip EXCEPT ![wTarget] = wCommit]
          /\ pc' = "commit"
          /\ UNCHANGED <<entry, todo, snap, cur, wTarget, wBase, wCommit>>
       \/ /\ tip[wTarget] # wBase
          /\ BackInLine(cur)
          /\ UNCHANGED tip
    /\ UNCHANGED <<temp, rows, overtaken, green, direct, pending, upsets>>

CommitMerged ==
    /\ pc = "commit"
    /\ LET r == entry[cur].mr IN
       /\ state' = [state EXCEPT ![r] = "merged"]
       /\ landed' = [landed EXCEPT ![r] = wCommit]
       /\ into' = [into EXCEPT ![r] = wTarget]
    /\ entry' = [entry EXCEPT ![cur].state = "merged", ![cur].tested = wCommit]
    /\ pc' = "tidy"
    /\ UNCHANGED <<git, target, yes, said, checks, overtaken, green, todo, snap, cur, wTarget, wBase,
                   wCommit, direct, pending, upsets>>

\* The throwaway branch goes and the requests above are repointed.
Tidy ==
    /\ pc = "tidy"
    /\ temp' = temp \ {entry[cur].mr}
    /\ target' = Restacked(entry[cur].mr, wTarget)
    /\ NextEntry
    /\ UNCHANGED <<tip, state, landed, into, yes, said, checks, line, direct, pending, upsets>>

-----------------------------------------------------------------------------
(* The merge button: the same merge, without the line and its tests.       *)

MergeChecks(u, r) ==
    /\ hpc[u] = "idle"
    /\ state[r] = "open" /\ Satisfied(r)
    /\ Upset
    /\ hpc' = [hpc EXCEPT ![u] = "build"]
    /\ hReq' = [hReq EXCEPT ![u] = r]
    /\ hTarget' = [hTarget EXCEPT ![u] = target[r]]
    /\ UNCHANGED <<git, rows, line, loop, hBase, hCommit, pending>>

HandlerEnds(u) ==
    /\ hpc' = [hpc EXCEPT ![u] = "idle"]
    /\ hBase' = [hBase EXCEPT ![u] = Gone] /\ hCommit' = [hCommit EXCEPT ![u] = Gone]
    /\ UNCHANGED <<hReq, hTarget>>

MergeBuilds(u) ==
    /\ hpc[u] = "build"
    /\ LET from == tip[Source[hReq[u]]]
           onto == tip[hTarget[u]]
       IN \/ HandlerEnds(u)
          \/ /\ from # Gone /\ onto # Gone
             /\ \E c \in NewChange : hCommit' = [hCommit EXCEPT ![u] = onto \union from \union {c}]
             /\ hBase' = [hBase EXCEPT ![u] = onto]
             /\ hpc' = [hpc EXCEPT ![u] = "move"]
             /\ UNCHANGED <<hReq, hTarget>>
    /\ UNCHANGED <<tip, temp, rows, line, loop, pending, upsets>>

\* Mutant: the merge button moves the branch wherever it stands.
MergeMovesBlindly(u) ==
    /\ hpc[u] = "move"
    /\ tip' = [tip EXCEPT ![hTarget[u]] = hCommit[u]]
    /\ hpc' = [hpc EXCEPT ![u] = "commit"]
    /\ UNCHANGED <<temp, rows, line, loop, hReq, hTarget, hBase, hCommit, pending, upsets>>

MergeMoves(u) ==
    /\ hpc[u] = "move"
    /\ \/ /\ tip[hTarget[u]] = hBase[u]
          /\ tip' = [tip EXCEPT ![hTarget[u]] = hCommit[u]]
          /\ hpc' = [hpc EXCEPT ![u] = "commit"]
          /\ UNCHANGED <<hReq, hTarget, hBase, hCommit>>
       \/ tip[hTarget[u]] # hBase[u] /\ HandlerEnds(u) /\ UNCHANGED tip
    /\ UNCHANGED <<temp, rows, line, loop, pending, upsets>>

MergeCommits(u) ==
    /\ hpc[u] = "commit"
    /\ state' = [state EXCEPT ![hReq[u]] = "merged"]
    /\ landed' = [landed EXCEPT ![hReq[u]] = hCommit[u]]
    /\ into' = [into EXCEPT ![hReq[u]] = hTarget[u]]
    /\ hpc' = [hpc EXCEPT ![u] = "restack"]
    /\ UNCHANGED <<git, target, yes, said, checks, line, loop, hReq, hTarget, hBase, hCommit,
                   pending, upsets>>

MergeRestacks(u) ==
    /\ hpc[u] = "restack"
    /\ target' = Restacked(hReq[u], hTarget[u])
    /\ HandlerEnds(u)
    /\ UNCHANGED <<git, state, landed, into, yes, said, checks, line, loop, pending, upsets>>

-----------------------------------------------------------------------------
\* The process dies: what was in memory is gone, rows and refs stay.
Crash ==
    /\ pc # "idle" \/ \E u \in Users : hpc[u] # "idle"
    /\ Upset
    /\ Stumble
    /\ hpc' = [u \in Users |-> "idle"]
    /\ hBase' = [u \in Users |-> Gone] /\ hCommit' = [u \in Users |-> Gone]
    /\ closing' = {} /\ reopening' = {} /\ entering' = {} /\ leaving' = {}
    /\ UNCHANGED <<git, rows, line, hReq, hTarget>>

-----------------------------------------------------------------------------
Loop == \/ Advance \/ TickEnds \/ (\E e \in Entries : Step(e))
        \/ Build \/ StartPipeline \/ RecordTesting \/ LookAtTheRun
        \/ MoveTarget \/ CommitMerged \/ Tidy

DirectMerge == \E u \in Users :
    \/ \E r \in Requests : MergeChecks(u, r)
    \/ MergeBuilds(u) \/ MergeMoves(u) \/ MergeCommits(u) \/ MergeRestacks(u)

People == \/ \E r \in Requests : \/ OpenRequest(r)
                                 \/ CloseReads(r) \/ CloseWrites(r)
                                 \/ ReopenReads(r) \/ ReopenWrites(r)
                                 \/ \E e \in Entries : EnterReads(r, e) \/ EnterWrites(r, e)
                                 \/ \E u \in Users : Approve(r, u) \/ Revoke(r, u)
          \/ \E e \in Entries : LeaveReads(e) \/ LeaveWrites(e)
          \/ \E names \in SUBSET JobNames : SetRequiredChecks(names)

Pushes == \E b \in Branches : Push(b) \/ ForcePush(b) \/ DropBranch(b)

Runs == \E e \in Entries : RunReports(e) \/ RunCanceled(e) \/ RunStops(e)

Next == Loop \/ DirectMerge \/ People \/ Pushes \/ Runs \/ Crash

Spec == Init /\ [][Next]_vars

\* The loop wakes every TICK_SECONDS and always takes its next await; a runner
\* that took the jobs of a run ends them.  Nothing is asked of people.
Fairness == /\ WF_vars(Loop)
            /\ \A e \in Entries : WF_vars(RunReports(e) /\ entry[e].run = "pending")

FairSpec == Spec /\ Fairness

-----------------------------------------------------------------------------
(* Correctness.                                                            *)

TypeOK ==
    /\ tip \in [Branches -> Commits] /\ temp \subseteq Requests
    /\ state \in [Requests -> {"absent", "open", "merged", "closed"}]
    /\ target \in [Requests -> Branches]
    /\ landed \in [Requests -> Commits] /\ into \in [Requests -> Branches]
    /\ yes \in [Requests -> [Users -> Commits]]
    /\ said \in [Requests -> SUBSET Users] /\ checks \subseteq JobNames
    /\ entry \in [Entries -> EntryRows]
    /\ overtaken \subseteq Entries \X Entries /\ green \subseteq Commits
    /\ pc \in {"idle", "pick", "build", "start", "record", "look", "move", "commit", "tidy"}
    /\ todo \subseteq Entries /\ snap \in [Entries -> QueueStates]
    /\ cur \in 0..MaxEntries
    /\ pc \notin {"idle", "pick"} => cur # 0
    /\ wTarget \in Branches /\ wBase \in Commits /\ wCommit \in Commits
    /\ hpc \in [Users -> {"idle", "build", "move", "commit", "restack"}]
    /\ hReq \in [Users -> Requests] /\ hTarget \in [Users -> Branches]
    /\ hBase \in [Users -> Commits] /\ hCommit \in [Users -> Commits]
    /\ closing \subseteq Requests /\ reopening \subseteq Requests
    /\ entering \subseteq Requests \X Entries /\ leaving \subseteq Entries
    /\ upsets \in 0..MaxUpsets

(* What a row records as merged into a protected branch really is in that  *)
(* branch, whatever pushes, other merges and restarts came in between: the *)
(* branch moves before the row is written, and only forward. It is so too  *)
(* when the row was closed or reopened over the merge (close, reopen).     *)
MergedIsContained ==
    \A r \in Requests : into[r] \in Protected => landed[r] \subseteq tip[into[r]]

(* No merge, by the queue or by hand, throws away what a protected branch  *)
(* holds: two of them racing cannot overwrite each other.                  *)
ProtectedOnlyGrow == [][\A b \in Protected : tip[b] \subseteq tip'[b]]_vars

(* One request stands in line only once at a time, even when it left and   *)
(* came back while the loop still held its old place.                      *)
OnePlacePerRequest ==
    \A e, f \in Active : entry[e].mr = entry[f].mr => e = f

(* Nobody behind the first of a project's line is put under test: whoever  *)
(* is tested stands first, but for a row dated earlier that was committed  *)
(* only when the loop held or tested this one already (created_at is the   *)
(* start of the transaction, db.py).  One overtaken so is excepted from    *)
(* then until its test is over and the line is read again, and no longer.  *)
TestingIsHead ==
    \A e \in Testing : \A f \in Active :
        ProjectOf[entry[f].mr] = ProjectOf[entry[e].mr] => e <= f \/ <<f, e>> \in overtaken

(* A place marked merged, of a request with a pipeline, carries a commit   *)
(* whose own run ended well: what landed is exactly what was tested.       *)
LandedWasTested ==
    \A e \in Entries :
        entry[e].state = "merged" /\ Config[entry[e].mr] = {"jobs"} => entry[e].tested \in green

(* A request is merged, through the line or past it, only after as many    *)
(* people as the project wants, none of them its author, have looked at it.*)
NobodyMergesAlone ==
    \A r \in Requests :
        state[r] = "merged" => Cardinality(said[r] \ {Author[r]}) >= Required

(* Nobody stands in line forever.                                          *)
LineDrains == \A e \in Entries : (e \in Active) ~> (e \notin Active)

-----------------------------------------------------------------------------
(* What a comment, a docstring or a message of the code says, and the code *)
(* does not keep in every order of events.                                 *)

(* "An approval stops counting once new work arrives: what was read is no  *)
(* longer what would be merged" (class Approval).  So where the project    *)
(* wants approvals and some stand, one of them was given on the commit     *)
(* that a merge takes from the source.                                     *)
ApprovedIsWhatIsBuilt ==
    [][\A u \in Users : LET r == hReq[u] IN
          /\ hpc[u] = "build" /\ hpc'[u] = "move"
          /\ Required > 0 /\ \E v \in Users : yes[r][v] # Gone
          => \E v \in Users : yes[r][v] = tip[Source[r]]]_vars

(* "Take a merge request out of the line" (leave): a place that was given  *)
(* up is not the one the request is merged from.                           *)
LeftIsOut ==
    [][\A e \in Entries : entry[e].state = "cancelled" => entry'[e].state # "merged"]_vars

(* "One stuck queue must never stop the others" (advance): whoever has a   *)
(* file that can be read gets out of the line, whatever another project has.*)
OthersMoveOn ==
    \A e \in Entries :
        (e \in Active /\ Config[entry[e].mr] = {"jobs"}) ~> (e \notin Active)
=============================================================================
