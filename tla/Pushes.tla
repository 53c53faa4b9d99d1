------------------------------- MODULE Pushes -------------------------------
(***************************************************************************)
(* Whatever moves the branches of one project: pushes over HTTPS and SSH,  *)
(* edits made in the console or a workspace, merges made by hand.  A       *)
(* request compares the tips before and after its own git command and      *)
(* tells the modules that care (after_push).  Beside it, the rules of      *)
(* protected branches: rows, and the file the pre-receive hook reads.      *)
(***************************************************************************)
EXTENDS Naturals, Sequences, FiniteSets

CONSTANTS
    Branches, Default,  \* the branches of the project, and the default one
    Requests,           \* requests under way
    MaxCommits,         \* bound: commits ever made
    MaxUpsets           \* bound: changes of the protections asked for, and requests
                        \* a restart or an error cuts off, together

VARIABLES
    tip,            \* per branch the commit it points at, 0 when there is none
    parents,        \* per commit made, everything it contains
    rules, hook,    \* protected branches: the rows, and the file of the hook
    request,        \* where a request stands and what it has read
    told, looked,   \* what pipelines were asked for, and which commits were scanned
    answered,       \* history: protections that were answered and not taken back
    alongside,      \* history: pushes git has not taken yet that met a change of the protections
    torn,           \* history: changes of the protections met, or one was cut off
    rewritten,      \* history: answered protections a push went past
    byHand,         \* history: branches moved by the merge button
    returned,       \* history: branches the last push put back to the tip it had compared with
    changes, failures

protectionVars == <<rules, hook, answered, torn, changes>>
historyVars    == <<alongside, rewritten>>
movedVars      == <<byHand, returned>>
pushVars == <<tip, parents, request, told, looked, protectionVars, historyVars, movedVars, failures>>

Commits     == DOMAIN parents
fresh       == Cardinality(Commits) + 1
Idle        == [at |-> "idle"]
NotTold     == MaxCommits + 1
In(r, s)    == request[r].at = s
Onwards(r, s) == request' = [request EXCEPT ![r].at = s]
Then(r, q)  == request' = [request EXCEPT ![r] = q]
Leaves(r)   == request' = [request EXCEPT ![r] = Idle]
Changing    == {r \in Requests : request[r].at \in {"list", "open", "store"}}
Offered     == {r \in Requests : request[r].at \in {"before", "hook", "update"}}

Init ==
    /\ tip = [b \in Branches |-> 0] /\ parents = <<>>
    /\ rules = {} /\ hook = {} /\ answered = {} /\ torn = FALSE
    /\ request = [r \in Requests |-> Idle]
    /\ told = {} /\ looked = {}
    /\ alongside = {} /\ rewritten = {} /\ byHand = {} /\ returned = {} /\ changes = 0 /\ failures = 0

Begins(r, b, how, seen) ==
    /\ In(r, "idle")
    /\ Then(r, [at |-> "before", how |-> how, branch |-> b, seen |-> seen])
    /\ alongside' = IF Changing = {} THEN alongside ELSE alongside \union {r}
    /\ UNCHANGED <<tip, parents, told, looked, protectionVars, rewritten, movedVars, failures>>

\* A client asked for the refs, and now sends what it decided to do with one;
\* asking is itself such a request.
git_over_http(r, b) == \E how \in {"look", "forward", "force"} : Begins(r, b, how, tip[b])

\* Over SSH git tells the client where the branch stands once it runs.
handle_session(r, b) == \E how \in {"forward", "force"} : Begins(r, b, how, NotTold)

\* An edit in the console is made on the commit the page was showing.
_commit(r, b) == Begins(r, b, "edit", tip[b])

\* Asking for the refs of a push is served the same way, and changes nothing.
branch_tips(r) ==
    LET q == request[r] IN
    /\ In(r, "before")
    /\ Then(r, IF q.how = "look" THEN [at |-> "after", before |-> tip]
               ELSE [at |-> IF q.how = "edit" THEN "commit" ELSE "hook", how |-> q.how,
                     branch |-> q.branch, seen |-> q.seen, before |-> tip])
    /\ alongside' = IF q.how = "force" THEN alongside ELSE alongside \ {r}
    /\ UNCHANGED <<tip, parents, told, looked, protectionVars, rewritten, movedVars, failures>>

\* git is done with the push.
Runs(r) == Then(r, [at |-> "after", before |-> request[r].before])

\* A protected branch that is there is neither deleted nor rewritten.
pre_receive(r) ==
    LET b == request[r].branch IN
    /\ In(r, "hook")
    /\ LET old == IF request[r].seen = NotTold THEN tip[b] ELSE request[r].seen IN
          IF b \in hook /\ old # 0 /\ request[r].how # "forward"
          THEN Runs(r) /\ alongside' = alongside \ {r}
          ELSE request' = [request EXCEPT ![r].at = "update", ![r].seen = old] /\ UNCHANGED alongside
    /\ UNCHANGED <<tip, parents, told, looked, protectionVars, rewritten, movedVars, failures>>

\* Moving a branch names where it stood; git refuses if it is elsewhere.
Move(b, old, new) ==
    /\ tip[b] = old /\ tip' = [tip EXCEPT ![b] = new]
    /\ \/ new \in Commits \union {0} /\ UNCHANGED parents
       \/ /\ new = fresh /\ new <= MaxCommits
          /\ \E kept \in {{}, IF old = 0 THEN {} ELSE parents[old]} :
                parents' = Append(parents, kept \union {new})

Keeps(old, new) == old = 0 \/ (new # 0 /\ old \in parents'[new])

\* To whoever compares the tips, such a branch has not moved.
Returns(r, b, new) ==
    returned' = IF request[r].before[b] = new THEN returned \union {b} ELSE returned \ {b}

receive_pack(r) ==
    LET b == request[r].branch  old == request[r].seen IN
    /\ In(r, "update") /\ Runs(r)
    /\ IF tip[b] # old THEN UNCHANGED <<tip, parents, rewritten, returned>>
       ELSE /\ \E new \in 0..MaxCommits :
                 /\ Move(b, old, new) /\ Returns(r, b, new)
                 /\ CASE request[r].how = "forward" -> Keeps(old, new) /\ new # old
                      [] OTHER -> old = 0 \/ ~Keeps(old, new)
            /\ rewritten' = IF b \in answered /\ r \notin alongside /\ old # 0 /\ request[r].how # "forward"
                            THEN rewritten \union {b} ELSE rewritten
    /\ alongside' = alongside \ {r}
    /\ UNCHANGED <<told, looked, protectionVars, byHand, failures>>

\* commit_files answers a branch that moved with a conflict, and nothing follows.
commit_files(r) ==
    LET b == request[r].branch  old == request[r].seen IN
    /\ In(r, "commit")
    /\ IF tip[b] # old THEN Leaves(r) /\ UNCHANGED <<tip, parents, returned>>
       ELSE Move(b, old, fresh) /\ Keeps(old, fresh) /\ Returns(r, b, fresh) /\ Runs(r)
    /\ UNCHANGED <<told, looked, protectionVars, historyVars, byHand, failures>>

\* Mutant: branches that were there before are passed over.
CreatedBranches(before, after) == {b \in Branches : before[b] = 0 /\ after[b] # 0}

moved_branches(before, after) == {b \in Branches : after[b] \notin {0, before[b]}}

\* after_push.handle: even when git refused the push.
handle(r) ==
    /\ In(r, "after")
    /\ Then(r, [at |-> "tell", after |-> tip, moved |-> moved_branches(request[r].before, tip)])
    /\ UNCHANGED <<tip, parents, told, looked, protectionVars, historyVars, movedVars, failures>>

start_pipelines(r) ==
    /\ In(r, "tell")
    /\ told' = told \union {<<b, request[r].after[b]>> : b \in request[r].moved}
    /\ IF Default \in request[r].moved THEN Then(r, [at |-> "scan"]) ELSE Leaves(r)
    /\ UNCHANGED <<tip, parents, looked, protectionVars, historyVars, movedVars, failures>>

\* The scan looks up itself where the default branch is by now.
scan(r) ==
    /\ In(r, "scan") /\ Leaves(r) /\ looked' = looked \union {tip[Default]}
    /\ UNCHANGED <<tip, parents, told, protectionVars, historyVars, movedVars, failures>>

\* merge_requests.merge: the target moves onto the merge, and that is all.
merge(b) ==
    /\ tip[b] # 0 /\ fresh <= MaxCommits
    /\ tip' = [tip EXCEPT ![b] = fresh]
    /\ parents' = Append(parents, parents[tip[b]] \union {fresh})
    /\ byHand' = byHand \union {b}
    /\ UNCHANGED <<request, told, looked, protectionVars, historyVars, returned, failures>>

ChangesRules(r, b, on) ==
    /\ In(r, "idle") /\ changes + failures < MaxUpsets /\ changes' = changes + 1
    /\ rules' = IF on THEN rules \union {b} ELSE rules \ {b}
    /\ Then(r, [at |-> "list", branch |-> b, on |-> on])
    /\ alongside' = alongside \union Offered
    /\ torn' = (torn \/ Changing # {})
    /\ answered' = IF torn' \/ ~on THEN answered \ {b} ELSE answered
    /\ UNCHANGED <<tip, parents, hook, told, looked, rewritten, movedVars, failures>>

\* A pattern is unique; one that is not there cannot be dropped.
protect_branch(r, b)   == b \notin rules /\ ChangesRules(r, b, TRUE)
unprotect_branch(r, b) == b \in rules /\ ChangesRules(r, b, FALSE)

\* Mutant: the new rule is not among those that are written.
ListBefore(r) ==
    /\ In(r, "list")
    /\ Then(r, [at |-> "open", branch |-> request[r].branch, on |-> request[r].on,
                listed |-> rules \ {request[r].branch}])
    /\ UNCHANGED <<tip, parents, told, looked, protectionVars, historyVars, movedVars, failures>>

list_protected_branches(r) ==
    /\ In(r, "list")
    /\ Then(r, [at |-> "open", branch |-> request[r].branch, on |-> request[r].on, listed |-> rules])
    /\ UNCHANGED <<tip, parents, told, looked, protectionVars, historyVars, movedVars, failures>>

\* The file is emptied when it is opened, and the hook may read it so.
write_protection(r) ==
    /\ \/ In(r, "open") /\ hook' = {} /\ Onwards(r, "store") /\ UNCHANGED answered
       \/ /\ In(r, "store") /\ hook' = request[r].listed /\ Leaves(r)
          /\ answered' = IF request[r].on /\ ~torn THEN answered \union {request[r].branch} ELSE answered
    /\ UNCHANGED <<tip, parents, rules, torn, changes, told, looked, historyVars, movedVars, failures>>

\* A restart, or an error of one of the modules that are told.
Fails(r) ==
    /\ ~In(r, "idle") /\ changes + failures < MaxUpsets /\ failures' = failures + 1
    /\ Leaves(r) /\ torn' = (torn \/ r \in Changing) /\ alongside' = alongside \ {r}
    /\ UNCHANGED <<tip, parents, told, looked, rules, hook, answered, changes, rewritten, movedVars>>

Next ==
    \/ \E r \in Requests :
          \/ \E b \in Branches : git_over_http(r, b) \/ handle_session(r, b) \/ _commit(r, b)
          \/ branch_tips(r) \/ pre_receive(r) \/ receive_pack(r) \/ commit_files(r)
          \/ handle(r) \/ start_pipelines(r) \/ scan(r)
          \/ \E b \in Branches : protect_branch(r, b) \/ unprotect_branch(r, b)
          \/ list_protected_branches(r) \/ write_protection(r) \/ Fails(r)
    \/ \E b \in Branches : merge(b)

Spec == Init /\ [][Next]_pushVars

-----------------------------------------------------------------------------
(* Tips are commits, commits contain what was there before them. *)
TypeOK ==
    /\ tip \in [Branches -> Commits \union {0}] /\ rules \subseteq Branches /\ hook \subseteq Branches
    /\ \A c \in Commits : c \in parents[c] /\ parents[c] \subseteq 1..c

Quiet == failures = 0 /\ \A r \in Requests : In(r, "idle")

(* Once everybody is done, the tip of every branch was handed to the
   pipelines, and that of the default branch was scanned, however the pushes
   overlapped; the merge button aside, and a push that put a branch back to the
   tip it had read before another moved it (after_push.handle). *)
TipsAreTold ==
    Quiet => /\ \A b \in Branches \ (byHand \union returned) : tip[b] = 0 \/ <<b, tip[b]>> \in told
             /\ tip[Default] = 0 \/ Default \in byHand \union returned \/ tip[Default] \in looked

(* A branch whose protection was answered is neither deleted nor rewritten by
   a push, unless another change of the protections met that push, met another
   change or was cut off (service.protect_branch, the pre-receive hook). *)
AnsweredIsEnforced == torn \/ rewritten = {}
=============================================================================
