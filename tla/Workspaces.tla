----------------------------- MODULE Workspaces -----------------------------
(***************************************************************************)
(* Workspaces on one branch: a row, a container that was filled from one   *)
(* commit, and saves that bring what changed in it back to the branch.     *)
(* A request reads the row first and commits the columns it changed last.  *)
(*                                                                         *)
(* What a commit or a container holds is the set of pieces of work in it;  *)
(* a save writes what the container has and the commit it is compared with *)
(* has not, and takes out what that commit has and the container has not.  *)
(* A container is filled and read through archives, which do not carry     *)
(* everything a commit may hold.                                           *)
(***************************************************************************)
EXTENDS Naturals, Sequences, FiniteSets

CONSTANTS
    Spaces,         \* workspaces of one account
    Tasks,          \* requests under way
    NotYet, Removed, \* before there is a row, and after
    NoBox,
    Links,          \* pieces of work that are no regular file
    Unexported,     \* pieces that .gitattributes keeps out of git's archives
    MaxWork,        \* bound: pieces of work done in all
    MaxBoxes,       \* bound: containers started in all
    MaxTroubles     \* bound: restarts, and calls of the engine that fail

VARIABLES
    history,        \* the commits of the branch, the tip last
    space,          \* rows: state, container, commit
    box,            \* per name, the container: its id and what it holds
    task,           \* where a request stands, and the row as it read it
    tangled,        \* history: workspaces two requests changed at a time
    taken,          \* history: workspaces whose container a sweep removed
    work, boxes, troubles

\* What does not come back from a container that was filled from a commit.
Unarchived == Links \union Unexported

workspaceVars == <<history, space, box, task, tangled, taken, work, boxes, troubles>>
bounds        == <<work, boxes, troubles>>

tip         == Len(history)
WorkspaceRows == [state : {"stopped", "running", "failed"}, container : 0..MaxBoxes, commit : 0..tip]
Has(w)      == space[w] \notin {NotYet, Removed}
Idle        == [at |-> "idle"]
In(t, s)    == task[t].at = s
Of(t)       == task[t].space
Runs(w, id) == box[w] # NoBox /\ box[w].id = id
Read(t)     == task[t].read
With(w)     == {t \in Tasks : ~In(t, "idle") /\ ~In(t, "rows") /\ ~In(t, "rm") /\ Of(t) = w}
To(t, s)    == task' = [task EXCEPT ![t].at = s]
Leaves(t)   == task' = [task EXCEPT ![t] = Idle]
Trouble     == troubles < MaxTroubles /\ troubles' = troubles + 1

\* A commit of the session writes the columns that differ from what was read.
Write(t, state, id, commit) ==
    LET w == Of(t) IN
    space' = IF ~Has(w) THEN space
             ELSE [space EXCEPT ![w] =
                     [state     |-> IF state = Read(t).state THEN @.state ELSE state,
                      container |-> IF id = Read(t).container THEN @.container ELSE id,
                      commit    |-> IF commit = Read(t).commit THEN @.commit ELSE commit]]

Init ==
    /\ history = <<{}>>
    /\ space = [w \in Spaces |-> NotYet] /\ box = [w \in Spaces |-> NoBox]
    /\ task = [t \in Tasks |-> Idle]
    /\ tangled = {} /\ taken = {} /\ work = 0 /\ boxes = 0 /\ troubles = 0

create(w) ==
    /\ space[w] = NotYet
    /\ space' = [space EXCEPT ![w] = [state |-> "stopped", container |-> 0, commit |-> 0]]
    /\ UNCHANGED <<history, box, task, tangled, taken, bounds>>

\* The row is found by its name, and read once.
_mine(t, w, what) ==
    /\ In(t, "idle") /\ Has(w)
    /\ task' = [task EXCEPT ![t] =
          [at |-> what, space |-> w, read |-> space[w], id |-> 0, commit |-> 0, held |-> {}]]
    /\ tangled' = IF With(w) = {} THEN tangled ELSE tangled \union {w}
    /\ UNCHANGED <<history, space, box, taken, bounds>>

start_workspace(t, w)  == _mine(t, w, "start")
stop_workspace(t, w)   == _mine(t, w, "stop")
delete_workspace(t, w) == _mine(t, w, "delete")
read_workspace(t, w)   == _mine(t, w, "refresh")
save_workspace(t, w)   == _mine(t, w, "save")

\* A terminal that is attached is enough for the engine to refuse.
_forget_container(t) ==
    /\ task[t].at \in {"start", "stop", "delete"}
    /\ \/ box' = [box EXCEPT ![Of(t)] = NoBox] /\ UNCHANGED troubles
       \/ box[Of(t)] # NoBox /\ Trouble /\ UNCHANGED box
    /\ To(t, CASE In(t, "start") -> "resolve" [] In(t, "stop") -> "stopped" [] OTHER -> "gone")
    /\ UNCHANGED <<history, space, tangled, taken, work, boxes>>

resolve(t) ==
    /\ In(t, "resolve")
    /\ task' = [task EXCEPT ![t].at = "run", ![t].commit = tip]
    /\ UNCHANGED <<history, space, box, tangled, taken, bounds>>

run_idle(t) ==
    /\ In(t, "run") /\ boxes < MaxBoxes
    /\ IF box[Of(t)] # NoBox THEN To(t, "failed") /\ UNCHANGED <<box, boxes>>
       ELSE /\ boxes' = boxes + 1
            /\ box' = [box EXCEPT ![Of(t)] = [id |-> boxes + 1, holds |-> {}]]
            /\ task' = [task EXCEPT ![t].at = "fill", ![t].id = boxes + 1]
    /\ UNCHANGED <<history, space, tangled, taken, work, troubles>>

\* git.archive leaves out what is not to be exported.  A container that could not
\* be filled stays where it is.
copy_into(t) ==
    /\ In(t, "fill")
    /\ \/ /\ Runs(Of(t), task[t].id)
          /\ box' = [box EXCEPT ![Of(t)].holds = history[task[t].commit] \ Unexported]
          /\ To(t, "started") /\ UNCHANGED troubles
       \/ /\ ~Runs(Of(t), task[t].id)
          /\ To(t, "failed") /\ UNCHANGED <<box, troubles>>
       \/ Trouble /\ To(t, "failed") /\ UNCHANGED box
    /\ UNCHANGED <<history, space, tangled, taken, work, boxes>>

start(t) ==
    /\ In(t, "started") \/ In(t, "failed")
    /\ IF In(t, "started") THEN Write(t, "running", task[t].id, task[t].commit)
       ELSE Write(t, "failed", 0, Read(t).commit)
    /\ Leaves(t) /\ UNCHANGED <<history, box, tangled, taken, bounds>>

stop(t) ==
    /\ In(t, "stopped") /\ Leaves(t) /\ Write(t, "stopped", 0, Read(t).commit)
    /\ UNCHANGED <<history, box, tangled, taken, bounds>>

\* The row goes whether the container did or not.
delete(t) ==
    /\ In(t, "gone") /\ Leaves(t) /\ space' = [space EXCEPT ![Of(t)] = Removed]
    /\ UNCHANGED <<history, box, tangled, taken, bounds>>

refresh(t) ==
    /\ In(t, "refresh") /\ Leaves(t)
    /\ IF Read(t).container = 0 \/ Runs(Of(t), Read(t).container)
       THEN UNCHANGED space
       ELSE Write(t, "stopped", 0, Read(t).commit)
    /\ UNCHANGED <<history, box, tangled, taken, bounds>>

\* read_archive: the regular files in the container the row named.
copy_out(t) ==
    /\ In(t, "save")
    /\ IF ~Runs(Of(t), Read(t).container) THEN Leaves(t)
       ELSE task' = [task EXCEPT ![t].at = "commit", ![t].held = box[Of(t)].holds \ Links]
    /\ UNCHANGED <<history, space, box, tangled, taken, bounds>>

\* Mutant: compared with the branch as it is now.
AgainstTheTip(t) == tip

save_base(t) == Read(t).commit

\* What the container has and the commit has not, and the other way round.
changes(t) == [added   |-> task[t].held \ history[save_base(t)],
               removed |-> history[save_base(t)] \ task[t].held]

\* Only when the branch still stands where the caller saw it.
commit_files(t) ==
    LET found == changes(t) IN
        /\ In(t, "commit")
        /\ IF tip # save_base(t) \/ found.added \union found.removed = {}
           THEN Leaves(t) /\ UNCHANGED history
           ELSE /\ history' = Append(history, (history[tip] \ found.removed) \union found.added)
                /\ task' = [task EXCEPT ![t].at = "saved", ![t].commit = tip + 1]
        /\ UNCHANGED <<space, box, tangled, taken, bounds>>

save(t) ==
    /\ In(t, "saved") /\ Leaves(t)
    /\ Write(t, Read(t).state, Read(t).container, task[t].commit)
    /\ UNCHANGED <<history, box, tangled, taken, bounds>>

\* Somebody works in a terminal on the container the row names.
terminal(w) ==
    /\ Has(w) /\ Runs(w, space[w].container) /\ work < MaxWork /\ work' = work + 1
    /\ box' = [box EXCEPT ![w].holds = @ \union {work + 1}]
    /\ UNCHANGED <<history, space, task, tangled, taken, boxes, troubles>>

\* Somebody else pushes to the branch.
Pushes ==
    /\ work < MaxWork /\ work' = work + 1
    /\ history' = Append(history, history[tip] \union {work + 1})
    /\ UNCHANGED <<space, box, task, tangled, taken, boxes, troubles>>

\* Mutant: the rows are read before the containers are listed.
SweepReadsRowsFirst(t) ==
    /\ \/ In(t, "idle")
          /\ task' = [task EXCEPT ![t] = [at |-> "rows", found |-> {w \in Spaces : ~Has(w)}]]
       \/ In(t, "rows") /\ task' = [task EXCEPT ![t] =
             [at |-> "rm", found |-> {w \in task[t].found : box[w] # NoBox}]]
    /\ UNCHANGED <<history, space, box, tangled, taken, bounds>>

\* sweep: the containers that are there, then the rows that are known.
sweep(t) ==
    /\ \/ In(t, "idle") /\ {w \in Spaces : box[w] # NoBox} # {}
          /\ task' = [task EXCEPT ![t] = [at |-> "rows", found |-> {w \in Spaces : box[w] # NoBox}]]
       \/ In(t, "rows") /\ task' = [task EXCEPT ![t] =
             [at |-> "rm", found |-> {w \in task[t].found : ~Has(w)}]]
    /\ UNCHANGED <<history, space, box, tangled, taken, bounds>>

sweep_removes(t) ==
    /\ In(t, "rm") /\ Leaves(t)
    /\ box' = [w \in Spaces |-> IF w \in task[t].found THEN NoBox ELSE box[w]]
    /\ taken' = taken \union {w \in task[t].found : box[w] # NoBox}
    /\ UNCHANGED <<history, space, tangled, bounds>>

Dies(t) ==
    /\ ~In(t, "idle") /\ Trouble /\ Leaves(t)
    /\ UNCHANGED <<history, space, box, tangled, taken, work, boxes>>

Next ==
    \/ \E w \in Spaces : create(w) \/ terminal(w)
    \/ Pushes
    \/ \E t \in Tasks :
          \/ \E w \in Spaces : \/ start_workspace(t, w) \/ stop_workspace(t, w) \/ delete_workspace(t, w)
                              \/ read_workspace(t, w) \/ save_workspace(t, w)
          \/ _forget_container(t) \/ resolve(t) \/ run_idle(t) \/ copy_into(t) \/ start(t)
          \/ stop(t) \/ delete(t) \/ refresh(t) \/ copy_out(t) \/ commit_files(t) \/ save(t)
          \/ sweep(t) \/ sweep_removes(t) \/ Dies(t)

Spec == Init /\ [][Next]_workspaceVars

-----------------------------------------------------------------------------
(* Rows, containers and commits are of their kind. *)
TypeOK ==
    /\ \A w \in Spaces : Has(w) => space[w] \in WorkspaceRows
    /\ \A w \in Spaces : box[w] # NoBox => /\ box[w].id \in 1..MaxBoxes
                                            /\ box[w].holds \subseteq 1..work
    /\ \A i \in 1..tip : history[i] \subseteq 1..work

(* No save takes a regular file out of the branch that somebody else put there,
   unless two requests changed the workspace at a time (git.commit_files: two
   people cannot quietly overwrite each other).  Links and what .gitattributes
   keeps out of archives it does take out, each time. *)
WorkIsNotUndone == tangled = {} =>
    \A i \in 2..tip : history[i - 1] \ Unarchived \subseteq history[i]

(* A sweep only removes containers of workspaces that were removed, however
   many are created and started while it looks. *)
SweepSparesTheLiving == \A w \in taken : space[w] = Removed
=============================================================================
