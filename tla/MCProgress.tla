----------------------------- MODULE MCProgress -----------------------------
(***************************************************************************)
(* What has to happen in the end: small instances of the message queue,    *)
(* the merge queue and the pipelines, with the fairness each one states.   *)
(* They share no state, so they are checked beside each other: a behaviour *)
(* is of the one scene names, while the other two never begin.             *)
(***************************************************************************)
EXTENDS MessageQueue, TLC

VARIABLE scene

VARIABLES  \* of MergeQueue
    tip, temp, state, target, landed, into, yes, checks, entry, overtaken, said, green,
    line_pc, todo, snap, cur, wTarget, wBase, wCommit, hpc, hReq, hTarget, hBase,
    hCommit, closing, reopening, entering, leaving, line_upsets

VARIABLES  \* of Pipelines
    pstate, jstate, owner, registered, run_pc, job, locked, saw, verdict, victims,
    canceling, unfinished, cancelSaw, passed, lost, run_upsets

\* The second request stands on the branch of the first.
Stacked  == "main" :> {0} @@ "s1" :> {0, 1} @@ "s2" :> {0, 1, 2}
\* A runner of the instance and a runner of one project.
ServedBy == "m1" :> {"p1", "p2"} @@ "m2" :> {"p1"}

lineVars == <<
    tip, temp, state, target, landed, into, yes, checks, entry, overtaken, said, green,
    line_pc, todo, snap, cur, wTarget, wBase, wCommit, hpc, hReq, hTarget, hBase,
    hCommit, closing, reopening, entering, leaving, line_upsets>>

runVars == <<
    pstate, jstate, owner, registered, run_pc, job, locked, saw, verdict, victims,
    canceling, unfinished, cancelSaw, passed, lost, run_upsets>>

L == INSTANCE MergeQueue WITH
      Requests <- {1, 2}, Branches <- {"main", "s1", "s2"}, Projects <- {"p1"},
      Users <- {"alice"}, JobNames <- {}, ProjectOf <- <<"p1", "p1">>,
      Source <- <<"s1", "s2">>, FirstTarget <- <<"main", "s1">>,
      Author <- <<"alice", "alice">>, Protected <- {"main"}, FirstTip <- Stacked,
      Changes <- 0..9, Config <- <<{"jobs"}, {"jobs"}>>, Jobs <- <<{}, {}>>,
      Required <- 0, OwnerGroups <- <<{}, {}>>, MaxEntries <- 2, MaxUpsets <- 1,
      pc <- line_pc, upsets <- line_upsets

P == INSTANCE Pipelines WITH
      AllPipelines <- {"p1", "p2"}, AllJobs <- 1..3, PipelineOf <- <<"p1", "p1", "p2">>,
      Stage <- <<0, 1, 0>>, Runners <- {"m1", "m2"}, Serves <- ServedBy, None <- Nobody,
      MaxUpsets <- 1,
      pc <- run_pc, upsets <- run_upsets

-----------------------------------------------------------------------------
InitScenes == Init /\ L!Init /\ P!Init /\ scene \in {"messages", "line", "pipelines"}

\* Bound: rows are committed in the order of their dates (MergeQueueCore
\* leaves the two apart). It holds up people, whom nobody waits for.
CommittedInOrder == \A p \in entering : \A e \in L!Entries : p[2] < e => entry[e].state = "none"

MessagesMove  == scene = "messages" /\ Next /\ UNCHANGED <<scene, lineVars, runVars>>
LineMove      == scene = "line" /\ L!Next /\ CommittedInOrder' /\ UNCHANGED <<scene, vars, runVars>>
PipelinesMove == scene = "pipelines" /\ P!Next /\ UNCHANGED <<scene, vars, lineVars>>

NextScenes == MessagesMove \/ LineMove \/ PipelinesMove

\* What Fairness of each module asks, of the one that moves.
FairMessages ==
    /\ \A m \in Messages : WF_vars(scene = "messages" /\ TimePasses(m))
    /\ \A c \in Consumers : WF_vars(scene = "messages" /\ (Receiving(c) \/ AckWrites(c)))

FairLine ==
    /\ WF_lineVars(scene = "line" /\ L!Loop)
    /\ \A e \in L!Entries :
          WF_lineVars(scene = "line" /\ L!RunReports(e) /\ entry[e].run = "pending")

FairPipelines == \A r \in {"m1", "m2"} :
    /\ WF_runVars(scene = "pipelines" /\ P!TakeReads(r))
    /\ WF_runVars(scene = "pipelines" /\ P!TakeWrites(r))
    /\ WF_runVars(scene = "pipelines" /\ P!Report(r))
    /\ WF_runVars(scene = "pipelines" /\ P!SettleReads(r))
    /\ SF_runVars(scene = "pipelines" /\ P!SettleWrites(r))

FairScenes ==
    /\ InitScenes /\ [][NextScenes]_<<scene, vars, lineVars, runVars>>
    /\ FairMessages /\ FairLine /\ FairPipelines

-----------------------------------------------------------------------------
(* Nobody stands in line forever (merge_queue.py advance). *)
LineDrains == L!LineDrains

(* A pipeline ends, unless it lost its machines (ci/service.py take_next_job,
   finish_job). *)
RunsEnd == P!RunsEnd
=============================================================================
