----------------------------- MODULE Pipelines ------------------------------
(***************************************************************************)
(* CI: pipelines, the jobs they consist of, and the runners that ask the   *)
(* server for jobs, carry them out and report how they ended, while people *)
(* cancel pipelines and take runners off.                                  *)
(*                                                                         *)
(* A request handler is cut where it has read rows and not yet written     *)
(* them: what it read may be old by then, and the ORM writes an attribute  *)
(* only when it differs from what the handler itself read.  The one lock   *)
(* is FOR UPDATE OF job SKIP LOCKED in take_next_job; it is held until the *)
(* handler commits, and an UPDATE of a locked row waits for it.            *)
(***************************************************************************)
EXTENDS Naturals, FiniteSets

CONSTANTS
    AllPipelines,   \* pipelines that can be started
    AllJobs,        \* their jobs, numbered the way take_next_job orders them
    PipelineOf,     \* the pipeline of a job
    Stage,          \* its stage_order
    Runners,        \* machines that ask for jobs
    Serves,         \* the pipelines whose jobs a runner may be handed
    None,           \* no job, no runner
    MaxUpsets       \* bound: cancels, removals, dead runners and restarts

VARIABLES
    pstate,         \* pipelines.state
    jstate,         \* jobs.state
    owner,          \* jobs.runner_id
    registered,     \* rows of runners
    pc,             \* where a runner's machine and its request stand
    job,            \* the job a runner works on or reports
    locked,         \* job rows its request has locked
    saw,            \* pipeline states its request has read
    verdict,        \* what _settle_pipeline made of the jobs it read
    victims,        \* the pending jobs it read beside a failed one
    canceling,      \* pipelines whose cancel has read and not written
    unfinished,     \* the jobs it found unfinished
    cancelSaw,      \* the pipeline state it read
    passed,         \* history: jobs a runner reported as success
    lost,           \* history: pipelines that lost a runner or a settlement
    upsets

tables  == <<pstate, jstate, owner, registered>>
request == <<pc, job, locked, saw, verdict, victims>>
cancels == <<canceling, unfinished, cancelSaw>>
vars    == <<tables, request, cancels, passed, lost, upsets>>

Finished  == {"success", "failed", "canceled"}
RunStates == {"absent", "pending", "running"} \union Finished
Nothing   == [p \in AllPipelines |-> "absent"]

JobsOf(p) == {j \in AllJobs : PipelineOf[j] = p}

ASSUME PipelineAssumption ==
    /\ AllJobs \subseteq Nat
    /\ PipelineOf \in [AllJobs -> AllPipelines]
    /\ \A p \in AllPipelines : JobsOf(p) # {}
    /\ Stage \in [AllJobs -> Nat]
    /\ Serves \in [Runners -> SUBSET AllPipelines]
    /\ None \notin AllJobs \union Runners
    /\ MaxUpsets \in Nat

-----------------------------------------------------------------------------
Locked == UNION {locked[r] : r \in Runners}

\* Mutant: a stage waits only for failed jobs before it.
NothingFailedBefore(j) == \A k \in AllJobs :
    PipelineOf[k] = PipelineOf[j] /\ Stage[k] < Stage[j] => jstate[k] # "failed"

\* Mutant: a stage waits for itself as well.
OwnStageDone(j) == \A k \in AllJobs :
    PipelineOf[k] = PipelineOf[j] /\ Stage[k] <= Stage[j] => jstate[k] = "success"

\* Everything before this stage has ended well.
EarlierDone(j) == \A k \in AllJobs :
    PipelineOf[k] = PipelineOf[j] /\ Stage[k] < Stage[j] => jstate[k] = "success"

\* Mutant: when all is finished it went well.
VerdictLenient(p) ==
    LET states == {jstate[j] : j \in JobsOf(p)} IN
    IF "failed" \in states THEN "failed"
    ELSE IF states \subseteq Finished THEN "success" ELSE "absent"

\* Mutant: one job that went well is enough.
VerdictAny(p) ==
    LET states == {jstate[j] : j \in JobsOf(p)} IN
    IF "failed" \in states THEN "failed"
    ELSE IF "success" \in states THEN "success"
    ELSE IF states \subseteq Finished THEN "canceled" ELSE "absent"

\* The state the jobs ask for, "absent" while some are not finished.
Verdict(p) ==
    LET states == {jstate[j] : j \in JobsOf(p)} IN
    IF "failed" \in states THEN "failed"
    ELSE IF states = {"success"} THEN "success"
    ELSE IF states \subseteq Finished THEN "canceled" ELSE "absent"

\* Mutant: a failed job leaves the others alone.
VictimsNone(p) == {}

\* A failed job stops the ones that have not started yet.
Victims(p) == {j \in JobsOf(p) : Verdict(p) = "failed" /\ jstate[j] = "pending"}

\* Mutant: rows are read without a lock.
TakeableUnlocked(r) == {j \in AllJobs :
    jstate[j] = "pending" /\ PipelineOf[j] \in Serves[r] /\ pstate[PipelineOf[j]] # "canceled"}

\* What the query of take_next_job returns and locks.
Takeable(r) == {j \in AllJobs \ Locked :
    jstate[j] = "pending" /\ PipelineOf[j] \in Serves[r] /\ pstate[PipelineOf[j]] # "canceled"}

\* The rows of these pipelines, as a request reads them.
Rows(ps) == [p \in AllPipelines |-> IF p \in ps THEN pstate[p] ELSE "absent"]

-----------------------------------------------------------------------------
Init ==
    /\ pstate = Nothing
    /\ jstate = [j \in AllJobs |-> "absent"]
    /\ owner = [j \in AllJobs |-> None] /\ registered = Runners
    /\ pc = [r \in Runners |-> "idle"] /\ job = [r \in Runners |-> None]
    /\ locked = [r \in Runners |-> {}] /\ saw = [r \in Runners |-> Nothing]
    /\ verdict = [r \in Runners |-> "absent"] /\ victims = [r \in Runners |-> {}]
    /\ canceling = {} /\ unfinished = [p \in AllPipelines |-> {}] /\ cancelSaw = Nothing
    /\ passed = {} /\ lost = {} /\ upsets = 0

Upset == upsets < MaxUpsets /\ upsets' = upsets + 1

\* A pipeline and its jobs are inserted in one transaction.
Start(p) ==
    /\ pstate[p] = "absent"
    /\ pstate' = [pstate EXCEPT ![p] = "pending"]
    /\ jstate' = [j \in AllJobs |-> IF PipelineOf[j] = p THEN "pending" ELSE jstate[j]]
    /\ UNCHANGED <<owner, registered, request, cancels, passed, lost, upsets>>

-----------------------------------------------------------------------------
(* A runner asks for a job.                                                *)

TakeReads(r) ==
    /\ pc[r] = "idle" /\ r \in registered
    /\ pc' = [pc EXCEPT ![r] = "taking"]
    /\ locked' = [locked EXCEPT ![r] = Takeable(r)]
    /\ saw' = [saw EXCEPT ![r] = Rows({PipelineOf[j] : j \in Takeable(r)})]
    /\ UNCHANGED <<tables, job, verdict, victims, cancels, passed, lost, upsets>>

\* A runner removed meanwhile makes the commit fail; else the first job whose
\* earlier stages are done is handed out, and the pipeline runs from now on.
TakeWrites(r) ==
    /\ pc[r] = "taking"
    /\ locked' = [locked EXCEPT ![r] = {}] /\ saw' = [saw EXCEPT ![r] = Nothing]
    /\ LET ready == {j \in locked[r] : r \in registered /\ EarlierDone(j)} IN
       \/ /\ ready = {}
          /\ pc' = [pc EXCEPT ![r] = "idle"]
          /\ UNCHANGED <<pstate, jstate, owner, job>>
       \/ \E j \in ready :
          /\ \A k \in ready : j <= k
          /\ jstate' = [jstate EXCEPT ![j] = "running"]
          /\ owner' = [owner EXCEPT ![j] = r]
          /\ pstate' = IF saw[r][PipelineOf[j]] = "pending"
                       THEN [pstate EXCEPT ![PipelineOf[j]] = "running"] ELSE pstate
          /\ pc' = [pc EXCEPT ![r] = "working"] /\ job' = [job EXCEPT ![r] = j]
    /\ UNCHANGED <<registered, verdict, victims, cancels, passed, lost, upsets>>

-----------------------------------------------------------------------------
(* A runner reports how its job ended, and the pipeline is settled.        *)

\* finish_job writes whatever was reported; nobody looks at the old state.
Report(r) ==
    /\ pc[r] = "working" /\ r \in registered /\ owner[job[r]] = r
    /\ pc' = [pc EXCEPT ![r] = "reported"]
    /\ \E ended \in {"success", "failed"} :
       /\ jstate' = [jstate EXCEPT ![job[r]] = ended]
       /\ passed' = IF ended = "success" THEN passed \union {job[r]} ELSE passed
    /\ UNCHANGED <<pstate, owner, registered, job, locked, saw, verdict, victims, cancels,
                   lost, upsets>>

\* The server knows no such runner any more, and the machine moves on.
ReportRefused(r) ==
    /\ pc[r] = "working" /\ (r \notin registered \/ owner[job[r]] # r)
    /\ pc' = [pc EXCEPT ![r] = "idle"] /\ job' = [job EXCEPT ![r] = None]
    /\ UNCHANGED <<tables, locked, saw, verdict, victims, cancels, passed, lost, upsets>>

\* Mutant: the machine still holds what it reported.
SettledStillHolding(r) ==
    /\ pc' = [pc EXCEPT ![r] = "idle"] /\ UNCHANGED job
    /\ saw' = [saw EXCEPT ![r] = Nothing]
    /\ verdict' = [verdict EXCEPT ![r] = "absent"] /\ victims' = [victims EXCEPT ![r] = {}]

Settled(r) ==
    /\ pc' = [pc EXCEPT ![r] = "idle"] /\ job' = [job EXCEPT ![r] = None]
    /\ saw' = [saw EXCEPT ![r] = Nothing]
    /\ verdict' = [verdict EXCEPT ![r] = "absent"] /\ victims' = [victims EXCEPT ![r] = {}]

SettleReads(r) ==
    /\ pc[r] = "reported"
    /\ LET p == PipelineOf[job[r]] IN
       \/ Verdict(p) = "absent" /\ Settled(r)
       \/ /\ Verdict(p) # "absent"
          /\ pc' = [pc EXCEPT ![r] = "settling"]
          /\ saw' = [saw EXCEPT ![r] = Rows({p})]
          /\ verdict' = [verdict EXCEPT ![r] = Verdict(p)]
          /\ victims' = [victims EXCEPT ![r] = Victims(p)]
          /\ UNCHANGED job
    /\ UNCHANGED <<tables, locked, cancels, passed, lost, upsets>>

\* The victims were pending when they were read; by now one may run.
SettleWrites(r) ==
    /\ pc[r] = "settling" /\ victims[r] \intersect Locked = {}
    /\ LET p == PipelineOf[job[r]] IN
       pstate' = IF saw[r][p] # verdict[r] THEN [pstate EXCEPT ![p] = verdict[r]] ELSE pstate
    /\ jstate' = [j \in AllJobs |-> IF j \in victims[r] THEN "canceled" ELSE jstate[j]]
    /\ Settled(r)
    /\ UNCHANGED <<owner, registered, locked, cancels, passed, lost, upsets>>

-----------------------------------------------------------------------------
(* Somebody cancels a pipeline, finished or not.                           *)

CancelReads(p) ==
    /\ pstate[p] # "absent" /\ p \notin canceling
    /\ Upset
    /\ canceling' = canceling \union {p}
    /\ unfinished' = [unfinished EXCEPT ![p] = {j \in JobsOf(p) : jstate[j] \notin Finished}]
    /\ cancelSaw' = [cancelSaw EXCEPT ![p] = pstate[p]]
    /\ UNCHANGED <<tables, request, passed, lost>>

CancelWrites(p) ==
    /\ p \in canceling /\ unfinished[p] \intersect Locked = {}
    /\ canceling' = canceling \ {p}
    /\ unfinished' = [unfinished EXCEPT ![p] = {}]
    /\ cancelSaw' = [cancelSaw EXCEPT ![p] = "absent"]
    /\ jstate' = [j \in AllJobs |-> IF j \in unfinished[p] THEN "canceled" ELSE jstate[j]]
    /\ pstate' = IF cancelSaw[p] # "canceled" THEN [pstate EXCEPT ![p] = "canceled"] ELSE pstate
    /\ UNCHANGED <<owner, registered, request, passed, lost, upsets>>

-----------------------------------------------------------------------------
(* What goes wrong around it.                                              *)

\* A machine is switched off, or its process ends on an HTTP error; nothing
\* ever gives its job to another one.
RunnerDies(r) ==
    /\ pc[r] = "working"
    /\ Upset
    /\ pc' = [pc EXCEPT ![r] = "idle"] /\ job' = [job EXCEPT ![r] = None]
    /\ lost' = lost \union {PipelineOf[job[r]]}
    /\ UNCHANGED <<tables, locked, saw, verdict, victims, cancels, passed>>

\* ON DELETE SET NULL empties runner_id of every job it ever had.
RemoveRunner(r) ==
    /\ r \in registered
    /\ Upset
    /\ registered' = registered \ {r}
    /\ owner' = [j \in AllJobs |-> IF owner[j] = r THEN None ELSE owner[j]]
    /\ lost' = IF pc[r] = "working" THEN lost \union {PipelineOf[job[r]]} ELSE lost
    /\ UNCHANGED <<pstate, jstate, request, cancels, passed>>

Settling == {r \in Runners : pc[r] \in {"reported", "settling"}}

\* The server restarts: requests are gone, their transactions rolled back.
Crash ==
    /\ canceling # {} \/ \E r \in Runners : pc[r] \in {"taking", "reported", "settling"}
    /\ Upset
    /\ pc' = [r \in Runners |-> IF pc[r] = "working" THEN "working" ELSE "idle"]
    /\ job' = [r \in Runners |-> IF pc[r] = "working" THEN job[r] ELSE None]
    /\ locked' = [r \in Runners |-> {}] /\ saw' = [r \in Runners |-> Nothing]
    /\ verdict' = [r \in Runners |-> "absent"] /\ victims' = [r \in Runners |-> {}]
    /\ canceling' = {} /\ unfinished' = [p \in AllPipelines |-> {}] /\ cancelSaw' = Nothing
    /\ lost' = lost \union {PipelineOf[job[r]] : r \in Settling}
    /\ UNCHANGED <<tables, passed>>

-----------------------------------------------------------------------------
Next ==
    \/ \E p \in AllPipelines : Start(p) \/ CancelReads(p) \/ CancelWrites(p)
    \/ \E r \in Runners :
          \/ TakeReads(r) \/ TakeWrites(r)
          \/ Report(r) \/ ReportRefused(r) \/ SettleReads(r) \/ SettleWrites(r)
          \/ RunnerDies(r) \/ RemoveRunner(r)
    \/ Crash

Spec == Init /\ [][Next]_vars

\* A runner polls, its scripts end, and the server answers every request.  An
\* UPDATE that waits for a row gets it in the end: the database queues it.
Fairness == \A r \in Runners :
    /\ WF_vars(TakeReads(r)) /\ WF_vars(TakeWrites(r))
    /\ WF_vars(Report(r)) /\ WF_vars(SettleReads(r))
    /\ SF_vars(SettleWrites(r))

FairSpec == Spec /\ Fairness

-----------------------------------------------------------------------------
(* Correctness.                                                            *)

TypeOK ==
    /\ pstate \in [AllPipelines -> RunStates] /\ jstate \in [AllJobs -> RunStates]
    /\ owner \in [AllJobs -> Runners \union {None}] /\ registered \subseteq Runners
    /\ pc \in [Runners -> {"idle", "taking", "working", "reported", "settling"}]
    /\ job \in [Runners -> AllJobs \union {None}]
    /\ \A r \in Runners : (job[r] = None) <=> pc[r] \in {"idle", "taking"}
    /\ locked \in [Runners -> SUBSET AllJobs]
    /\ saw \in [Runners -> [AllPipelines -> RunStates]]
    /\ verdict \in [Runners -> Finished \union {"absent"}]
    /\ victims \in [Runners -> SUBSET AllJobs]
    /\ canceling \subseteq AllPipelines
    /\ unfinished \in [AllPipelines -> SUBSET AllJobs]
    /\ cancelSaw \in [AllPipelines -> RunStates]
    /\ passed \subseteq AllJobs /\ lost \subseteq AllPipelines
    /\ upsets \in 0..MaxUpsets

(* A job is handed to one machine only, however many ask at once and       *)
(* whatever is canceled, removed or restarted in between.                  *)
OneRunnerPerJob ==
    \A r, s \in Runners : job[r] # None /\ job[r] = job[s] => r = s

(* Two stages of a pipeline are never at work at once, not even when jobs  *)
(* are canceled while a runner still carries them out: when a job is in a  *)
(* runner's hands, everything before it was reported to have ended well.   *)
StagesInOrder ==
    \A r \in Runners : \A j, k \in AllJobs :
        job[r] = j /\ PipelineOf[k] = PipelineOf[j] /\ Stage[k] < Stage[j] => k \in passed

(* A pipeline that is written down as finished has no job left that a      *)
(* runner could still be handed.                                           *)
NothingWaitsWhenFinished ==
    \A j \in AllJobs : pstate[PipelineOf[j]] \in Finished => jstate[j] # "pending"

(* Green is earned: each job of a successful pipeline was once reported to *)
(* have ended well, whatever cancels and late reports crossed each other.  *)
GreenWasEarned ==
    \A j \in AllJobs : pstate[PipelineOf[j]] = "success" => j \in passed

\* A job of the pipeline is in a runner's hands or being settled.
Stirring(p) == \E r \in Runners : job[r] # None /\ PipelineOf[job[r]] = p

\* What somebody who looks at the pipeline can rely on.
Seen == [p \in AllPipelines |->
    CASE pstate[p] = "absent" -> "none"
      [] pstate[p] = "running" -> "pending"
      [] pstate[p] = "canceled" /\ Stirring(p) -> "stopping"
      [] OTHER -> pstate[p]]

Life == INSTANCE RunLife WITH Runs <- AllPipelines, run <- Seen

(* Pipelines keep what RunLife promises to those who wait for a run.       *)
LivesAsPromised == Life!Spec

(* A pipeline ends, unless it lost a machine or the server in the midst of *)
(* a job or no runner is left that may take its jobs.                      *)
RunsEnd == \A p \in AllPipelines :
    (pstate[p] = "pending")
        ~> \/ pstate[p] \in Finished
           \/ p \in lost
           \/ \A r \in registered : p \notin Serves[r]

=============================================================================
