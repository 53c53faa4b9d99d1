--------------------------- MODULE PipelinesProofs ---------------------------
(* Proofs about Pipelines for any number of pipelines, jobs, stages and    *)
(* runners, and any number of cancels, lost machines and restarts.         *)
EXTENDS Pipelines, TLAPS

-----------------------------------------------------------------------------
(* Types.                                                                  *)

LEMMA UpsetTyped ==
  ASSUME TypeOK, Upset
  PROVE  upsets' \in 0..MaxUpsets
  BY PipelineAssumption DEF TypeOK, Upset, PipelineAssumption

LEMMA VerdictTyped ==
  ASSUME NEW p \in AllPipelines
  PROVE  Verdict(p) \in Finished \union {"absent"} /\ Victims(p) \subseteq AllJobs
  BY DEF Verdict, Victims, Finished, JobsOf

LEMMA RowsTyped ==
  ASSUME TypeOK, NEW ps
  PROVE  Rows(ps) \in [AllPipelines -> RunStates]
  BY DEF Rows, TypeOK, RunStates

LEMMA NothingTyped == Nothing \in [AllPipelines -> RunStates]
  BY DEF Nothing, RunStates

LEMMA SettledTyped ==
  ASSUME TypeOK, NEW r \in Runners, Settled(r)
  PROVE  /\ pc' \in [Runners -> {"idle", "taking", "working", "reported", "settling"}]
         /\ job' \in [Runners -> AllJobs \union {None}]
         /\ \A s \in Runners : (job'[s] = None) <=> pc'[s] \in {"idle", "taking"}
         /\ saw' \in [Runners -> [AllPipelines -> RunStates]]
         /\ verdict' \in [Runners -> Finished \union {"absent"}]
         /\ victims' \in [Runners -> SUBSET AllJobs]
  BY NothingTyped DEF TypeOK, Settled

LEMMA TypeInit == Init => TypeOK
  BY NothingTyped, PipelineAssumption DEF Init, TypeOK, PipelineAssumption, RunStates

LEMMA JobTypes ==
  ASSUME TypeOK
  PROVE  /\ None \notin AllJobs /\ PipelineOf \in [AllJobs -> AllPipelines]
         /\ \A r \in Runners : job[r] # None => job[r] \in AllJobs /\ PipelineOf[job[r]] \in AllPipelines
         /\ \A r \in Runners : pc[r] \in {"working", "reported", "settling"} <=> job[r] # None
  BY PipelineAssumption DEF PipelineAssumption, TypeOK

LEMMA TypeNext == TypeOK /\ [Next]_vars => TypeOK'
<1> SUFFICES ASSUME TypeOK, [Next]_vars PROVE TypeOK'
  OBVIOUS
<1> USE DEF TypeOK, tables, request, cancels
<1>0. None \notin AllJobs /\ PipelineOf \in [AllJobs -> AllPipelines]
  BY PipelineAssumption DEF PipelineAssumption
<1>1. ASSUME NEW p \in AllPipelines, Start(p) PROVE TypeOK'
  BY <1>1 DEF Start, RunStates
<1>2. ASSUME NEW p \in AllPipelines, CancelReads(p) PROVE TypeOK'
  BY <1>2, UpsetTyped DEF CancelReads, JobsOf
<1>3. ASSUME NEW p \in AllPipelines, CancelWrites(p) PROVE TypeOK'
  BY <1>3 DEF CancelWrites, RunStates, Finished
<1>4. ASSUME NEW r \in Runners, TakeReads(r) PROVE TypeOK'
  BY <1>4, RowsTyped DEF TakeReads, Takeable
<1>5. ASSUME NEW r \in Runners, TakeWrites(r) PROVE TypeOK'
  <2>1. locked' \in [Runners -> SUBSET AllJobs] /\ saw' \in [Runners -> [AllPipelines -> RunStates]]
    BY <1>5, NothingTyped DEF TakeWrites
  <2>2. CASE UNCHANGED <<pstate, jstate, owner, job>> /\ pc' = [pc EXCEPT ![r] = "idle"]
    BY <1>5, <2>1, <2>2 DEF TakeWrites
  <2>3. ASSUME NEW j \in locked[r],
               jstate' = [jstate EXCEPT ![j] = "running"],
               owner' = [owner EXCEPT ![j] = r],
               pstate' = IF saw[r][PipelineOf[j]] = "pending"
                         THEN [pstate EXCEPT ![PipelineOf[j]] = "running"] ELSE pstate,
               pc' = [pc EXCEPT ![r] = "working"], job' = [job EXCEPT ![r] = j]
        PROVE  TypeOK'
    <3>1. j \in AllJobs /\ PipelineOf[j] \in AllPipelines /\ "running" \in RunStates
      BY <1>0 DEF RunStates
    <3>2. pstate' \in [AllPipelines -> RunStates] /\ jstate' \in [AllJobs -> RunStates]
      BY <2>3, <3>1
    <3>3. /\ pc' \in [Runners -> {"idle", "taking", "working", "reported", "settling"}]
          /\ job' \in [Runners -> AllJobs \union {None}]
          /\ \A s \in Runners : (job'[s] = None) <=> pc'[s] \in {"idle", "taking"}
      BY <2>3, <3>1, <1>0
    <3> QED
      BY <1>5, <2>1, <2>3, <3>1, <3>2, <3>3 DEF TakeWrites
  <2> QED
    BY <1>5, <2>2, <2>3 DEF TakeWrites
<1>6. ASSUME NEW r \in Runners, Report(r) PROVE TypeOK'
  BY <1>6 DEF Report, RunStates, Finished
<1>7. ASSUME NEW r \in Runners, ReportRefused(r) PROVE TypeOK'
  BY <1>7 DEF ReportRefused
<1>8. ASSUME NEW r \in Runners, SettleReads(r) PROVE TypeOK'
  <2>1. job[r] \in AllJobs /\ PipelineOf[job[r]] \in AllPipelines
    BY <1>8, JobTypes DEF SettleReads
  <2>2. CASE Settled(r)
    BY <1>8, <2>2, SettledTyped DEF SettleReads
  <2>3. CASE ~Settled(r)
    <3> DEFINE p == PipelineOf[job[r]]
    <3>1. /\ pc[r] = "reported" /\ pc' = [pc EXCEPT ![r] = "settling"] /\ UNCHANGED job
          /\ saw' = [saw EXCEPT ![r] = Rows({p})]
          /\ verdict' = [verdict EXCEPT ![r] = Verdict(p)]
          /\ victims' = [victims EXCEPT ![r] = Victims(p)]
      BY <1>8, <2>3 DEF SettleReads
    <3>2. Verdict(p) \in Finished \union {"absent"} /\ Victims(p) \subseteq AllJobs
      BY <2>1, VerdictTyped
    <3>5. Rows({p}) \in [AllPipelines -> RunStates]
      BY RowsTyped
    <3> HIDE DEF p
    <3>3. /\ pc' \in [Runners -> {"idle", "taking", "working", "reported", "settling"}]
          /\ \A s \in Runners : (job'[s] = None) <=> pc'[s] \in {"idle", "taking"}
      BY <3>1
    <3>4. /\ saw' \in [Runners -> [AllPipelines -> RunStates]]
          /\ verdict' \in [Runners -> Finished \union {"absent"}]
          /\ victims' \in [Runners -> SUBSET AllJobs]
      BY <3>1, <3>2, <3>5
    <3> QED
      BY <1>8, <3>1, <3>3, <3>4 DEF SettleReads
  <2> QED
    BY <2>2, <2>3
<1>9. ASSUME NEW r \in Runners, SettleWrites(r) PROVE TypeOK'
  <2>1. job[r] \in AllJobs /\ PipelineOf[job[r]] \in AllPipelines
    BY <1>9, <1>0 DEF SettleWrites
  <2>2. pstate' \in [AllPipelines -> RunStates] /\ jstate' \in [AllJobs -> RunStates]
    BY <1>9, <2>1 DEF SettleWrites, RunStates, Finished
  <2> QED
    BY <1>9, <2>2, SettledTyped DEF SettleWrites
<1>10. ASSUME NEW r \in Runners, RunnerDies(r) PROVE TypeOK'
  BY <1>10, <1>0, UpsetTyped DEF RunnerDies
<1>11. ASSUME NEW r \in Runners, RemoveRunner(r) PROVE TypeOK'
  BY <1>11, <1>0, UpsetTyped DEF RemoveRunner
<1>12. CASE Crash
  <2>1. \A r \in Settling : job[r] \in AllJobs
    BY DEF Settling
  <2>2. lost' \subseteq AllPipelines
    BY <1>12, <2>1, <1>0 DEF Crash, Settling
  <2>3. /\ pc' \in [Runners -> {"idle", "taking", "working", "reported", "settling"}]
        /\ job' \in [Runners -> AllJobs \union {None}]
        /\ \A s \in Runners : (job'[s] = None) <=> pc'[s] \in {"idle", "taking"}
    BY <1>12 DEF Crash
  <2> QED
    BY <1>12, <2>2, <2>3, NothingTyped, UpsetTyped DEF Crash, Finished
<1>13. CASE UNCHANGED vars
  BY <1>13 DEF vars
<1> QED
  BY <1>1, <1>2, <1>3, <1>4, <1>5, <1>6, <1>7, <1>8, <1>9, <1>10, <1>11, <1>12, <1>13 DEF Next

(* Every reachable state is well formed, for every value of the constants. *)
THEOREM TypeCorrect == Spec => []TypeOK
  BY TypeInit, TypeNext, PTL DEF Spec

-----------------------------------------------------------------------------
(* What makes the safety properties inductive.                             *)

\* Somebody was handed the job, or it was written off: it waits no more.
Begun(j) == jstate[j] \notin {"absent", "pending"}

\* The job was not reported to have ended well, and nobody is at it any more.
Flunked(j) ==
    /\ j \notin passed /\ Begun(j)
    /\ \A r \in Runners : pc[r] = "working" => job[r] # j

(* A pipeline and its jobs are inserted together.                          *)
StartedAtOnce ==
    \A j \in AllJobs : (jstate[j] = "absent") <=> (pstate[PipelineOf[j]] = "absent")

(* What a runner holds or has reported does not wait any more.             *)
HeldHasBegun ==
    /\ \A r \in Runners : job[r] # None => Begun(job[r])
    /\ \A j \in passed : Begun(j)

(* What handlers carry between their reads and their writes is of rows     *)
(* that exist.                                                             *)
CopiesExist ==
    /\ \A r \in Runners : pc[r] = "settling" => verdict[r] # "absent"
    /\ \A r \in Runners : \A j \in victims[r] : jstate[j] # "absent"
    /\ \A p \in AllPipelines : \A j \in unfinished[p] : jstate[j] # "absent"
    /\ \A p \in canceling : pstate[p] # "absent"

(* A locked job waits, and one request has locked it.                      *)
Locks ==
    /\ \A r \in Runners : \A j \in locked[r] : jstate[j] = "pending"
    /\ \A r, s \in Runners : \A j \in AllJobs : j \in locked[r] /\ j \in locked[s] => r = s

(* A verdict of success was read off jobs that were all reported as such.  *)
Earned ==
    /\ \A j \in AllJobs : jstate[j] = "success" => j \in passed
    /\ \A r \in Runners : pc[r] = "settling" /\ verdict[r] = "success"
          => \A j \in JobsOf(PipelineOf[job[r]]) : j \in passed

(* Who is about to write a pipeline down as finished knows every job of it *)
(* that still waits, and will write it off too.                            *)
WaitingIsKnown ==
    /\ \A r \in Runners : pc[r] = "settling" =>
          \A j \in JobsOf(PipelineOf[job[r]]) : jstate[j] = "pending" => j \in victims[r]
    /\ \A p \in canceling : \A j \in JobsOf(p) : jstate[j] = "pending" => j \in unfinished[p]

(* Behind every failure stands a job that will never be reported to have   *)
(* ended well.                                                             *)
FailuresStay ==
    /\ \A r \in Runners : pc[r] = "working" => job[r] \notin passed
    /\ \A j \in AllJobs : jstate[j] = "failed" => Flunked(j)
    /\ \A r \in Runners : pc[r] = "settling" /\ verdict[r] = "failed"
          => \E j \in JobsOf(PipelineOf[job[r]]) : Flunked(j)
    /\ \A p \in AllPipelines : pstate[p] = "failed" => \E j \in JobsOf(p) : Flunked(j)

Inv ==
    /\ TypeOK /\ StartedAtOnce /\ HeldHasBegun /\ CopiesExist /\ Locks
    /\ OneRunnerPerJob /\ StagesInOrder
    /\ Earned /\ GreenWasEarned /\ WaitingIsKnown /\ NothingWaitsWhenFinished
    /\ FailuresStay

LEMMA InvInit == Init => Inv
<1> SUFFICES ASSUME Init PROVE Inv
  OBVIOUS
<1>1. TypeOK
  BY TypeInit
<1>2. PipelineOf \in [AllJobs -> AllPipelines]
  BY PipelineAssumption DEF PipelineAssumption
<1>3. StartedAtOnce /\ HeldHasBegun /\ CopiesExist /\ Locks
  BY <1>2 DEF Init, StartedAtOnce, HeldHasBegun, CopiesExist, Locks, Nothing
<1>4. OneRunnerPerJob /\ StagesInOrder
  BY PipelineAssumption DEF Init, OneRunnerPerJob, StagesInOrder, PipelineAssumption
<1>5. Earned /\ GreenWasEarned /\ WaitingIsKnown /\ NothingWaitsWhenFinished
  BY <1>2 DEF Init, Earned, GreenWasEarned, WaitingIsKnown, NothingWaitsWhenFinished, Nothing, Finished
<1>6. FailuresStay
  BY DEF Init, FailuresStay, Nothing
<1> QED
  BY <1>1, <1>3, <1>4, <1>5, <1>6 DEF Inv

-----------------------------------------------------------------------------
(* How rows of jobs move.                                                  *)

(* A job that does not wait any more never waits again, and none vanishes. *)
LEMMA NobodyWaitsAgain ==
  ASSUME Inv, [Next]_vars, NEW j \in AllJobs
  PROVE  /\ Begun(j) => Begun(j)'
         /\ jstate[j] # "absent" => jstate'[j] # "absent"
         /\ jstate'[j] = "pending" => jstate[j] \in {"absent", "pending"}
<1> USE DEF Inv, TypeOK, Begun
<1>1. ASSUME NEW p \in AllPipelines, Start(p) PROVE PipelineOf[j] = p => jstate[j] = "absent"
  BY <1>1 DEF Start, StartedAtOnce
<1>2. ASSUME NEW p \in AllPipelines, Start(p)
      PROVE  jstate'[j] = IF PipelineOf[j] = p THEN "pending" ELSE jstate[j]
  BY <1>2 DEF Start
<1>3. ASSUME NEW p \in AllPipelines, CancelReads(p) \/ CancelWrites(p)
      PROVE  jstate'[j] \in {jstate[j], "canceled"}
  BY <1>3 DEF CancelReads, CancelWrites, tables
<1>4. ASSUME NEW r \in Runners, TakeReads(r) \/ ReportRefused(r) \/ SettleReads(r) \/ RunnerDies(r)
                                 \/ RemoveRunner(r)
      PROVE  jstate'[j] = jstate[j]
  BY <1>4 DEF TakeReads, ReportRefused, SettleReads, RunnerDies, RemoveRunner, tables
<1>5. ASSUME NEW r \in Runners, TakeWrites(r) PROVE jstate'[j] \in {jstate[j], "running"}
  BY <1>5 DEF TakeWrites
<1>6. ASSUME NEW r \in Runners, Report(r) PROVE jstate'[j] \in {jstate[j], "success", "failed"}
  BY <1>6 DEF Report
<1>7. ASSUME NEW r \in Runners, SettleWrites(r) PROVE jstate'[j] \in {jstate[j], "canceled"}
  BY <1>7 DEF SettleWrites
<1>8. Crash \/ UNCHANGED vars => jstate'[j] = jstate[j]
  BY DEF Crash, vars, tables
<1> HIDE DEF Inv, TypeOK
<1> QED
  BY <1>1, <1>2, <1>3, <1>4, <1>5, <1>6, <1>7, <1>8 DEF Next

\* Nothing of the kind that writes rows of pipelines or jobs.
Looks == \/ \E p \in AllPipelines : CancelReads(p)
         \/ \E r \in Runners : \/ TakeReads(r) \/ ReportRefused(r) \/ SettleReads(r)
                                \/ RunnerDies(r) \/ RemoveRunner(r)
         \/ Crash \/ UNCHANGED vars

LEMMA LooksWriteNothing == Looks => UNCHANGED <<pstate, jstate, passed>>
  BY DEF Looks, CancelReads, TakeReads, ReportRefused, SettleReads, RunnerDies, RemoveRunner,
         Crash, vars, tables

LEMMA NextCases ==
  ASSUME [Next]_vars
  PROVE  \/ Looks
         \/ \E p \in AllPipelines : Start(p) \/ CancelWrites(p)
         \/ \E r \in Runners : TakeWrites(r) \/ Report(r) \/ SettleWrites(r)
  BY DEF Next, Looks

LEMMA PassedGrows ==
  ASSUME [Next]_vars
  PROVE  passed \subseteq passed'
<1>1. Looks => passed' = passed
  BY LooksWriteNothing
<1> QED
  BY <1>1, NextCases DEF Start, CancelWrites, TakeWrites, Report, SettleWrites

(* What the five writers do to the row of one job and of one pipeline.     *)
LEMMA TakeHands ==
  ASSUME Inv, NEW r \in Runners, TakeWrites(r)
  PROVE  \/ UNCHANGED <<pstate, jstate, job>> /\ pc' = [pc EXCEPT ![r] = "idle"]
         \/ \E j \in locked[r] :
              /\ j \in AllJobs /\ jstate[j] = "pending" /\ EarlierDone(j)
              /\ pstate[PipelineOf[j]] \notin Finished \union {"absent"}
              /\ jstate' = [jstate EXCEPT ![j] = "running"]
              /\ pstate' = pstate \/ pstate' = [pstate EXCEPT ![PipelineOf[j]] = "running"]
              /\ pc' = [pc EXCEPT ![r] = "working"] /\ job' = [job EXCEPT ![r] = j]
<1>1. \A j \in locked[r] : /\ j \in AllJobs /\ jstate[j] = "pending"
                           /\ pstate[PipelineOf[j]] \notin Finished \union {"absent"}
  BY DEF Inv, TypeOK, Locks, NothingWaitsWhenFinished, StartedAtOnce
<1> QED
  BY <1>1 DEF TakeWrites

LEMMA StartedAtOnceNext == Inv /\ [Next]_vars => StartedAtOnce'
<1> SUFFICES ASSUME Inv, [Next]_vars PROVE StartedAtOnce'
  OBVIOUS
<1>0. TypeOK /\ StartedAtOnce /\ PipelineOf \in [AllJobs -> AllPipelines]
  BY JobTypes DEF Inv
<1>1. CASE Looks
  BY <1>0, <1>1, LooksWriteNothing DEF StartedAtOnce
<1>2. ASSUME NEW p \in AllPipelines, Start(p) PROVE StartedAtOnce'
  BY <1>0, <1>2 DEF Start, StartedAtOnce, TypeOK
<1>3. ASSUME NEW p \in AllPipelines, CancelWrites(p) PROVE StartedAtOnce'
  <2>1. pstate[p] # "absent" /\ \A j \in unfinished[p] : jstate[j] # "absent"
    BY <1>3 DEF Inv, CopiesExist, CancelWrites
  <2> QED
    BY <1>0, <1>3, <2>1 DEF CancelWrites, StartedAtOnce, TypeOK
<1>4. ASSUME NEW r \in Runners, TakeWrites(r) PROVE StartedAtOnce'
  BY <1>0, <1>4, TakeHands DEF StartedAtOnce, TypeOK
<1>5. ASSUME NEW r \in Runners, Report(r) PROVE StartedAtOnce'
  <2>1. job[r] \in AllJobs /\ jstate[job[r]] # "absent"
    BY <1>5, JobTypes DEF Inv, HeldHasBegun, Begun, Report
  <2> QED
    BY <1>0, <1>5, <2>1 DEF Report, StartedAtOnce, TypeOK
<1>6. ASSUME NEW r \in Runners, SettleWrites(r) PROVE StartedAtOnce'
  <2>1. job[r] \in AllJobs /\ jstate[job[r]] # "absent"
    BY <1>6, JobTypes DEF Inv, HeldHasBegun, Begun, SettleWrites
  <2>2. pstate[PipelineOf[job[r]]] # "absent" /\ verdict[r] # "absent"
        /\ \A j \in victims[r] : jstate[j] # "absent"
    BY <1>6, <1>0, <2>1 DEF Inv, CopiesExist, StartedAtOnce, SettleWrites
  <2> QED
    BY <1>0, <1>6, <2>1, <2>2 DEF SettleWrites, StartedAtOnce, TypeOK
<1> QED
  BY <1>1, <1>2, <1>3, <1>4, <1>5, <1>6, NextCases

(* A runner holds what it held, or what its request has just taken.        *)
LEMMA HandsMove ==
  ASSUME Inv, [Next]_vars, NEW s \in Runners, job'[s] # None
  PROVE  \/ job'[s] = job[s] /\ (pc'[s] = "working" => pc[s] = "working")
         \/ /\ TakeWrites(s) /\ pc'[s] = "working"
            /\ job'[s] \in locked[s] /\ job'[s] \in AllJobs /\ EarlierDone(job'[s])
            /\ jstate' = [jstate EXCEPT ![job'[s]] = "running"]
<1>0. TypeOK
  BY DEF Inv
<1> DEFINE Kept == job'[s] = job[s] /\ (pc'[s] = "working" => pc[s] = "working")
<1>1. CASE Looks
  <2>1. ASSUME NEW r \in Runners, ReportRefused(r) \/ SettleReads(r) \/ RunnerDies(r) PROVE Kept
    BY <1>0, <2>1 DEF ReportRefused, SettleReads, Settled, RunnerDies, TypeOK
  <2>2. ASSUME NEW r \in Runners, TakeReads(r) \/ RemoveRunner(r) PROVE Kept
    BY <1>0, <2>2 DEF TakeReads, RemoveRunner, request, TypeOK
  <2>3. (\E p \in AllPipelines : CancelReads(p)) \/ UNCHANGED vars => Kept
    BY DEF CancelReads, vars, request
  <2>4. Crash => Kept
    BY <1>0 DEF Crash, TypeOK
  <2> QED
    BY <1>1, <2>1, <2>2, <2>3, <2>4 DEF Looks
<1>2. ASSUME NEW p \in AllPipelines, Start(p) \/ CancelWrites(p) PROVE Kept
  BY <1>2 DEF Start, CancelWrites, request
<1>3. ASSUME NEW r \in Runners, TakeWrites(r), ~Kept
      PROVE  /\ TakeWrites(s) /\ pc'[s] = "working"
             /\ job'[s] \in locked[s] /\ job'[s] \in AllJobs /\ EarlierDone(job'[s])
             /\ jstate' = [jstate EXCEPT ![job'[s]] = "running"]
  <2>1. CASE UNCHANGED job /\ pc' = [pc EXCEPT ![r] = "idle"]
    BY <1>0, <1>3, <2>1 DEF TypeOK
  <2>2. ASSUME NEW j \in locked[r], j \in AllJobs, EarlierDone(j), jstate' = [jstate EXCEPT ![j] = "running"],
               job' = [job EXCEPT ![r] = j], pc' = [pc EXCEPT ![r] = "working"]
        PROVE  /\ s = r /\ pc'[s] = "working" /\ job'[s] = j
    BY <1>0, <1>3, <2>2 DEF TypeOK
  <2> QED
    BY <1>3, <2>1, <2>2, TakeHands
<1>4. ASSUME NEW r \in Runners, Report(r) \/ SettleWrites(r) PROVE Kept
  BY <1>0, <1>4 DEF Report, SettleWrites, Settled, TypeOK
<1> QED
  BY <1>1, <1>2, <1>3, <1>4, NextCases

LEMMA HeldHasBegunNext == Inv /\ [Next]_vars => HeldHasBegun'
<1> SUFFICES ASSUME Inv, [Next]_vars PROVE HeldHasBegun'
  OBVIOUS
<1>0. TypeOK /\ HeldHasBegun /\ TypeOK'
  BY TypeNext DEF Inv
<1>1. ASSUME NEW s \in Runners, job'[s] # None PROVE job'[s] = job[s] \/ jstate'[job'[s]] = "running"
  BY <1>0, <1>1, HandsMove DEF TypeOK
<1>2. \A s \in Runners : job'[s] # None => jstate'[job'[s]] \notin {"absent", "pending"}
  <2> SUFFICES ASSUME NEW s \in Runners, job'[s] # None PROVE jstate'[job'[s]] \notin {"absent", "pending"}
    OBVIOUS
  <2>1. job'[s] \in AllJobs
    BY <1>0 DEF TypeOK
  <2>2. CASE job'[s] = job[s]
    <3>1. job[s] \in AllJobs /\ Begun(job[s])
      BY <1>0, <2>1, <2>2, JobTypes DEF HeldHasBegun
    <3>2. Begun(job[s]) => jstate'[job[s]] \notin {"absent", "pending"}
      BY <3>1, NobodyWaitsAgain DEF Begun
    <3> QED
      BY <3>1, <3>2, <2>2 DEF Begun
  <2> QED
    BY <1>1, <2>1, <2>2 DEF Begun
<1>3. \A j \in passed' : j \in passed \/ jstate'[j] = "success"
  <2>1. Looks => passed' = passed
    BY LooksWriteNothing
  <2>2. \A p \in AllPipelines : Start(p) \/ CancelWrites(p) => passed' = passed
    BY DEF Start, CancelWrites
  <2>3. \A r \in Runners : TakeWrites(r) \/ SettleWrites(r) => passed' = passed
    BY DEF TakeWrites, SettleWrites
  <2>4. ASSUME NEW r \in Runners, Report(r) PROVE \A j \in passed' : j \in passed \/ jstate'[j] = "success"
    <3>1. job[r] \in AllJobs
      BY <2>4, JobTypes, <1>0 DEF Report
    <3> QED
      BY <2>4, <3>1, <1>0 DEF Report, TypeOK
  <2> QED
    BY <2>1, <2>2, <2>3, <2>4, NextCases
<1>4. \A j \in passed' : jstate'[j] \notin {"absent", "pending"}
  <2> SUFFICES ASSUME NEW j \in passed', j \in passed PROVE jstate'[j] \notin {"absent", "pending"}
    BY <1>3
  <2>1. j \in AllJobs /\ Begun(j)
    BY <1>0 DEF HeldHasBegun, TypeOK
  <2> QED
    BY <2>1, NobodyWaitsAgain DEF Begun
<1> QED
  BY <1>2, <1>4 DEF HeldHasBegun, Begun

(* A settlement writes what it read, or has just read it.                  *)
LEMMA SettlingMoves ==
  ASSUME Inv, [Next]_vars, NEW s \in Runners, pc'[s] = "settling"
  PROVE  /\ job[s] # None /\ job[s] \in AllJobs /\ job'[s] = job[s]
         /\ \/ pc[s] = "settling" /\ verdict'[s] = verdict[s] /\ victims'[s] = victims[s]
            \/ LET p == PipelineOf[job[s]] IN
               /\ SettleReads(s) /\ Verdict(p) # "absent"
               /\ verdict'[s] = Verdict(p) /\ victims'[s] = Victims(p)
<1>0. TypeOK
  BY DEF Inv
<1> DEFINE Kept == /\ pc[s] = "settling" /\ job'[s] = job[s]
                   /\ verdict'[s] = verdict[s] /\ victims'[s] = victims[s]
<1>1. ASSUME NEW p \in AllPipelines, Start(p) \/ CancelReads(p) \/ CancelWrites(p) PROVE Kept
  BY <1>1 DEF Start, CancelReads, CancelWrites, request
<1>2. ASSUME NEW r \in Runners, TakeReads(r) \/ RemoveRunner(r) PROVE Kept
  BY <1>0, <1>2 DEF TakeReads, RemoveRunner, request, TypeOK
<1>3. ASSUME NEW r \in Runners, TakeWrites(r) PROVE Kept
  BY <1>0, <1>3 DEF TakeWrites, TypeOK
<1>4. ASSUME NEW r \in Runners, Report(r) \/ ReportRefused(r) \/ RunnerDies(r) PROVE Kept
  BY <1>0, <1>4 DEF Report, ReportRefused, RunnerDies, TypeOK
<1>5. ASSUME NEW r \in Runners, SettleWrites(r) PROVE Kept
  BY <1>0, <1>5 DEF SettleWrites, Settled, TypeOK
<1>6. ASSUME NEW r \in Runners, SettleReads(r), ~Kept
      PROVE  LET p == PipelineOf[job[s]] IN
               /\ SettleReads(s) /\ Verdict(p) # "absent" /\ job'[s] = job[s]
               /\ verdict'[s] = Verdict(p) /\ victims'[s] = Victims(p)
  <2>1. CASE Settled(r)
    BY <1>0, <1>6, <2>1 DEF SettleReads, Settled, TypeOK
  <2>2. CASE ~Settled(r)
    <3>1. s = r
      BY <1>0, <1>6, <2>2 DEF SettleReads, TypeOK
    <3> QED
      BY <1>0, <1>6, <2>2, <3>1 DEF SettleReads, TypeOK
  <2> QED
    BY <2>1, <2>2
<1>7. Crash \/ UNCHANGED vars => Kept
  BY <1>0 DEF Crash, vars, request, TypeOK
<1>8. \/ Kept
      \/ LET p == PipelineOf[job[s]] IN
               /\ SettleReads(s) /\ Verdict(p) # "absent" /\ job'[s] = job[s]
               /\ verdict'[s] = Verdict(p) /\ victims'[s] = Victims(p)
  BY <1>1, <1>2, <1>3, <1>4, <1>5, <1>6, <1>7 DEF Next
<1>9. pc[s] \in {"reported", "settling"}
  BY <1>8 DEF SettleReads
<1> QED
  BY <1>0, <1>8, <1>9, JobTypes

(* A cancel writes what it read, or has just read it.                      *)
LEMMA CancelMoves ==
  ASSUME TypeOK, [Next]_vars, NEW p \in AllPipelines
  PROVE  \/ unfinished'[p] = {} /\ p \notin canceling'
         \/ unfinished'[p] = unfinished[p] /\ (p \in canceling' <=> p \in canceling)
         \/ CancelReads(p) /\ unfinished'[p] = {j \in JobsOf(p) : jstate[j] \notin Finished}
<1>1. ASSUME NEW q \in AllPipelines, CancelReads(q)
      PROVE  \/ unfinished'[p] = unfinished[p] /\ (p \in canceling' <=> p \in canceling)
             \/ CancelReads(p) /\ unfinished'[p] = {j \in JobsOf(p) : jstate[j] \notin Finished}
  BY <1>1 DEF CancelReads, TypeOK
<1>2. ASSUME NEW q \in AllPipelines, CancelWrites(q)
      PROVE  \/ unfinished'[p] = {} /\ p \notin canceling'
             \/ unfinished'[p] = unfinished[p] /\ (p \in canceling' <=> p \in canceling)
  BY <1>2 DEF CancelWrites, TypeOK
<1>3. Crash => unfinished'[p] = {} /\ p \notin canceling'
  BY DEF Crash
<1>4. ASSUME NEW r \in Runners, TakeReads(r) \/ TakeWrites(r) \/ Report(r) \/ ReportRefused(r)
              \/ SettleReads(r) \/ SettleWrites(r) \/ RunnerDies(r) \/ RemoveRunner(r)
      PROVE  UNCHANGED cancels
  BY <1>4 DEF TakeReads, TakeWrites, Report, ReportRefused, SettleReads, SettleWrites, RunnerDies,
              RemoveRunner
<1>5. (\E q \in AllPipelines : Start(q)) \/ UNCHANGED vars => UNCHANGED cancels
  BY DEF Start, vars
<1> QED
  BY <1>1, <1>2, <1>3, <1>4, <1>5 DEF Next, cancels

LEMMA CopiesExistNext == Inv /\ [Next]_vars => CopiesExist'
<1> SUFFICES ASSUME Inv, [Next]_vars PROVE CopiesExist'
  OBVIOUS
<1>0. TypeOK /\ TypeOK' /\ CopiesExist /\ StartedAtOnce /\ StartedAtOnce'
  BY TypeNext, StartedAtOnceNext DEF Inv
<1>1. \A s \in Runners : pc'[s] = "settling" => verdict'[s] # "absent"
  BY <1>0, SettlingMoves DEF CopiesExist
<1>2. ASSUME NEW s \in Runners PROVE victims'[s] = victims[s] \/ victims'[s] = {}
                                     \/ \A j \in victims'[s] : jstate[j] = "pending"
  <2>1. ASSUME NEW r \in Runners, SettleReads(r) PROVE victims'[s] = victims[s] \/ victims'[s] = {}
                                     \/ \A j \in victims'[s] : jstate[j] = "pending"
    BY <1>0, <2>1 DEF SettleReads, Settled, Victims, TypeOK
  <2>2. ASSUME NEW r \in Runners, SettleWrites(r) PROVE victims'[s] = victims[s] \/ victims'[s] = {}
    BY <1>0, <2>2 DEF SettleWrites, Settled, TypeOK
  <2>3. Crash => victims'[s] = {}
    BY DEF Crash
  <2>4. ASSUME NEW r \in Runners, TakeReads(r) \/ TakeWrites(r) \/ Report(r) \/ ReportRefused(r)
                                 \/ RunnerDies(r) \/ RemoveRunner(r)
        PROVE  UNCHANGED victims
    BY <2>4 DEF TakeReads, TakeWrites, Report, ReportRefused, RunnerDies, RemoveRunner, request
  <2>5. (\E p \in AllPipelines : Start(p) \/ CancelReads(p) \/ CancelWrites(p)) \/ UNCHANGED vars
        => UNCHANGED victims
    BY DEF Start, CancelReads, CancelWrites, vars, request
  <2> QED
    BY <2>1, <2>2, <2>3, <2>4, <2>5 DEF Next
<1>3. ASSUME NEW s \in Runners, NEW j \in victims'[s] PROVE jstate'[j] # "absent"
  <2>1. j \in AllJobs /\ jstate[j] # "absent"
    BY <1>0, <1>2, <1>3 DEF CopiesExist, TypeOK
  <2> QED
    BY <2>1, NobodyWaitsAgain
<1>4. ASSUME NEW p \in AllPipelines
      PROVE  \/ unfinished'[p] = {} /\ p \notin canceling'
             \/ unfinished'[p] = unfinished[p] /\ (p \in canceling' <=> p \in canceling)
             \/ CancelReads(p) /\ unfinished'[p] = {j \in JobsOf(p) : jstate[j] \notin Finished}
  BY <1>0, CancelMoves
<1>5. ASSUME NEW p \in AllPipelines, NEW j \in unfinished'[p] PROVE jstate'[j] # "absent"
  <2>1. j \in AllJobs
    BY <1>0, <1>5 DEF TypeOK
  <2>2. CASE j \in unfinished[p]
    BY <2>1, <2>2, <1>0, NobodyWaitsAgain DEF CopiesExist
  <2>3. CASE CancelReads(p) /\ j \in JobsOf(p)
    <3>1. jstate[j] # "absent"
      BY <2>1, <2>3, <1>0 DEF CancelReads, JobsOf, StartedAtOnce
    <3> QED
      BY <2>1, <3>1, NobodyWaitsAgain
  <2> QED
    BY <1>4, <1>5, <2>2, <2>3
<1>6. ASSUME NEW p \in canceling' PROVE pstate'[p] # "absent"
  <2>1. p \in AllPipelines /\ pstate[p] # "absent"
    BY <1>0, <1>4, <1>6 DEF CopiesExist, CancelReads, TypeOK
  <2>2. PICK j \in AllJobs : PipelineOf[j] = p
    BY <2>1, PipelineAssumption DEF PipelineAssumption, JobsOf
  <2>3. jstate[j] # "absent"
    BY <1>0, <2>1, <2>2 DEF StartedAtOnce
  <2>4. jstate'[j] # "absent"
    BY <2>2, <2>3, NobodyWaitsAgain
  <2> QED
    BY <1>0, <2>2, <2>4 DEF StartedAtOnce
<1> QED
  BY <1>1, <1>3, <1>5, <1>6 DEF CopiesExist

LEMMA LocksNext == Inv /\ [Next]_vars => Locks'
<1> SUFFICES ASSUME Inv, [Next]_vars PROVE Locks'
  OBVIOUS
<1>0. TypeOK /\ Locks
  BY DEF Inv
<1>1. CASE Looks
  <2>1. ASSUME NEW r \in Runners, TakeReads(r) PROVE Locks'
    BY <1>0, <2>1 DEF TakeReads, Takeable, Locked, Locks, TypeOK, tables
  <2>2. ASSUME NEW r \in Runners, ReportRefused(r) \/ SettleReads(r) \/ RunnerDies(r) \/ RemoveRunner(r)
        PROVE  UNCHANGED <<jstate, locked>>
    BY <2>2 DEF ReportRefused, SettleReads, RunnerDies, RemoveRunner, tables, request
  <2>3. (\E p \in AllPipelines : CancelReads(p)) \/ UNCHANGED vars => UNCHANGED <<jstate, locked>>
    BY DEF CancelReads, vars, tables, request
  <2>4. Crash => Locks'
    BY DEF Crash, Locks
  <2>5. UNCHANGED <<jstate, locked>> => Locks'
    BY <1>0 DEF Locks
  <2> QED
    BY <1>1, <2>1, <2>2, <2>3, <2>4, <2>5 DEF Looks
<1>2. ASSUME NEW p \in AllPipelines, Start(p) PROVE Locks'
  BY <1>0, <1>2 DEF Start, Locks, TypeOK, request
<1>3. ASSUME NEW p \in AllPipelines, CancelWrites(p) PROVE Locks'
  BY <1>0, <1>3 DEF CancelWrites, Locked, Locks, TypeOK, request
<1>4. ASSUME NEW r \in Runners, TakeWrites(r) PROVE Locks'
  <2>1. locked' = [locked EXCEPT ![r] = {}]
    BY <1>4 DEF TakeWrites
  <2>2. jstate' = jstate \/ \E j \in locked[r] : jstate' = [jstate EXCEPT ![j] = "running"]
    BY <1>4 DEF TakeWrites
  <2> QED
    BY <1>0, <2>1, <2>2 DEF Locks, TypeOK
<1>5. ASSUME NEW r \in Runners, Report(r) PROVE Locks'
  <2>1. jstate[job[r]] # "pending" /\ job[r] \in AllJobs
    BY <1>5, JobTypes DEF Inv, HeldHasBegun, Begun, Report
  <2> QED
    BY <1>0, <1>5, <2>1 DEF Report, Locks, TypeOK
<1>6. ASSUME NEW r \in Runners, SettleWrites(r) PROVE Locks'
  BY <1>0, <1>6 DEF SettleWrites, Locked, Locks, TypeOK
<1> QED
  BY <1>1, <1>2, <1>3, <1>4, <1>5, <1>6, NextCases

LEMMA OneRunnerPerJobNext == Inv /\ [Next]_vars => OneRunnerPerJob'
<1> SUFFICES ASSUME Inv, [Next]_vars, NEW r \in Runners, NEW s \in Runners,
                    job'[r] # None, job'[r] = job'[s], r # s
             PROVE  FALSE
  BY DEF OneRunnerPerJob
<1>0. TypeOK /\ OneRunnerPerJob /\ HeldHasBegun /\ Locks
  BY DEF Inv
<1>1. CASE job'[r] = job[r] /\ job'[s] = job[s]
  BY <1>0, <1>1 DEF OneRunnerPerJob
<1>2. ASSUME NEW t \in Runners, NEW u \in Runners, job'[t] \in locked[t], job'[u] = job[u],
             job'[t] # None, job'[t] = job'[u]
      PROVE  FALSE
  BY <1>0, <1>2 DEF HeldHasBegun, Begun, Locks
<1>3. CASE job'[r] \in locked[r] /\ job'[s] \in locked[s] /\ job'[r] \in AllJobs
  BY <1>0, <1>3 DEF Locks
<1> QED
  BY <1>1, <1>2, <1>3, HandsMove

LEMMA EarnedNext == Inv /\ [Next]_vars => Earned' /\ GreenWasEarned'
<1> SUFFICES ASSUME Inv, [Next]_vars PROVE Earned' /\ GreenWasEarned'
  OBVIOUS
<1>0. TypeOK /\ Earned /\ GreenWasEarned /\ TypeOK' /\ PipelineOf \in [AllJobs -> AllPipelines]
  BY TypeNext, JobTypes DEF Inv
<1>1. passed \subseteq passed'
  BY PassedGrows
<1>2. ASSUME NEW j \in AllJobs, jstate'[j] = "success" PROVE j \in passed'
  <2>1. ASSUME NEW r \in Runners, Report(r) PROVE j \in passed'
    BY <1>0, <1>2, <2>1 DEF Report, Earned, TypeOK
  <2>2. ASSUME NEW r \in Runners, TakeWrites(r) \/ SettleWrites(r) PROVE jstate[j] = "success"
    BY <1>0, <1>2, <2>2 DEF TakeWrites, SettleWrites, TypeOK
  <2>3. ASSUME NEW p \in AllPipelines, Start(p) \/ CancelWrites(p) PROVE jstate[j] = "success"
    BY <1>0, <1>2, <2>3 DEF Start, CancelWrites, TypeOK
  <2>4. Looks => jstate[j] = "success"
    BY <1>2, LooksWriteNothing
  <2> QED
    BY <1>0, <1>1, <2>1, <2>2, <2>3, <2>4, NextCases DEF Earned
<1>3. ASSUME NEW s \in Runners, pc'[s] = "settling", verdict'[s] = "success"
      PROVE  \A j \in JobsOf(PipelineOf[job'[s]]) : j \in passed
  <2>1. job'[s] = job[s] /\ PipelineOf[job[s]] \in AllPipelines
    BY <1>0, <1>3, SettlingMoves
  <2>2. CASE pc[s] = "settling" /\ verdict[s] = "success"
    BY <1>0, <2>1, <2>2 DEF Earned
  <2>3. CASE Verdict(PipelineOf[job[s]]) = "success"
    <3>1. \A j \in JobsOf(PipelineOf[job[s]]) : jstate[j] = "success"
      BY <2>3 DEF Verdict
    <3> QED
      BY <1>0, <2>1, <3>1 DEF Earned, JobsOf
  <2> QED
    BY <1>3, <2>2, <2>3, SettlingMoves
<1>4. ASSUME NEW j \in AllJobs, pstate'[PipelineOf[j]] = "success" PROVE j \in passed'
  <2>1. ASSUME NEW r \in Runners, SettleWrites(r), pstate[PipelineOf[j]] # "success" PROVE j \in passed
    <3>1. job[r] \in AllJobs
      BY <2>1, <1>0, JobTypes DEF SettleWrites
    <3>2. PipelineOf[j] = PipelineOf[job[r]] /\ verdict[r] = "success" /\ pc[r] = "settling"
      BY <1>0, <1>4, <2>1, <3>1 DEF SettleWrites, TypeOK
    <3> QED
      BY <1>0, <3>2 DEF Earned, JobsOf
  <2>2. ASSUME NEW r \in Runners, TakeWrites(r) \/ Report(r) PROVE pstate[PipelineOf[j]] = "success"
    BY <1>0, <1>4, <2>2 DEF TakeWrites, Report, TypeOK
  <2>3. ASSUME NEW p \in AllPipelines, Start(p) \/ CancelWrites(p) PROVE pstate[PipelineOf[j]] = "success"
    BY <1>0, <1>4, <2>3 DEF Start, CancelWrites, TypeOK
  <2>4. Looks => pstate[PipelineOf[j]] = "success"
    BY <1>4, LooksWriteNothing
  <2> QED
    BY <1>0, <1>1, <2>1, <2>2, <2>3, <2>4, NextCases DEF GreenWasEarned
<1>5. Earned'
  BY <1>1, <1>2, <1>3 DEF Earned, JobsOf
<1> QED
  BY <1>4, <1>5 DEF GreenWasEarned

LEMMA StagesInOrderNext == Inv /\ [Next]_vars => StagesInOrder'
<1> SUFFICES ASSUME Inv, [Next]_vars, NEW r \in Runners, NEW j \in AllJobs, NEW k \in AllJobs,
                    job'[r] = j, PipelineOf[k] = PipelineOf[j], Stage[k] < Stage[j]
             PROVE  k \in passed'
  BY DEF StagesInOrder
<1>0. TypeOK /\ StagesInOrder /\ Earned /\ j # None
  BY JobTypes DEF Inv
<1>1. k \in passed
  <2>1. CASE job[r] = j
    BY <1>0, <2>1 DEF StagesInOrder
  <2>2. CASE EarlierDone(j)
    BY <1>0, <2>2 DEF EarlierDone, Earned
  <2> QED
    BY <1>0, <2>1, <2>2, HandsMove
<1>2. passed \subseteq passed'
  BY PassedGrows
<1> QED
  BY <1>1, <1>2

LEMMA WaitingIsKnownNext == Inv /\ [Next]_vars => WaitingIsKnown'
<1> SUFFICES ASSUME Inv, [Next]_vars PROVE WaitingIsKnown'
  OBVIOUS
<1>0. /\ TypeOK /\ WaitingIsKnown /\ StartedAtOnce /\ CopiesExist /\ HeldHasBegun /\ TypeOK'
      /\ PipelineOf \in [AllJobs -> AllPipelines]
  BY TypeNext, JobTypes DEF Inv
<1>1. ASSUME NEW j \in AllJobs, pstate[PipelineOf[j]] # "absent", jstate'[j] = "pending"
      PROVE  jstate[j] = "pending"
  BY <1>0, <1>1, NobodyWaitsAgain DEF StartedAtOnce
<1>2. ASSUME NEW s \in Runners, pc'[s] = "settling",
             NEW j \in JobsOf(PipelineOf[job'[s]]), jstate'[j] = "pending"
      PROVE  j \in victims'[s]
  <2> DEFINE p == PipelineOf[job[s]]
  <2>1. job[s] \in AllJobs /\ job[s] # None /\ job'[s] = job[s] /\ p \in AllPipelines
    BY <1>0, <1>2, SettlingMoves
  <2>2. j \in AllJobs /\ PipelineOf[j] = p /\ j \in JobsOf(p)
    BY <1>2, <2>1 DEF JobsOf
  <2>3. pstate[p] # "absent"
    BY <1>0, <2>1 DEF HeldHasBegun, Begun, StartedAtOnce
  <2>4. jstate[j] = "pending"
    BY <1>1, <1>2, <2>2, <2>3
  <2>5. CASE pc[s] = "settling" /\ victims'[s] = victims[s]
    BY <1>0, <2>2, <2>4, <2>5 DEF WaitingIsKnown
  <2>6. CASE Verdict(p) # "absent" /\ victims'[s] = Victims(p)
    <3>1. Verdict(p) = "failed"
      BY <2>2, <2>4, <2>6 DEF Verdict, Finished
    <3> QED
      BY <2>2, <2>4, <2>6, <3>1 DEF Victims
  <2> QED
    BY <1>2, <2>5, <2>6, SettlingMoves
<1>3. ASSUME NEW p \in canceling', NEW j \in JobsOf(p), jstate'[j] = "pending"
      PROVE  j \in unfinished'[p]
  <2>1. p \in AllPipelines /\ j \in AllJobs /\ PipelineOf[j] = p
    BY <1>0 DEF TypeOK, JobsOf
  <2>2. pstate[p] # "absent"
    BY <1>0, <2>1, CancelMoves DEF CopiesExist, CancelReads
  <2>3. jstate[j] = "pending"
    BY <1>1, <1>3, <2>1, <2>2
  <2> QED
    BY <1>0, <2>1, <2>3, CancelMoves DEF WaitingIsKnown, Finished
<1> QED
  BY <1>2, <1>3 DEF WaitingIsKnown

LEMMA NothingWaitsNext == Inv /\ [Next]_vars => NothingWaitsWhenFinished'
<1> SUFFICES ASSUME Inv, [Next]_vars, NEW j \in AllJobs,
                    pstate'[PipelineOf[j]] \in Finished, jstate'[j] = "pending"
             PROVE  FALSE
  BY DEF NothingWaitsWhenFinished
<1>0. /\ TypeOK /\ NothingWaitsWhenFinished /\ WaitingIsKnown /\ StartedAtOnce /\ CopiesExist
      /\ HeldHasBegun /\ PipelineOf[j] \in AllPipelines
  BY JobTypes DEF Inv
<1>1. jstate[j] \in {"absent", "pending"}
  BY NobodyWaitsAgain
<1>2. pstate[PipelineOf[j]] \notin Finished
  BY <1>0, <1>1 DEF NothingWaitsWhenFinished, StartedAtOnce, Finished
<1>3. CASE Looks
  BY <1>2, <1>3, LooksWriteNothing
<1>4. ASSUME NEW p \in AllPipelines, Start(p) PROVE FALSE
  BY <1>0, <1>2, <1>4 DEF Start, TypeOK, Finished
<1>5. ASSUME NEW p \in AllPipelines, CancelWrites(p) PROVE FALSE
  <2>1. PipelineOf[j] = p
    BY <1>0, <1>2, <1>5 DEF CancelWrites, TypeOK
  <2>2. j \in unfinished[p]
    BY <1>0, <1>1, <1>5, <2>1 DEF CancelWrites, WaitingIsKnown, JobsOf, StartedAtOnce, CopiesExist
  <2> QED
    BY <1>0, <1>5, <2>2 DEF CancelWrites, TypeOK
<1>6. ASSUME NEW r \in Runners, TakeWrites(r) PROVE FALSE
  BY <1>0, <1>2, <1>6, TakeHands DEF TypeOK, Finished
<1>7. ASSUME NEW r \in Runners, Report(r) PROVE FALSE
  BY <1>2, <1>7 DEF Report
<1>8. ASSUME NEW r \in Runners, SettleWrites(r) PROVE FALSE
  <2>1. job[r] \in AllJobs /\ pc[r] = "settling" /\ job[r] # None
    BY <1>8, <1>0, JobTypes DEF SettleWrites
  <2>2. PipelineOf[j] = PipelineOf[job[r]]
    BY <1>0, <1>2, <1>8 DEF SettleWrites, TypeOK
  <2>3. jstate[j] = "pending"
    BY <1>0, <1>1, <2>1, <2>2 DEF HeldHasBegun, Begun, StartedAtOnce
  <2>4. j \in victims[r]
    BY <1>0, <2>1, <2>2, <2>3 DEF WaitingIsKnown, JobsOf
  <2> QED
    BY <1>0, <1>8, <2>4 DEF SettleWrites, TypeOK
<1> QED
  BY <1>3, <1>4, <1>5, <1>6, <1>7, <1>8, NextCases

(* A job that failed is over for good.                                     *)
LEMMA FlunkedForGood ==
  ASSUME Inv, [Next]_vars, NEW j \in AllJobs, Flunked(j)
  PROVE  Flunked(j)'
<1>0. TypeOK /\ Locks /\ j # None
  BY JobTypes DEF Inv
<1>1. j \notin passed'
  <2>1. Looks => passed' = passed
    BY LooksWriteNothing
  <2>2. ASSUME NEW r \in Runners, Report(r) PROVE j \notin passed'
    BY <1>0, <2>2 DEF Report, Flunked
  <2> QED
    BY <2>1, <2>2, NextCases DEF Start, CancelWrites, TakeWrites, SettleWrites, Flunked
<1>2. Begun(j)'
  BY NobodyWaitsAgain DEF Flunked
<1>3. ASSUME NEW r \in Runners, pc'[r] = "working", job'[r] = j PROVE FALSE
  <2>1. j \notin locked[r]
    BY <1>0 DEF Flunked, Begun, Locks
  <2>2. job[r] = j /\ pc[r] = "working"
    BY <1>0, <1>3, <2>1, HandsMove
  <2> QED
    BY <2>2 DEF Flunked
<1> QED
  BY <1>1, <1>2, <1>3 DEF Flunked

LEMMA FailuresStayNext == Inv /\ [Next]_vars => FailuresStay'
<1> SUFFICES ASSUME Inv, [Next]_vars PROVE FailuresStay'
  OBVIOUS
<1>0. /\ TypeOK /\ FailuresStay /\ OneRunnerPerJob /\ HeldHasBegun /\ Locks /\ TypeOK'
      /\ PipelineOf \in [AllJobs -> AllPipelines]
  BY TypeNext, JobTypes DEF Inv
<1>1. ASSUME NEW s \in Runners, pc'[s] = "working", job'[s] \in passed' PROVE FALSE
  <2>1. job'[s] # None /\ job'[s] \in AllJobs
    BY <1>0, <1>1 DEF TypeOK
  <2>2. job'[s] \notin passed
    <3>1. CASE job'[s] = job[s] /\ pc[s] = "working"
      BY <1>0, <3>1 DEF FailuresStay
    <3>2. CASE job'[s] \in locked[s]
      BY <1>0, <3>2 DEF Locks, HeldHasBegun, Begun
    <3> QED
      BY <1>1, <2>1, <3>1, <3>2, HandsMove
  <2>3. PICK r \in Runners : Report(r)
    <3>1. Looks => passed' = passed
      BY LooksWriteNothing
    <3> QED
      BY <1>1, <2>2, <3>1, NextCases DEF Start, CancelWrites, TakeWrites, SettleWrites
  <2>4. job'[s] = job[r] /\ job[s] = job[r] /\ pc'[r] = "reported"
    BY <1>0, <1>1, <2>2, <2>3 DEF Report, TypeOK
  <2>5. s = r
    BY <1>0, <2>1, <2>4 DEF OneRunnerPerJob
  <2> QED
    BY <1>1, <2>4, <2>5
<1>2. ASSUME NEW j \in AllJobs, jstate'[j] = "failed" PROVE Flunked(j)'
  <2>1. CASE jstate[j] = "failed"
    BY <1>0, <2>1, FlunkedForGood DEF FailuresStay
  <2>2. CASE jstate[j] # "failed"
    <3>1. PICK r \in Runners : Report(r)
      <4>1. Looks => jstate' = jstate
        BY LooksWriteNothing
      <4>2. ASSUME NEW p \in AllPipelines, Start(p) \/ CancelWrites(p) PROVE FALSE
        BY <1>0, <1>2, <2>2, <4>2 DEF Start, CancelWrites, TypeOK
      <4>3. ASSUME NEW r \in Runners, TakeWrites(r) \/ SettleWrites(r) PROVE FALSE
        BY <1>0, <1>2, <2>2, <4>3 DEF TakeWrites, SettleWrites, TypeOK
      <4> QED
        BY <1>2, <2>2, <4>1, <4>2, <4>3, NextCases
    <3>2. /\ job[r] = j /\ pc[r] = "working" /\ passed' = passed
          /\ job' = job /\ pc' = [pc EXCEPT ![r] = "reported"]
      BY <1>0, <1>2, <2>2, <3>1 DEF Report, TypeOK
    <3>3. j \notin passed' /\ Begun(j)'
      BY <1>0, <1>2, <3>2 DEF FailuresStay, Begun
    <3>4. \A s \in Runners : pc'[s] = "working" => job'[s] # j
      BY <1>0, <3>2, JobTypes DEF OneRunnerPerJob, TypeOK
    <3> QED
      BY <3>3, <3>4 DEF Flunked
  <2> QED
    BY <2>1, <2>2
<1>3. ASSUME NEW s \in Runners, pc'[s] = "settling", verdict'[s] = "failed"
      PROVE  \E j \in JobsOf(PipelineOf[job'[s]]) : Flunked(j)'
  <2>1. job'[s] = job[s]
    BY <1>3, SettlingMoves
  <2>2. CASE pc[s] = "settling" /\ verdict[s] = "failed"
    BY <1>0, <2>1, <2>2, FlunkedForGood DEF FailuresStay, JobsOf
  <2>3. CASE Verdict(PipelineOf[job[s]]) = "failed"
    <3>1. PICK j \in JobsOf(PipelineOf[job[s]]) : jstate[j] = "failed"
      BY <2>3 DEF Verdict
    <3>2. j \in AllJobs /\ Flunked(j)
      BY <1>0, <3>1 DEF FailuresStay, JobsOf
    <3> QED
      BY <2>1, <3>2, FlunkedForGood
  <2> QED
    BY <1>3, <2>2, <2>3, SettlingMoves
<1>4. ASSUME NEW p \in AllPipelines, pstate'[p] = "failed"
      PROVE  \E j \in JobsOf(p) : Flunked(j)'
  <2>1. \E j \in JobsOf(p) : Flunked(j)
    <3>1. CASE pstate[p] = "failed"
      BY <1>0, <3>1 DEF FailuresStay
    <3>2. CASE pstate[p] # "failed"
      <4>1. Looks => pstate' = pstate
        BY LooksWriteNothing
      <4>2. ASSUME NEW q \in AllPipelines, Start(q) \/ CancelWrites(q) PROVE FALSE
        BY <1>0, <1>4, <3>2, <4>2 DEF Start, CancelWrites, TypeOK
      <4>3. ASSUME NEW r \in Runners, TakeWrites(r) \/ Report(r) PROVE FALSE
        BY <1>0, <1>4, <3>2, <4>3 DEF TakeWrites, Report, TypeOK
      <4>4. ASSUME NEW r \in Runners, SettleWrites(r)
            PROVE  pc[r] = "settling" /\ verdict[r] = "failed" /\ p = PipelineOf[job[r]]
        BY <1>0, <1>4, <3>2, <4>4 DEF SettleWrites, TypeOK
      <4> QED
        BY <1>0, <1>4, <3>2, <4>1, <4>2, <4>3, <4>4, NextCases DEF FailuresStay
    <3> QED
      BY <3>1, <3>2
  <2> QED
    BY <2>1, FlunkedForGood DEF JobsOf
<1> QED
  BY <1>1, <1>2, <1>3, <1>4 DEF FailuresStay, JobsOf

LEMMA InvNext == Inv /\ [Next]_vars => Inv'
<1> SUFFICES ASSUME Inv, [Next]_vars PROVE Inv'
  OBVIOUS
<1>1. TypeOK'
  BY TypeNext DEF Inv
<1> QED
  BY <1>1, StartedAtOnceNext, HeldHasBegunNext, CopiesExistNext, LocksNext, OneRunnerPerJobNext,
     StagesInOrderNext, EarnedNext, WaitingIsKnownNext, NothingWaitsNext, FailuresStayNext DEF Inv

-----------------------------------------------------------------------------
(* What is promised of every run.                                          *)

(* However many machines ask, and whatever is canceled, removed or         *)
(* restarted: a job is in the hands of one of them (take_next_job).        *)
THEOREM JobsAreHandedOutOnce == Spec => []OneRunnerPerJob
<1>1. Inv => OneRunnerPerJob
  BY DEF Inv
<1> QED
  BY <1>1, InvInit, InvNext, PTL DEF Spec

(* A job that is carried out has everything of earlier stages behind it,   *)
(* reported to have ended well (_earlier_stages_pending).                  *)
THEOREM StagesKeepTheirOrder == Spec => []StagesInOrder
<1>1. Inv => StagesInOrder
  BY DEF Inv
<1> QED
  BY <1>1, InvInit, InvNext, PTL DEF Spec

(* A finished pipeline has no job left to be handed out, although its      *)
(* verdict and its victims are old when they are written (_settle_pipeline)*)
THEOREM FinishedLeavesNothing == Spec => []NothingWaitsWhenFinished
<1>1. Inv => NothingWaitsWhenFinished
  BY DEF Inv
<1> QED
  BY <1>1, InvInit, InvNext, PTL DEF Spec

(* Each job of a green pipeline was once reported to have ended well.      *)
THEOREM GreenIsEarned == Spec => []GreenWasEarned
<1>1. Inv => GreenWasEarned
  BY DEF Inv
<1> QED
  BY <1>1, InvInit, InvNext, PTL DEF Spec

-----------------------------------------------------------------------------
(* Pipelines implement RunLife.                                            *)

(* A pipeline that was canceled gets nobody new to work on it.             *)
LEMMA CanceledStirsLess ==
  ASSUME Inv, [Next]_vars, NEW p \in AllPipelines, pstate[p] = "canceled", Stirring(p)'
  PROVE  Stirring(p)
<1>1. PICK r \in Runners : job'[r] # None /\ PipelineOf[job'[r]] = p
  BY DEF Stirring
<1>2. ASSUME job'[r] \in locked[r], job'[r] \in AllJobs PROVE FALSE
  BY <1>1, <1>2 DEF Inv, Locks, NothingWaitsWhenFinished, Finished
<1>3. job'[r] = job[r]
  BY <1>1, <1>2, HandsMove
<1> QED
  BY <1>1, <1>3 DEF Stirring

(* The moves of one pipeline's row.                                        *)
LEMMA RowMoves ==
  ASSUME Inv, [Next]_vars, NEW p \in AllPipelines
  PROVE  \/ pstate'[p] = pstate[p]
         \/ pstate[p] = "absent" /\ pstate'[p] = "pending"
         \/ pstate[p] = "pending" /\ pstate'[p] = "running"
         \/ pstate[p] \in {"pending", "running", "success", "failed"} /\ pstate'[p] = "canceled"
         \/ /\ pstate[p] \in {"pending", "running"} \/ (pstate[p] = "canceled" /\ Stirring(p))
            /\ pstate'[p] \in {"success", "failed"}
<1>0. TypeOK /\ CopiesExist /\ PipelineOf \in [AllJobs -> AllPipelines]
  BY JobTypes DEF Inv
<1>1. pstate[p] \in {"absent", "pending", "running", "success", "failed", "canceled"}
  BY <1>0 DEF TypeOK, RunStates, Finished
<1>2. CASE Looks
  BY <1>2, LooksWriteNothing
<1>3. ASSUME NEW q \in AllPipelines, Start(q), pstate'[p] # pstate[p]
      PROVE  pstate[p] = "absent" /\ pstate'[p] = "pending"
  BY <1>0, <1>3 DEF Start, TypeOK
<1>4. ASSUME NEW q \in AllPipelines, CancelWrites(q), pstate'[p] # pstate[p]
      PROVE  /\ pstate[p] \in {"pending", "running", "success", "failed"}
             /\ pstate'[p] = "canceled"
  <2>1. p \in canceling /\ pstate'[p] = "canceled"
    BY <1>0, <1>4 DEF CancelWrites, TypeOK
  <2> QED
    BY <1>0, <1>1, <1>4, <2>1 DEF CopiesExist
<1>5. ASSUME NEW r \in Runners, TakeWrites(r), pstate'[p] # pstate[p]
      PROVE  pstate[p] = "pending" /\ pstate'[p] = "running"
  <2>1. PICK j \in AllJobs : /\ pstate[PipelineOf[j]] \notin Finished \union {"absent"}
                            /\ pstate' = [pstate EXCEPT ![PipelineOf[j]] = "running"]
    BY <1>0, <1>5, TakeHands
  <2>2. p = PipelineOf[j] /\ pstate'[p] = "running"
    BY <1>0, <1>5, <2>1 DEF TypeOK
  <2>3. pstate[p] \in RunStates
    BY <1>0 DEF TypeOK
  <2> QED
    BY <1>5, <2>1, <2>2, <2>3 DEF RunStates, Finished
<1>6. ASSUME NEW r \in Runners, Report(r) PROVE pstate'[p] = pstate[p]
  BY <1>6 DEF Report
<1>7. ASSUME NEW r \in Runners, SettleWrites(r), pstate'[p] # pstate[p]
      PROVE  \/ pstate[p] \in {"pending", "running", "success", "failed"} /\ pstate'[p] = "canceled"
             \/ /\ pstate[p] \in {"pending", "running"} \/ (pstate[p] = "canceled" /\ Stirring(p))
                /\ pstate'[p] \in {"success", "failed"}
  <2>1. job[r] \in AllJobs /\ pc[r] = "settling" /\ job[r] # None
    BY <1>7, <1>0, JobTypes DEF SettleWrites
  <2>2. PipelineOf[job[r]] = p /\ pstate'[p] = verdict[r]
    BY <1>0, <1>7 DEF SettleWrites, TypeOK
  <2>3. Stirring(p)
    BY <2>1, <2>2 DEF Stirring
  <2>4. pstate[p] # "absent"
    BY <2>1, <2>2 DEF Inv, StartedAtOnce, HeldHasBegun, Begun
  <2>5. verdict[r] \in {"success", "failed", "canceled"}
    BY <1>0, <2>1 DEF TypeOK, CopiesExist, Finished
  <2>6. ~(pstate[p] = "success" /\ verdict[r] = "failed")
    BY <2>1, <2>2 DEF Inv, FailuresStay, Flunked, GreenWasEarned, JobsOf
  <2>7. ~(pstate[p] = "failed" /\ verdict[r] = "success")
    BY <2>1, <2>2 DEF Inv, FailuresStay, Flunked, Earned, JobsOf
  <2> QED
    BY <1>1, <1>7, <2>2, <2>3, <2>4, <2>5, <2>6, <2>7
<1> QED
  BY <1>2, <1>3, <1>4, <1>5, <1>6, <1>7, NextCases

LEMMA SeenInit == Init => Life!Init
  BY DEF Init, Life!Init, Seen, Nothing

LEMMA SeenIsResult ==
  ASSUME TypeOK, NEW p \in AllPipelines
  PROVE  /\ Seen[p] \in Life!Results
         /\ pstate[p] = "absent" => Seen[p] = "none"
         /\ pstate[p] \in {"pending", "running"} => Seen[p] = "pending"
         /\ pstate[p] = "canceled" => Seen[p] = IF Stirring(p) THEN "stopping" ELSE "canceled"
         /\ pstate[p] \in {"success", "failed"} => Seen[p] = pstate[p]
<1>1. pstate[p] \in {"absent", "pending", "running", "success", "failed", "canceled"}
  BY DEF TypeOK, RunStates, Finished
<1> QED
  BY <1>1 DEF Seen, Life!Results, Life!Outcomes

LEMMA SeenNext == Inv /\ [Next]_vars => [Life!Next]_Seen
<1> SUFFICES ASSUME Inv, [Next]_vars PROVE Life!Next
  OBVIOUS
<1>0. TypeOK /\ TypeOK'
  BY TypeNext DEF Inv
<1>1. ASSUME NEW p \in AllPipelines
      PROVE  /\ Seen'[p] \in Life!Results
             /\ pstate'[p] = "absent" => Seen'[p] = "none"
             /\ pstate'[p] \in {"pending", "running"} => Seen'[p] = "pending"
             /\ pstate'[p] = "canceled" => Seen'[p] = IF Stirring(p)' THEN "stopping" ELSE "canceled"
             /\ pstate'[p] \in {"success", "failed"} => Seen'[p] = pstate'[p]
  <2>1. pstate'[p] \in {"absent", "pending", "running", "success", "failed", "canceled"}
    BY <1>0 DEF TypeOK, RunStates, Finished
  <2> QED
    BY <2>1 DEF Seen, Life!Results, Life!Outcomes
<1>2. Seen' \in [AllPipelines -> Life!Results]
  BY <1>1 DEF Seen
<1>3. ASSUME NEW p \in AllPipelines, Seen'[p] # Seen[p] PROVE Life!Step(p)
  <2>1. pstate[p] \in {"absent", "pending", "running", "success", "failed", "canceled"}
    BY <1>0 DEF TypeOK, RunStates, Finished
  <2>2. CASE pstate'[p] = pstate[p]
    BY <1>0, <1>1, <1>3, <2>1, <2>2, SeenIsResult, CanceledStirsLess DEF Life!Step, Life!Stops
  <2>3. CASE pstate[p] = "absent" /\ pstate'[p] = "pending"
    BY <1>0, <1>1, <2>3, SeenIsResult DEF Life!Step, Life!Starts
  <2>4. CASE pstate[p] = "pending" /\ pstate'[p] = "running"
    BY <1>0, <1>1, <1>3, <2>4, SeenIsResult
  <2>5. CASE pstate[p] \in {"pending", "running", "success", "failed"} /\ pstate'[p] = "canceled"
    BY <1>0, <1>1, <2>5, SeenIsResult DEF Life!Step, Life!Cancels, Life!Outcomes
  <2>6. CASE /\ pstate[p] \in {"pending", "running"} \/ (pstate[p] = "canceled" /\ Stirring(p))
             /\ pstate'[p] \in {"success", "failed"}
    BY <1>0, <1>1, <2>6, SeenIsResult DEF Life!Step, Life!Reports, Life!Outcomes
  <2> QED
    BY <2>2, <2>3, <2>4, <2>5, <2>6, RowMoves
<1> QED
  BY <1>2, <1>3 DEF Life!Next

(* Whoever waits for a pipeline may rely on RunLife: a run that is plainly *)
(* canceled stays so, and no run turns from failed to green by itself.     *)
THEOREM PipelinesImplementRunLife == Spec => LivesAsPromised
  BY InvInit, InvNext, SeenInit, SeenNext, PTL DEF Spec, LivesAsPromised, Life!Spec
=============================================================================
