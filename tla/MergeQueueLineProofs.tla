------------------------ MODULE MergeQueueLineProofs -------------------------
(* Proofs about the line of MergeQueue: who stands in it, in which order it *)
(* is served, and what must have happened before a place ends as merged.    *)
EXTENDS MergeQueueProofs, FiniteSetTheorems

(* A place asked for is nobody's until its row is written: no other handler *)
(* asks for it, and neither the loop nor one who leaves has it.             *)
PlacesWereTaken ==
    /\ \A p \in entering : entry[p[2]].state = "none"
    /\ \A p, q \in entering : p[2] = q[2] => p = q
    /\ \A e \in todo \union leaving \union {cur} : e \in Entries => entry[e].state # "none"

(* What makes TestingIsHead inductive: what the loop will walk or holds is  *)
(* first of its project's line too, among all that stand in it and all that *)
(* the loop may yet put back.                                               *)
FirstIsServed ==
    \A g \in Testing \union todo \union InHand : \A f \in Active \union todo \union InHand :
        ProjectOf[entry[f].mr] = ProjectOf[entry[g].mr] => g <= f \/ <<f, g>> \in overtaken

(* A place that waits has no run, and stays without one in the loop's hands *)
(* until the loop itself records one.                                       *)
WaitingHasNoRun ==
    /\ \A e \in Entries : entry[e].state = "waiting" => entry[e].run = "none"
    /\ \A e \in todo : snap[e] = "waiting" => entry[e].run = "none"
    /\ pc \in {"build", "start", "record"} => entry[cur].run = "none"

(* A run that stands at success once ended well on the commit of its row.   *)
SuccessWasGreen ==
    \A e \in Entries : entry[e].run = "success" => entry[e].tested \in green

(* What is about to land was tested, or has no pipeline to be tested by.    *)
LandingIsTested ==
    pc \in {"move", "commit"} =>
        \/ wCommit \in green
        \/ entry[cur].run = "none" /\ Config[entry[cur].mr] # {"jobs"}

(* A yes that stands is one that was said, and not by the author.           *)
YesWasSaid ==
    \A r \in Requests : \A u \in Users : yes[r][u] # Gone => u \in said[r] \ {Author[r]}

Looked(r) == Required <= Cardinality(said[r] \ {Author[r]})

(* Whoever is past the approvals has a request enough people looked at.     *)
LookedAt ==
    /\ pc \notin {"idle", "pick"} => Looked(entry[cur].mr)
    /\ \A u \in Users : hpc[u] # "idle" => Looked(hReq[u])

LineInv ==
    /\ TypeOK /\ WalkedOnce /\ OnePlacePerRequest
    /\ PlacesWereTaken /\ FirstIsServed
    /\ WaitingHasNoRun /\ SuccessWasGreen /\ LandingIsTested /\ LandedWasTested
    /\ YesWasSaid /\ LookedAt /\ NobodyMergesAlone

-----------------------------------------------------------------------------
(* What each kind of step does to the rows of the line.                    *)

\* No row but this one is written.
Only(e) == \A f \in Entries \ {e} : entry'[f] = entry[f]

LEMMA EnterEffect ==
  ASSUME TypeOK, NEW r \in Requests, NEW e \in Entries, EnterWrites(r, e),
         ~UNCHANGED <<entry, overtaken>>
  PROVE  /\ UNCHANGED <<green, loop>> /\ <<r, e>> \in entering /\ Only(e)
         /\ entry'[e] = [mr |-> r, state |-> "waiting", tested |-> Gone,
                         base |-> Gone, run |-> "none"]
         /\ overtaken' = overtaken \union {<<e, f>> : f \in Passed(r, e)}
         /\ \A f \in Active : entry[f].mr # r
  BY DEF EnterWrites, Only, TypeOK

LEMMA LeaveEffect ==
  ASSUME TypeOK, NEW e \in Entries, LeaveWrites(e)
  PROVE  /\ UNCHANGED <<overtaken, green, loop>> /\ Only(e)
         /\ entry'[e] = [entry[e] EXCEPT !.state = "cancelled"] /\ entry'[e].state = "cancelled"
         /\ entry'[e].mr = entry[e].mr /\ entry'[e].tested = entry[e].tested /\ entry'[e].run = entry[e].run
<1>1. entry[e] \in EntryRows
  BY DEF TypeOK
<1>2. UNCHANGED <<overtaken, green, loop>> /\ Only(e) /\ entry'[e] = [entry[e] EXCEPT !.state = "cancelled"]
  BY DEF TypeOK, LeaveWrites, Only
<1> QED
  BY <1>1, <1>2 DEF EntryRows

LEMMA RunEffect ==
  ASSUME TypeOK, Runs
  PROVE  \E e \in Entries, to \in {"success", "failed", "stopping", "canceled"} :
            /\ UNCHANGED <<overtaken, loop>> /\ Only(e)
            /\ entry[e].run # "none" /\ entry'[e] = [entry[e] EXCEPT !.run = to]
            /\ green \subseteq green' /\ (to = "success" => entry[e].tested \in green')
            /\ entry'[e].mr = entry[e].mr /\ entry'[e].state = entry[e].state
            /\ entry'[e].tested = entry[e].tested /\ entry'[e].run = to
<1>1. PICK e \in Entries, to \in {"success", "failed", "stopping", "canceled"} :
        RunChanges(e, to) /\ entry[e].run # "none"
  BY DEF Runs, RunReports, RunCanceled, RunStops
<1>2. entry[e] \in EntryRows
  BY DEF TypeOK
<1>3. /\ UNCHANGED <<overtaken, loop>> /\ Only(e) /\ entry'[e] = [entry[e] EXCEPT !.run = to]
      /\ green \subseteq green' /\ (to = "success" => entry[e].tested \in green')
  BY <1>1 DEF RunChanges, TypeOK, Only
<1>4. /\ entry'[e].mr = entry[e].mr /\ entry'[e].state = entry[e].state
      /\ entry'[e].tested = entry[e].tested /\ entry'[e].run = to
  BY <1>2, <1>3 DEF EntryRows
<1> QED
  BY <1>1, <1>3, <1>4

LEMMA GiveUpEffect ==
  ASSUME TypeOK, NEW e \in Entries, GiveUp(e)
  PROVE  /\ UNCHANGED <<overtaken, green>> /\ Only(e)
         /\ entry'[e] = [entry[e] EXCEPT !.state = "failed"] /\ entry'[e].state = "failed"
         /\ entry'[e].mr = entry[e].mr /\ entry'[e].tested = entry[e].tested /\ entry'[e].run = entry[e].run
<1>1. entry[e] \in EntryRows
  BY DEF TypeOK
<1>2. UNCHANGED <<overtaken, green>> /\ Only(e) /\ entry'[e] = [entry[e] EXCEPT !.state = "failed"]
  BY DEF TypeOK, GiveUp, Only
<1> QED
  BY <1>1, <1>2 DEF EntryRows

\* A place put back keeps what it was built from, loses its run, and is in
\* line again only when no other place of its request is.
LEMMA BackEffect ==
  ASSUME TypeOK, NEW e \in Entries, BackInLine(e)
  PROVE  /\ Only(e)
         /\ \/ UNCHANGED entry
            \/ /\ entry'[e] = [entry[e] EXCEPT !.state = WrittenState(e, "waiting"), !.run = "none"]
               /\ WrittenState(e, "waiting") \in ActiveStates => HoldsIndex(e)
         /\ entry'[e].mr = entry[e].mr /\ entry'[e].tested = entry[e].tested
         /\ UNCHANGED entry \/ entry'[e].run = "none"
<1>1. entry[e] \in EntryRows
  BY DEF TypeOK
<1>2. /\ Only(e)
      /\ \/ UNCHANGED entry
         \/ /\ entry'[e] = [entry[e] EXCEPT !.state = WrittenState(e, "waiting"), !.run = "none"]
            /\ WrittenState(e, "waiting") \in ActiveStates => HoldsIndex(e)
  BY DEF TypeOK, BackInLine, Only
<1> QED
  BY <1>1, <1>2 DEF EntryRows

LEMMA RecordEffect ==
  ASSUME TypeOK, RecordTesting
  PROVE  /\ cur \in Entries /\ UNCHANGED <<overtaken, green>> /\ Only(cur)
         /\ \/ UNCHANGED entry
            \/ /\ HoldsIndex(cur)
               /\ entry'[cur] = [entry[cur] EXCEPT !.state = "testing", !.tested = wCommit,
                                                   !.base = wBase, !.run = "pending"]
<1>1. cur \in Entries
  BY CurIsEntry DEF RecordTesting
<1> QED
  BY <1>1 DEF TypeOK, RecordTesting, Only, EntryRows

LEMMA MergedEffect ==
  ASSUME TypeOK, CommitMerged
  PROVE  /\ cur \in Entries /\ UNCHANGED <<overtaken, green>> /\ Only(cur)
         /\ entry'[cur] = [entry[cur] EXCEPT !.state = "merged", !.tested = wCommit]
<1>1. cur \in Entries
  BY CurIsEntry DEF CommitMerged
<1> QED
  BY <1>1 DEF TypeOK, CommitMerged, Only, EntryRows

LEMMA StepEffect ==
  ASSUME TypeOK, NEW e \in Entries, Step(e)
  PROVE  /\ UNCHANGED <<overtaken, green, wCommit>> /\ e \in todo /\ todo' = todo \ {e} /\ Only(e)
         /\ \/ /\ pc' = "pick" /\ pc = "pick" /\ cur' = cur /\ snap' = [snap EXCEPT ![e] = "none"]
               /\ entry'[e] = [entry[e] EXCEPT !.state = "failed"]
            \/ /\ UNCHANGED <<entry, snap>> /\ cur' = e /\ Satisfied(entry[e].mr)
               /\ pc' = IF snap[e] = "waiting" THEN "build" ELSE "look"
         /\ entry'[e].mr = entry[e].mr /\ entry'[e].state \in {entry[e].state, "failed"}
         /\ UNCHANGED entry \/ entry'[e].state = "failed"
         /\ entry'[e].tested = entry[e].tested /\ entry'[e].run = entry[e].run
<1>1. entry[e] \in EntryRows
  BY DEF TypeOK
<1>2. /\ UNCHANGED <<overtaken, green, wCommit>> /\ e \in todo /\ todo' = todo \ {e} /\ Only(e)
      /\ \/ /\ pc' = "pick" /\ pc = "pick" /\ cur' = cur /\ snap' = [snap EXCEPT ![e] = "none"]
            /\ entry'[e] = [entry[e] EXCEPT !.state = "failed"]
         \/ /\ UNCHANGED <<entry, snap>> /\ cur' = e /\ Satisfied(entry[e].mr)
            /\ pc' = IF snap[e] = "waiting" THEN "build" ELSE "look"
  BY DEF TypeOK, Step, Only
<1>3. /\ entry'[e].mr = entry[e].mr /\ entry'[e].state \in {entry[e].state, "failed"}
      /\ UNCHANGED entry \/ entry'[e].state = "failed"
      /\ entry'[e].tested = entry[e].tested /\ entry'[e].run = entry[e].run
  BY <1>1, <1>2 DEF EntryRows
<1> QED
  BY <1>2, <1>3

(* The line and the loop are moved by nobody else.                         *)
LEMMA OthersLeaveTheLine ==
  ASSUME [Next]_vars
  PROVE  \/ UNCHANGED <<line, loop>>
         \/ \E r \in Requests, e \in Entries : EnterWrites(r, e) /\ ~UNCHANGED <<entry, overtaken>>
         \/ \E e \in Entries : LeaveWrites(e)
         \/ Runs \/ Crash \/ Loop
<1>1. CASE People
  <2>1. CASE \/ \E r \in Requests, e \in Entries : EnterWrites(r, e)
             \/ \E e \in Entries : LeaveWrites(e)
    <3>1. ASSUME NEW r \in Requests, NEW e \in Entries, EnterWrites(r, e)
          PROVE  UNCHANGED <<green, loop>>
      BY <3>1 DEF EnterWrites
    <3> QED
      BY <2>1, <3>1 DEF line
  <2>2. ASSUME NEW r \in Requests, OpenRequest(r) \/ \E e \in Entries : EnterReads(r, e)
        PROVE  UNCHANGED <<line, loop>>
    BY <2>2 DEF EnterReads, OpenRequest, line
  <2>4. ASSUME NEW e \in Entries, LeaveReads(e) PROVE UNCHANGED <<line, loop>>
    BY <2>4 DEF LeaveReads, line
  <2>3. ASSUME NEW r \in Requests, \/ CloseReads(r) \/ CloseWrites(r)
                                   \/ ReopenReads(r) \/ ReopenWrites(r)
        PROVE  UNCHANGED <<line, loop>>
    BY <2>3 DEF CloseReads, CloseWrites, ReopenReads, ReopenWrites, line
  <2>5. CASE \/ \E r \in Requests, u \in Users : Approve(r, u) \/ Revoke(r, u)
             \/ \E names \in SUBSET JobNames : SetRequiredChecks(names)
    BY <2>5 DEF Approve, Revoke, SetRequiredChecks, line
  <2> QED
    BY <1>1, <2>1, <2>2, <2>3, <2>4, <2>5 DEF People
<1>2. CASE DirectMerge
  BY <1>2 DEF DirectMerge, MergeChecks, MergeBuilds, MergeMoves, MergeCommits, MergeRestacks
<1>3. CASE Pushes \/ UNCHANGED vars
  BY <1>3 DEF Pushes, Push, ForcePush, DropBranch, PushTo, vars, line, loop
<1> QED
  BY <1>1, <1>2, <1>3 DEF Next

-----------------------------------------------------------------------------
(* One place for each request.                                             *)

\* What a step may do to a row: end it, keep it, or put it in line where no
\* other place of its request stands.
MayBecome(e) ==
    /\ Only(e)
    /\ \/ entry'[e].state \notin ActiveStates
       \/ e \in Active /\ entry'[e].mr = entry[e].mr
       \/ \A f \in Active \ {e} : entry[f].mr # entry'[e].mr

LEMMA OneRowAtATime ==
  ASSUME TypeOK, [Next]_vars
  PROVE  UNCHANGED entry \/ \E e \in Entries : MayBecome(e)
<1>0. entry \in [Entries -> EntryRows]
  BY DEF TypeOK
<1>1. ASSUME NEW r \in Requests, NEW e \in Entries, EnterWrites(r, e), ~UNCHANGED <<entry, overtaken>>
      PROVE  MayBecome(e)
  <2>1. /\ Only(e) /\ \A f \in Active : entry[f].mr # r
        /\ entry'[e] = [mr |-> r, state |-> "waiting", tested |-> Gone,
                                  base |-> Gone, run |-> "none"]
    BY <1>1, EnterEffect
  <2>2. entry'[e].mr = r
    BY <2>1
  <2> QED
    BY <2>1, <2>2 DEF MayBecome
<1>2. ASSUME NEW e \in Entries, LeaveWrites(e) PROVE MayBecome(e)
  BY <1>0, <1>2, LeaveEffect DEF MayBecome, ActiveStates, EntryRows
<1>3. CASE Runs
  <2>1. PICK e \in Entries, to \in {"success", "failed", "stopping", "canceled"} :
            Only(e) /\ entry'[e] = [entry[e] EXCEPT !.run = to]
    BY <1>3, RunEffect
  <2>2. entry'[e].state = entry[e].state /\ entry'[e].mr = entry[e].mr
    BY <1>0, <2>1 DEF EntryRows
  <2> QED
    BY <2>1, <2>2 DEF MayBecome, Active
<1>4. CASE Crash
  BY <1>4 DEF Crash, line
<1>5. ASSUME NEW e \in Entries, Step(e) PROVE MayBecome(e) \/ UNCHANGED entry
  BY <1>0, <1>5, StepEffect DEF MayBecome, ActiveStates, EntryRows
<1>6. ASSUME NEW e \in Entries, GiveUp(e) PROVE MayBecome(e)
  BY <1>0, <1>6, GiveUpEffect DEF MayBecome, ActiveStates, EntryRows
<1>7. ASSUME NEW e \in Entries, BackInLine(e) PROVE MayBecome(e) \/ UNCHANGED entry
  <2>1. CASE UNCHANGED entry
    BY <2>1
  <2>2. CASE ~UNCHANGED entry
    <3>1. /\ Only(e)
          /\ entry'[e] = [entry[e] EXCEPT !.state = WrittenState(e, "waiting"), !.run = "none"]
          /\ WrittenState(e, "waiting") \in ActiveStates => HoldsIndex(e)
      BY <1>7, <2>2, BackEffect
    <3>2. entry'[e].state = WrittenState(e, "waiting") /\ entry'[e].mr = entry[e].mr
      BY <1>0, <3>1 DEF EntryRows
    <3> QED
      BY <3>1, <3>2 DEF MayBecome, HoldsIndex
  <2> QED
    BY <2>1, <2>2
<1>8. CASE RecordTesting
  BY <1>0, <1>8, RecordEffect DEF MayBecome, HoldsIndex, EntryRows
<1>9. CASE CommitMerged
  BY <1>0, <1>9, MergedEffect DEF MayBecome, ActiveStates, EntryRows
<1>10. CASE Build \/ LookAtTheRun \/ MoveTarget
  <2>1. cur \in Entries
    BY <1>10, CurIsEntry DEF Build, LookAtTheRun, MoveTarget
  <2> QED
    BY <1>6, <1>7, <1>10, <2>1 DEF Build, LookAtTheRun, MoveTarget, line
<1>11. CASE Advance \/ TickEnds \/ StartPipeline \/ Tidy
  BY <1>11 DEF Advance, TickEnds, StartPipeline, Tidy, line
<1> QED
  BY <1>1, <1>2, <1>3, <1>4, <1>5, <1>8, <1>9, <1>10, <1>11, OthersLeaveTheLine, EnterEffect
     DEF Loop, line

LEMMA OnePlaceNext ==
  ASSUME TypeOK, OnePlacePerRequest, [Next]_vars
  PROVE  OnePlacePerRequest'
<1>1. CASE UNCHANGED entry
  BY <1>1 DEF OnePlacePerRequest, Active
<1>2. ASSUME NEW e \in Entries, MayBecome(e) PROVE OnePlacePerRequest'
  <2>1. Active' \ {e} = Active \ {e}
    BY <1>2 DEF MayBecome, Only, Active
  <2>2. \A f \in Active' \ {e} : entry'[f].mr = entry[f].mr
    BY <1>2 DEF MayBecome, Only, Active
  <2>3. e \in Active' => \A f \in Active \ {e} : entry[f].mr # entry'[e].mr
    BY <1>2 DEF MayBecome, Active, OnePlacePerRequest
  <2> QED
    BY <2>1, <2>2, <2>3 DEF OnePlacePerRequest
<1> QED
  BY <1>1, <1>2, OneRowAtATime

-----------------------------------------------------------------------------
(* The order of the line.                                                  *)

(* A row once written stays, and is first written by whoever asked for it.  *)
LEMMA RowsStand ==
  ASSUME TypeOK, PlacesWereTaken, [Next]_vars, NEW f \in Entries
  PROVE  \/ entry'[f].state = "none" <=> entry[f].state = "none"
         \/ \E r \in Requests : EnterWrites(r, f) /\ entry'[f].state # "none"
<1>0. entry \in [Entries -> EntryRows] /\ todo \subseteq Entries
  BY DEF TypeOK
<1>1. ASSUME NEW e \in Entries, Only(e), entry[e].state # "none", entry'[e].state # "none"
      PROVE  entry'[f].state = "none" <=> entry[f].state = "none"
  BY <1>1 DEF Only
<1>2. CASE UNCHANGED entry
  BY <1>2
<1>3. ASSUME NEW r \in Requests, NEW e \in Entries, EnterWrites(r, e), ~UNCHANGED <<entry, overtaken>>
      PROVE  f # e => entry'[f] = entry[f]
  BY <1>3, EnterEffect DEF Only
<1>4. ASSUME NEW r \in Requests, NEW e \in Entries, EnterWrites(r, e), ~UNCHANGED <<entry, overtaken>>
      PROVE  entry'[e].state # "none"
  <2>1. entry'[e] = [mr |-> r, state |-> "waiting", tested |-> Gone, base |-> Gone, run |-> "none"]
    BY <1>4, EnterEffect
  <2> QED
    BY <2>1
<1>5. ASSUME NEW e \in Entries, LeaveWrites(e)
      PROVE  entry'[f].state = "none" <=> entry[f].state = "none"
  <2>1. e \in leaving
    BY <1>5 DEF LeaveWrites
  <2> QED
    BY <1>0, <1>1, <1>5, <2>1, LeaveEffect DEF PlacesWereTaken
<1>6. CASE Runs
  BY <1>0, <1>6, RunEffect DEF Only
<1>7. CASE Crash \/ UNCHANGED <<line, loop>>
  BY <1>2, <1>7 DEF Crash, line
<1>8. ASSUME NEW e \in Entries, Step(e)
      PROVE  entry'[f].state = "none" <=> entry[f].state = "none"
  <2>1. entry[e].state # "none"
    BY <1>0, <1>8, StepEffect DEF PlacesWereTaken
  <2> QED
    BY <1>0, <1>1, <1>8, <2>1, StepEffect DEF Only
<1>9. CASE Build \/ RecordTesting \/ LookAtTheRun \/ MoveTarget \/ CommitMerged
  <2>1. cur \in Entries /\ entry[cur].state # "none"
    BY <1>9, CurIsEntry DEF Build, RecordTesting, LookAtTheRun, MoveTarget, CommitMerged, PlacesWereTaken
  <2>2. ASSUME GiveUp(cur) PROVE entry'[f].state = "none" <=> entry[f].state = "none"
    BY <1>0, <1>1, <2>1, <2>2, GiveUpEffect
  <2>3. ASSUME BackInLine(cur) PROVE entry'[f].state = "none" <=> entry[f].state = "none"
    <3>1. CASE ~UNCHANGED entry
      <4>1. /\ Only(cur)
            /\ entry'[cur] = [entry[cur] EXCEPT !.state = WrittenState(cur, "waiting"), !.run = "none"]
        BY <2>1, <2>3, <3>1, BackEffect
      <4>2. entry'[cur].state = WrittenState(cur, "waiting")
        BY <1>0, <2>1, <4>1 DEF EntryRows
      <4>3. entry'[cur].state # "none"
        BY <2>1, <4>2 DEF WrittenState
      <4> QED
        BY <1>1, <2>1, <4>1, <4>3
    <3> QED
      BY <1>2, <3>1
  <2>4. CASE RecordTesting \/ CommitMerged
    <3>1. Only(cur) /\ (UNCHANGED entry \/ entry'[cur].state # "none")
      BY <1>0, <2>1, <2>4, RecordEffect, MergedEffect DEF EntryRows
    <3> QED
      BY <1>1, <1>2, <2>1, <3>1
  <2> QED
    BY <1>2, <1>9, <2>2, <2>3, <2>4 DEF Build, LookAtTheRun, MoveTarget, line
<1>10. CASE Advance \/ TickEnds \/ StartPipeline \/ Tidy
  BY <1>2, <1>10 DEF Advance, TickEnds, StartPipeline, Tidy, line
<1>11. CASE Loop
  BY <1>8, <1>9, <1>10, <1>11 DEF Loop
<1> QED
  BY <1>2, <1>3, <1>4, <1>5, <1>6, <1>7, <1>11, OthersLeaveTheLine

LEMMA AskedIsNotHeld ==
  ASSUME PlacesWereTaken, NEW r \in Requests, NEW e \in Entries, EnterWrites(r, e)
  PROVE  cur # e
<1>1. <<r, e>> \in entering
  BY DEF EnterWrites
<1>2. entry[e].state = "none"
  BY <1>1 DEF PlacesWereTaken
<1> QED
  BY <1>2 DEF PlacesWereTaken

(* What handlers and the loop have in their hands.                          *)
LEMMA HandsMove ==
  ASSUME [Next]_vars
  PROVE  /\ todo' \subseteq todo \union Active /\ cur' \in {0, cur} \union todo
         /\ leaving' \subseteq leaving \union Active
         /\ \/ entering' \subseteq entering
            \/ \E r \in Requests, e \in Entries : EnterReads(r, e)
<1>1. CASE People
  BY <1>1 DEF People, OpenRequest, Approve, Revoke, SetRequiredChecks, CloseReads, CloseWrites, ReopenReads,
       ReopenWrites, EnterReads, EnterWrites, LeaveReads, LeaveWrites, loop, pending
<1>2. CASE Loop
  <2>1. entering' = entering /\ leaving' = leaving
    BY <1>2 DEF Loop, Advance, TickEnds, Step, Build, StartPipeline, RecordTesting, LookAtTheRun,
         MoveTarget, CommitMerged, Tidy, pending
  <2>2. Heads \subseteq Active
    BY DEF Heads
  <2>3. todo' \subseteq todo \union Active /\ cur' \in {0, cur} \union todo
    BY <1>2, <2>2 DEF Loop, Advance, TickEnds, Step, Build, StartPipeline, RecordTesting, LookAtTheRun,
         MoveTarget, CommitMerged, Tidy, Stumble, NextEntry, GiveUp, BackInLine
  <2> QED
    BY <2>1, <2>3
<1>3. CASE DirectMerge \/ Pushes \/ Runs
  BY <1>3 DEF DirectMerge, MergeChecks, MergeBuilds, MergeMoves, MergeCommits, MergeRestacks, Pushes, Push,
       ForcePush, DropBranch, PushTo, Runs, RunReports, RunCanceled, RunStops, RunChanges, loop, pending
<1>4. CASE Crash \/ UNCHANGED vars
  BY <1>4 DEF Crash, Stumble, vars, loop, pending
<1> QED
  BY <1>1, <1>2, <1>3, <1>4 DEF Next

LEMMA PlacesNext ==
  ASSUME TypeOK, PlacesWereTaken, [Next]_vars
  PROVE  PlacesWereTaken'
<1>0. /\ entry \in [Entries -> EntryRows] /\ entering \subseteq Requests \X Entries
      /\ entering' \subseteq Requests \X Entries /\ 0 \notin Entries
      /\ \A e \in Active : e \in Entries /\ entry[e].state # "none"
  BY TypeNext DEF TypeOK, Active, ActiveStates, Entries
<1>1. \A e \in todo' \union leaving' \union {cur'} : e \in Entries => entry'[e].state # "none"
  BY <1>0, HandsMove, RowsStand DEF PlacesWereTaken
<1>2. \A p, q \in entering' : p[2] = q[2] => p = q
  BY <1>0, HandsMove DEF PlacesWereTaken, EnterReads
<1>3. ASSUME NEW p \in entering' PROVE entry'[p[2]].state = "none"
  <2>1. entry[p[2]].state = "none" /\ p[2] \in Entries
    BY <1>0, <1>3, HandsMove DEF PlacesWereTaken, EnterReads
  <2>2. ASSUME NEW r \in Requests, EnterWrites(r, p[2]) PROVE FALSE
    <3>1. p \in entering /\ <<r, p[2]>> \in entering /\ p # <<r, p[2]>>
      BY <1>3, <2>2 DEF EnterWrites
    <3> QED
      BY <3>1 DEF PlacesWereTaken
  <2> QED
    BY <2>1, <2>2, RowsStand
<1> QED
  BY <1>1, <1>2, <1>3 DEF PlacesWereTaken

LEMMA FirstNext ==
  ASSUME TypeOK, PlacesWereTaken, FirstIsServed, [Next]_vars
  PROVE  FirstIsServed'
<1>0. /\ entry \in [Entries -> EntryRows] /\ todo \subseteq Entries
      /\ Active \subseteq Entries /\ Testing \subseteq Active /\ InHand \subseteq Entries
      /\ Entries \subseteq Nat
  BY CurIsEntry, ConstantsAssumption
     DEF TypeOK, Active, Testing, ActiveStates, InHand, Entries, ConstantsAssumption
<1> DEFINE Front == Testing \union todo \union InHand
           Rest  == Active \union todo \union InHand
<1>1. \A g \in Front : \A f \in Rest :
          ProjectOf[entry[f].mr] = ProjectOf[entry[g].mr] => g <= f \/ <<f, g>> \in overtaken
  BY DEF FirstIsServed
<1>2. ASSUME Front' \subseteq Front, Rest' \subseteq Rest, UNCHANGED overtaken,
             \A f \in Rest : entry'[f].mr = entry[f].mr
      PROVE  FirstIsServed'
  <2>1. Front \subseteq Rest
    BY <1>0
  <2> QED
    BY <1>1, <1>2, <2>1 DEF FirstIsServed
<1> HIDE DEF Front, Rest
<1>3. CASE UNCHANGED <<entry, overtaken, loop>>
  BY <1>3, <1>2 DEF Front, Rest, Testing, Active, InHand, loop
<1>4. ASSUME NEW r \in Requests, NEW e \in Entries, EnterWrites(r, e), ~UNCHANGED <<entry, overtaken>>
      PROVE  FirstIsServed'
  <2>1. /\ UNCHANGED loop /\ <<r, e>> \in entering /\ Only(e)
        /\ entry'[e] = [mr |-> r, state |-> "waiting", tested |-> Gone,
                        base |-> Gone, run |-> "none"]
        /\ overtaken' = overtaken \union {<<e, f>> : f \in Passed(r, e)}
    BY <1>4, EnterEffect
  <2>2. entry'[e].state = "waiting" /\ entry'[e].mr = r
    BY <2>1
  <2>3. \A f \in Rest : f \in Entries /\ f # e
    <3>1. entry[e].state = "none"
      BY <2>1 DEF PlacesWereTaken
    <3>2. e \notin todo /\ e \notin InHand
      BY <3>1 DEF PlacesWereTaken, InHand
    <3> QED
      BY <1>0, <3>1, <3>2 DEF Rest, Active, ActiveStates
  <2>4. Front' \subseteq Front
    BY <1>0, <2>1, <2>2 DEF Front, Testing, InHand, Only, loop
  <2>5. Rest' \subseteq Rest \union {e}
    BY <1>0, <2>1 DEF Rest, Active, InHand, Only, loop
  <2>6. Front \subseteq Rest
    BY <1>0 DEF Front, Rest
  <2>7. \A f \in Rest : entry'[f] = entry[f]
    BY <2>1, <2>3 DEF Only
  \* Whoever is served behind the new row is overtaken by it from now on.
  <2>8. ASSUME NEW g \in Front, ProjectOf[r] = ProjectOf[entry[g].mr]
        PROVE  g <= e \/ <<e, g>> \in overtaken'
    <3>1. g \in Nat /\ e \in Nat
      BY <1>0, <2>3, <2>6
    <3>2. e < g => g \in Passed(r, e)
      BY <2>8 DEF Passed, Front
    <3> QED
      BY <2>1, <3>1, <3>2
  <2>9. ASSUME NEW g \in Front', NEW f \in Rest', ProjectOf[entry'[f].mr] = ProjectOf[entry'[g].mr]
        PROVE  g <= f \/ <<f, g>> \in overtaken'
    <3>1. g \in Front /\ entry'[g] = entry[g]
      BY <2>4, <2>6, <2>7
    <3>2. CASE f = e
      BY <2>2, <2>8, <2>9, <3>1, <3>2
    <3>3. CASE f \in Rest
      BY <1>1, <2>1, <2>7, <2>9, <3>1, <3>3
    <3> QED
      BY <2>5, <3>2, <3>3
  <2> QED
    BY <2>9 DEF FirstIsServed, Front, Rest
<1>5. ASSUME NEW e \in Entries, LeaveWrites(e) PROVE FirstIsServed'
  <2>1. \A f \in Entries : /\ entry'[f].mr = entry[f].mr
                           /\ entry'[f].state = entry[f].state \/ entry'[f].state = "cancelled"
    BY <1>0, <1>5, LeaveEffect DEF Only
  <2>2. UNCHANGED <<overtaken, loop>>
    BY <1>5, LeaveEffect
  <2> QED
    BY <1>0, <1>2, <2>1, <2>2 DEF Front, Rest, Testing, Active, ActiveStates, InHand, loop
<1>6. CASE Runs
  <2>1. PICK e \in Entries, to \in {"success", "failed", "stopping", "canceled"} :
            Only(e) /\ entry'[e] = [entry[e] EXCEPT !.run = to] /\ UNCHANGED <<overtaken, loop>>
    BY <1>6, RunEffect
  <2>2. \A f \in Entries : entry'[f].mr = entry[f].mr /\ entry'[f].state = entry[f].state
    BY <1>0, <2>1 DEF Only, EntryRows
  <2> QED
    BY <1>0, <1>2, <2>1, <2>2 DEF Front, Rest, Testing, Active, InHand, loop
<1>7. CASE Crash
  BY <1>0, <1>2, <1>7 DEF Crash, Stumble, Front, Rest, Testing, Active, InHand, line
<1>8. CASE Advance
  <2>1. /\ UNCHANGED entry /\ todo' = Heads /\ InHand' = {} /\ Testing' = Testing
        /\ overtaken' = {p \in overtaken : p[2] \in Testing}
    BY <1>8 DEF Advance, InHand, Testing
  <2>2. Heads \subseteq Active
    BY DEF Heads
  <2>3. Rest' = Active /\ Front' = Testing \union Heads
    BY <1>0, <2>1, <2>2 DEF Rest, Front, Active, Testing
  <2>4. \A g \in Heads : \A f \in Active : ProjectOf[entry[f].mr] = ProjectOf[entry[g].mr] => g <= f
    BY DEF Heads
  <2>5. \A g \in Testing : \A f \in Active :
           ProjectOf[entry[f].mr] = ProjectOf[entry[g].mr] => g <= f \/ <<f, g>> \in overtaken'
    BY <1>1, <2>1 DEF Front, Rest
  <2>6. \A g \in Front' : \A f \in Rest' :
           ProjectOf[entry'[f].mr] = ProjectOf[entry'[g].mr] => g <= f \/ <<f, g>> \in overtaken'
    BY <2>1, <2>3, <2>4, <2>5
  <2> QED
    BY <2>6 DEF FirstIsServed, Front, Rest
<1>9. CASE Loop /\ ~Advance
  <2>1. UNCHANGED overtaken
    BY <1>9 DEF Loop, TickEnds, Step, Build, StartPipeline, RecordTesting, LookAtTheRun, MoveTarget,
         CommitMerged, Tidy, GiveUp, line
  <2>2. ASSUME NEW e \in Entries, Step(e) PROVE FirstIsServed'
    <3>1. \A f \in Entries : /\ entry'[f].mr = entry[f].mr
                             /\ entry'[f].state = entry[f].state \/ entry'[f].state = "failed"
      BY <1>0, <2>2, StepEffect DEF Only
    <3>2. e \in todo /\ todo' \subseteq todo /\ InHand' \subseteq {e}
      BY <2>2, StepEffect DEF InHand
    <3> QED
      BY <1>0, <1>2, <2>1, <3>1, <3>2 DEF Front, Rest, Testing, Active, ActiveStates
  <2>3. ASSUME InHand' = {}, todo' \subseteq todo,
               \A f \in Entries : /\ entry'[f].mr = entry[f].mr
                                  /\ entry'[f].state \in {entry[f].state, "failed", "merged"}
        PROVE  FirstIsServed'
    BY <1>0, <1>2, <2>1, <2>3 DEF Front, Rest, Testing, Active, ActiveStates
  <2>4. CASE TickEnds \/ Tidy
    BY <2>3, <2>4 DEF TickEnds, Tidy, NextEntry, Stumble, InHand, line
  <2>5. ASSUME GiveUp(cur), cur \in Entries PROVE FirstIsServed'
    <3>1. \A f \in Entries : /\ entry'[f].mr = entry[f].mr
                             /\ entry'[f].state \in {entry[f].state, "failed", "merged"}
      BY <1>0, <2>5, GiveUpEffect DEF Only, EntryRows
    <3> QED
      BY <2>3, <2>5, <3>1 DEF GiveUp, NextEntry, InHand
  \* The loop writes the place in its hands back into the line, or has it tested.
  <2>6. ASSUME cur \in InHand, InHand' = {}, todo' \subseteq todo, Only(cur),
               entry'[cur].mr = entry[cur].mr
        PROVE  FirstIsServed'
    <3>1. cur \in Entries /\ cur \in Front /\ cur \in Rest
      BY <1>0, <2>6 DEF Front, Rest
    <3>2. Rest' \subseteq Rest
      BY <1>0, <2>6, <3>1 DEF Rest, Active, Only
    <3>3. Front' \subseteq Front
      BY <1>0, <2>6, <3>1 DEF Front, Testing, Only
    <3>4. \A f \in Rest : entry'[f].mr = entry[f].mr
      BY <1>0, <2>6 DEF Rest, Only
    <3> QED
      BY <1>2, <2>1, <3>2, <3>3, <3>4
  <2>7. ASSUME BackInLine(cur), pc \in {"look", "move"} PROVE FirstIsServed'
    <3>1. cur \in Entries /\ cur \in InHand /\ InHand' = {} /\ todo' \subseteq todo
      <4>1. NextEntry \/ Stumble
        BY <2>7 DEF BackInLine
      <4>2. cur \in Entries /\ cur \in InHand
        BY <2>7, CurIsEntry DEF InHand
      <4> QED
        BY <4>1, <4>2 DEF NextEntry, Stumble, InHand
    <3>2. Only(cur) /\ entry'[cur].mr = entry[cur].mr
      BY <1>0, <2>7, <3>1, BackEffect
    <3> QED
      BY <2>6, <3>1, <3>2
  <2>8. CASE RecordTesting
    <3>1. cur \in InHand /\ InHand' = {} /\ todo' \subseteq todo
      BY <2>8 DEF RecordTesting, NextEntry, Stumble, InHand
    <3>2. Only(cur) /\ entry'[cur].mr = entry[cur].mr
      BY <1>0, <2>8, RecordEffect DEF EntryRows
    <3> QED
      BY <2>6, <3>1, <3>2
  <2>9. CASE CommitMerged
    <3>1. \A f \in Entries : /\ entry'[f].mr = entry[f].mr
                             /\ entry'[f].state \in {entry[f].state, "failed", "merged"}
      BY <1>0, <2>9, MergedEffect DEF Only, EntryRows
    <3> QED
      BY <2>3, <2>9, <3>1 DEF CommitMerged, InHand
  <2>10. ASSUME UNCHANGED <<entry, todo>>, InHand' \subseteq InHand PROVE FirstIsServed'
    BY <1>0, <1>2, <2>1, <2>10 DEF Front, Rest, Testing, Active
  <2>11. CASE Build
    <3>1. cur \in Entries
      BY <2>11, CurIsEntry DEF Build
    <3> QED
      BY <2>5, <2>10, <2>11, <3>1 DEF Build, InHand, line
  <2>12. CASE StartPipeline
    BY <2>3, <2>10, <2>12 DEF StartPipeline, Stumble, InHand, line
  <2>13. CASE LookAtTheRun
    <3>1. cur \in Entries
      BY <2>13, CurIsEntry DEF LookAtTheRun
    <3> QED
      BY <2>3, <2>5, <2>7, <2>10, <2>13, <3>1 DEF LookAtTheRun, NextEntry, InHand, line
  <2>14. CASE MoveTarget
    BY <2>7, <2>10, <2>14 DEF MoveTarget, InHand
  <2> QED
    BY <1>9, <2>2, <2>4, <2>8, <2>9, <2>11, <2>12, <2>13, <2>14 DEF Loop
<1>10. UNCHANGED <<line, loop>> => UNCHANGED <<entry, overtaken, loop>>
  BY DEF line
<1> QED
  BY <1>3, <1>4, <1>5, <1>6, <1>7, <1>8, <1>9, <1>10, OthersLeaveTheLine

LEMMA FirstIsHead ==
  ASSUME TypeOK, FirstIsServed
  PROVE  TestingIsHead
  BY DEF FirstIsServed, TestingIsHead, Testing, Active

-----------------------------------------------------------------------------
(* What was tested.                                                        *)

LEMMA WaitingNext ==
  ASSUME TypeOK, WalkedOnce, WaitingHasNoRun, [Next]_vars
  PROVE  WaitingHasNoRun'
<1>0. /\ entry \in [Entries -> EntryRows] /\ todo \subseteq Entries /\ Active \subseteq Entries
      /\ snap \in [Entries -> QueueStates]
  BY DEF TypeOK, Active
<1> DEFINE Building == pc \in {"build", "start", "record"}
<1>1. Building => cur \in Entries
  BY CurIsEntry
<1>2. ASSUME \A f \in Entries : entry'[f].state = "waiting" => entry'[f].run = "none",
             \A f \in Entries : entry[f].run = "none" => entry'[f].run = "none",
             UNCHANGED loop
      PROVE  WaitingHasNoRun'
  BY <1>0, <1>1, <1>2 DEF WaitingHasNoRun, loop
<1>3. CASE UNCHANGED <<line, loop>>
  BY <1>3 DEF WaitingHasNoRun, line, loop
<1>4. ASSUME NEW r \in Requests, NEW e \in Entries, EnterWrites(r, e), ~UNCHANGED <<entry, overtaken>>
      PROVE  WaitingHasNoRun'
  <2>1. /\ UNCHANGED loop /\ Only(e)
        /\ entry'[e] = [mr |-> r, state |-> "waiting", tested |-> Gone,
                                  base |-> Gone, run |-> "none"]
    BY <1>4, EnterEffect
  <2>2. entry'[e].run = "none"
    BY <2>1
  <2> QED
    BY <1>2, <2>1, <2>2 DEF Only, WaitingHasNoRun
<1>5. ASSUME NEW e \in Entries, LeaveWrites(e) PROVE WaitingHasNoRun'
  <2>1. Only(e) /\ UNCHANGED loop /\ entry'[e].state = "cancelled" /\ entry'[e].run = entry[e].run
    BY <1>0, <1>5, LeaveEffect
  <2> QED
    BY <1>2, <2>1 DEF Only, WaitingHasNoRun
<1>6. CASE Runs
  <2>1. PICK e \in Entries, to \in {"success", "failed", "stopping", "canceled"} :
            /\ Only(e) /\ entry'[e] = [entry[e] EXCEPT !.run = to] /\ UNCHANGED loop
            /\ entry[e].run # "none"
    BY <1>6, RunEffect
  <2>2. entry'[e].state = entry[e].state
    BY <1>0, <2>1 DEF EntryRows
  <2>3. \A f \in Entries : entry'[f].state = "waiting" => f # e /\ entry'[f] = entry[f]
    BY <2>1, <2>2 DEF Only, WaitingHasNoRun
  <2>4. \A f \in Entries : entry[f].run = "none" => f # e /\ entry'[f] = entry[f]
    BY <2>1 DEF Only
  <2>5. UNCHANGED loop
    BY <2>1
  <2> QED
    BY <1>2, <2>3, <2>4, <2>5 DEF WaitingHasNoRun
<1>7. CASE Crash
  BY <1>7 DEF Crash, Stumble, WaitingHasNoRun, line
<1>8. CASE Loop
  \* No step but RecordTesting starts a run, and most leave the loop with less.
  <2>1. ASSUME \A f \in Entries : entry'[f].state = "waiting" => entry'[f].run = "none",
               \A f \in Entries : entry[f].run = "none" => entry'[f].run = "none",
               todo' \subseteq todo, \A f \in todo' : snap'[f] \in {snap[f], "none"},
               Building' => Building /\ cur' = cur
        PROVE  WaitingHasNoRun'
    BY <1>0, <1>1, <2>1 DEF WaitingHasNoRun
  <2>2. CASE Advance
    BY <1>0, <2>2 DEF Advance, Heads, Active, WaitingHasNoRun, line
  <2>3. ASSUME NEW e \in Entries, Step(e) PROVE WaitingHasNoRun'
    <3>1. CASE UNCHANGED entry
      BY <1>0, <2>3, <3>1, StepEffect DEF WaitingHasNoRun, Step
    <3>2. CASE /\ pc' = "pick" /\ cur' = cur /\ snap' = [snap EXCEPT ![e] = "none"]
               /\ entry'[e] = [entry[e] EXCEPT !.state = "failed"]
      <4>1. Only(e) /\ todo' \subseteq todo /\ entry'[e].state = "failed" /\ entry'[e].run = entry[e].run
        BY <1>0, <2>3, <3>2, StepEffect
      <4> QED
        BY <1>0, <2>1, <3>2, <4>1 DEF Only, WaitingHasNoRun
    <3> QED
      BY <2>3, <3>1, <3>2, StepEffect
  <2>4. ASSUME UNCHANGED entry, Stumble \/ NextEntry PROVE WaitingHasNoRun'
    BY <1>0, <2>1, <2>4 DEF Stumble, NextEntry, WaitingHasNoRun
  <2>5. CASE TickEnds \/ StartPipeline \/ Tidy
    BY <2>1, <2>4, <2>5 DEF TickEnds, StartPipeline, Tidy, line, WaitingHasNoRun
  <2>6. ASSUME GiveUp(cur), cur \in Entries PROVE WaitingHasNoRun'
    <3>1. Only(cur) /\ entry'[cur].state = "failed" /\ entry'[cur].run = entry[cur].run
      BY <1>0, <2>6, GiveUpEffect
    <3>2. /\ todo' = todo /\ \A f \in todo' : snap'[f] \in {snap[f], "none"}
          /\ pc' = "pick"
      BY <1>0, <2>6 DEF GiveUp, NextEntry
    <3> QED
      BY <2>1, <3>1, <3>2 DEF Only, WaitingHasNoRun
  <2>7. ASSUME BackInLine(cur), cur \in Entries PROVE WaitingHasNoRun'
    <3>1. Only(cur) /\ (UNCHANGED entry \/ entry'[cur].run = "none")
      BY <1>0, <2>7, BackEffect
    <3>2. /\ todo' \subseteq todo /\ \A f \in todo' : snap'[f] \in {snap[f], "none"}
          /\ pc' \in {"pick", "idle"}
      BY <1>0, <2>7 DEF BackInLine, NextEntry, Stumble
    <3> QED
      BY <2>1, <3>1, <3>2 DEF Only, WaitingHasNoRun
  <2>8. CASE Build \/ LookAtTheRun \/ MoveTarget
    <3>1. cur \in Entries
      BY <2>8, CurIsEntry DEF Build, LookAtTheRun, MoveTarget
    <3> QED
      BY <2>1, <2>4, <2>6, <2>7, <2>8, <3>1 DEF Build, LookAtTheRun, MoveTarget, line, WaitingHasNoRun
  <2>9. CASE RecordTesting
    <3>1. CASE UNCHANGED entry
      BY <2>4, <2>9, <3>1 DEF RecordTesting
    <3>2. CASE ~UNCHANGED entry
      <4>1. cur \in Entries /\ Only(cur) /\ entry'[cur].state = "testing"
        BY <1>0, <2>9, <3>2, RecordEffect DEF EntryRows
      <4>2. cur \notin todo
        BY <2>9 DEF WalkedOnce, RecordTesting
      <4>3. /\ todo' = todo /\ \A f \in todo' : snap'[f] = snap[f]
            /\ pc' = "pick"
        BY <1>0, <2>9, <3>2, <4>2 DEF RecordTesting, NextEntry
      <4> QED
        BY <1>0, <4>1, <4>2, <4>3 DEF Only, WaitingHasNoRun
    <3> QED
      BY <3>1, <3>2
  <2>10. CASE CommitMerged
    <3>1. Only(cur) /\ entry'[cur].state = "merged" /\ entry'[cur].run = entry[cur].run
      BY <1>0, <2>10, MergedEffect DEF EntryRows
    <3> QED
      BY <2>1, <2>10, <3>1 DEF CommitMerged, Only, WaitingHasNoRun
  <2> QED
    BY <1>8, <2>2, <2>3, <2>5, <2>8, <2>9, <2>10 DEF Loop
<1> QED
  BY <1>3, <1>4, <1>5, <1>6, <1>7, <1>8, OthersLeaveTheLine

LEMMA SuccessNext ==
  ASSUME TypeOK, SuccessWasGreen, LandingIsTested, [Next]_vars
  PROVE  SuccessWasGreen'
<1>0. entry \in [Entries -> EntryRows]
  BY DEF TypeOK
\* A step keeps a row's run and commit, or takes its run away.
<1>1. ASSUME NEW e \in Entries, Only(e), green \subseteq green',
             \/ entry'[e].run = entry[e].run /\ entry'[e].tested = entry[e].tested
             \/ entry'[e].run # "success"
             \/ entry'[e].tested \in green'
      PROVE  SuccessWasGreen'
  BY <1>1 DEF Only, SuccessWasGreen
<1>2. CASE UNCHANGED <<entry, green>>
  BY <1>2 DEF SuccessWasGreen
<1>3. ASSUME NEW r \in Requests, NEW e \in Entries, EnterWrites(r, e), ~UNCHANGED <<entry, overtaken>>
      PROVE  SuccessWasGreen'
  <2>1. /\ UNCHANGED green /\ Only(e) 
        /\ entry'[e] = [mr |-> r, state |-> "waiting", tested |-> Gone,
                                  base |-> Gone, run |-> "none"]
    BY <1>3, EnterEffect
  <2>2. entry'[e].run = "none"
    BY <2>1
  <2> QED
    BY <1>1, <2>1, <2>2
<1>4. ASSUME NEW e \in Entries, LeaveWrites(e) PROVE SuccessWasGreen'
  <2>1. /\ Only(e) /\ UNCHANGED green
        /\ entry'[e].run = entry[e].run /\ entry'[e].tested = entry[e].tested
    BY <1>0, <1>4, LeaveEffect
  <2> QED
    BY <1>1, <2>1
<1>5. CASE Runs
  <2>1. PICK e \in Entries, to \in {"success", "failed", "stopping", "canceled"} :
            /\ Only(e) /\ entry'[e] = [entry[e] EXCEPT !.run = to]
            /\ green \subseteq green' /\ (to = "success" => entry[e].tested \in green')
    BY <1>5, RunEffect
  <2>2. entry'[e].run = to /\ entry'[e].tested = entry[e].tested
    BY <1>0, <2>1 DEF EntryRows
  <2> QED
    BY <1>1, <2>1, <2>2
<1>6. CASE Crash \/ Advance \/ TickEnds \/ StartPipeline \/ Tidy
  BY <1>2, <1>6 DEF Crash, Advance, TickEnds, StartPipeline, Tidy, line
<1>7. ASSUME NEW e \in Entries, Step(e) PROVE SuccessWasGreen'
  <2>1. /\ Only(e) /\ UNCHANGED green
        /\ entry'[e].run = entry[e].run /\ entry'[e].tested = entry[e].tested
    BY <1>0, <1>7, StepEffect
  <2> QED
    BY <1>1, <2>1
<1>8. ASSUME GiveUp(cur), cur \in Entries PROVE SuccessWasGreen'
  <2>1. /\ Only(cur) /\ UNCHANGED green
        /\ entry'[cur].run = entry[cur].run /\ entry'[cur].tested = entry[cur].tested
    BY <1>0, <1>8, GiveUpEffect
  <2> QED
    BY <1>1, <1>8, <2>1
<1>9. ASSUME BackInLine(cur), cur \in Entries, UNCHANGED green PROVE SuccessWasGreen'
  <2>1. Only(cur) /\ (UNCHANGED entry \/ entry'[cur].run = "none")
    BY <1>0, <1>9, BackEffect
  <2> QED
    BY <1>1, <1>2, <1>9, <2>1
<1>10. CASE Build \/ LookAtTheRun \/ MoveTarget
  <2>1. cur \in Entries
    BY <1>10, CurIsEntry DEF Build, LookAtTheRun, MoveTarget
  <2> QED
    BY <1>2, <1>8, <1>9, <1>10, <2>1 DEF Build, LookAtTheRun, MoveTarget, line
<1>11. CASE RecordTesting
  <2>1. cur \in Entries /\ UNCHANGED green /\ Only(cur) /\ (UNCHANGED entry \/ entry'[cur].run = "pending")
    BY <1>0, <1>11, RecordEffect DEF EntryRows
  <2> QED
    BY <1>1, <1>2, <2>1
<1>12. CASE CommitMerged
  <2>1. /\ cur \in Entries /\ UNCHANGED green /\ Only(cur)
        /\ entry'[cur].run = entry[cur].run /\ entry'[cur].tested = wCommit
    BY <1>0, <1>12, MergedEffect DEF EntryRows
  <2>2. entry[cur].run = "none" \/ wCommit \in green
    BY <1>12 DEF LandingIsTested, CommitMerged
  <2> QED
    BY <1>1, <2>1, <2>2
<1>13. UNCHANGED <<line, loop>> => UNCHANGED <<entry, green>>
  BY DEF line
<1> QED
  BY <1>2, <1>3, <1>4, <1>5, <1>6, <1>7, <1>10, <1>11, <1>12, <1>13, OthersLeaveTheLine DEF Loop

LEMMA LandingNext ==
  ASSUME TypeOK, PlacesWereTaken, WaitingHasNoRun, SuccessWasGreen, LandingIsTested, [Next]_vars
  PROVE  LandingIsTested'
<1>0. entry \in [Entries -> EntryRows] /\ (pc \notin {"idle", "pick"} => cur \in Entries)
  BY CurIsEntry DEF TypeOK
<1>1. ASSUME UNCHANGED <<pc, cur, wCommit>>, green \subseteq green',
             pc \in {"move", "commit"} /\ entry[cur].run = "none" =>
                 entry'[cur].run = "none" /\ entry'[cur].mr = entry[cur].mr
      PROVE  LandingIsTested'
  BY <1>1 DEF LandingIsTested
<1>2. ASSUME pc' \notin {"move", "commit"} PROVE LandingIsTested'
  BY <1>2 DEF LandingIsTested
<1>3. CASE UNCHANGED <<line, loop>>
  BY <1>1, <1>3 DEF line, loop
<1>4. ASSUME NEW r \in Requests, NEW e \in Entries, EnterWrites(r, e), ~UNCHANGED <<entry, overtaken>>
      PROVE  LandingIsTested'
  <2>1. UNCHANGED <<green, loop>> /\ Only(e)
    BY <1>4, EnterEffect
  <2>2. cur # e
    BY <1>4, AskedIsNotHeld
  <2>3. pc \in {"move", "commit"} => entry'[cur] = entry[cur]
    BY <1>0, <2>1, <2>2 DEF Only
  <2> QED
    BY <1>1, <2>1, <2>3 DEF loop
<1>5. ASSUME NEW e \in Entries, LeaveWrites(e) PROVE LandingIsTested'
  <2>1. UNCHANGED <<green, loop>>
    BY <1>5, LeaveEffect
  <2>2. \A f \in Entries : entry'[f].run = entry[f].run /\ entry'[f].mr = entry[f].mr
    BY <1>0, <1>5, LeaveEffect DEF Only
  <2> QED
    BY <1>0, <1>1, <2>1, <2>2 DEF loop
<1>6. CASE Runs
  <2>1. PICK e \in Entries : entry[e].run # "none" /\ Only(e)
    BY <1>6, RunEffect
  <2>2. UNCHANGED loop /\ green \subseteq green'
    BY <1>6, RunEffect
  <2>3. pc \in {"move", "commit"} /\ entry[cur].run = "none" => entry'[cur] = entry[cur]
    BY <1>0, <2>1 DEF Only
  <2> QED
    BY <1>1, <2>2, <2>3 DEF loop
<1>7. CASE Crash
  BY <1>2, <1>7 DEF Crash, Stumble
<1>8. CASE Loop
  <2>1. ASSUME Stumble \/ NextEntry PROVE LandingIsTested'
    BY <1>2, <2>1 DEF Stumble, NextEntry
  <2>2. ASSUME NEW e \in Entries, Step(e) PROVE LandingIsTested'
    BY <1>2, <2>2, StepEffect
  <2>3. CASE Advance \/ TickEnds \/ Build \/ RecordTesting \/ Tidy
    BY <1>2, <2>1, <2>3 DEF Advance, TickEnds, Build, RecordTesting, Tidy, GiveUp
  <2>4. CASE StartPipeline
    <3>1. CASE pc' = "move"
      <4>1. "none" \in Config[entry[cur].mr] /\ UNCHANGED <<line, cur>>
        BY <2>4, <3>1 DEF StartPipeline, Stumble
      <4>2. entry[cur].run = "none" /\ Config[entry[cur].mr] # {"jobs"}
        BY <2>4, <4>1 DEF StartPipeline, WaitingHasNoRun
      <4> QED
        BY <4>1, <4>2 DEF LandingIsTested, line
    <3> QED
      BY <1>2, <2>1, <2>4, <3>1 DEF StartPipeline
  <2>5. CASE LookAtTheRun
    <3>1. CASE pc' = "move"
      <4>1. entry[cur].run = "success" /\ wCommit' = entry[cur].tested /\ UNCHANGED line
        BY <2>5, <3>1 DEF LookAtTheRun, NextEntry, GiveUp, BackInLine, Stumble
      <4> QED
        BY <1>0, <2>5, <4>1 DEF LookAtTheRun, SuccessWasGreen, LandingIsTested, line
    <3> QED
      BY <1>2, <2>1, <2>5, <3>1 DEF LookAtTheRun, GiveUp, BackInLine
  <2>6. CASE MoveTarget
    <3>1. CASE UNCHANGED <<entry, cur, wCommit>>
      BY <2>6, <3>1 DEF MoveTarget, LandingIsTested
    <3> QED
      BY <2>1, <2>6, <3>1 DEF MoveTarget, BackInLine
  <2>7. CASE CommitMerged
    BY <1>2, <2>7 DEF CommitMerged
  <2> QED
    BY <1>8, <2>2, <2>3, <2>4, <2>5, <2>6, <2>7 DEF Loop
<1> QED
  BY <1>3, <1>4, <1>5, <1>6, <1>7, <1>8, OthersLeaveTheLine

LEMMA LandedNext ==
  ASSUME TypeOK, LandingIsTested, LandedWasTested, [Next]_vars
  PROVE  LandedWasTested'
<1>0. entry \in [Entries -> EntryRows]
  BY DEF TypeOK
\* A row that is, or stays, merged keeps its request and its commit.
<1>1. ASSUME NEW e \in Entries, Only(e), green \subseteq green',
             \/ entry'[e].state # "merged"
             \/ /\ entry[e].state = "merged"
                /\ entry'[e].mr = entry[e].mr /\ entry'[e].tested = entry[e].tested
             \/ Config[entry'[e].mr] # {"jobs"} \/ entry'[e].tested \in green
      PROVE  LandedWasTested'
  BY <1>1 DEF Only, LandedWasTested
<1>2. CASE UNCHANGED <<entry, green>>
  BY <1>2 DEF LandedWasTested
<1>3. ASSUME NEW r \in Requests, NEW e \in Entries, EnterWrites(r, e), ~UNCHANGED <<entry, overtaken>>
      PROVE  LandedWasTested'
  <2>1. /\ UNCHANGED green /\ Only(e) 
        /\ entry'[e] = [mr |-> r, state |-> "waiting", tested |-> Gone,
                                  base |-> Gone, run |-> "none"]
    BY <1>3, EnterEffect
  <2>2. entry'[e].state = "waiting"
    BY <2>1
  <2> QED
    BY <1>1, <2>1, <2>2
<1>4. ASSUME NEW e \in Entries, LeaveWrites(e) PROVE LandedWasTested'
  <2>1. Only(e) /\ UNCHANGED green /\ entry'[e].state = "cancelled"
    BY <1>0, <1>4, LeaveEffect
  <2> QED
    BY <1>1, <2>1
<1>5. CASE Runs
  <2>1. PICK e \in Entries, to \in {"success", "failed", "stopping", "canceled"} :
            /\ Only(e) /\ green \subseteq green'
            /\ entry'[e].state = entry[e].state /\ entry'[e].tested = entry[e].tested
            /\ entry'[e].mr = entry[e].mr
    BY <1>0, <1>5, RunEffect
  <2> QED
    BY <1>1, <2>1
<1>6. CASE Crash \/ Advance \/ TickEnds \/ StartPipeline \/ Tidy
  BY <1>2, <1>6 DEF Crash, Advance, TickEnds, StartPipeline, Tidy, line
<1>7. ASSUME NEW e \in Entries, Step(e) PROVE LandedWasTested'
  <2>1. Only(e) /\ UNCHANGED green /\ (UNCHANGED entry \/ entry'[e].state = "failed")
    BY <1>0, <1>7, StepEffect
  <2>2. CASE UNCHANGED entry
    BY <1>2, <2>1, <2>2
  <2>3. CASE entry'[e].state = "failed"
    BY <1>1, <2>1, <2>3
  <2> QED
    BY <2>1, <2>2, <2>3
<1>8. ASSUME GiveUp(cur), cur \in Entries PROVE LandedWasTested'
  <2>1. Only(cur) /\ UNCHANGED green /\ entry'[cur].state = "failed"
    BY <1>0, <1>8, GiveUpEffect
  <2> QED
    BY <1>1, <1>8, <2>1
<1>9. ASSUME BackInLine(cur), cur \in Entries, UNCHANGED green PROVE LandedWasTested'
  <2>1. CASE UNCHANGED entry
    BY <1>2, <1>9, <2>1
  <2>2. CASE ~UNCHANGED entry
    <3>0. /\ Only(cur)
          /\ entry'[cur] = [entry[cur] EXCEPT !.state = WrittenState(cur, "waiting"), !.run = "none"]
      BY <1>9, <2>2, BackEffect
    <3>1. /\ entry'[cur].state = WrittenState(cur, "waiting")
          /\ entry'[cur].mr = entry[cur].mr /\ entry'[cur].tested = entry[cur].tested
      BY <1>0, <1>9, <3>0 DEF EntryRows
    <3>2. WrittenState(cur, "waiting") \in {"waiting", entry[cur].state}
      BY DEF WrittenState
    <3> QED
      BY <1>1, <1>9, <3>0, <3>1, <3>2
  <2> QED
    BY <2>1, <2>2
<1>10. CASE Build \/ LookAtTheRun \/ MoveTarget
  <2>1. cur \in Entries
    BY <1>10, CurIsEntry DEF Build, LookAtTheRun, MoveTarget
  <2> QED
    BY <1>2, <1>8, <1>9, <1>10, <2>1 DEF Build, LookAtTheRun, MoveTarget, line
<1>11. CASE RecordTesting
  <2>1. /\ cur \in Entries /\ UNCHANGED green /\ Only(cur)
        /\ UNCHANGED entry \/ entry'[cur].state = "testing"
    BY <1>0, <1>11, RecordEffect DEF EntryRows
  <2> QED
    BY <1>1, <1>2, <2>1
<1>12. CASE CommitMerged
  <2>1. /\ cur \in Entries /\ UNCHANGED green /\ Only(cur)
        /\ entry'[cur].mr = entry[cur].mr /\ entry'[cur].tested = wCommit
    BY <1>0, <1>12, MergedEffect DEF EntryRows
  <2>2. Config[entry[cur].mr] # {"jobs"} \/ wCommit \in green
    BY <1>12 DEF LandingIsTested, CommitMerged
  <2> QED
    BY <1>1, <2>1, <2>2
<1>13. UNCHANGED <<line, loop>> => UNCHANGED <<entry, green>>
  BY DEF line
<1> QED
  BY <1>2, <1>3, <1>4, <1>5, <1>6, <1>7, <1>10, <1>11, <1>12, <1>13, OthersLeaveTheLine DEF Loop

-----------------------------------------------------------------------------
(* Who has looked.                                                         *)

(* Enough people said yes to a request that is satisfied.                  *)
LEMMA SatisfiedIsLooked ==
  ASSUME TypeOK, YesWasSaid, NEW r \in Requests, Satisfied(r)
  PROVE  Looked(r)
<1>1. Fresh(r) \subseteq said[r] \ {Author[r]}
  BY DEF Fresh, YesWasSaid
<1>2. IsFiniteSet(said[r] \ {Author[r]})
  <2>1. said[r] \ {Author[r]} \subseteq Users
    BY DEF TypeOK
  <2> QED
    BY <2>1, FS_Subset, ConstantsAssumption DEF ConstantsAssumption
<1>3. Cardinality(Fresh(r)) <= Cardinality(said[r] \ {Author[r]})
      /\ Cardinality(Fresh(r)) \in Nat /\ Cardinality(said[r] \ {Author[r]}) \in Nat
  BY <1>1, <1>2, FS_Subset, FS_CardinalityType
<1> QED
  BY <1>3, ConstantsAssumption DEF Satisfied, Looked, ConstantsAssumption

(* Nobody unsays what was said, so a request once looked at stays so.      *)
LEMMA SaidGrows ==
  ASSUME TypeOK, [Next]_vars
  PROVE  \A r \in Requests : said[r] \subseteq said'[r]
<1>1. ASSUME NEW r \in Requests, NEW u \in Users, Approve(r, u)
      PROVE  \A q \in Requests : said[q] \subseteq said'[q]
  <2>1. said' = [said EXCEPT ![r] = said[r] \union {u}] /\ said \in [Requests -> SUBSET Users]
    BY <1>1 DEF Approve, TypeOK
  <2> QED
    BY <2>1
<1>2. CASE People
  BY <1>2, <1>1 DEF People, OpenRequest, Revoke, SetRequiredChecks, CloseReads, CloseWrites,
       ReopenReads, ReopenWrites, EnterReads, EnterWrites, LeaveReads, LeaveWrites, rows
<1>3. CASE Loop
  BY <1>3 DEF Loop, Advance, TickEnds, Step, Build, StartPipeline, RecordTesting, LookAtTheRun,
       MoveTarget, CommitMerged, Tidy, rows
<1>4. CASE DirectMerge
  BY <1>4 DEF DirectMerge, MergeChecks, MergeBuilds, MergeMoves, MergeCommits, MergeRestacks, rows
<1>5. CASE Pushes \/ Runs \/ Crash \/ UNCHANGED vars
  BY <1>5 DEF Pushes, Push, ForcePush, DropBranch, PushTo, Runs, RunReports, RunCanceled, RunStops,
       RunChanges, Crash, vars, rows
<1> QED
  BY <1>2, <1>3, <1>4, <1>5 DEF Next

LEMMA LookedStays ==
  ASSUME TypeOK, [Next]_vars, NEW r \in Requests, Looked(r)
  PROVE  Looked(r)'
<1>1. said[r] \ {Author[r]} \subseteq said'[r] \ {Author[r]}
  BY SaidGrows
<1>2. said'[r] \ {Author[r]} \subseteq Users
  BY TypeNext DEF TypeOK
<1>3. IsFiniteSet(said'[r] \ {Author[r]})
  BY <1>2, FS_Subset, ConstantsAssumption DEF ConstantsAssumption
<1>4. Cardinality(said[r] \ {Author[r]}) <= Cardinality(said'[r] \ {Author[r]})
      /\ Cardinality(said[r] \ {Author[r]}) \in Nat /\ Cardinality(said'[r] \ {Author[r]}) \in Nat
  BY <1>1, <1>3, FS_Subset, FS_CardinalityType
<1>5. Required \in Nat
  BY ConstantsAssumption DEF ConstantsAssumption
<1> QED
  BY <1>4, <1>5 DEF Looked

LEMMA YesNext ==
  ASSUME TypeOK, YesWasSaid, [Next]_vars
  PROVE  YesWasSaid'
<1>1. CASE UNCHANGED yes
  BY <1>1, SaidGrows DEF YesWasSaid
<1>2. ASSUME NEW r \in Requests, NEW u \in Users, Approve(r, u) PROVE YesWasSaid'
  BY <1>2 DEF Approve, YesWasSaid, TypeOK
<1>3. ASSUME NEW r \in Requests, NEW u \in Users, Revoke(r, u) PROVE YesWasSaid'
  BY <1>3 DEF Revoke, YesWasSaid, TypeOK
<1>4. CASE People
  BY <1>1, <1>2, <1>3, <1>4 DEF People, OpenRequest, SetRequiredChecks, CloseReads, CloseWrites,
       ReopenReads, ReopenWrites, EnterReads, EnterWrites, LeaveReads, LeaveWrites, rows
<1>5. CASE Loop
  BY <1>1, <1>5 DEF Loop, Advance, TickEnds, Step, Build, StartPipeline, RecordTesting, LookAtTheRun,
       MoveTarget, CommitMerged, Tidy, rows
<1>6. CASE DirectMerge
  BY <1>1, <1>6 DEF DirectMerge, MergeChecks, MergeBuilds, MergeMoves, MergeCommits, MergeRestacks, rows
<1>7. CASE Pushes \/ Runs \/ Crash \/ UNCHANGED vars
  BY <1>1, <1>7 DEF Pushes, Push, ForcePush, DropBranch, PushTo, Runs, RunReports, RunCanceled, RunStops,
       RunChanges, Crash, vars, rows
<1> QED
  BY <1>4, <1>5, <1>6, <1>7 DEF Next

LEMMA LookedNext ==
  ASSUME TypeOK, PlacesWereTaken, YesWasSaid, LookedAt, [Next]_vars
  PROVE  LookedAt'
<1>0. /\ entry \in [Entries -> EntryRows] /\ (pc \notin {"idle", "pick"} => cur \in Entries)
      /\ \A e \in Entries : entry[e].mr \in Requests
  BY CurIsEntry DEF TypeOK, EntryRows
<1> DEFINE ByLoop   == pc \notin {"idle", "pick"} => Looked(entry[cur].mr)
           ByButton == \A u \in Users : hpc[u] # "idle" => Looked(hReq[u])
<1>1. ByLoop /\ ByButton
  BY DEF LookedAt
<1>2. ASSUME NEW r \in Requests, Looked(r) PROVE Looked(r)'
  BY <1>2, LookedStays
<1> HIDE DEF ByLoop, ByButton
<1>3. ByLoop'
  \* The loop's place keeps its request.
  <2>1. ASSUME cur' = cur, pc' \notin {"idle", "pick"} => pc \notin {"idle", "pick"},
               cur \in Entries => entry'[cur].mr = entry[cur].mr
        PROVE  ByLoop'
    BY <1>0, <1>1, <1>2, <2>1 DEF ByLoop
  <2>2. ASSUME pc' \in {"idle", "pick"} PROVE ByLoop'
    BY <2>2 DEF ByLoop
  <2>3. CASE UNCHANGED <<line, loop>>
    BY <2>1, <2>3 DEF line, loop
  <2>4. ASSUME NEW r \in Requests, NEW e \in Entries, EnterWrites(r, e), ~UNCHANGED <<entry, overtaken>> PROVE ByLoop'
    <3>1. UNCHANGED loop /\ Only(e)
      BY <2>4, EnterEffect
    <3>2. cur # e
      BY <2>4, AskedIsNotHeld
    <3> QED
      BY <2>1, <3>1, <3>2 DEF Only, loop
  <2>5. ASSUME NEW e \in Entries, LeaveWrites(e) PROVE ByLoop'
    <3>1. UNCHANGED loop /\ \A f \in Entries : entry'[f].mr = entry[f].mr
      BY <1>0, <2>5, LeaveEffect DEF Only
    <3> QED
      BY <2>1, <3>1 DEF loop
  <2>6. CASE Runs
    <3>1. PICK e \in Entries, to \in {"success", "failed", "stopping", "canceled"} :
              Only(e) /\ entry'[e] = [entry[e] EXCEPT !.run = to] /\ UNCHANGED loop
      BY <2>6, RunEffect
    <3>2. \A f \in Entries : entry'[f].mr = entry[f].mr
      BY <1>0, <3>1 DEF Only, EntryRows
    <3> QED
      BY <2>1, <3>1, <3>2 DEF loop
  <2>7. CASE Crash
    BY <2>2, <2>7 DEF Crash, Stumble
  <2>8. CASE Loop
    <3>1. ASSUME Stumble \/ NextEntry PROVE ByLoop'
      BY <2>2, <3>1 DEF Stumble, NextEntry
    <3>2. ASSUME NEW e \in Entries, Step(e) PROVE ByLoop'
      <4>1. CASE pc' = "pick"
        BY <2>2, <4>1
      <4>2. CASE UNCHANGED entry /\ cur' = e /\ Satisfied(entry[e].mr)
        <5>1. Looked(entry[e].mr)
          BY <1>0, <4>2, SatisfiedIsLooked
        <5> QED
          BY <1>0, <1>2, <4>2, <5>1 DEF ByLoop
      <4> QED
        BY <3>2, <4>1, <4>2, StepEffect
    <3>3. CASE Advance \/ TickEnds \/ RecordTesting \/ Tidy
      BY <2>2, <3>1, <3>3 DEF Advance, TickEnds, RecordTesting, Tidy
    <3>4. CASE Build \/ StartPipeline \/ LookAtTheRun \/ MoveTarget
      BY <2>1, <3>1, <3>4 DEF Build, StartPipeline, LookAtTheRun, MoveTarget, GiveUp, BackInLine, line
    <3>5. CASE CommitMerged
      <4>1. entry'[cur].mr = entry[cur].mr
        BY <1>0, <3>5, MergedEffect DEF EntryRows
      <4> QED
        BY <2>1, <3>5, <4>1 DEF CommitMerged
    <3> QED
      BY <2>8, <3>2, <3>3, <3>4, <3>5 DEF Loop
  <2> QED
    BY <2>3, <2>4, <2>5, <2>6, <2>7, <2>8, OthersLeaveTheLine
<1>4. ByButton'
  <2>1. hReq \in [Users -> Requests] /\ hpc \in [Users -> {"idle", "build", "move", "commit", "restack"}]
    BY DEF TypeOK
  <2>2. ASSUME hReq' = hReq, \A u \in Users : hpc'[u] # "idle" => hpc[u] # "idle" PROVE ByButton'
    BY <1>1, <1>2, <2>1, <2>2 DEF ByButton
  <2>3. CASE UNCHANGED direct
    BY <2>2, <2>3 DEF direct
  <2>4. CASE Crash
    BY <2>4 DEF Crash, ByButton
  <2>5. CASE DirectMerge
    <3>1. PICK u \in Users : \/ \E r \in Requests : MergeChecks(u, r)
                            \/ MergeBuilds(u) \/ MergeMoves(u) \/ MergeCommits(u) \/ MergeRestacks(u)
      BY <2>5 DEF DirectMerge
    <3>2. ASSUME NEW r \in Requests, MergeChecks(u, r) PROVE ByButton'
      <4>1. Looked(r)'
        BY <1>2, <3>2, SatisfiedIsLooked DEF MergeChecks
      <4>2. \A v \in Users : \/ hReq'[v] = r
                             \/ hReq'[v] = hReq[v] /\ hpc'[v] = hpc[v]
        BY <2>1, <3>2 DEF MergeChecks
      <4> QED
        BY <1>1, <1>2, <2>1, <4>1, <4>2 DEF ByButton
    <3>3. CASE MergeBuilds(u) \/ MergeMoves(u) \/ MergeCommits(u) \/ MergeRestacks(u)
      BY <2>1, <2>2, <3>3 DEF MergeBuilds, MergeMoves, MergeCommits, MergeRestacks, HandlerEnds
    <3> QED
      BY <3>1, <3>2, <3>3
  <2>6. UNCHANGED vars => UNCHANGED direct
    BY DEF vars
  <2> QED
    BY <2>3, <2>4, <2>5, <2>6, OthersLeaveTheHandlers DEF Next
<1> QED
  BY <1>3, <1>4 DEF LookedAt, ByLoop, ByButton

LEMMA MergedNext ==
  ASSUME TypeOK, LookedAt, NobodyMergesAlone, [Next]_vars
  PROVE  NobodyMergesAlone'
<1>1. \A r \in Requests : state[r] = "merged" \/ Looked(r) => Looked(r)'
  BY LookedStays DEF NobodyMergesAlone, Looked
<1>2. ASSUME \A r \in Requests : state'[r] = "merged" => state[r] = "merged" \/ Looked(r)
      PROVE  NobodyMergesAlone'
  BY <1>1, <1>2 DEF NobodyMergesAlone, Looked
<1>3. state \in [Requests -> {"absent", "open", "merged", "closed"}]
  BY DEF TypeOK
<1>4. CASE People
  BY <1>2, <1>3, <1>4 DEF People, OpenRequest, Approve, Revoke, SetRequiredChecks, CloseReads, CloseWrites,
       ReopenReads, ReopenWrites, EnterReads, EnterWrites, LeaveReads, LeaveWrites, rows
<1>5. CASE CommitMerged
  <2>1. Looked(entry[cur].mr)
    BY <1>5 DEF LookedAt, CommitMerged
  <2> QED
    BY <1>2, <1>3, <1>5, <2>1 DEF CommitMerged
<1>6. CASE Loop /\ ~CommitMerged
  BY <1>2, <1>6 DEF Loop, Advance, TickEnds, Step, Build, StartPipeline, RecordTesting, LookAtTheRun,
       MoveTarget, Tidy, rows
<1>7. ASSUME NEW u \in Users, MergeCommits(u) PROVE NobodyMergesAlone'
  <2>1. Looked(hReq[u])
    BY <1>7 DEF LookedAt, MergeCommits
  <2> QED
    BY <1>2, <1>3, <1>7, <2>1 DEF MergeCommits
<1>8. CASE DirectMerge
  BY <1>2, <1>7, <1>8 DEF DirectMerge, MergeChecks, MergeBuilds, MergeMoves, MergeRestacks, rows
<1>9. CASE Pushes \/ Runs \/ Crash \/ UNCHANGED vars
  BY <1>2, <1>9 DEF Pushes, Push, ForcePush, DropBranch, PushTo, Runs, RunReports, RunCanceled, RunStops,
       RunChanges, Crash, vars, rows
<1> QED
  BY <1>4, <1>5, <1>6, <1>8, <1>9 DEF Next

-----------------------------------------------------------------------------
LEMMA LineInit == Init => LineInv
<1> SUFFICES ASSUME Init PROVE LineInv
  OBVIOUS
<1>1. TypeOK
  BY TypeInit
<1>2. \A e \in Entries : entry[e].state = "none" /\ entry[e].run = "none"
  BY DEF Init
<1>3. Active = {} /\ Testing = {} /\ todo = {} /\ InHand = {} /\ cur = 0 /\ entering = {} /\ leaving = {}
  BY <1>2 DEF Init, Active, ActiveStates, Testing, InHand
<1>4. OnePlacePerRequest /\ PlacesWereTaken /\ FirstIsServed
  BY <1>3 DEF OnePlacePerRequest, PlacesWereTaken, FirstIsServed, Entries
<1>5. WalkedOnce /\ WaitingHasNoRun /\ SuccessWasGreen /\ LandingIsTested /\ LandedWasTested
  BY <1>2, <1>3 DEF Init, WalkedOnce, WaitingHasNoRun, SuccessWasGreen, LandingIsTested, LandedWasTested
<1>6. YesWasSaid /\ LookedAt /\ NobodyMergesAlone
  BY DEF Init, YesWasSaid, LookedAt, NobodyMergesAlone
<1> QED
  BY <1>1, <1>4, <1>5, <1>6 DEF LineInv

LEMMA LineNext == LineInv /\ [Next]_vars => LineInv'
<1> SUFFICES ASSUME LineInv, [Next]_vars PROVE LineInv'
  OBVIOUS
<1> USE DEF LineInv
<1>1. TypeOK' /\ WalkedOnce' /\ OnePlacePerRequest'
  BY TypeNext, WalkedOnceNext, OnePlaceNext
<1>2. PlacesWereTaken' /\ FirstIsServed'
  BY PlacesNext, FirstNext
<1>3. WaitingHasNoRun' /\ SuccessWasGreen' /\ LandingIsTested' /\ LandedWasTested'
  BY WaitingNext, SuccessNext, LandingNext, LandedNext
<1>4. YesWasSaid' /\ LookedAt' /\ NobodyMergesAlone'
  BY YesNext, LookedNext, MergedNext
<1> QED
  BY <1>1, <1>2, <1>3, <1>4

(* One request never stands in line twice at a time, whoever leaves, comes *)
(* back or is put back by the loop meanwhile.                              *)
THEOREM RequestsStandOnce == Spec => []OnePlacePerRequest
<1>1. LineInv => OnePlacePerRequest
  BY DEF LineInv
<1> QED
  BY <1>1, LineInit, LineNext, PTL DEF Spec

(* Whatever is tested is first of its project's line.                      *)
THEOREM FirstIsTested == Spec => []TestingIsHead
<1>1. LineInv => TestingIsHead
  BY FirstIsHead DEF LineInv
<1> QED
  BY <1>1, LineInit, LineNext, PTL DEF Spec

(* A place of a request with a pipeline is marked merged only with a commit *)
(* whose run ended well, though runs are canceled and report late.          *)
THEOREM LandedTested == Spec => []LandedWasTested
<1>1. LineInv => LandedWasTested
  BY DEF LineInv
<1> QED
  BY <1>1, LineInit, LineNext, PTL DEF Spec

(* No request is merged, by the line or by the button, before as many      *)
(* people other than its author said yes as the project asks for.          *)
THEOREM MergesAreLookedAt == Spec => []NobodyMergesAlone
<1>1. LineInv => NobodyMergesAlone
  BY DEF LineInv
<1> QED
  BY <1>1, LineInit, LineNext, PTL DEF Spec
=============================================================================
