-------------------------- MODULE MergeQueueProofs --------------------------
(* Proofs about MergeQueue for any number of requests, branches, projects, *)
(* accounts and places, and any number of upsets.                          *)
EXTENDS MergeQueue, TLAPS

(* What makes MergedIsContained inductive: whatever may yet be moved onto a *)
(* branch contains the commit the branch is expected to stand at, and       *)
(* whatever has been moved and not yet written down is still in its branch. *)
BuiltOnBase ==
    /\ pc \in {"start", "record", "move"} => wBase \subseteq wCommit
    /\ \A u \in Users : hpc[u] = "move" => hBase[u] \subseteq hCommit[u]
    /\ \A e \in Active \union todo \union InHand : entry[e].base \subseteq entry[e].tested

MovedIsThere ==
    /\ pc = "commit" /\ wTarget \in Protected => wCommit \subseteq tip[wTarget]
    /\ \A u \in Users :
          hpc[u] = "commit" /\ hTarget[u] \in Protected => hCommit[u] \subseteq tip[hTarget[u]]

\* What is in hand is not also still to be walked.
WalkedOnce ==
    /\ pc # "pick" => cur \notin todo
    /\ pc = "idle" => todo = {}

Inv == TypeOK /\ WalkedOnce /\ BuiltOnBase /\ MovedIsThere /\ MergedIsContained

-----------------------------------------------------------------------------
(* Helpers: what the small operators return.                               *)

LEMMA FreshIsChange == NewChange \subseteq Changes
  BY DEF NewChange

(* Writing columns of one row of the line keeps the rows well formed.      *)
LEMMA StateStaysRow ==
  ASSUME NEW rs \in [Entries -> EntryRows], NEW e \in Entries, NEW s \in QueueStates
  PROVE  [rs EXCEPT ![e].state = s] \in [Entries -> EntryRows]
  BY DEF EntryRows

LEMMA RunStaysRow ==
  ASSUME NEW rs \in [Entries -> EntryRows], NEW e \in Entries, NEW run \in RunStates
  PROVE  [rs EXCEPT ![e].run = run] \in [Entries -> EntryRows]
  BY DEF EntryRows

LEMMA StateRunStaysRow ==
  ASSUME NEW rs \in [Entries -> EntryRows], NEW e \in Entries, NEW s \in QueueStates, NEW run \in RunStates
  PROVE  [rs EXCEPT ![e].state = s, ![e].run = run] \in [Entries -> EntryRows]
  BY DEF EntryRows

LEMMA StateTestedStaysRow ==
  ASSUME NEW rs \in [Entries -> EntryRows], NEW e \in Entries, NEW s \in QueueStates, NEW c \in Commits
  PROVE  [rs EXCEPT ![e].state = s, ![e].tested = c] \in [Entries -> EntryRows]
  BY DEF EntryRows

LEMMA TestingStaysRow ==
  ASSUME NEW rs \in [Entries -> EntryRows], NEW e \in Entries, NEW s \in QueueStates, NEW c \in Commits,
         NEW b \in Commits, NEW run \in RunStates
  PROVE  [rs EXCEPT ![e].state = s, ![e].tested = c, ![e].base = b, ![e].run = run]
            \in [Entries -> EntryRows]
<1>1. rs[e] \in EntryRows
  OBVIOUS
<1>2. [rs[e] EXCEPT !.state = s, !.tested = c, !.base = b, !.run = run] \in EntryRows
  BY <1>1 DEF EntryRows
<1> QED
  BY <1>2

LEMMA WrittenIsState ==
  ASSUME TypeOK, NEW e \in Entries, NEW to \in QueueStates
  PROVE  WrittenState(e, to) \in QueueStates
  BY DEF TypeOK, WrittenState, EntryRows

LEMMA RestackedIsTarget ==
  ASSUME TypeOK, NEW r \in Requests, NEW b \in Branches
  PROVE  Restacked(r, b) \in [Requests -> Branches]
  BY DEF TypeOK, Restacked

(* The loop always holds a real place while it is at work on one.          *)
LEMMA CurIsEntry ==
  ASSUME TypeOK, pc \notin {"idle", "pick"}
  PROVE  cur \in Entries
  BY ConstantsAssumption DEF TypeOK, Entries, ConstantsAssumption

LEMMA NextEntryTyped ==
  ASSUME TypeOK, NextEntry
  PROVE  /\ pc' = "pick" /\ cur' = 0 /\ cur' \in 0..MaxEntries
         /\ todo' \subseteq Entries /\ snap' \in [Entries -> QueueStates]
         /\ wTarget' \in Branches /\ wBase' \in Commits /\ wCommit' \in Commits
<1>1. "none" \in QueueStates
  BY DEF QueueStates
<1>2. [snap EXCEPT ![cur] = "none"] \in [Entries -> QueueStates]
  BY <1>1 DEF TypeOK
<1> QED
  BY <1>2, ConstantsAssumption DEF TypeOK, NextEntry, ConstantsAssumption, Gone, Commits

LEMMA StumbleTyped ==
  ASSUME TypeOK, Stumble
  PROVE  /\ pc' = "idle" /\ cur' = 0 /\ cur' \in 0..MaxEntries
         /\ todo' \subseteq Entries /\ snap' \in [Entries -> QueueStates]
         /\ wTarget' \in Branches /\ wBase' \in Commits /\ wCommit' \in Commits
  BY ConstantsAssumption DEF TypeOK, Stumble, ConstantsAssumption, QueueStates, Gone, Commits

LEMMA UpsetTyped ==
  ASSUME TypeOK, Upset
  PROVE  upsets' \in 0..MaxUpsets
  BY ConstantsAssumption DEF TypeOK, Upset, ConstantsAssumption

-----------------------------------------------------------------------------
(* Types.                                                                  *)

LEMMA TypeInit == Init => TypeOK
<1> SUFFICES ASSUME Init PROVE TypeOK
  OBVIOUS
<1>1. (CHOOSE r \in Requests : TRUE) \in Requests /\ (CHOOSE b \in Branches : TRUE) \in Branches
  BY ConstantsAssumption DEF ConstantsAssumption
<1>2. Gone \in Commits /\ "none" \in QueueStates /\ "none" \in RunStates
  BY DEF Gone, Commits, QueueStates, RunStates
<1>3. entry \in [Entries -> EntryRows]
  BY <1>1, <1>2 DEF Init, EntryRows
<1>4. /\ tip \in [Branches -> Commits] /\ temp \subseteq Requests
      /\ state \in [Requests -> {"absent", "open", "merged", "closed"}]
      /\ target \in [Requests -> Branches]
      /\ landed \in [Requests -> Commits] /\ into \in [Requests -> Branches]
      /\ yes \in [Requests -> [Users -> Commits]]
      /\ said \in [Requests -> SUBSET Users] /\ checks \subseteq JobNames
  BY <1>2, ConstantsAssumption DEF Init, ConstantsAssumption, Commits
<1>5. /\ overtaken \subseteq Entries \X Entries /\ green \subseteq Commits /\ cur \in 0..MaxEntries
      /\ upsets \in 0..MaxUpsets
  BY ConstantsAssumption DEF Init, ConstantsAssumption
<1>6. /\ pc = "idle" /\ todo \subseteq Entries /\ snap \in [Entries -> QueueStates]
      /\ wTarget \in Branches /\ wBase \in Commits /\ wCommit \in Commits
  BY <1>1, <1>2 DEF Init
<1>7. /\ hpc \in [Users -> {"idle", "build", "move", "commit", "restack"}]
      /\ hReq \in [Users -> Requests] /\ hTarget \in [Users -> Branches]
      /\ hBase \in [Users -> Commits] /\ hCommit \in [Users -> Commits]
  BY <1>1, <1>2 DEF Init
<1> QED
  BY <1>3, <1>4, <1>5, <1>6, <1>7 DEF Init, TypeOK

LEMMA TypePeople == TypeOK /\ People => TypeOK'
<1> SUFFICES ASSUME TypeOK, People PROVE TypeOK'
  OBVIOUS
<1> USE DEF TypeOK, git, rows, line, loop, direct, pending
<1>1. ASSUME NEW r \in Requests, OpenRequest(r) PROVE TypeOK'
  BY <1>1 DEF OpenRequest
<1>2. ASSUME NEW r \in Requests, NEW u \in Users, Approve(r, u) PROVE TypeOK'
  <2>1. tip[Source[r]] \in Commits
    BY ConstantsAssumption DEF ConstantsAssumption
  <2>2. yes' \in [Requests -> [Users -> Commits]]
    BY <1>2, <2>1 DEF Approve
  <2>3. said' \in [Requests -> SUBSET Users]
    BY <1>2 DEF Approve
  <2> QED
    BY <1>2, <2>2, <2>3 DEF Approve
<1>3. ASSUME NEW r \in Requests, NEW u \in Users, Revoke(r, u) PROVE TypeOK'
  BY <1>3, UpsetTyped DEF Revoke, Gone, Commits
<1>4. ASSUME NEW names \in SUBSET JobNames, SetRequiredChecks(names) PROVE TypeOK'
  BY <1>4, UpsetTyped DEF SetRequiredChecks
<1>5. ASSUME NEW r \in Requests, CloseReads(r) \/ ReopenReads(r) PROVE TypeOK'
  BY <1>5, UpsetTyped DEF CloseReads, ReopenReads
<1>6. ASSUME NEW r \in Requests, CloseWrites(r) \/ ReopenWrites(r) PROVE TypeOK'
  <2>1. CASE CloseWrites(r)
    BY <2>1 DEF CloseWrites
  <2>2. CASE ReopenWrites(r)
    BY <2>2 DEF ReopenWrites
  <2> QED
    BY <1>6, <2>1, <2>2
<1>7. ASSUME NEW r \in Requests, NEW e \in Entries, EnterReads(r, e) PROVE TypeOK'
  BY <1>7 DEF EnterReads
<1>8. ASSUME NEW r \in Requests, NEW e \in Entries, EnterWrites(r, e) PROVE TypeOK'
  <2>1. "waiting" \in QueueStates /\ "none" \in RunStates /\ Gone \in Commits
    BY DEF QueueStates, ActiveStates, RunStates, Gone, Commits
  <2>2. [mr |-> r, state |-> "waiting", tested |-> Gone, base |-> Gone, run |-> "none"] \in EntryRows
    BY <2>1 DEF EntryRows
  <2>3. Passed(r, e) \subseteq Entries
    BY CurIsEntry DEF Passed, Testing, InHand
  <2>4. overtaken' \subseteq Entries \X Entries
    BY <1>8, <2>3 DEF EnterWrites
  <2>5. entry' \in [Entries -> EntryRows]
    BY <1>8, <2>2 DEF EnterWrites
  <2> QED
    BY <1>8, <2>4, <2>5 DEF EnterWrites
<1>9. ASSUME NEW e \in Entries, LeaveReads(e) PROVE TypeOK'
  BY <1>9, UpsetTyped DEF LeaveReads
<1>10. ASSUME NEW e \in Entries, LeaveWrites(e) PROVE TypeOK'
  <2>1. "cancelled" \in QueueStates
    BY DEF QueueStates
  <2>2. entry' \in [Entries -> EntryRows]
    BY <1>10, <2>1, StateStaysRow DEF LeaveWrites
  <2> QED
    BY <1>10, <2>2 DEF LeaveWrites
<1> QED
  BY <1>1, <1>2, <1>3, <1>4, <1>5, <1>6, <1>7, <1>8, <1>9, <1>10 DEF People

LEMMA TypePushes == TypeOK /\ Pushes => TypeOK'
<1> SUFFICES ASSUME TypeOK, Pushes PROVE TypeOK'
  OBVIOUS
<1>1. PICK b \in Branches : Push(b) \/ ForcePush(b) \/ DropBranch(b)
  BY DEF Pushes
<1>2. ASSUME NEW commit \in Commits, PushTo(b, commit) PROVE TypeOK'
  BY <1>2, UpsetTyped DEF PushTo, TypeOK, rows, line, loop, direct, pending
<1>3. CASE Push(b)
  <2>1. \A c \in Changes : tip[b] \union {0, c} \in Commits
    BY ConstantsAssumption DEF TypeOK, ConstantsAssumption, Commits
  <2> QED
    BY <1>2, <1>3, <2>1, FreshIsChange DEF Push
<1>4. CASE ForcePush(b)
  <2>1. \A c \in Changes : {0, c} \in Commits
    BY ConstantsAssumption DEF ConstantsAssumption, Commits
  <2> QED
    BY <1>2, <1>4, <2>1, FreshIsChange DEF ForcePush
<1>5. CASE DropBranch(b)
  BY <1>2, <1>5 DEF DropBranch, Gone, Commits
<1> QED
  BY <1>1, <1>3, <1>4, <1>5

LEMMA TypeRuns == TypeOK /\ Runs => TypeOK'
<1> SUFFICES ASSUME TypeOK, Runs PROVE TypeOK'
  OBVIOUS
<1>1. PICK e \in Entries : RunReports(e) \/ RunCanceled(e) \/ RunStops(e)
  BY DEF Runs
<1>2. ASSUME NEW to \in RunStates, RunChanges(e, to), upsets' \in 0..MaxUpsets PROVE TypeOK'
  <2>1. entry' \in [Entries -> EntryRows]
    BY <1>2, RunStaysRow DEF RunChanges, TypeOK
  <2>2. green' \subseteq Commits
    BY <1>2 DEF RunChanges, TypeOK, EntryRows
  <2> QED
    BY <1>2, <2>1, <2>2 DEF RunChanges, TypeOK, git, rows, loop, direct, pending
<1>3. CASE RunReports(e)
  BY <1>2, <1>3 DEF RunReports, RunStates, TypeOK
<1>4. CASE RunCanceled(e)
  BY <1>2, <1>4, UpsetTyped DEF RunCanceled, RunStates
<1>5. CASE RunStops(e)
  BY <1>2, <1>5 DEF RunStops, RunStates, TypeOK
<1> QED
  BY <1>1, <1>3, <1>4, <1>5

LEMMA TypeCrash == TypeOK /\ Crash => TypeOK'
<1> SUFFICES ASSUME TypeOK, Crash PROVE TypeOK'
  OBVIOUS
<1>1. Gone \in Commits
  BY DEF Gone, Commits
<1>2. /\ hpc' \in [Users -> {"idle", "build", "move", "commit", "restack"}]
      /\ hBase' \in [Users -> Commits] /\ hCommit' \in [Users -> Commits]
  BY <1>1 DEF Crash
<1>3. Stumble /\ Upset
  BY DEF Crash
<1> QED
  BY <1>2, <1>3, StumbleTyped, UpsetTyped DEF Crash, TypeOK, git, rows, line

LEMMA TypeDirectMerge == TypeOK /\ DirectMerge => TypeOK'
<1> SUFFICES ASSUME TypeOK, DirectMerge PROVE TypeOK'
  OBVIOUS
<1>1. PICK u \in Users : \/ \E r \in Requests : MergeChecks(u, r)
                        \/ MergeBuilds(u) \/ MergeMoves(u) \/ MergeCommits(u) \/ MergeRestacks(u)
  BY DEF DirectMerge
<1> USE DEF git, rows, line, loop, direct, pending
<1>2. Gone \in Commits
  BY DEF Gone, Commits
<1>3. ASSUME HandlerEnds(u)
      PROVE  /\ hpc' \in [Users -> {"idle", "build", "move", "commit", "restack"}]
             /\ hReq' \in [Users -> Requests] /\ hTarget' \in [Users -> Branches]
             /\ hBase' \in [Users -> Commits] /\ hCommit' \in [Users -> Commits]
  BY <1>2, <1>3 DEF HandlerEnds, TypeOK
<1>4. ASSUME NEW r \in Requests, MergeChecks(u, r) PROVE TypeOK'
  BY <1>4, UpsetTyped DEF MergeChecks, TypeOK
<1>5. CASE MergeBuilds(u)
  <2>1. CASE HandlerEnds(u)
    BY <1>3, <1>5, <2>1 DEF MergeBuilds, TypeOK
  <2>2. ASSUME NEW c \in NewChange,
               hCommit' = [hCommit EXCEPT ![u] = tip[hTarget[u]] \union tip[Source[hReq[u]]] \union {c}],
               hBase' = [hBase EXCEPT ![u] = tip[hTarget[u]]],
               hpc' = [hpc EXCEPT ![u] = "move"], UNCHANGED <<hReq, hTarget>>
        PROVE  TypeOK'
    <3>1. /\ tip[Source[hReq[u]]] \in Commits /\ tip[hTarget[u]] \in Commits
      BY ConstantsAssumption DEF ConstantsAssumption, TypeOK
    <3>2. c \in Changes
      BY FreshIsChange
    <3>3. tip[hTarget[u]] \union tip[Source[hReq[u]]] \union {c} \in Commits
      BY <3>1, <3>2 DEF Commits
    <3>4. hCommit' \in [Users -> Commits] /\ hBase' \in [Users -> Commits]
          /\ hpc' \in [Users -> {"idle", "build", "move", "commit", "restack"}]
      BY <2>2, <3>1, <3>3 DEF TypeOK
    <3>5. UNCHANGED <<tip, temp, rows, line, loop, pending, upsets>>
      BY <1>5 DEF MergeBuilds
    <3> QED
      BY <2>2, <3>4, <3>5 DEF TypeOK
  <2> QED
    BY <1>5, <2>1, <2>2 DEF MergeBuilds
<1>6. CASE MergeMoves(u)
  <2>1. CASE HandlerEnds(u) /\ UNCHANGED tip
    BY <1>3, <1>6, <2>1 DEF MergeMoves, TypeOK
  <2>2. CASE /\ tip' = [tip EXCEPT ![hTarget[u]] = hCommit[u]]
             /\ hpc' = [hpc EXCEPT ![u] = "commit"]
             /\ UNCHANGED <<hReq, hTarget, hBase, hCommit>>
    <3>1. tip' \in [Branches -> Commits]
          /\ hpc' \in [Users -> {"idle", "build", "move", "commit", "restack"}]
      BY <2>2 DEF TypeOK
    <3> QED
      BY <1>6, <2>2, <3>1 DEF MergeMoves, TypeOK
  <2> QED
    BY <1>6, <2>1, <2>2 DEF MergeMoves
<1>7. CASE MergeCommits(u)
  BY <1>7 DEF MergeCommits, TypeOK
<1>8. CASE MergeRestacks(u)
  <2>1. target' \in [Requests -> Branches]
    BY <1>8, RestackedIsTarget DEF MergeRestacks, TypeOK
  <2>2. HandlerEnds(u)
    BY <1>8 DEF MergeRestacks
  <2> QED
    BY <1>3, <1>8, <2>1, <2>2 DEF MergeRestacks, TypeOK
<1> QED
  BY <1>1, <1>4, <1>5, <1>6, <1>7, <1>8

LEMMA TypeLoop == TypeOK /\ Loop => TypeOK'
<1> SUFFICES ASSUME TypeOK, Loop PROVE TypeOK'
  OBVIOUS
<1> USE DEF git, rows, line, direct, pending
<1>1. /\ "none" \in QueueStates /\ "waiting" \in QueueStates /\ "testing" \in QueueStates
      /\ "failed" \in QueueStates /\ "merged" \in QueueStates
      /\ "none" \in RunStates /\ "pending" \in RunStates
  BY DEF QueueStates, ActiveStates, RunStates
<1>2. CASE Advance
  <2>1. /\ todo' \subseteq Entries /\ snap' \in [Entries -> QueueStates]
    BY <1>1, <1>2 DEF Advance, Heads, Active, TypeOK, EntryRows
  <2> QED
    BY <1>2, <2>1 DEF Advance, TypeOK
<1>3. CASE TickEnds
  BY <1>3, StumbleTyped DEF TickEnds, TypeOK
<1>4. ASSUME NEW e \in Entries, Step(e) PROVE TypeOK'
  <2>1. entry[e].mr \in Requests /\ e \in 0..MaxEntries /\ e # 0 /\ target[entry[e].mr] \in Branches
    BY ConstantsAssumption DEF TypeOK, EntryRows, Entries, ConstantsAssumption
  <2>2. [entry EXCEPT ![e].state = "failed"] \in [Entries -> EntryRows]
        /\ [snap EXCEPT ![e] = "none"] \in [Entries -> QueueStates]
    BY <1>1, StateStaysRow DEF TypeOK
  <2> QED
    BY <1>4, <2>1, <2>2 DEF Step, TypeOK
<1>5. ASSUME GiveUp(cur), pc \notin {"idle", "pick"}
      PROVE  entry' \in [Entries -> EntryRows] /\ temp' \subseteq Requests
  BY <1>1, <1>5, CurIsEntry, StateStaysRow DEF GiveUp, TypeOK
<1>6. ASSUME BackInLine(cur), pc \notin {"idle", "pick"}
      PROVE  entry' \in [Entries -> EntryRows] /\ (NextEntry \/ Stumble)
  <2>1. WrittenState(cur, "waiting") \in QueueStates
    BY <1>1, <1>6, CurIsEntry, WrittenIsState
  <2>2. [entry EXCEPT ![cur].state = WrittenState(cur, "waiting"), ![cur].run = "none"]
          \in [Entries -> EntryRows]
    BY <1>1, <1>6, <2>1, CurIsEntry, StateRunStaysRow DEF TypeOK
  <2> QED
    BY <1>6, <2>2 DEF BackInLine, TypeOK
<1>7. CASE Build
  <2>1. CASE GiveUp(cur)
    BY <1>5, <1>7, <2>1, NextEntryTyped DEF Build, GiveUp, TypeOK
  <2>2. ASSUME NEW c \in NewChange,
               wCommit' = tip[wTarget] \union tip[Source[entry[cur].mr]] \union {c},
               wBase' = tip[wTarget], pc' = "start",
               UNCHANGED <<tip, temp, line, todo, snap, cur, wTarget>>
        PROVE  TypeOK'
    <3>1. cur \in Entries /\ entry[cur].mr \in Requests
      BY <1>7, CurIsEntry DEF Build, TypeOK, EntryRows
    <3>2. tip[Source[entry[cur].mr]] \in Commits /\ tip[wTarget] \in Commits /\ c \in Changes
      BY <3>1, FreshIsChange, ConstantsAssumption DEF ConstantsAssumption, TypeOK
    <3>3. wCommit' \in Commits /\ wBase' \in Commits
      BY <2>2, <3>2 DEF Commits
    <3>4. UNCHANGED <<rows, direct, pending, upsets>> /\ cur # 0
      BY <1>7 DEF Build, TypeOK
    <3> QED
      BY <2>2, <3>3, <3>4 DEF TypeOK
  <2> QED
    BY <1>7, <2>1, <2>2 DEF Build
<1>8. CASE StartPipeline
  <2>1. temp' \subseteq Requests /\ cur # 0
    BY <1>8, CurIsEntry DEF StartPipeline, TypeOK, EntryRows
  <2>2. CASE Stumble
    BY <1>8, <2>1, <2>2, StumbleTyped DEF StartPipeline, TypeOK
  <2>3. CASE pc' \in {"move", "record"} /\ UNCHANGED <<todo, snap, cur, wTarget, wBase, wCommit>>
    BY <1>8, <2>1, <2>3 DEF StartPipeline, TypeOK
  <2> QED
    BY <1>8, <2>2, <2>3 DEF StartPipeline
<1>9. CASE RecordTesting
  <2>0. cur \in Entries /\ wCommit \in Commits /\ wBase \in Commits
        /\ entry \in [Entries -> EntryRows]
    BY <1>9, CurIsEntry DEF RecordTesting, TypeOK
  <2>1. [entry EXCEPT ![cur].state = "testing", ![cur].tested = wCommit,
                      ![cur].base = wBase, ![cur].run = "pending"] \in [Entries -> EntryRows]
    BY <1>1, <2>0, TestingStaysRow
  <2>2. entry' \in [Entries -> EntryRows] /\ (NextEntry \/ Stumble)
    BY <1>9, <2>1 DEF RecordTesting, TypeOK
  <2> QED
    BY <1>9, <2>2, NextEntryTyped, StumbleTyped DEF RecordTesting, TypeOK
<1>10. CASE LookAtTheRun
  <2>0. cur \in Entries /\ cur # 0 /\ entry[cur].base \in Commits /\ entry[cur].tested \in Commits
    BY <1>10, CurIsEntry DEF LookAtTheRun, TypeOK, EntryRows
  <2>1. CASE NextEntry /\ UNCHANGED <<git, line>>
    BY <1>10, <2>1, NextEntryTyped DEF LookAtTheRun, TypeOK
  <2>2. CASE GiveUp(cur)
    BY <1>5, <1>10, <2>2, NextEntryTyped DEF LookAtTheRun, GiveUp, TypeOK
  <2>3. CASE /\ BackInLine(cur) /\ UNCHANGED <<tip, overtaken, green>>
             /\ temp' = IF entry' = entry THEN temp ELSE temp \ {entry[cur].mr}
    BY <1>6, <1>10, <2>3, NextEntryTyped, StumbleTyped DEF LookAtTheRun, TypeOK
  <2>4. CASE /\ pc' = "move" /\ wBase' = entry[cur].base /\ wCommit' = entry[cur].tested
             /\ UNCHANGED <<git, line, todo, snap, cur, wTarget>>
    BY <1>10, <2>0, <2>4 DEF LookAtTheRun, TypeOK
  <2> QED
    BY <1>10, <2>1, <2>2, <2>3, <2>4 DEF LookAtTheRun
<1>11. CASE MoveTarget
  <2>1. CASE /\ tip' = [tip EXCEPT ![wTarget] = wCommit] /\ pc' = "commit"
             /\ UNCHANGED <<entry, todo, snap, cur, wTarget, wBase, wCommit>>
    <3>1. tip' \in [Branches -> Commits] /\ cur # 0
      BY <1>11, <2>1 DEF MoveTarget, TypeOK
    <3> QED
      BY <1>11, <2>1, <3>1 DEF MoveTarget, TypeOK
  <2>2. CASE BackInLine(cur) /\ UNCHANGED tip
    BY <1>6, <1>11, <2>2, NextEntryTyped, StumbleTyped DEF MoveTarget, TypeOK
  <2> QED
    BY <1>11, <2>1, <2>2 DEF MoveTarget
<1>12. CASE CommitMerged
  <2>1. [entry EXCEPT ![cur].state = "merged", ![cur].tested = wCommit] \in [Entries -> EntryRows]
        /\ entry[cur].mr \in Requests /\ cur # 0
    BY <1>1, <1>12, CurIsEntry, StateTestedStaysRow DEF CommitMerged, TypeOK, EntryRows
  <2>2. /\ state' \in [Requests -> {"absent", "open", "merged", "closed"}]
        /\ landed' \in [Requests -> Commits] /\ into' \in [Requests -> Branches]
    BY <1>12, <2>1 DEF CommitMerged, TypeOK
  <2> QED
    BY <1>12, <2>1, <2>2 DEF CommitMerged, TypeOK
<1>13. CASE Tidy
  <2>1. target' \in [Requests -> Branches] /\ NextEntry
    BY <1>13, CurIsEntry, RestackedIsTarget DEF Tidy, TypeOK, EntryRows
  <2> QED
    BY <1>13, <2>1, NextEntryTyped DEF Tidy, TypeOK
<1> QED
  BY <1>2, <1>3, <1>4, <1>7, <1>8, <1>9, <1>10, <1>11, <1>12, <1>13 DEF Loop

LEMMA TypeNext == TypeOK /\ [Next]_vars => TypeOK'
<1>1. TypeOK /\ UNCHANGED vars => TypeOK'
  BY DEF TypeOK, vars, git, rows, line, loop, direct, pending
<1> QED
  BY <1>1, TypePeople, TypePushes, TypeRuns, TypeCrash, TypeDirectMerge, TypeLoop DEF Next

(* Every reachable state is well formed, for every value of the constants. *)
THEOREM TypeCorrect == Spec => []TypeOK
  BY TypeInit, TypeNext, PTL DEF Spec

-----------------------------------------------------------------------------
(* Who touches what.                                                       *)

LEMMA OthersLeaveTheLoop == DirectMerge \/ People \/ Pushes \/ Runs => UNCHANGED loop
<1>1. DirectMerge => UNCHANGED loop
  BY DEF DirectMerge, MergeChecks, MergeBuilds, MergeMoves, MergeCommits, MergeRestacks
<1>2. People => UNCHANGED loop
  BY DEF People, OpenRequest, Approve, Revoke, SetRequiredChecks, CloseReads, CloseWrites,
         ReopenReads, ReopenWrites, EnterReads, EnterWrites, LeaveReads, LeaveWrites
<1>3. Pushes \/ Runs => UNCHANGED loop
  BY DEF Pushes, Push, ForcePush, DropBranch, PushTo, Runs, RunReports, RunCanceled, RunStops,
         RunChanges
<1> QED
  BY <1>1, <1>2, <1>3

LEMMA OthersLeaveTheHandlers == Loop \/ People \/ Pushes \/ Runs => UNCHANGED direct
<1>1. Loop => UNCHANGED direct
  BY DEF Loop, Advance, TickEnds, Step, Build, StartPipeline, RecordTesting, LookAtTheRun,
         MoveTarget, CommitMerged, Tidy
<1>2. People => UNCHANGED direct
  BY DEF People, OpenRequest, Approve, Revoke, SetRequiredChecks, CloseReads, CloseWrites,
         ReopenReads, ReopenWrites, EnterReads, EnterWrites, LeaveReads, LeaveWrites, pending
<1>3. Pushes \/ Runs => UNCHANGED direct
  BY DEF Pushes, Push, ForcePush, DropBranch, PushTo, Runs, RunReports, RunCanceled, RunStops,
         RunChanges
<1> QED
  BY <1>1, <1>2, <1>3

(* A protected branch only grows: each of the three kinds of step that move *)
(* a branch puts it onto a commit that contains the one it stood at.        *)
LEMMA ProtectedGrow ==
  ASSUME TypeOK, BuiltOnBase, [Next]_vars
  PROVE  \A b \in Protected : tip[b] \subseteq tip'[b]
<1>1. Protected \subseteq Branches /\ tip \in [Branches -> Commits]
  BY ConstantsAssumption DEF ConstantsAssumption, TypeOK
<1>2. CASE UNCHANGED tip
  BY <1>2
<1>3. CASE Pushes
  <2>1. PICK b \in Branches : Push(b) \/ ForcePush(b) \/ DropBranch(b)
    BY <1>3 DEF Pushes
  <2>2. CASE Push(b)
    BY <1>1, <2>2 DEF Push, PushTo
  <2>3. CASE ForcePush(b)
    BY <1>1, <2>3 DEF ForcePush, PushTo
  <2>4. CASE DropBranch(b)
    BY <1>1, <2>4 DEF DropBranch, PushTo
  <2> QED
    BY <2>1, <2>2, <2>3, <2>4
<1>4. CASE MoveTarget
  <2>1. wBase \subseteq wCommit
    BY <1>4 DEF BuiltOnBase, MoveTarget
  <2> QED
    BY <1>1, <1>4, <2>1 DEF MoveTarget
<1>5. ASSUME NEW u \in Users, MergeMoves(u) PROVE \A b \in Protected : tip[b] \subseteq tip'[b]
  <2>1. hBase[u] \subseteq hCommit[u]
    BY <1>5 DEF BuiltOnBase, MergeMoves
  <2> QED
    BY <1>1, <1>5, <2>1 DEF MergeMoves
<1>6. Next => UNCHANGED tip \/ Pushes \/ MoveTarget \/ \E u \in Users : MergeMoves(u)
  <2>1. Loop => UNCHANGED tip \/ MoveTarget
    BY DEF Loop, Advance, TickEnds, Step, Build, StartPipeline, RecordTesting, LookAtTheRun,
           CommitMerged, Tidy, GiveUp, git
  <2>2. DirectMerge => UNCHANGED tip \/ \E u \in Users : MergeMoves(u)
    BY DEF DirectMerge, MergeChecks, MergeBuilds, MergeCommits, MergeRestacks, git
  <2>3. People => UNCHANGED tip
    BY DEF People, OpenRequest, Approve, Revoke, SetRequiredChecks, CloseReads, CloseWrites,
           ReopenReads, ReopenWrites, EnterReads, EnterWrites, LeaveReads, LeaveWrites, git
  <2>4. Runs \/ Crash => UNCHANGED tip
    BY DEF Runs, RunReports, RunCanceled, RunStops, RunChanges, Crash, git
  <2> QED
    BY <2>1, <2>2, <2>3, <2>4 DEF Next
<1>7. UNCHANGED vars => UNCHANGED tip
  BY DEF vars, git
<1> QED
  BY <1>2, <1>3, <1>4, <1>5, <1>6, <1>7

-----------------------------------------------------------------------------
(* The inductive invariant.                                                *)

LEMMA InvInit == Init => Inv
<1>1. Init => WalkedOnce /\ MovedIsThere /\ MergedIsContained
  BY DEF Init, WalkedOnce, MovedIsThere, MergedIsContained, Gone
<1>2. Init => BuiltOnBase
  BY DEF Init, BuiltOnBase, InHand, Active, ActiveStates, Gone
<1> QED
  BY <1>1, <1>2, TypeInit DEF Inv

LEMMA WalkedOnceNext == TypeOK /\ WalkedOnce /\ [Next]_vars => WalkedOnce'
<1> SUFFICES ASSUME TypeOK, WalkedOnce, [Next]_vars PROVE WalkedOnce'
  OBVIOUS
<1>1. CASE UNCHANGED loop
  BY <1>1 DEF WalkedOnce, loop
<1>2. ASSUME Stumble \/ NextEntry PROVE WalkedOnce'
  BY <1>2 DEF Stumble, NextEntry, WalkedOnce
<1>3. CASE Loop
  <2>1. CASE Advance
    BY <2>1 DEF Advance, WalkedOnce
  <2>2. ASSUME NEW e \in Entries, Step(e) PROVE WalkedOnce'
    BY <2>2 DEF Step, WalkedOnce
  <2>3. CASE Build \/ StartPipeline \/ RecordTesting
    BY <1>2, <2>3 DEF Build, StartPipeline, RecordTesting, GiveUp, WalkedOnce
  <2>4. CASE LookAtTheRun \/ MoveTarget
    BY <1>2, <2>4 DEF LookAtTheRun, MoveTarget, GiveUp, BackInLine, WalkedOnce
  <2>5. CASE TickEnds \/ CommitMerged \/ Tidy
    BY <1>2, <2>5 DEF TickEnds, CommitMerged, Tidy, WalkedOnce
  <2> QED
    BY <1>3, <2>1, <2>2, <2>3, <2>4, <2>5 DEF Loop
<1>4. CASE Crash
  BY <1>2, <1>4 DEF Crash
<1>5. UNCHANGED vars => UNCHANGED loop
  BY DEF vars, loop
<1> QED
  BY <1>1, <1>3, <1>4, <1>5, OthersLeaveTheLoop DEF Next

\* The three conjuncts of BuiltOnBase, which different actors disturb.
LoopBuilt == pc \in {"start", "record", "move"} => wBase \subseteq wCommit
ButtonBuilt == \A u \in Users : hpc[u] = "move" => hBase[u] \subseteq hCommit[u]
RowsBuilt == \A e \in Active \union todo \union InHand : entry[e].base \subseteq entry[e].tested

LEMMA LoopBuiltNext == Inv /\ [Next]_vars => LoopBuilt'
<1> SUFFICES ASSUME Inv, [Next]_vars PROVE LoopBuilt'
  OBVIOUS
<1>1. LoopBuilt /\ RowsBuilt
  BY DEF Inv, BuiltOnBase, LoopBuilt, RowsBuilt
<1>2. CASE UNCHANGED loop
  BY <1>1, <1>2 DEF LoopBuilt, loop
<1>3. ASSUME Stumble \/ NextEntry PROVE LoopBuilt'
  BY <1>3 DEF Stumble, NextEntry, LoopBuilt
<1>4. CASE Loop
  <2>1. CASE Advance \/ TickEnds \/ CommitMerged \/ Tidy
    BY <1>3, <2>1 DEF Advance, TickEnds, CommitMerged, Tidy, LoopBuilt
  <2>2. ASSUME NEW e \in Entries, Step(e) PROVE LoopBuilt'
    BY <2>2 DEF Step, LoopBuilt
  <2>3. CASE Build
    BY <1>3, <2>3 DEF Build, GiveUp, LoopBuilt
  <2>4. CASE StartPipeline \/ RecordTesting
    BY <1>1, <1>3, <2>4 DEF StartPipeline, RecordTesting, LoopBuilt
  <2>5. CASE LookAtTheRun
    <3>1. pc = "look" => entry[cur].base \subseteq entry[cur].tested
      BY <1>1 DEF RowsBuilt, InHand
    <3> QED
      BY <1>3, <2>5, <3>1 DEF LookAtTheRun, GiveUp, BackInLine, LoopBuilt
  <2>6. CASE MoveTarget
    BY <1>3, <2>6 DEF MoveTarget, BackInLine, LoopBuilt
  <2> QED
    BY <1>4, <2>1, <2>2, <2>3, <2>4, <2>5, <2>6 DEF Loop
<1>5. CASE Crash
  BY <1>3, <1>5 DEF Crash
<1>6. UNCHANGED vars => UNCHANGED loop
  BY DEF vars, loop
<1> QED
  BY <1>2, <1>4, <1>5, <1>6, OthersLeaveTheLoop DEF Next

LEMMA ButtonBuiltNext == Inv /\ [Next]_vars => ButtonBuilt'
<1> SUFFICES ASSUME Inv, [Next]_vars PROVE ButtonBuilt'
  OBVIOUS
<1>1. ButtonBuilt /\ TypeOK
  BY DEF Inv, BuiltOnBase, ButtonBuilt
<1>2. CASE UNCHANGED direct
  BY <1>1, <1>2 DEF ButtonBuilt, direct
<1>3. ASSUME NEW u \in Users, HandlerEnds(u) PROVE ButtonBuilt'
  BY <1>1, <1>3 DEF HandlerEnds, ButtonBuilt, TypeOK
<1>4. CASE DirectMerge
  <2>1. PICK u \in Users : \/ \E r \in Requests : MergeChecks(u, r)
                          \/ MergeBuilds(u) \/ MergeMoves(u) \/ MergeCommits(u) \/ MergeRestacks(u)
    BY <1>4 DEF DirectMerge
  <2>2. ASSUME NEW r \in Requests, MergeChecks(u, r) PROVE ButtonBuilt'
    BY <1>1, <2>2 DEF MergeChecks, ButtonBuilt, TypeOK
  <2>3. CASE MergeBuilds(u)
    <3>1. CASE HandlerEnds(u)
      BY <1>3, <3>1
    <3>2. CASE ~HandlerEnds(u)
      <4>1. /\ hBase'[u] \subseteq hCommit'[u]
            /\ \A v \in Users \ {u} : /\ hpc'[v] = hpc[v] /\ hBase'[v] = hBase[v]
                                      /\ hCommit'[v] = hCommit[v]
        BY <1>1, <2>3, <3>2 DEF MergeBuilds, TypeOK
      <4> QED
        BY <1>1, <4>1 DEF ButtonBuilt
    <3> QED
      BY <3>1, <3>2
  <2>4. CASE MergeMoves(u)
    BY <1>1, <1>3, <2>4 DEF MergeMoves, ButtonBuilt, TypeOK
  <2>5. CASE MergeCommits(u)
    BY <1>1, <2>5 DEF MergeCommits, ButtonBuilt, TypeOK
  <2>6. CASE MergeRestacks(u)
    BY <1>3, <2>6 DEF MergeRestacks
  <2> QED
    BY <2>1, <2>2, <2>3, <2>4, <2>5, <2>6
<1>5. CASE Crash
  BY <1>5 DEF Crash, ButtonBuilt
<1>6. UNCHANGED vars => UNCHANGED direct
  BY DEF vars, direct
<1> QED
  BY <1>2, <1>4, <1>5, <1>6, OthersLeaveTheHandlers DEF Next

(* The rows: a row keeps what it was built from until it is written anew,  *)
(* and a row that comes back to life does so empty or from the loop's hand. *)
LEMMA RowsBuiltNext == Inv /\ [Next]_vars => RowsBuilt'
<1> SUFFICES ASSUME Inv, [Next]_vars PROVE RowsBuilt'
  OBVIOUS
<1>1. RowsBuilt /\ LoopBuilt /\ WalkedOnce /\ TypeOK
  BY DEF Inv, BuiltOnBase, RowsBuilt, LoopBuilt
<1>2. CASE UNCHANGED <<entry, loop>>
  BY <1>1, <1>2 DEF RowsBuilt, Active, InHand, loop
<1>3. entry \in [Entries -> EntryRows] /\ todo \subseteq Entries
  BY <1>1 DEF TypeOK
<1>4. CASE People
  <2>1. CASE UNCHANGED entry
    BY <1>2, <1>4, <2>1, OthersLeaveTheLoop
  <2>2. ASSUME NEW r \in Requests, NEW e \in Entries, EnterWrites(r, e), ~UNCHANGED entry PROVE RowsBuilt'
    <3>1. /\ UNCHANGED loop
          /\ entry' = [entry EXCEPT ![e] =
                         [mr |-> r, state |-> "waiting", tested |-> Gone,
                          base |-> Gone, run |-> "none"]]
      BY <1>3, <2>2 DEF EnterWrites
    <3>2. \A f \in Entries : f # e => entry'[f] = entry[f]
      BY <1>3, <3>1
    <3>3. entry'[e].base = Gone /\ entry'[e].tested = Gone
      BY <1>3, <3>1
    <3>4. ASSUME NEW f \in (Active \union todo \union InHand)'
          PROVE  entry'[f].base \subseteq entry'[f].tested
      <4>1. f = e \/ f \in Active \union todo \union InHand
        BY <3>1, <3>2 DEF Active, InHand, loop
      <4>2. f \notin Entries => entry'[f] = entry[f]
        BY <1>1, <3>1, <3>4, CurIsEntry DEF Active, InHand, loop, TypeOK
      <4> QED
        BY <1>1, <3>2, <3>3, <4>1, <4>2 DEF RowsBuilt
    <3> QED
      BY <3>4 DEF RowsBuilt
  <2>3. ASSUME NEW e \in Entries, LeaveWrites(e) PROVE RowsBuilt'
    BY <1>1, <1>3, <2>3 DEF LeaveWrites, RowsBuilt, Active, ActiveStates, InHand, loop
  <2>4. \/ UNCHANGED entry
        \/ \E r \in Requests, e \in Entries : EnterWrites(r, e) /\ ~UNCHANGED entry
        \/ \E e \in Entries : LeaveWrites(e)
    BY <1>4 DEF People, OpenRequest, Approve, Revoke, SetRequiredChecks, CloseReads, CloseWrites,
         ReopenReads, ReopenWrites, EnterReads, LeaveReads, line
  <2> QED
    BY <2>1, <2>2, <2>3, <2>4
<1>5. CASE Runs
  <2>1. PICK e \in Entries, to \in RunStates : RunChanges(e, to)
    BY <1>5 DEF Runs, RunReports, RunCanceled, RunStops, RunStates
  <2> QED
    BY <1>1, <1>3, <2>1 DEF RunChanges, RowsBuilt, Active, InHand, loop
<1>6. CASE Pushes \/ DirectMerge
  <2>1. UNCHANGED entry
    BY <1>6 DEF Pushes, Push, ForcePush, DropBranch, PushTo, DirectMerge, MergeChecks, MergeBuilds,
           MergeMoves, MergeCommits, MergeRestacks, line
  <2> QED
    BY <1>2, <1>6, <2>1, OthersLeaveTheLoop
<1>7. CASE Crash
  BY <1>1, <1>7 DEF Crash, Stumble, RowsBuilt, Active, InHand, line
<1>8. CASE Loop
  <2>1. CASE Advance \/ TickEnds
    BY <1>1, <2>1 DEF Advance, TickEnds, Stumble, RowsBuilt, Active, Heads, InHand, line
  <2>2. ASSUME NEW e \in Entries, Step(e) PROVE RowsBuilt'
    <3>1. CASE entry' = [entry EXCEPT ![e].state = "failed"] /\ todo' = todo \ {e} /\ UNCHANGED <<pc, cur>>
      BY <1>1, <1>3, <2>2, <3>1 DEF Step, RowsBuilt, Active, ActiveStates, InHand
    <3>2. CASE UNCHANGED entry /\ cur' = e /\ todo' = todo \ {e}
      BY <1>1, <2>2, <3>2 DEF Step, RowsBuilt, Active, InHand
    <3> QED
      BY <2>2, <3>1, <3>2 DEF Step
  <2>3. ASSUME pc \in {"build", "look"}, GiveUp(cur) PROVE RowsBuilt'
    BY <1>1, <1>3, <2>3 DEF GiveUp, NextEntry, RowsBuilt, Active, ActiveStates, InHand
  <2>4. ASSUME pc \in {"look", "move"}, BackInLine(cur) PROVE RowsBuilt'
    <3>1. \A f \in Entries : /\ entry'[f].base = entry[f].base
                             /\ entry'[f].tested = entry[f].tested
                             /\ f # cur => entry'[f].state = entry[f].state
      BY <1>3, <2>4 DEF BackInLine, EntryRows
    <3>2. todo' \subseteq todo /\ InHand' = {}
      BY <2>4 DEF BackInLine, NextEntry, Stumble, InHand
    <3>3. cur \in InHand
      BY <2>4 DEF InHand
    <3>4. Active' \subseteq Active \union {cur}
      BY <3>1 DEF Active
    <3>5. Active' \subseteq Entries /\ todo' \subseteq Entries
      BY <1>3, <3>2 DEF Active
    <3>6. ASSUME NEW f \in Active' \union todo' PROVE entry'[f].base \subseteq entry'[f].tested
      <4>1. f \in Active \union todo \union InHand
        BY <3>2, <3>3, <3>4
      <4>2. entry'[f].base = entry[f].base /\ entry'[f].tested = entry[f].tested
        BY <3>1, <3>5
      <4> QED
        BY <1>1, <4>1, <4>2 DEF RowsBuilt
    <3> QED
      BY <3>2, <3>6 DEF RowsBuilt
  <2>5. CASE Build
    BY <1>1, <2>3, <2>5 DEF Build, RowsBuilt, Active, InHand, line
  <2>6. CASE StartPipeline
    BY <1>1, <2>6 DEF StartPipeline, Stumble, RowsBuilt, Active, InHand, line
  <2>7. CASE RecordTesting
    <3>1. todo' \subseteq todo /\ InHand' = {} /\ wBase \subseteq wCommit
      BY <1>1, <2>7 DEF RecordTesting, NextEntry, Stumble, InHand, LoopBuilt
    <3>2. CASE UNCHANGED entry
      BY <1>1, <3>1, <3>2 DEF RowsBuilt, Active
    <3>3. CASE entry' = [entry EXCEPT ![cur].state = "testing", ![cur].tested = wCommit,
                                     ![cur].base = wBase, ![cur].run = "pending"]
      <4>1. cur \in Entries
        BY <1>1, <2>7, CurIsEntry DEF RecordTesting
      <4>2. entry'[cur].base = wBase /\ entry'[cur].tested = wCommit
        BY <1>3, <3>3, <4>1 DEF EntryRows
      <4>3. \A f \in Entries \ {cur} : entry'[f] = entry[f]
        BY <1>3, <3>3
      <4>4. (Active \union todo \union InHand)' \subseteq Active \union todo \union {cur}
            /\ (Active \union todo \union InHand)' \subseteq Entries
        BY <1>3, <3>1, <4>3 DEF Active
      <4> QED
        BY <1>1, <3>1, <4>2, <4>3, <4>4 DEF RowsBuilt
    <3> QED
      BY <2>7, <3>2, <3>3 DEF RecordTesting
  <2>8. CASE LookAtTheRun
    BY <1>1, <2>3, <2>4, <2>8 DEF LookAtTheRun, NextEntry, RowsBuilt, Active, InHand, line
  <2>9. CASE MoveTarget
    BY <1>1, <2>4, <2>9 DEF MoveTarget, RowsBuilt, Active, InHand
  <2>10. CASE CommitMerged
    BY <1>1, <1>3, <2>10 DEF CommitMerged, WalkedOnce, RowsBuilt, Active, ActiveStates, InHand
  <2>11. CASE Tidy
    BY <1>1, <2>11 DEF Tidy, NextEntry, RowsBuilt, Active, InHand, line
  <2> QED
    BY <1>8, <2>1, <2>2, <2>5, <2>6, <2>7, <2>8, <2>9, <2>10, <2>11 DEF Loop
<1>9. UNCHANGED vars => UNCHANGED <<entry, loop>>
  BY DEF vars, line
<1> QED
  BY <1>2, <1>4, <1>5, <1>6, <1>7, <1>8, <1>9 DEF Next

LEMMA MovedIsThereNext == Inv /\ [Next]_vars => MovedIsThere'
<1> SUFFICES ASSUME Inv, [Next]_vars PROVE MovedIsThere'
  OBVIOUS
<1> DEFINE ByLoop == pc = "commit" /\ wTarget \in Protected => wCommit \subseteq tip[wTarget]
           ByButton == \A u \in Users : hpc[u] = "commit" /\ hTarget[u] \in Protected
                                         => hCommit[u] \subseteq tip[hTarget[u]]
<1>1. TypeOK /\ ByLoop /\ ByButton
  BY DEF Inv, MovedIsThere
<1>2. \A b \in Protected : tip[b] \subseteq tip'[b]
  BY ProtectedGrow DEF Inv
<1>3. Protected \subseteq Branches
  BY ConstantsAssumption DEF ConstantsAssumption
<1>4. ByLoop'
  <2>1. CASE UNCHANGED loop
    BY <1>1, <1>2, <2>1 DEF loop
  <2>2. ASSUME Stumble \/ NextEntry PROVE ByLoop'
    BY <2>2 DEF Stumble, NextEntry
  <2>3. CASE MoveTarget
    BY <1>1, <1>3, <2>2, <2>3 DEF MoveTarget, BackInLine, TypeOK
  <2>4. CASE Loop /\ ~MoveTarget
    BY <2>2, <2>4 DEF Loop, Advance, TickEnds, Step, Build, StartPipeline, RecordTesting,
                      LookAtTheRun, GiveUp, BackInLine, CommitMerged, Tidy
  <2>5. CASE Crash
    BY <2>2, <2>5 DEF Crash
  <2>6. UNCHANGED vars => UNCHANGED loop
    BY DEF vars, loop
  <2> QED
    BY <2>1, <2>3, <2>4, <2>5, <2>6, OthersLeaveTheLoop DEF Next
<1>5. ByButton'
  <2>1. CASE UNCHANGED direct
    BY <1>1, <1>2, <2>1 DEF direct
  <2>2. CASE DirectMerge
    <3>1. PICK u \in Users : \/ \E r \in Requests : MergeChecks(u, r)
                            \/ MergeBuilds(u) \/ MergeMoves(u) \/ MergeCommits(u) \/ MergeRestacks(u)
      BY <2>2 DEF DirectMerge
    <3>2. \A v \in Users \ {u} : /\ hpc'[v] = hpc[v] /\ hTarget'[v] = hTarget[v]
                                 /\ hCommit'[v] = hCommit[v]
      BY <1>1, <3>1 DEF MergeChecks, MergeBuilds, MergeMoves, MergeCommits, MergeRestacks, HandlerEnds,
                        TypeOK
    <3>3. hpc'[u] = "commit" => /\ tip' = [tip EXCEPT ![hTarget[u]] = hCommit[u]]
                                /\ UNCHANGED <<hTarget, hCommit>>
      BY <1>1, <3>1 DEF MergeChecks, MergeBuilds, MergeMoves, MergeCommits, MergeRestacks, HandlerEnds,
                        TypeOK
    <3>4. tip \in [Branches -> Commits] /\ hTarget \in [Users -> Branches]
      BY <1>1 DEF TypeOK
    <3>5. ASSUME NEW v \in Users \ {u}, hpc'[v] = "commit", hTarget'[v] \in Protected
          PROVE  hCommit'[v] \subseteq tip'[hTarget'[v]]
      BY <1>1, <1>2, <3>2, <3>5
    <3>6. ASSUME hpc'[u] = "commit", hTarget'[u] \in Protected
          PROVE  hCommit'[u] \subseteq tip'[hTarget'[u]]
      BY <1>3, <3>3, <3>4, <3>6
    <3> QED
      BY <3>5, <3>6
  <2>3. CASE Crash
    BY <2>3 DEF Crash
  <2>4. UNCHANGED vars => UNCHANGED direct
    BY DEF vars, direct
  <2> QED
    BY <2>1, <2>2, <2>3, <2>4, OthersLeaveTheHandlers DEF Next
<1> QED
  BY <1>4, <1>5 DEF MovedIsThere

(* Only two steps record a merge, both after the branch has moved.         *)
LEMMA MergedIsContainedNext == Inv /\ [Next]_vars => MergedIsContained'
<1> SUFFICES ASSUME Inv, [Next]_vars PROVE MergedIsContained'
  OBVIOUS
<1>1. TypeOK /\ MovedIsThere /\ MergedIsContained
  BY DEF Inv
<1>2. \A b \in Protected : tip[b] \subseteq tip'[b]
  BY ProtectedGrow DEF Inv
<1>3. CASE UNCHANGED <<landed, into>>
  BY <1>1, <1>2, <1>3 DEF MergedIsContained
<1>4. CASE CommitMerged
  <2>1. PICK r \in Requests : /\ landed' = [landed EXCEPT ![r] = wCommit]
                              /\ into' = [into EXCEPT ![r] = wTarget]
    BY <1>1, <1>4, CurIsEntry DEF CommitMerged, TypeOK, EntryRows
  <2>2. UNCHANGED tip /\ (wTarget \in Protected => wCommit \subseteq tip[wTarget])
    BY <1>1, <1>4 DEF CommitMerged, MovedIsThere, git
  <2>3. \A q \in Requests \ {r} : landed'[q] = landed[q] /\ into'[q] = into[q]
    BY <1>1, <2>1 DEF TypeOK
  <2>4. landed'[r] = wCommit /\ into'[r] = wTarget
    BY <1>1, <2>1 DEF TypeOK
  <2> QED
    BY <1>1, <2>2, <2>3, <2>4 DEF MergedIsContained
<1>5. ASSUME NEW u \in Users, MergeCommits(u) PROVE MergedIsContained'
  BY <1>1, <1>2, <1>5 DEF MergeCommits, MovedIsThere, MergedIsContained, TypeOK, git
<1>6. \/ UNCHANGED <<landed, into>>
      \/ CommitMerged
      \/ \E u \in Users : MergeCommits(u)
  <2>1. CASE People
    <3>1. ASSUME NEW r \in Requests, OpenRequest(r) \/ CloseWrites(r) \/ ReopenWrites(r)
          PROVE  UNCHANGED <<landed, into>>
      BY <3>1 DEF OpenRequest, CloseWrites, ReopenWrites
    <3>2. ASSUME NEW r \in Requests, \/ CloseReads(r) \/ ReopenReads(r)
                                     \/ \E e \in Entries : EnterReads(r, e) \/ EnterWrites(r, e)
          PROVE  UNCHANGED <<landed, into>>
      BY <3>2 DEF CloseReads, ReopenReads, EnterReads, EnterWrites, rows
    <3>3. ASSUME NEW e \in Entries, LeaveReads(e) \/ LeaveWrites(e)
          PROVE  UNCHANGED <<landed, into>>
      BY <3>3 DEF LeaveReads, LeaveWrites, rows
    <3>4. ASSUME NEW r \in Requests, NEW u \in Users, Approve(r, u) \/ Revoke(r, u)
          PROVE  UNCHANGED <<landed, into>>
      BY <3>4 DEF Approve, Revoke
    <3> QED
      BY <2>1, <3>1, <3>2, <3>3, <3>4 DEF People, SetRequiredChecks
  <2>2. CASE Loop /\ ~CommitMerged
    BY <2>2 DEF Loop, Advance, TickEnds, Step, Build, StartPipeline, RecordTesting, LookAtTheRun,
         MoveTarget, Tidy, rows
  <2>3. CASE DirectMerge /\ \A u \in Users : ~MergeCommits(u)
    BY <2>3 DEF DirectMerge, MergeChecks, MergeBuilds, MergeMoves, MergeRestacks, rows
  <2>4. CASE Pushes \/ Runs \/ Crash \/ UNCHANGED vars
    BY <2>4 DEF Pushes, Push, ForcePush, DropBranch, PushTo, Runs, RunReports, RunCanceled, RunStops,
         RunChanges, Crash, vars, rows
  <2> QED
    BY <2>1, <2>2, <2>3, <2>4 DEF Next
<1> QED
  BY <1>3, <1>4, <1>5, <1>6

LEMMA InvNext == Inv /\ [Next]_vars => Inv'
<1> SUFFICES ASSUME Inv, [Next]_vars PROVE Inv'
  OBVIOUS
<1>1. TypeOK' /\ WalkedOnce'
  BY TypeNext, WalkedOnceNext DEF Inv
<1>2. BuiltOnBase'
  BY LoopBuiltNext, ButtonBuiltNext, RowsBuiltNext DEF BuiltOnBase, LoopBuilt, ButtonBuilt, RowsBuilt
<1> QED
  BY <1>1, <1>2, MovedIsThereNext, MergedIsContainedNext DEF Inv

(* What was recorded as merged into a protected branch is in that branch,  *)
(* for any number of requests, branches, people, places, pushes and crashes.*)
THEOREM MergedStaysContained == Spec => []MergedIsContained
<1>1. Inv => MergedIsContained
  BY DEF Inv
<1> QED
  BY <1>1, InvInit, InvNext, PTL DEF Spec

(* No step of anybody takes a commit out of a protected branch.            *)
THEOREM ProtectedBranchesOnlyGrow == Spec => ProtectedOnlyGrow
<1>1. Inv /\ [Next]_vars => [\A b \in Protected : tip[b] \subseteq tip'[b]]_vars
  BY ProtectedGrow DEF Inv
<1> QED
  BY <1>1, InvInit, InvNext, PTL DEF Spec, ProtectedOnlyGrow
=============================================================================
