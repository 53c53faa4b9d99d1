---------------------------- MODULE MCMergeQueue ----------------------------
(* Small instances of MergeQueue for TLC.                                  *)
EXTENDS MergeQueue, TLC

CONSTANTS main, main2, s1, s2, r1, r2, p1, p2, alice, bob, lint

MCChanges == 0..9

\* Two requests of one project, both against main, of which two branches grew.
TwoInOne    == r1 :> p1 @@ r2 :> p1
OneEach     == r1 :> p1 @@ r2 :> p2
Sources     == r1 :> s1 @@ r2 :> s2
OneMainEach == r1 :> main @@ r2 :> main2
BothOnMain  == r1 :> main @@ r2 :> main
SideBySide  == main :> {0} @@ s1 :> {0, 1} @@ s2 :> {0, 2}
FourBranches == main :> {0} @@ main2 :> {0} @@ s1 :> {0, 1} @@ s2 :> {0, 2}

ByAlice     == r1 :> alice @@ r2 :> alice
WithJobs    == r1 :> {"jobs"} @@ r2 :> {"jobs"}
FirstBroken == r1 :> {"unreadable"} @@ r2 :> {"jobs"}
NoJobs      == r1 :> {} @@ r2 :> {}
NobodyOwns  == r1 :> {} @@ r2 :> {}

\* One request alone, with a second pair of eyes on it.
OneRequest    == r1 :> p1
OneSource     == r1 :> s1
OneOnMain     == r1 :> main
OneByAlice    == r1 :> alice
OneBranch     == main :> {0} @@ s1 :> {0, 1}
OneWithJobs   == r1 :> {"jobs"}
OneWithAny    == r1 :> {"none", "jobs", "unreadable"}
OneNoJobs     == r1 :> {}
OneLints      == r1 :> {lint}
OneOwnedByBob == r1 :> {{bob}}

\* Bounds of the large run.  Both requests are opened before either enters the
\* line.  A row is committed out of the order of the dates only before the first
\* upset, which waits until nobody under test is overtaken any more.
OpenedFirst == (\E r \in Requests : state[r] = "absent") => upsets = 0 /\ Active = {} /\ entering = {}
FilledInOrder == \A e \in Entries : entry[e].state # "none" => \A d \in 1..e : entry[d].state # "none"
FewUpsets == OpenedFirst /\ (upsets = 0 \/ (FilledInOrder /\ overtaken = {}))
=============================================================================
