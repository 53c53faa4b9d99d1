------------------------------- MODULE Pages -------------------------------
(***************************************************************************)
(* The static site of one project: its row, and three directories beside   *)
(* each other.  A publication unpacks the branch into <id>.new and swaps   *)
(* that with the directory visitors are served from; each call on the file *)
(* system is a step, for they run in threads, several publications at a    *)
(* time.  A site is two files, each as of some commit.                     *)
(***************************************************************************)
EXTENDS Naturals, FiniteSets

CONSTANTS
    Publishers,     \* a push that moved the branch, or somebody's click
    Commits,        \* tips the branch may have
    NoDir,
    MaxKills        \* bound: restarts

VARIABLES
    site,           \* the row: the commit it says is published, NoDir without a row
    enabled,        \* its enabled column
    tip,            \* the branch
    dir,            \* new, live, old: two files, or NoDir
    work,           \* where a publication stands
    met,            \* history: two publications were at it at a time
    remains,        \* history: a removal took files of what is served, and not all
    kills

pagesVars == <<site, enabled, tip, dir, work, met, remains, kills>>

SiteRows    == Commits \union {NoDir, "nothing"}
find        == site # NoDir
Bare        == <<NoDir, NoDir>>
Doing(p, s) == work[p].at = s
Then(p, r)  == work' = [work EXCEPT ![p] = r]
Onwards(p, s) == Then(p, [work[p] EXCEPT !.at = s])
Gives(p)    == Then(p, [at |-> "idle"])
Busy        == {p \in Publishers : ~Doing(p, "idle")}

Init ==
    /\ site = NoDir /\ enabled = FALSE /\ tip \in Commits
    /\ dir = [d \in {"new", "live", "old"} |-> NoDir]
    /\ work = [p \in Publishers |-> [at |-> "idle"]]
    /\ met = FALSE /\ remains = FALSE /\ kills = 0

Configure(on) ==
    /\ ~find \/ enabled # on
    /\ site' = IF find THEN site ELSE "nothing"
    /\ enabled' = on
    /\ UNCHANGED <<tip, dir, work, met, remains, kills>>

MoveBranch(c) ==
    /\ tip # c /\ tip' = c
    /\ UNCHANGED <<site, enabled, dir, work, met, remains, kills>>

\* The branch is resolved and git asked for an archive of that commit.
publish(p) ==
    /\ Doing(p, "idle")
    /\ Then(p, [at |-> "clear", commit |-> tip])
    /\ met' = (met \/ Busy # {})
    /\ UNCHANGED <<site, enabled, tip, dir, remains, kills>>

ClearStaging(p) ==
    /\ Doing(p, "clear") /\ dir' = [dir EXCEPT !["new"] = Bare] /\ Onwards(p, "first")
    /\ UNCHANGED <<site, enabled, tip, met, remains, kills>>

\* A directory that was moved away while it is written to: the call fails.
Extract(p, step, n, next) ==
    /\ Doing(p, step)
    /\ IF dir["new"] = NoDir
       THEN Gives(p) /\ UNCHANGED dir
       ELSE dir' = [dir EXCEPT !["new"][n] = work[p].commit] /\ Onwards(p, next)
    /\ UNCHANGED <<site, enabled, tip, met, remains, kills>>

\* Mutant: a file that cannot be written does not stop the publication.
UnpackWhatGoes(p) == Extract(p, "first", 1, "sweep")

Unpack(p) == Extract(p, "first", 1, "second") \/ Extract(p, "second", 2, "sweep")

\* _swap: what is left of an earlier swap goes first.
SwapSweeps(p) ==
    /\ Doing(p, "sweep") /\ dir' = [dir EXCEPT !["old"] = NoDir]
    /\ Onwards(p, IF dir["live"] = NoDir THEN "in" ELSE "out")
    /\ UNCHANGED <<site, enabled, tip, met, remains, kills>>

\* Moving onto a directory that holds something is an error, and so is
\* moving one that is gone.
SwapMoves(p, step, from, to, next) ==
    /\ Doing(p, step)
    /\ IF dir[from] = NoDir \/ dir[to] \notin {NoDir, Bare}
       THEN Gives(p) /\ UNCHANGED <<dir, remains>>
       ELSE /\ dir' = [dir EXCEPT ![to] = dir[from], ![from] = NoDir] /\ Onwards(p, next)
            /\ remains' = FALSE
    /\ UNCHANGED <<site, enabled, tip, met, kills>>

Swap(p) == SwapMoves(p, "out", "live", "old", "in") \/ SwapMoves(p, "in", "new", "live", "rid")

RidOfOld(p) ==
    /\ Doing(p, "rid") /\ dir' = [dir EXCEPT !["old"] = NoDir] /\ Onwards(p, "row")
    /\ UNCHANGED <<site, enabled, tip, met, remains, kills>>

\* An UPDATE of a row that was removed matches nothing and fails.
CommitSite(p) ==
    /\ Doing(p, "row") /\ Gives(p)
    /\ site' = IF find THEN work[p].commit ELSE site
    /\ UNCHANGED <<enabled, tip, dir, met, remains, kills>>

\* Only an enabled site of the branch that moved.
after_push(p) == find /\ enabled /\ publish(p)

\* Somebody asks for it.
publish_site(p) == find /\ publish(p)

RemoveSite(p) ==
    /\ Doing(p, "idle") /\ find
    /\ site' = NoDir /\ enabled' = FALSE /\ Then(p, [at |-> "tree"])
    /\ met' = (met \/ Busy # {})
    /\ UNCHANGED <<tip, dir, remains, kills>>

\* shutil.rmtree, in a thread: a file at a time, and the directory at last.
RemoveFile(p, n) ==
    /\ Doing(p, "tree") /\ dir["live"] # NoDir /\ dir["live"][n] # NoDir
    /\ dir' = [dir EXCEPT !["live"][n] = NoDir] /\ remains' = TRUE
    /\ UNCHANGED <<site, enabled, tip, work, met, kills>>

\* Its errors are ignored: what does not go stays, and the directory with it.
RemoveTree(p) ==
    /\ Doing(p, "tree") /\ Gives(p)
    /\ IF dir["live"] \in {NoDir, Bare}
       THEN dir' = [dir EXCEPT !["live"] = NoDir] /\ remains' = FALSE
       ELSE UNCHANGED <<dir, remains>>
    /\ UNCHANGED <<site, enabled, tip, met, kills>>

Kill ==
    /\ kills < MaxKills /\ kills' = kills + 1 /\ Busy # {}
    /\ work' = [p \in Publishers |-> [at |-> "idle"]]
    /\ UNCHANGED <<site, enabled, tip, dir, met, remains>>

Next ==
    \/ \E on \in BOOLEAN : Configure(on)
    \/ \E c \in Commits : MoveBranch(c)
    \/ \E p \in Publishers :
          \/ publish_site(p) \/ after_push(p) \/ ClearStaging(p) \/ Unpack(p) \/ SwapSweeps(p)
          \/ Swap(p) \/ RidOfOld(p) \/ CommitSite(p) \/ RemoveSite(p) \/ RemoveTree(p)
          \/ \E n \in {1, 2} : RemoveFile(p, n)
    \/ Kill

Spec == Init /\ [][Next]_pagesVars

-----------------------------------------------------------------------------
(* The row, the directories and the publications are of their kind. *)
TypeOK ==
    /\ site \in SiteRows /\ enabled \in BOOLEAN /\ tip \in Commits
    /\ \A d \in DOMAIN dir : dir[d] = NoDir \/ dir[d] \in (Commits \union {NoDir}) \X (Commits \union {NoDir})

\* What a request for the site is answered with.
serve_site   == find /\ enabled
resolve_file == IF serve_site THEN dir["live"] ELSE NoDir

(* What visitors are served is all of one commit, however often a restart
   broke a publication off (service.publish: a visitor never sees a half-written
   site), unless two publications were at it at a time, or a removal has taken
   some of its files and left others: a site that is configured anew while one is
   under way, or after one that was cut off, serves those until the next swap. *)
SiteIsWhole == met \/ remains \/ resolve_file = NoDir \/ \E c \in Commits : resolve_file = <<c, c>>
=============================================================================
