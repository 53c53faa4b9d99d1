------------------------------ MODULE Projects ------------------------------
(***************************************************************************)
(* The projects that had one address one after the other: the row, the     *)
(* bare repository and the files other modules keep for the project.  The  *)
(* row is committed first when a project is made, and the repository goes  *)
(* last when it is removed; pushes and uploads come in between.            *)
(***************************************************************************)
EXTENDS FiniteSets, Naturals

CONSTANTS
    Projects,       \* the identifiers of projects at the address
    Callers,        \* requests under way
    MaxCuts         \* bound: requests cut off by a restart

VARIABLES
    row,            \* projects that have a row
    repo,           \* per project: "none", "bare", or "guarded" by its hook
    files,          \* projects with a folder of packages, images or pages
    caller,         \* where a request stands
    made, dropped,  \* history: projects ever made, and those whose removal was answered
    met,            \* history: projects that were removed while others used them
    halfMade,       \* history: projects whose making was cut off
    cuts

projectVars == <<row, repo, files, caller, made, dropped, met, halfMade, cuts>>

find(p)   == p \in row
Idle      == [at |-> "idle"]
In(c, s)  == caller[c].at = s
Of(c)     == caller[c].project
Goes(c, s) == caller' = [caller EXCEPT ![c].at = s]
Leaves(c) == caller' = [caller EXCEPT ![c] = Idle]
On(p)     == {c \in Callers : ~In(c, "idle") /\ Of(c) = p}
Removing(p) == \E c \in On(p) : caller[c].at \in {"sweep", "row", "rmtree"}

Init ==
    /\ row = {} /\ repo = [p \in Projects |-> "none"] /\ files = {}
    /\ caller = [c \in Callers |-> Idle]
    /\ made = {} /\ dropped = {} /\ met = {} /\ halfMade = {} /\ cuts = 0

Begins(c, p, s) ==
    /\ In(c, "idle")
    /\ caller' = [caller EXCEPT ![c] = [at |-> s, project |-> p]]
    /\ met' = IF Removing(p) \/ (s = "sweep" /\ On(p) # {}) THEN met \union {p} ELSE met

\* The address is unique: an index refuses a second row.
create(c, p) ==
    /\ row = {}
    /\ made' = made \union {p} /\ row' = {p} /\ Begins(c, p, "init")
    /\ UNCHANGED <<repo, files, dropped, halfMade, cuts>>

\* Whoever makes a project gets an identifier nobody had before.
create_project(c, p) == p \notin made /\ create(c, p)

create_repository(c) ==
    /\ In(c, "init") /\ repo' = [repo EXCEPT ![Of(c)] = "bare"] /\ Goes(c, "guard")
    /\ UNCHANGED <<row, files, made, dropped, met, halfMade, cuts>>

\* The file of rules goes into the repository: without one it is an error.
write_protection(c) ==
    /\ In(c, "guard") /\ Leaves(c)
    /\ repo' = IF repo[Of(c)] = "none" THEN repo ELSE [repo EXCEPT ![Of(c)] = "guarded"]
    /\ UNCHANGED <<row, files, made, dropped, met, halfMade, cuts>>

delete_project(c, p) ==
    /\ find(p) /\ Begins(c, p, "sweep")
    /\ UNCHANGED <<row, repo, files, made, dropped, halfMade, cuts>>

\* after_delete.handle
sweep(c) ==
    /\ In(c, "sweep") /\ files' = files \ {Of(c)} /\ Goes(c, "row")
    /\ UNCHANGED <<row, repo, made, dropped, met, halfMade, cuts>>

\* Mutant: the repository goes before the row.
RepositoryFirst(c) ==
    /\ \/ In(c, "row") /\ repo' = [repo EXCEPT ![Of(c)] = "none"] /\ Goes(c, "rmtree")
          /\ UNCHANGED <<row, dropped>>
       \/ In(c, "rmtree") /\ row' = row \ {Of(c)} /\ Leaves(c)
          /\ dropped' = dropped \union {Of(c)} /\ UNCHANGED repo
    /\ UNCHANGED <<files, made, met, halfMade, cuts>>

\* A row that was inserted and points at the project holds the delete up.
delete(c) ==
    /\ \/ /\ In(c, "row") /\ ~\E d \in On(Of(c)) : caller[d].at \in {"place", "keep"}
          /\ row' = row \ {Of(c)} /\ Goes(c, "rmtree") /\ UNCHANGED <<repo, dropped>>
       \/ /\ In(c, "rmtree") /\ repo' = [repo EXCEPT ![Of(c)] = "none"] /\ Leaves(c)
          /\ dropped' = dropped \union {Of(c)} /\ UNCHANGED row
    /\ UNCHANGED <<files, made, met, halfMade, cuts>>

\* A push over SSH: found, and then nothing is looked at again until git is done.
handle_session(c, p) ==
    /\ find(p) /\ repo[p] # "none" /\ Begins(c, p, "git")
    /\ UNCHANGED <<row, repo, files, made, dropped, halfMade, cuts>>

\* session.merge: a project without a row becomes a new one.
merges(c) ==
    /\ In(c, "git")
    /\ IF repo[Of(c)] = "none" THEN Leaves(c)
       ELSE Goes(c, IF Of(c) \in row THEN "known" ELSE "anew")
    /\ UNCHANGED <<row, repo, files, made, dropped, met, halfMade, cuts>>

\* Pipelines are started for what the tips say, and the session commits.
after_push(c) ==
    /\ \/ In(c, "known") /\ Leaves(c)
       \/ In(c, "anew") /\ IF repo[Of(c)] = "none" THEN Leaves(c) ELSE Goes(c, "flush")
    /\ UNCHANGED <<row, repo, files, made, dropped, met, halfMade, cuts>>

flush(c) ==
    /\ In(c, "flush") /\ Leaves(c) /\ row' = IF row = {} THEN {Of(c)} ELSE row
    /\ UNCHANGED <<repo, files, made, dropped, met, halfMade, cuts>>

\* A file that is published for the first time: its row, the file, the commit.
upload(c, p) ==
    /\ find(p) /\ Begins(c, p, "place")
    /\ UNCHANGED <<row, repo, files, made, dropped, halfMade, cuts>>

place(c) ==
    /\ \/ In(c, "place") /\ files' = files \union {Of(c)} /\ Goes(c, "keep")
       \/ In(c, "keep") /\ Leaves(c) /\ UNCHANGED files
    /\ UNCHANGED <<row, repo, made, dropped, met, halfMade, cuts>>

Cut(c) ==
    /\ ~In(c, "idle") /\ cuts < MaxCuts /\ cuts' = cuts + 1 /\ Leaves(c)
    /\ halfMade' = IF caller[c].at \in {"init", "guard"} THEN halfMade \union {Of(c)} ELSE halfMade
    /\ UNCHANGED <<row, repo, files, made, dropped, met>>

Next ==
    \E c \in Callers :
       \/ \E p \in Projects : create_project(c, p) \/ delete_project(c, p) \/ handle_session(c, p) \/ upload(c, p)
       \/ create_repository(c) \/ write_protection(c) \/ sweep(c) \/ delete(c)
       \/ merges(c) \/ after_push(c) \/ flush(c) \/ place(c) \/ Cut(c)

Spec == Init /\ [][Next]_projectVars

-----------------------------------------------------------------------------
(* At most one project has the address. *)
TypeOK ==
    /\ row \subseteq made /\ Cardinality(row) <= 1 /\ files \subseteq made
    /\ repo \in [Projects -> {"none", "bare", "guarded"}]
    /\ \A c \in Callers : In(c, "idle") \/ Of(c) \in made

(* A project that has a row has its repository, and one whose removal was
   answered has neither, however removals are cut off by restarts; unless the
   making was cut off, or the project was in use when it was removed.  Any
   listing asks every repository it names (service.delete, project_view). *)
RowHasRepository ==
    /\ \A p \in row \ (met \union halfMade) : repo[p] # "none" \/ \E c \in On(p) : In(c, "init")
    /\ \A p \in dropped \ met : p \notin row /\ repo[p] = "none"
=============================================================================
