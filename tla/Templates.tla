----------------------------- MODULE Templates -----------------------------
(***************************************************************************)
(* The fair: an offering names a project to copy, or an image to run, and  *)
(* taking it makes something of the taker's own.  The offering is read,    *)
(* the taker's thing is made, a repository is copied, and only then is the *)
(* taking counted, from the count as it was read at the beginning.         *)
(***************************************************************************)
EXTENDS Naturals, FiniteSets

CONSTANTS
    Takers,         \* accounts, each takes the offering once
    Tips,           \* what the branch of the template may hold
    Nil,            \* no offering; no project, or no such branch in it
    MaxRows,        \* bound: offerings put out, one after the other
    MaxMoves        \* bound: changes of the source, pushes, restarts

VARIABLES
    offering,       \* the row at one address
    rows,           \* how many there were
    source,         \* whether the project has its row, and the tip of the branch
    taker,          \* where a taking stands, with the count it read
    made,           \* per taker: nothing, "empty", a tip, "own" work, an "app"
    held,           \* history: what the source held while the taking went on
    moves

templateVars == <<offering, rows, source, taker, made, held, moves>>

Kinds     == {"template", "application"}
Offerings == [row : 1..MaxRows, kind : Kinds, published : BOOLEAN, taken : 0..Cardinality(Takers)]
On(t, s)  == taker[t].at = s
Taking    == {t \in Takers : taker[t].at \in {"make", "copy", "count"}}
Step(t, s) == taker' = [taker EXCEPT ![t].at = s]
Moves     == moves < MaxMoves /\ moves' = moves + 1
There     == offering # Nil

Init ==
    /\ offering = Nil /\ rows = 0 /\ source = [there |-> TRUE, tip |-> Nil]
    /\ taker = [t \in Takers |-> [at |-> "idle"]]
    /\ made = [t \in Takers |-> Nil] /\ held = [t \in Takers |-> {}] /\ moves = 0

\* The address is unique.
publish(kind) ==
    /\ ~There /\ rows < MaxRows /\ rows' = rows + 1
    /\ offering' = [row |-> rows + 1, kind |-> kind, published |-> TRUE, taken |-> 0]

\* A template names a project its publisher manages.
publish_offering(kind) ==
    /\ kind = "template" => source.there
    /\ publish(kind)
    /\ UNCHANGED <<source, taker, made, held, moves>>

\* Only the column that changes is written.
change_offering ==
    /\ There /\ offering' = [offering EXCEPT !.published = ~@]
    /\ UNCHANGED <<rows, source, taker, made, held, moves>>

delete_offering ==
    /\ There /\ offering' = Nil
    /\ UNCHANGED <<rows, source, taker, made, held, moves>>

_found == There /\ offering.published

Begins(t) ==
    /\ On(t, "idle") /\ _found
    /\ taker' = [taker EXCEPT ![t] = [at |-> "make", read |-> offering]]
    /\ held' = [held EXCEPT ![t] = {source.tip}]
    /\ UNCHANGED <<offering, rows, source, made, moves>>

take_template(t)    == Begins(t) /\ offering.kind = "template" /\ source.there
take_application(t) == Begins(t) /\ offering.kind = "application"

\* Mutant: the project is made, and counted.
MakeWithoutACopy(t) ==
    /\ On(t, "make") /\ Step(t, "count")
    /\ made' = [made EXCEPT ![t] = IF taker[t].read.kind = "template" THEN "empty" ELSE "app"]
    /\ UNCHANGED <<offering, rows, source, held, moves>>

\* The taker's own project, with an empty repository, or their application; an
\* address or a limit may refuse it.
create(t) ==
    /\ On(t, "make")
    /\ \/ Step(t, "idle") /\ UNCHANGED made
       \/ /\ Step(t, IF taker[t].read.kind = "template" THEN "copy" ELSE "count")
          /\ made' = [made EXCEPT ![t] = IF taker[t].read.kind = "template" THEN "empty" ELSE "app"]
    /\ UNCHANGED <<offering, rows, source, held, moves>>

\* fetch +branch:branch: over whatever is there; an error is passed over, and
\* leaves what was there.
copy_from(t) ==
    /\ On(t, "copy") /\ Step(t, "count")
    /\ made' = IF source.tip = Nil THEN made ELSE [made EXCEPT ![t] = source.tip]
    /\ UNCHANGED <<offering, rows, source, held, moves>>

StillThere(t) == There /\ offering.row = taker[t].read.row

\* Mutant: every taking is counted from the row as it is, and once more.
CountTwice(t) ==
    /\ On(t, "count") /\ Step(t, IF StillThere(t) THEN "taken" ELSE "failed")
    /\ offering' = IF StillThere(t) THEN [offering EXCEPT !.taken = @ + 2] ELSE offering
    /\ UNCHANGED <<rows, source, made, held, moves>>

\* From the count that was read; without a row the request fails, and what was
\* made stays.
count_taken(t) ==
    /\ On(t, "count") /\ Step(t, IF StillThere(t) THEN "taken" ELSE "failed")
    /\ offering' = IF StillThere(t) THEN [offering EXCEPT !.taken = taker[t].read.taken + 1] ELSE offering
    /\ UNCHANGED <<rows, source, made, held, moves>>

\* The new project is its owner's from the first commit on.
Push(t) ==
    /\ made[t] \in Tips \union {"empty"} /\ Moves
    /\ made' = [made EXCEPT ![t] = "own"]
    /\ UNCHANGED <<offering, rows, source, taker, held>>

SourceIs(there, tip) ==
    /\ source' = [there |-> there, tip |-> tip]
    /\ held' = [t \in Takers |-> IF t \in Taking THEN held[t] \union {tip} ELSE held[t]]

SourceMoves(tip) ==
    /\ source.there /\ Moves /\ SourceIs(TRUE, tip)
    /\ UNCHANGED <<offering, rows, taker, made>>

\* The row goes with its project, the repository after it.
SourceIsDeleted ==
    /\ source.there /\ Moves /\ SourceIs(FALSE, source.tip)
    /\ offering' = IF There /\ offering.kind = "template" THEN Nil ELSE offering
    /\ UNCHANGED <<rows, taker, made>>

RepositoryGoes ==
    /\ ~source.there /\ source.tip # Nil /\ SourceIs(FALSE, Nil)
    /\ UNCHANGED <<offering, rows, taker, made, moves>>

IsCut(t) ==
    /\ t \in Taking /\ Moves /\ Step(t, "cut")
    /\ UNCHANGED <<offering, rows, source, made, held>>

Next ==
    \/ \E kind \in Kinds : publish_offering(kind)
    \/ change_offering \/ delete_offering \/ SourceIsDeleted \/ RepositoryGoes
    \/ \E tip \in Tips : SourceMoves(tip)
    \/ \E t \in Takers :
          \/ take_template(t) \/ take_application(t) \/ create(t) \/ copy_from(t) \/ count_taken(t)
          \/ Push(t) \/ IsCut(t)

Spec == Init /\ [][Next]_templateVars

-----------------------------------------------------------------------------
(* The offering and what was made are of their kind. *)
TypeOK ==
    /\ There => offering \in Offerings
    /\ made \in [Takers -> Tips \union {Nil, "empty", "own", "app"}]

Took == {t \in Takers : On(t, "taken")}

(* What is counted was taken: crossing takings are counted too few times and
   never too often, and never as none. *)
TakenIsHonest == There =>
    LET by == {t \in Took : taker[t].read.row = offering.row} IN
    /\ offering.taken <= Cardinality(by)
    /\ by # {} => offering.taken > 0

(* A template's taker whose request is over has what its branch held while
   they took it, or nothing when it held nothing; and keeps it, whatever
   becomes of the offering and of the project it names. *)
CopiesAreTheTakers ==
    \A t \in Took : taker[t].read.kind = "template" /\ made[t] # "own" =>
        made[t] \in held[t] \/ (made[t] = "empty" /\ Nil \in held[t])
=============================================================================
