------------------------------- MODULE Issues -------------------------------
(***************************************************************************)
(* The issues of a project: each is given the next number, and is changed  *)
(* from the row as a request read it.  A session writes the columns that   *)
(* differ from what it read and no others, so two changes at one time mix  *)
(* column by column.                                                       *)
(***************************************************************************)
EXTENDS Naturals, FiniteSets

CONSTANTS
    Members,        \* requests: who opens or changes issues
    Managers,       \* those of them who manage the project
    Titles,
    NoTime,         \* closed_at of an issue that was never closed, or reopened
    MaxNumber,      \* bound: issues
    MaxChanges      \* bound: changes, whose commits are told apart by their time

VARIABLES
    issues,         \* rows, by number
    member,         \* where a request stands, and what it read
    conflicts,      \* history: requests that ended because their number was taken
    changes

issueVars == <<issues, member, conflicts, changes>>

Numbers   == DOMAIN issues
States    == {"open", "closed"}
IssueRows == [author : Members, title : Titles, state : States,
              closed_at : (1..MaxChanges) \union {NoTime}]
Away      == [at |-> "away"]
IsAt(m, s) == member[m].at = s
Ends(m)   == member' = [member EXCEPT ![m] = Away]
Opened(m, title) == [author |-> m, title |-> title, state |-> "open", closed_at |-> NoTime]

Init ==
    /\ issues = [n \in {} |-> Away] /\ member = [m \in Members |-> Away]
    /\ conflicts = {} /\ changes = 0

\* max(number) + 1
_next_number == Cardinality(Numbers) + 1

open_issue(m) ==
    /\ IsAt(m, "away") /\ _next_number <= MaxNumber
    /\ \E title \in Titles :
          member' = [member EXCEPT ![m] = [at |-> "insert", number |-> _next_number, title |-> title]]
    /\ UNCHANGED <<issues, conflicts, changes>>

\* The index refuses a number that is taken.  The loop means to try again, but
\* the rollback has expired the project it asks for its id, which ends it.
insert(m) ==
    LET n == member[m].number IN
    /\ IsAt(m, "insert") /\ Ends(m)
    /\ IF n \in Numbers THEN conflicts' = conflicts \union {m} /\ UNCHANGED issues
       ELSE /\ issues' = [k \in Numbers \union {n} |->
                            IF k = n THEN Opened(m, member[m].title) ELSE issues[k]]
            /\ UNCHANGED conflicts
    /\ UNCHANGED changes

find_issue(n)    == n \in Numbers
may_change(m, n) == m \in Managers \/ issues[n].author = m

\* What a request asks of an issue: a title, a state, or neither.
Same == "same"
change_issue(m, n) ==
    /\ IsAt(m, "away") /\ find_issue(n) /\ may_change(m, n) /\ changes < MaxChanges
    /\ changes' = changes + 1
    /\ \E title \in Titles \union {Same}, state \in States \union {Same} :
          member' = [member EXCEPT ![m] = [at |-> "update", number |-> n, seen |-> issues[n],
                                           title |-> title, state |-> state, time |-> changes + 1]]
    /\ UNCHANGED <<issues, conflicts>>

\* Mutant: the time follows the body, also when it does not name a state.
TimeOfTheBody(m) ==
    IF member[m].state = "closed" THEN member[m].time ELSE NoTime

closed_at(m) ==
    IF member[m].state \in {Same, member[m].seen.state} THEN member[m].seen.closed_at
    ELSE IF member[m].state = "closed" THEN member[m].time ELSE NoTime

Asked(m, field) == IF member[m][field] = Same THEN member[m].seen[field] ELSE member[m][field]

update_issue(m) ==
    LET seen == member[m].seen
        set  == [title |-> Asked(m, "title"), state |-> Asked(m, "state"), closed_at |-> closed_at(m)]
    IN
    /\ IsAt(m, "update") /\ Ends(m)
    /\ issues' = [issues EXCEPT ![member[m].number] =
                    [f \in DOMAIN seen |-> IF f \in DOMAIN set /\ set[f] # seen[f] THEN set[f] ELSE @[f]]]
    /\ UNCHANGED <<conflicts, changes>>

Next == \E m \in Members :
    \/ open_issue(m) \/ insert(m) \/ update_issue(m)
    \/ \E n \in 1..MaxNumber : change_issue(m, n)

Spec == Init /\ [][Next]_issueVars

-----------------------------------------------------------------------------
(* Rows are of their kind. *)
TypeOK ==
    /\ Numbers \subseteq 1..MaxNumber /\ \A n \in Numbers : issues[n] \in IssueRows
    /\ conflicts \subseteq Members

(* Issues are numbered without a gap, whoever opens them at one time, and an
   issue says when it was closed exactly while it is, also when it is closed,
   reopened and renamed at once and each change writes its own columns. *)
IssuesAreKept ==
    /\ Numbers = 1..Cardinality(Numbers)
    /\ \A n \in Numbers : (issues[n].closed_at # NoTime) <=> (issues[n].state = "closed")
=============================================================================
