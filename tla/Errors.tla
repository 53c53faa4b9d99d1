------------------------------- MODULE Errors -------------------------------
(***************************************************************************)
(* Error reports gathered into issues.  A report reads the issue it        *)
(* belongs to, or makes it, and writes the counter it read plus one; two   *)
(* reports and a person who says "dealt with" may all hold the same row.   *)
(***************************************************************************)
EXTENDS Naturals, FiniteSets

CONSTANTS
    Sources,        \* applications that report under a key of their own
    Fingerprints,   \* what makes two reports the same problem
    Calls,          \* requests under way
    MaxReports      \* bound: reports sent in all

VARIABLES
    sources, gone,  \* sources there are, and those that were deleted
    issues,         \* per source and fingerprint, the committed row
    call,           \* where a request stands and what it has read
    crossed,        \* history: problems two reports were under way for at once
    sent            \* reports sent so far

errorVars == <<sources, gone, issues, call, crossed, sent>>

Problems == Sources \X Fingerprints
IssueRows == [count : 0..MaxReports, resolved : BOOLEAN, reports : 0..MaxReports]
NoIssue  == [count |-> 0, resolved |-> FALSE, reports |-> 0]
There(p) == issues[p].reports > 0
find_by_key(s) == s \in sources
Idle     == [at |-> "idle"]
In(c, s) == call[c].at = s
Then(c, q) == call' = [call EXCEPT ![c] = q]
Leaves(c)  == Then(c, Idle)
find_issue(p) == There(p)
\* Rows sent to the database and not committed hold up whoever needs them.
Flushed(p) == \E d \in Calls : In(d, "flushed") /\ call[d].about = p
Reporting(p) == {d \in Calls : call[d].at \in {"look", "insert", "flushed", "add"} /\ call[d].about = p}

Init ==
    /\ sources = {} /\ gone = {}
    /\ issues = [p \in Problems |-> NoIssue]
    /\ call = [c \in Calls |-> Idle] /\ crossed = {} /\ sent = 0

create(s) ==
    /\ s \notin sources \union gone /\ sources' = sources \union {s}
    /\ UNCHANGED <<gone, issues, call, crossed, sent>>

\* What was reported goes with the source, by the cascade of the database.
delete_source(s) ==
    /\ s \in sources /\ \A p \in {s} \X Fingerprints : ~Flushed(p)
    /\ sources' = sources \ {s} /\ gone' = gone \union {s}
    /\ issues' = [p \in Problems |-> IF p[1] = s THEN NoIssue ELSE issues[p]]
    /\ UNCHANGED <<call, crossed, sent>>

take_report(c, p) ==
    /\ In(c, "idle") /\ find_by_key(p[1]) /\ sent < MaxReports /\ sent' = sent + 1
    /\ Then(c, [at |-> "look", about |-> p])
    /\ crossed' = IF Reporting(p) = {} THEN crossed ELSE crossed \union {p}
    /\ UNCHANGED <<sources, gone, issues>>

Look(c) ==
    LET p == call[c].about IN
    /\ In(c, "look")
    /\ Then(c, IF There(p) THEN [at |-> "add", about |-> p, read |-> issues[p]]
                           ELSE [at |-> "insert", about |-> p])
    /\ UNCHANGED <<sources, gone, issues, crossed, sent>>

\* The first report makes the issue; of two that cross, the second waits and is
\* then refused, as is one whose source was deleted.
Insert(c) ==
    LET p == call[c].about IN
    /\ In(c, "insert") /\ ~Flushed(p)
    /\ IF There(p) \/ p[1] \notin sources THEN Leaves(c)
       ELSE Then(c, [at |-> "flushed", about |-> p, read |-> NoIssue])
    /\ UNCHANGED <<sources, gone, issues, crossed, sent>>

\* Mutant: the row already counts the report that made it.
CountTheFirstTwice(c) ==
    LET q == call[c]  p == q.about IN
    /\ q.at \in {"flushed", "add"} /\ Leaves(c)
    /\ issues' = [issues EXCEPT ![p] = [count |-> q.read.count + (IF q.at = "flushed" THEN 2 ELSE 1),
                                        resolved |-> FALSE, reports |-> @.reports + 1]]
    /\ UNCHANGED <<sources, gone, crossed, sent>>

\* The counter is what was read and one; the issue is opened again only when it
\* was read as resolved, for a value that did not change is not written.
report(c) ==
    LET q == call[c]  p == q.about IN
    /\ q.at \in {"flushed", "add"} /\ Leaves(c)
    /\ issues' = IF q.at = "add" /\ ~There(p) THEN issues
                 ELSE [issues EXCEPT ![p] = [count |-> q.read.count + 1,
                                             resolved |-> @.resolved /\ ~q.read.resolved,
                                             reports |-> @.reports + 1]]
    /\ UNCHANGED <<sources, gone, crossed, sent>>

resolve_issue(c, p, resolved) ==
    /\ In(c, "idle") /\ find_issue(p)
    /\ Then(c, [at |-> "resolve", about |-> p, read |-> issues[p].resolved, resolved |-> resolved])
    /\ UNCHANGED <<sources, gone, issues, crossed, sent>>

set_resolved(c) ==
    LET q == call[c] IN
    /\ In(c, "resolve") /\ Leaves(c)
    /\ issues' = IF There(q.about) /\ q.read # q.resolved
                 THEN [issues EXCEPT ![q.about].resolved = q.resolved] ELSE issues
    /\ UNCHANGED <<sources, gone, crossed, sent>>

Next ==
    \/ \E s \in Sources : create(s) \/ delete_source(s)
    \/ \E c \in Calls : \/ Look(c) \/ Insert(c) \/ report(c) \/ set_resolved(c)
                        \/ \E p \in Problems : \/ take_report(c, p)
                                               \/ \E b \in BOOLEAN : resolve_issue(c, p, b)

Spec == Init /\ [][Next]_errorVars

-----------------------------------------------------------------------------
(* Sources, issues and requests are of their kind. *)
TypeOK ==
    /\ sources \subseteq Sources /\ gone \subseteq Sources /\ sent \in 0..MaxReports
    /\ issues \in [Problems -> IssueRows]
    /\ crossed \subseteq Problems
    /\ \A c \in Calls : call[c].at \in {"idle", "look", "insert", "flushed", "add", "resolve"}

\* An issue never counts more than was kept of it, and counts exactly that as
\* long as no two reports of the problem were under way at once: a report that
\* crosses another may be lost from the counter, never added to it.
CountsWhatCame ==
    \A p \in Problems : /\ issues[p].count <= issues[p].reports
                        /\ p \notin crossed => issues[p].count = issues[p].reports
=============================================================================
