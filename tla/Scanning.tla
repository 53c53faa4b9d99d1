------------------------------ MODULE Scanning ------------------------------
(***************************************************************************)
(* Secrets found in the default branch of a project.  A scan reads the     *)
(* tree, then the findings there are, and writes what changed in one       *)
(* transaction; scans of several pushes, and people who decide about a     *)
(* finding, go on side by side.                                            *)
(***************************************************************************)
EXTENDS FiniteSets, Naturals

CONSTANTS
    Secrets,        \* a rule, a path and a fingerprint
    Calls,          \* pushes, scans asked for, and decisions under way
    MaxPushes,      \* bound: times the branch moves
    MaxDecisions    \* bound: decisions asked for

VARIABLES
    tree, twice,    \* secrets in the tip, and those on several lines of their file
    findings,       \* the state of each finding, "none" for those never written
    call,           \* where a call stands and what it has read
    lone,           \* history: the last scan that ended wrote what it had read as it
                    \* still stood, and nothing moved since
    waived,         \* history: findings on which the last word was that they are fine
    beside,         \* history: findings on which it was said beside a scan that had
                    \* read them
    pushes, decisions

scanVars == <<tree, twice, findings, call, lone, waived, beside, pushes, decisions>>
words    == <<waived, beside>>

FindingState == {"open", "ignored", "fixed"}
FindingRows  == [Secrets -> FindingState \union {"none"}]
find(x)      == findings[x] # "none"
Idle    == [at |-> "idle"]
In(c, s)   == call[c].at = s
Then(c, q) == call' = [call EXCEPT ![c] = q]
Leaves(c)  == Then(c, Idle)

Init ==
    /\ tree = {} /\ twice = {} /\ findings = [x \in Secrets |-> "none"]
    /\ call = [c \in Calls |-> Idle] /\ lone = FALSE
    /\ waived = {} /\ beside = {} /\ pushes = 0 /\ decisions = 0

\* The branch is moved first and looked through afterwards.
after_push(c, S, T) ==
    /\ In(c, "idle") /\ pushes < MaxPushes /\ pushes' = pushes + 1
    /\ T \subseteq S /\ tree' = S /\ twice' = T
    /\ Then(c, [at |-> "look"]) /\ lone' = FALSE
    /\ UNCHANGED <<findings, words, decisions>>

scan_now(c) ==
    /\ In(c, "idle") /\ Then(c, [at |-> "look"])
    /\ UNCHANGED <<tree, twice, findings, lone, words, pushes, decisions>>

\* The commit is named first, so the tree read is that of one moment.
_look(c) ==
    /\ In(c, "look")
    /\ Then(c, [at |-> "list", hits |-> tree, double |-> twice])
    /\ UNCHANGED <<tree, twice, findings, lone, words, pushes, decisions>>

list_findings(c) ==
    /\ In(c, "list")
    /\ Then(c, [at |-> "save", hits |-> call[c].hits, double |-> call[c].double, known |-> findings])
    /\ UNCHANGED <<tree, twice, findings, lone, words, pushes, decisions>>

\* Mutant: everything that is met again goes back on the list.
AsksAgain(x, hits, known) ==
    IF x \in hits THEN "open" ELSE IF known = "open" THEN "fixed" ELSE "as it is"

\* What the scan makes of a finding it read: states it has no reason to
\* change are not written, so what somebody else wrote meanwhile stands.
Verdict(x, hits, known) ==
    IF x \in hits THEN IF known \in {"none", "fixed"} THEN "open" ELSE "as it is"
                  ELSE IF known = "open" THEN "fixed" ELSE "as it is"

\* Rows for the same address twice, of a scan that crossed another or of one
\* file that holds the secret on two lines, take the whole scan back.
Refused(q) == \E x \in q.hits : q.known[x] = "none" /\ (find(x) \/ x \in q.double)

\* The tip and the findings are as the scan read them.
Uncrossed(q) == q.hits = tree /\ q.double = twice /\ q.known = findings

\* Mutant: what is no longer in the repository stays on the list.
NeverCloses(c) ==
    LET q == call[c] IN
    /\ In(c, "save") /\ Leaves(c)
    /\ findings' = IF Refused(q) THEN findings
                   ELSE [x \in Secrets |-> IF x \in q.hits /\ q.known[x] \in {"none", "fixed"}
                                           THEN "open" ELSE findings[x]]
    /\ lone' = Uncrossed(q)
    /\ UNCHANGED <<tree, twice, words, pushes, decisions>>

scan(c) ==
    LET q == call[c] IN
    /\ In(c, "save") /\ Leaves(c)
    /\ findings' = IF Refused(q) THEN findings
                   ELSE [x \in Secrets |-> LET v == Verdict(x, q.hits, q.known[x]) IN
                                           IF v = "as it is" THEN findings[x] ELSE v]
    /\ lone' = Uncrossed(q)
    /\ UNCHANGED <<tree, twice, words, pushes, decisions>>

change_finding(c, x, state) ==
    /\ In(c, "idle") /\ find(x) /\ decisions < MaxDecisions /\ decisions' = decisions + 1
    /\ Then(c, [at |-> "decide", finding |-> x, read |-> findings[x], state |-> state])
    /\ UNCHANGED <<tree, twice, findings, lone, words, pushes>>

set_state(c) ==
    LET q == call[c] IN
    /\ In(c, "decide") /\ Leaves(c) /\ lone' = FALSE
    /\ findings' = IF q.read # q.state THEN [findings EXCEPT ![q.finding] = q.state] ELSE findings
    /\ waived' = IF findings'[q.finding] = "ignored" THEN waived \union {q.finding} ELSE waived \ {q.finding}
    /\ beside' = IF \E d \in Calls : In(d, "save") THEN beside \union {q.finding}
                 ELSE beside \ {q.finding}
    /\ UNCHANGED <<tree, twice, pushes, decisions>>

Next ==
    \E c \in Calls :
        \/ scan_now(c) \/ _look(c) \/ list_findings(c) \/ scan(c) \/ set_state(c)
        \/ \E S, T \in SUBSET Secrets : after_push(c, S, T)
        \/ \E x \in Secrets, s \in FindingState : change_finding(c, x, s)

Spec == Init /\ [][Next]_scanVars

-----------------------------------------------------------------------------
(* Branches, findings and calls are of their kind. *)
TypeOK ==
    /\ tree \subseteq Secrets /\ twice \subseteq tree /\ lone \in BOOLEAN
    /\ waived \subseteq Secrets /\ beside \subseteq Secrets
    /\ findings \in FindingRows
    /\ \A c \in Calls : call[c].at \in {"idle", "look", "list", "save", "decide"}

\* The open findings are the secrets the tip holds, but for those somebody
\* said are fine.
Tells == \A x \in Secrets : /\ findings[x] = "open" => x \in tree
                            /\ x \in tree => findings[x] \in {"open", "ignored"}

\* A scan that saves while the tip and the findings stand as it read them, whoever
\* else is at work, leaves the list telling what the repository holds: unless
\* a secret without a row stands on several lines of its file, which takes the
\* whole scan back.
LoneScanTells == lone => Tells \/ \E x \in twice : ~find(x)

\* A finding somebody looked at and said is fine is not put back on the list by a
\* scan, however scans and decisions cross, but by one that had read the
\* finding before that was said and saves after it.
IgnoredStays == \A x \in waived \ beside : findings[x] = "ignored"
=============================================================================
