---------------------------- MODULE Suggestions ----------------------------
(***************************************************************************)
(* Suggestions in a review: a comment that is pinned to a line of a file   *)
(* says what should stand there, and taking it writes a commit to the      *)
(* source branch.  The line is counted in the file as the branch has it    *)
(* then, not as it was when the comment was written; pushes and other      *)
(* suggestions come in between.                                            *)
(***************************************************************************)
EXTENDS Naturals, Sequences

CONSTANTS
    Comments,       \* one suggestion each
    Appliers,       \* requests that take one
    Lines, Blank,   \* what a line may say; Blank is one of them
    Replacements,   \* what suggestions say: sequences of lines
    MaxLines,       \* bound: lines of the file
    MaxCommits,     \* bound: commits of the branch
    None

VARIABLES
    commits,        \* the branch: per commit its file, the one before, what wrote it
    gone,           \* the branch was deleted
    comments,       \* rows of comments
    apply           \* where a request stands, with the tip it read

suggestionVars == <<commits, gone, comments, apply>>

CommentRows == [line : 1..MaxLines, body : Replacements]
Tip         == Len(commits)
FileAt(k)   == commits[k].file
Idle        == [at |-> "idle"]
Stands(a, s) == apply[a].at = s
Over(a)     == apply' = [apply EXCEPT ![a] = Idle]
Commit(file, by) == commits' = Append(commits, [file |-> file, parent |-> Tip, by |-> by])

Init ==
    /\ commits = <<[file |-> <<Blank>>, parent |-> 0, by |-> None]>> /\ gone = FALSE
    /\ comments = [c \in Comments |-> None] /\ apply = [a \in Appliers |-> Idle]

\* A comment may name a line no file ever had; only the request that takes it
\* finds out.
add_comment(c) ==
    /\ comments[c] = None
    /\ \E row \in CommentRows : comments' = [comments EXCEPT ![c] = row]
    /\ UNCHANGED <<commits, gone, apply>>

delete_comment(c) ==
    /\ comments[c] # None /\ comments' = [comments EXCEPT ![c] = None]
    /\ UNCHANGED <<commits, gone, apply>>

\* Someone pushes: a line on top, the last line away, or one that is changed.
Push ==
    /\ ~gone /\ Tip < MaxCommits
    /\ LET file == FileAt(Tip) IN
       \/ Len(file) < MaxLines /\ \E l \in Lines : Commit(<<l>> \o file, None)
       \/ Len(file) > 1 /\ Commit(SubSeq(file, 1, Len(file) - 1), None)
       \/ \E i \in DOMAIN file : \E l \in Lines \ {file[i]} : Commit([file EXCEPT ![i] = l], None)
    /\ UNCHANGED <<gone, comments, apply>>

BranchIsDeleted ==
    /\ ~gone /\ gone' = TRUE
    /\ UNCHANGED <<commits, comments, apply>>

\* The comment is read, and then the branch: what it stands at, and the file.
apply_suggestion(a, c) ==
    /\ Stands(a, "idle") /\ comments[c] # None
    /\ apply' = [apply EXCEPT ![a] = [at |-> "resolve", comment |-> comments[c]]]
    /\ UNCHANGED <<commits, gone, comments>>

resolve(a) ==
    /\ Stands(a, "resolve")
    /\ IF gone THEN Over(a)
       ELSE apply' = [apply EXCEPT ![a] = [at |-> "read", comment |-> @.comment, tip |-> Tip]]
    /\ UNCHANGED <<commits, gone, comments>>

\* Joined and split again, no lines at all are one line that is blank.
Joined(lines) == IF lines = <<>> THEN <<Blank>> ELSE lines

\* lines[index : index + 1] = replacement
Replaced(file, row) ==
    Joined(SubSeq(file, 1, row.line - 1) \o row.body \o SubSeq(file, row.line + 1, Len(file)))

\* A commit stays readable by its name; a line it does not have is an answer.
read_blob(a) ==
    LET file == FileAt(apply[a].tip)
        row  == apply[a].comment
    IN
    /\ Stands(a, "read")
    /\ IF row.line > Len(file) THEN Over(a)
       ELSE apply' = [apply EXCEPT ![a] = [at |-> "commit", comment |-> row, tip |-> apply[a].tip,
                                           file |-> Replaced(file, row)]]
    /\ UNCHANGED <<commits, gone, comments>>

\* Mutant: the branch moves wherever it stands.
CommitOverAnything(a) ==
    /\ Stands(a, "commit") /\ Over(a)
    /\ IF gone \/ Tip >= MaxCommits THEN UNCHANGED commits ELSE Commit(apply[a].file, apply[a].comment)
    /\ UNCHANGED <<gone, comments>>

\* The branch is moved only from the commit that was read.
commit_files(a) ==
    /\ Stands(a, "commit") /\ Over(a)
    /\ IF gone \/ Tip # apply[a].tip \/ Tip >= MaxCommits THEN UNCHANGED commits
       ELSE Commit(apply[a].file, apply[a].comment)
    /\ UNCHANGED <<gone, comments>>

Next ==
    \/ Push \/ BranchIsDeleted
    \/ \E c \in Comments : add_comment(c) \/ delete_comment(c)
    \/ \E a \in Appliers :
          \/ resolve(a) \/ read_blob(a) \/ commit_files(a)
          \/ \E c \in Comments : apply_suggestion(a, c)

Spec == Init /\ [][Next]_suggestionVars

-----------------------------------------------------------------------------
(* The rows are of their kind, and the branch has a root. *)
TypeOK ==
    /\ Tip \in 1..MaxCommits
    /\ \A c \in Comments : comments[c] \in CommentRows \union {None}

(* A suggestion that is taken changes its line and no other, whatever was
   pushed or taken while it was: the file of its commit is the file of the
   commit before it, with the one line replaced.  Which line that is by then
   nobody asks; it need not be the one the comment was written about. *)
OneLineAtATime ==
    \A k \in 2..Tip : commits[k].by # None =>
        LET before == FileAt(k - 1)
            row    == commits[k].by
        IN /\ row.line \in DOMAIN before
           /\ Len(FileAt(k)) = Len(before) - 1 + Len(row.body) \/ FileAt(k) = <<Blank>>
           /\ \A i \in 1..(row.line - 1) : FileAt(k)[i] = before[i]
           /\ \A i \in (row.line + 1)..Len(before) : FileAt(k)[i + Len(row.body) - 1] = before[i]
=============================================================================
