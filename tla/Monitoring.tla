----------------------------- MODULE Monitoring -----------------------------
(***************************************************************************)
(* Watched addresses.  The loop loads the checks that are due and looks at *)
(* them one after the other in one session; a person may ask for a look at *)
(* the same address, change it or stop watching it meanwhile.              *)
(***************************************************************************)
EXTENDS Naturals, FiniteSets, Sequences, SequencesExt

CONSTANTS
    Checks,         \* addresses being watched
    Callers,        \* requests for a look right now
    Kept,           \* results kept of one check (KEPT_RESULTS)
    MaxLooks,       \* bound: looks begun in all
    MaxCuts         \* bound: times the process dies

VARIABLES
    checks,         \* per check, its row: there, enabled, due, the last look
    results,        \* results kept per check
    list, looker,   \* checks this tick has still to look at, as it read them; where lookers stand
    looks, cuts,
    unpruned        \* history: looks cut off before the old results were forgotten

watchVars == <<checks, results, list, looker, looks, cuts, unpruned>>

Lookers == Callers \union {"loop"}
States  == {"unknown", "up", "down"}
CheckRows == [there : BOOLEAN, enabled : BOOLEAN, due : BOOLEAN, state : States]
NoCheck    == [there |-> FALSE, enabled |-> FALSE, due |-> FALSE, state |-> "unknown"]
Idle    == [at |-> "idle"]
In(w, s)   == looker[w].at = s
Then(w, q) == looker' = [looker EXCEPT ![w] = q]
Leaves(w)  == Then(w, Idle)
Loaded(k)  == [check |-> k, read |-> checks[k].state]

Init ==
    /\ checks = [k \in Checks |-> NoCheck] /\ results = [k \in Checks |-> 0]
    /\ list = <<>> /\ looker = [w \in Lookers |-> Idle]
    /\ looks = 0 /\ cuts = 0 /\ unpruned = [k \in Checks |-> 0]

\* Nobody has looked yet, so the check is due at once.  One made again under a
\* name is another row: here it waits until nobody holds the old one.
create(k) ==
    /\ ~checks[k].there /\ results[k] = 0 /\ \A w \in Lookers : ~In(w, "idle") => looker[w].check # k
    /\ \A i \in DOMAIN list : list[i].check # k
    /\ checks' = [checks EXCEPT ![k] = [there |-> TRUE, enabled |-> TRUE, due |-> TRUE, state |-> "unknown"]]
    /\ unpruned' = [unpruned EXCEPT ![k] = 0]
    /\ UNCHANGED <<results, list, looker, looks, cuts>>

update(k, enabled) ==
    /\ checks[k].there /\ checks' = [checks EXCEPT ![k].enabled = enabled]
    /\ UNCHANGED <<results, list, looker, looks, cuts, unpruned>>

delete(k) ==
    /\ checks[k].there /\ checks' = [checks EXCEPT ![k] = NoCheck]
    /\ results' = [results EXCEPT ![k] = 0]
    /\ UNCHANGED <<list, looker, looks, cuts, unpruned>>

\* interval_seconds have passed since the last look.
TimeComes(k) ==
    /\ checks[k].there /\ ~checks[k].due /\ checks' = [checks EXCEPT ![k].due = TRUE]
    /\ UNCHANGED <<results, list, looker, looks, cuts, unpruned>>

due_checks ==
    /\ In("loop", "idle") /\ list = <<>>
    /\ list' \in SetToSeqs({Loaded(k) : k \in {c \in Checks : checks[c].enabled /\ checks[c].due}})
    /\ UNCHANGED <<checks, results, looker, looks, cuts, unpruned>>

\* The loop takes the next of what it loaded, however things stand by now.
_tick ==
    /\ In("loop", "idle") /\ list # <<>> /\ looks < MaxLooks /\ looks' = looks + 1
    /\ list' = Tail(list) /\ Then("loop", [at |-> "get", check |-> Head(list).check, read |-> Head(list).read])
    /\ UNCHANGED <<checks, results, cuts, unpruned>>

run_check_now(w, k) ==
    /\ In(w, "idle") /\ w # "loop" /\ checks[k].there /\ looks < MaxLooks /\ looks' = looks + 1
    /\ Then(w, [at |-> "get", check |-> k, read |-> checks[k].state])
    /\ UNCHANGED <<checks, results, list, cuts, unpruned>>

\* The result and the state are committed together, the state only when it is
\* another than the one that was read.  A check that is gone
\* fails the write; in the loop the handler then touches a row of the broken
\* session, and what was left of the tick is skipped.
run_check(w, ok) ==
    LET k == looker[w].check  found == IF ok THEN "up" ELSE "down" IN
    /\ In(w, "get")
    /\ IF checks[k].there
       THEN /\ checks' = [checks EXCEPT ![k].state = IF found = looker[w].read THEN @ ELSE found,
                                            ![k].due = FALSE]
            /\ results' = [results EXCEPT ![k] = @ + 1]
            /\ Then(w, [at |-> "count", check |-> k]) /\ UNCHANGED list
       ELSE /\ Leaves(w) /\ list' = (IF w = "loop" THEN <<>> ELSE list)
            /\ UNCHANGED <<checks, results>>
    /\ UNCHANGED <<looks, cuts, unpruned>>

CountResults(w) ==
    LET k == looker[w].check IN
    /\ In(w, "count")
    /\ IF results[k] <= Kept THEN Leaves(w) /\ unpruned' = [unpruned EXCEPT ![k] = 0]
       ELSE Then(w, [at |-> "forget", check |-> k]) /\ UNCHANGED unpruned
    /\ UNCHANGED <<checks, results, list, looks, cuts>>

\* Mutant: only the oldest result is forgotten.
ForgetOne(w) ==
    LET k == looker[w].check IN
    /\ In(w, "forget") /\ Leaves(w)
    /\ results' = [results EXCEPT ![k] = IF @ > Kept THEN @ - 1 ELSE @]
    /\ unpruned' = [unpruned EXCEPT ![k] = 0]
    /\ UNCHANGED <<checks, list, looks, cuts>>

\* Whatever lies beyond the newest Kept goes, at the moment of the statement.
_forget_old(w) ==
    LET k == looker[w].check IN
    /\ In(w, "forget") /\ Leaves(w)
    /\ results' = [results EXCEPT ![k] = IF @ > Kept THEN Kept ELSE @]
    /\ unpruned' = [unpruned EXCEPT ![k] = 0]
    /\ UNCHANGED <<checks, list, looks, cuts>>

\* The platform stops and starts again: stop cancels the loop where it stands.
Restart ==
    /\ cuts < MaxCuts /\ cuts' = cuts + 1
    /\ unpruned' = [k \in Checks |-> unpruned[k]
                       + Cardinality({w \in Lookers : looker[w].at \in {"count", "forget"} /\ looker[w].check = k})]
    /\ looker' = [w \in Lookers |-> Idle] /\ list' = <<>>
    /\ UNCHANGED <<checks, results, looks>>

Next ==
    \/ due_checks \/ _tick \/ Restart
    \/ \E k \in Checks : create(k) \/ delete(k) \/ TimeComes(k) \/ \E b \in BOOLEAN : update(k, b)
    \/ \E w \in Lookers : \/ CountResults(w) \/ _forget_old(w)
                          \/ \E k \in Checks : run_check_now(w, k)
                          \/ \E ok \in BOOLEAN : run_check(w, ok)

Spec == Init /\ [][Next]_watchVars

-----------------------------------------------------------------------------
(* Checks, results and looks are of their kind. *)
TypeOK ==
    /\ checks \in [Checks -> CheckRows]
    /\ results \in [Checks -> 0..MaxLooks] /\ \A i \in DOMAIN list : list[i].check \in Checks
    /\ \A w \in Lookers : looker[w].at \in {"idle", "get", "count", "forget"}
    /\ looks \in 0..MaxLooks /\ cuts \in 0..MaxCuts

\* The history of a check never grows without end: beyond what is kept there is
\* one result at most for every look that is about to forget the old ones, and
\* for every look that was cut off before it could, until the next has passed.
HistoryIsBounded ==
    \A k \in Checks :
        results[k] <= Kept + unpruned[k]
            + Cardinality({w \in Lookers : looker[w].at \in {"count", "forget"} /\ looker[w].check = k})
=============================================================================
