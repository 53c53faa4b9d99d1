--------------------------- MODULE FunctionCalls ---------------------------
(***************************************************************************)
(* Functions kept for later calls.  A call reads the row, runs a container *)
(* for as long as the row allows, and then writes the counters of the row  *)
(* it read; the code may be changed, or forgotten, while it runs.          *)
(***************************************************************************)
EXTENDS Naturals, FiniteSets

CONSTANTS
    Names,          \* names a function of the account may have
    Calls,          \* requests under way
    MaxRows,        \* bound: functions made, MaxVersion: sources kept
    MaxVersion,
    MaxCalls        \* bound: calls begun in all

VARIABLES
    functions,      \* per name, the committed row or none
    fresh, begun,   \* identifiers handed out, calls begun
    call,           \* where a call stands and the row it read
    ended,          \* history: per row, calls that were recorded
    crossed         \* history: rows two calls were under way for at once

functionVars == <<functions, fresh, begun, call, ended, crossed>>

Rows  == 1..MaxRows
FunctionRows == [id : 0..MaxRows, source : 0..MaxVersion, calls : 0..MaxCalls, failures : 0..MaxCalls]
NoFunction == [id |-> 0, source |-> 0, calls |-> 0, failures |-> 0]
Idle  == [at |-> "idle"]
There(f)   == functions[f].id # 0
In(c, s)   == call[c].at = s
Then(c, q) == call' = [call EXCEPT ![c] = q]
Leaves(c)  == Then(c, Idle)
Running(id) == {c \in Calls : ~In(c, "idle") /\ call[c].read.id = id}

Init ==
    /\ functions = [f \in Names |-> NoFunction] /\ fresh = 0 /\ begun = 0
    /\ call = [c \in Calls |-> Idle]
    /\ ended = [id \in Rows |-> [calls |-> 0, failures |-> 0]] /\ crossed = {}

create(f) ==
    /\ ~There(f) /\ fresh < MaxRows /\ fresh' = fresh + 1
    /\ functions' = [functions EXCEPT ![f] = [NoFunction EXCEPT !.id = fresh + 1, !.source = 1]]
    /\ UNCHANGED <<begun, call, ended, crossed>>

update(f) ==
    /\ There(f) /\ functions[f].source < MaxVersion
    /\ functions' = [functions EXCEPT ![f].source = @ + 1]
    /\ UNCHANGED <<fresh, begun, call, ended, crossed>>

delete(f) ==
    /\ There(f) /\ functions' = [functions EXCEPT ![f] = NoFunction]
    /\ UNCHANGED <<fresh, begun, call, ended, crossed>>

\* The row is read once, before the engine is asked whether it answers.
call_function(c, f) ==
    /\ In(c, "idle") /\ There(f) /\ begun < MaxCalls /\ begun' = begun + 1
    /\ Then(c, [at |-> "ask", name |-> f, read |-> functions[f]])
    /\ crossed' = IF Running(functions[f].id) = {} THEN crossed ELSE crossed \union {functions[f].id}
    /\ UNCHANGED <<functions, fresh, ended>>

EngineUnavailable(c) ==
    /\ In(c, "ask") /\ Leaves(c)
    /\ UNCHANGED <<functions, fresh, begun, ended, crossed>>

\* The container runs the source that was read; nothing is held meanwhile.
run_once(c) ==
    /\ In(c, "ask") /\ Then(c, [call[c] EXCEPT !.at = "run"])
    /\ UNCHANGED <<functions, fresh, begun, ended, crossed>>

\* What the container did, and whether that is an answer.
Outcomes == {"timed_out", "failed", "answered"}
_read_outcome(outcome) == outcome = "answered"

\* Mutant: a call that failed is not counted among the calls.
CountEither(c, ok) ==
    LET f == call[c].name  r == call[c].read IN
    /\ In(c, "run") /\ Leaves(c)
    /\ functions' = IF functions[f].id # r.id THEN functions
                    ELSE [functions EXCEPT ![f].calls = IF ok THEN r.calls + 1 ELSE @,
                                           ![f].failures = IF ok THEN @ ELSE r.failures + 1]
    /\ ended' = IF functions[f].id # r.id THEN ended
                ELSE [ended EXCEPT ![r.id].calls = @ + 1,
                                   ![r.id].failures = IF ok THEN @ ELSE @ + 1]
    /\ UNCHANGED <<fresh, begun, crossed>>

\* The counters are those that were read and one; failures are only written by
\* a call that failed, and a row that is gone takes nothing and fails the call.
_record(c, ok) ==
    LET f == call[c].name  r == call[c].read IN
    /\ In(c, "run") /\ Leaves(c)
    /\ functions' = IF functions[f].id # r.id THEN functions
                    ELSE [functions EXCEPT ![f].calls = r.calls + 1,
                                           ![f].failures = IF ok THEN @ ELSE r.failures + 1]
    /\ ended' = IF functions[f].id # r.id THEN ended
                ELSE [ended EXCEPT ![r.id].calls = @ + 1,
                                   ![r.id].failures = IF ok THEN @ ELSE @ + 1]
    /\ UNCHANGED <<fresh, begun, crossed>>

Next ==
    \/ \E f \in Names : create(f) \/ update(f) \/ delete(f)
    \/ \E c \in Calls : \/ EngineUnavailable(c) \/ run_once(c)
                        \/ \E f \in Names : call_function(c, f)
                        \/ \E o \in Outcomes : _record(c, _read_outcome(o))

Spec == Init /\ [][Next]_functionVars

-----------------------------------------------------------------------------
(* Rows, counters and calls are of their kind. *)
TypeOK ==
    /\ fresh \in 0..MaxRows /\ begun \in 0..MaxCalls /\ crossed \subseteq Rows
    /\ functions \in [Names -> FunctionRows]
    /\ \A c \in Calls : call[c].at \in {"idle", "ask", "run"}

\* The counters the console shows never exceed what was recorded, and tell it
\* exactly as long as no two calls of the function overlapped.  (With three
\* that do, the failures shown can exceed the calls.)
CountersAreHonest ==
    \A f \in Names : There(f) =>
        LET shown == functions[f]  real == ended[shown.id] IN
        /\ shown.calls <= real.calls /\ shown.failures <= real.failures
        /\ shown.id \notin crossed => shown.calls = real.calls /\ shown.failures = real.failures
=============================================================================
