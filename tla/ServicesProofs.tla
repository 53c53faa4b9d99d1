--------------------------- MODULE ServicesProofs ---------------------------
(* Proofs about what runs for the people of the platform: functions, error *)
(* reports, watched addresses and databases, each for any number of them   *)
(* and of requests under way; and, last, what holds of all the services.   *)
(* The components share no state; each is an instance, with its own        *)
(* variables.                                                              *)
EXTENDS AccessProofs, StorageProofs, SequenceTheorems

-----------------------------------------------------------------------------
(* Requests under way are counted: one begins, or one is over.             *)

LEMMA CountsOneMore ==
  ASSUME NEW S, IsFiniteSet(S), NEW T, NEW x, T \subseteq S \union {x}
  PROVE  /\ IsFiniteSet(T) /\ Cardinality(T) \in Nat /\ Cardinality(S) \in Nat
         /\ Cardinality(T) <= Cardinality(S) + 1
<1>1. IsFiniteSet(S \union {x}) /\ Cardinality(S \union {x}) \in Nat /\ Cardinality(S) \in Nat
  BY FS_AddElement, FS_CardinalityType
<1>2. Cardinality(S \union {x}) <= Cardinality(S) + 1
  BY <1>1, FS_AddElement
<1>3. IsFiniteSet(T) /\ Cardinality(T) <= Cardinality(S \union {x})
  BY <1>1, FS_Subset
<1> QED
  BY <1>1, <1>2, <1>3, FS_CardinalityType

LEMMA CountsOneLess ==
  ASSUME NEW S, IsFiniteSet(S), NEW T, NEW x \in S, T \subseteq S \ {x}
  PROVE  /\ IsFiniteSet(T) /\ Cardinality(T) \in Nat /\ Cardinality(S) \in Nat
         /\ Cardinality(T) + 1 <= Cardinality(S)
<1>1. IsFiniteSet(S \ {x}) /\ Cardinality(S \ {x}) = Cardinality(S) - 1
  BY FS_RemoveElement
<1>2. IsFiniteSet(T) /\ Cardinality(T) <= Cardinality(S \ {x})
  BY <1>1, FS_Subset
<1> QED
  BY <1>1, <1>2, FS_CardinalityType

LEMMA CountsNoMore ==
  ASSUME NEW S, IsFiniteSet(S), NEW T, T \subseteq S
  PROVE  /\ IsFiniteSet(T) /\ Cardinality(T) \in Nat /\ Cardinality(S) \in Nat
         /\ Cardinality(T) <= Cardinality(S)
  BY FS_Subset, FS_CardinalityType

-----------------------------------------------------------------------------
(* Functions and their calls.                                              *)

Busy == {c \in Calls : exec[c].at # "idle"}

\* A counter that was read, or is shown, against what was recorded.
Even(r, real, met) ==
    /\ r.calls <= real.calls /\ r.failures <= real.failures
    /\ ~met => r.calls = real.calls /\ r.failures = real.failures

\* A call under way has read a row as it was: nothing was recorded since,
\* unless another call of that function was under way with it.
CallFits(q, last, real, met) ==
    /\ q.at \in {"idle", "ask", "run"}
    /\ q.at # "idle" =>
          /\ q.name \in Names /\ q.read \in F!FunctionRows /\ q.read.id \in 1..last
          /\ Even(q.read, real[q.read.id], q.read.id \in met)
CallsFit == /\ DOMAIN exec = Calls
            /\ \A c \in Calls : CallFits(exec[c], fresh, ended, doubled)

\* Calls of one function at the same time are known to be.
Meet == \A c, d \in Calls :
    c # d /\ exec[c].at # "idle" /\ exec[d].at # "idle" /\ exec[c].read.id = exec[d].read.id
    => exec[c].read.id \in doubled

RowIsOne == \A f, g \in Names :
    functions[f].id # 0 /\ functions[f].id = functions[g].id => f = g
RowsKnown == \A f \in Names : functions[f].id \in 0..fresh

Tallies == [calls : Nat, failures : Nat]
Recorded ==
    /\ ended \in [F!Rows -> Tallies]
    /\ \A id \in F!Rows : /\ ended[id].failures <= ended[id].calls
                          /\ ended[id].calls + Cardinality(Busy) <= begun
                          /\ id > fresh => ended[id].calls = 0
    /\ Cardinality(Busy) <= begun
Shown == \A f \in Names : functions[f].id # 0 =>
    Even(functions[f], ended[functions[f].id], functions[f].id \in doubled)

FunctionsInv ==
    /\ F!TypeOK /\ CallsFit /\ Meet /\ RowIsOne /\ RowsKnown /\ Recorded /\ Shown

LEMMA FunctionRow ==
  ASSUME NEW r \in F!FunctionRows
  PROVE  r.id \in 0..MaxRows /\ r.source \in 0..MaxVersion /\ r.calls \in 0..MaxCalls /\ r.failures \in 0..MaxCalls
  BY DEF F!FunctionRows

LEMMA TellsTo ==
  ASSUME NEW r, NEW real, NEW met, NEW m, Even(r, real, met), met => m
  PROVE  Even(r, real, m)
  BY DEF Even

LEMMA FunctionsInit == FunctionsAssumption /\ F!Init => FunctionsInv
<1> SUFFICES ASSUME FunctionsAssumption, F!Init PROVE FunctionsInv
  OBVIOUS
<1>1. /\ functions = [f \in Names |-> F!NoFunction] /\ fresh = 0 /\ begun = 0
      /\ exec = [c \in Calls |-> F!Idle]
      /\ ended = [id \in F!Rows |-> [calls |-> 0, failures |-> 0]] /\ doubled = {}
  BY DEF F!Init
<1>2. F!NoFunction \in F!FunctionRows /\ F!NoFunction.id = 0 /\ F!Idle.at = "idle"
  BY DEF FunctionsAssumption, F!NoFunction, F!FunctionRows, F!Idle
<1>3. \A f \in Names : functions[f].id = 0
  BY <1>1, <1>2
<1>4. \A c \in Calls : exec[c].at = "idle"
  BY <1>1, <1>2
<1>5. Busy = {} /\ Cardinality(Busy) = 0
  BY <1>4, FS_EmptySet DEF Busy
<1>6. F!TypeOK
  BY <1>1, <1>2, <1>4 DEF F!TypeOK, FunctionsAssumption, F!FunctionRows
<1>7. CallsFit /\ Meet
  BY <1>1, <1>4 DEF CallsFit, CallFits, Meet
<1>8. Recorded
  BY <1>1, <1>5 DEF Recorded, Tallies
<1> QED
  BY <1>1, <1>3, <1>6, <1>7, <1>8 DEF FunctionsInv, RowIsOne, RowsKnown, Shown

LEMMA ExecMoves ==
  ASSUME DOMAIN exec = Calls, NEW c \in Calls, NEW q, F!Then(c, q)
  PROVE  /\ DOMAIN exec' = Calls /\ exec'[c] = q
         /\ \A d \in Calls \ {c} : exec'[d] = exec[d]
  BY DEF F!Then

\* A call goes on, or is over, and nothing is written.
LEMMA CallGoesOn ==
  ASSUME FunctionsAssumption, FunctionsInv, NEW c \in Calls, NEW q, F!Then(c, q),
         UNCHANGED <<functions, fresh, begun, ended, doubled>>,
         q.at = "idle" \/ (q.at \in {"ask", "run"} /\ exec[c].at # "idle"
                           /\ q.read = exec[c].read /\ q.name = exec[c].name)
  PROVE  FunctionsInv'
<1>a. /\ F!TypeOK /\ CallsFit /\ Meet /\ RowIsOne /\ RowsKnown /\ Recorded /\ Shown
  BY DEF FunctionsInv
<1>1. /\ DOMAIN exec' = Calls /\ exec'[c] = q
      /\ \A d \in Calls \ {c} : exec'[d] = exec[d]
  BY <1>a, ExecMoves DEF CallsFit
<1>2. CallsFit'
  <2>1. CallFits(q, fresh, ended, doubled)
    BY <1>a DEF CallsFit, CallFits
  <2> QED
    BY <1>1, <1>a, <2>1 DEF CallsFit
<1>3. Meet'
  BY <1>1, <1>a DEF Meet
<1>4. Busy' \subseteq Busy
  BY <1>1 DEF Busy
<1>5. Cardinality(Busy) \in Nat /\ Cardinality(Busy') \in Nat /\ Cardinality(Busy') <= Cardinality(Busy)
  <2>1. IsFiniteSet(Busy)
    BY FS_Subset DEF Busy, FunctionsAssumption
  <2> QED
    BY <1>4, <2>1, CountsNoMore
<1>6. Recorded'
  <2>1. ASSUME NEW id \in F!Rows
        PROVE  /\ ended[id].failures <= ended[id].calls
               /\ ended[id].calls + Cardinality(Busy') <= begun
               /\ id > fresh => ended[id].calls = 0
    <3>1. ended[id].calls \in Nat /\ begun \in Nat /\ ended[id].calls + Cardinality(Busy) <= begun
      BY <1>a DEF Recorded, Tallies, F!TypeOK
    <3> QED
      BY <1>5, <1>a, <3>1 DEF Recorded
  <2>2. begun \in Nat /\ Cardinality(Busy) <= begun
    BY <1>a DEF Recorded, F!TypeOK
  <2> QED
    BY <1>5, <1>a, <2>1, <2>2 DEF Recorded
<1>7. F!TypeOK'
  <2>1. \A d \in Calls : exec'[d].at \in {"idle", "ask", "run"}
    BY <1>2 DEF CallsFit, CallFits
  <2> QED
    BY <1>a, <2>1 DEF F!TypeOK
<1> QED
  BY <1>2, <1>3, <1>6, <1>7, <1>a DEF FunctionsInv, RowIsOne, RowsKnown, Shown

\* A row is made, changed or forgotten; the calls under way are not told.
LEMMA RowChanges ==
  ASSUME FunctionsAssumption, FunctionsInv, NEW f \in Names, NEW r \in F!FunctionRows,
         functions' = [functions EXCEPT ![f] = r],
         UNCHANGED <<begun, exec, ended, doubled>>, fresh' \in fresh..MaxRows,
         r.id \in {0, functions[f].id} \/ (r.id = fresh' /\ fresh' = fresh + 1),
         r.id # 0 => Even(r, ended[r.id], r.id \in doubled)
  PROVE  FunctionsInv'
<1>a. /\ F!TypeOK /\ CallsFit /\ Meet /\ RowIsOne /\ RowsKnown /\ Recorded /\ Shown
  BY DEF FunctionsInv
<1>b. fresh \in Nat /\ MaxRows \in Nat /\ fresh <= fresh' /\ fresh' \in 0..MaxRows
  BY <1>a DEF FunctionsAssumption, F!TypeOK
<1>1. functions'[f] = r /\ (\A g \in Names \ {f} : functions'[g] = functions[g])
      /\ functions' \in [Names -> F!FunctionRows]
  BY <1>a DEF F!TypeOK
<1>2. F!TypeOK'
  BY <1>1, <1>a, <1>b DEF F!TypeOK
<1>3. CallsFit'
  BY <1>a, <1>b DEF CallsFit, CallFits
<1>4. RowsKnown'
  <2>1. ASSUME NEW g \in Names PROVE functions'[g].id \in 0..fresh'
    <3>1. functions[g].id \in 0..fresh
      BY <1>a DEF RowsKnown
    <3> QED
      BY <1>1, <1>b, <3>1
  <2> QED
    BY <2>1 DEF RowsKnown
<1>5. RowIsOne'
  <2>1. ASSUME NEW g \in Names, NEW h \in Names, functions'[g].id # 0, functions'[g].id = functions'[h].id
        PROVE  g = h
    <3>1. functions[g].id \in 0..fresh /\ functions[h].id \in 0..fresh
      BY <1>a DEF RowsKnown
    <3> QED
      BY <1>1, <1>a, <1>b, <2>1, <3>1 DEF RowIsOne
  <2> QED
    BY <2>1 DEF RowIsOne
<1>6. Recorded'
  <2>1. Busy' = Busy
    BY DEF Busy
  <2>2. \A id \in F!Rows : id > fresh' => id > fresh
    BY <1>b DEF F!Rows
  <2> QED
    BY <1>a, <2>1, <2>2 DEF Recorded
<1>7. Shown'
  BY <1>1, <1>a DEF Shown
<1> QED
  BY <1>2, <1>3, <1>4, <1>5, <1>6, <1>7, <1>a DEF FunctionsInv, Meet

LEMMA CallBegins ==
  ASSUME FunctionsAssumption, FunctionsInv, NEW c \in Calls, NEW f \in Names, F!call_function(c, f)
  PROVE  FunctionsInv'
<1> DEFINE q == [at |-> "ask", name |-> f, read |-> functions[f]]
           id == functions[f].id
<1>a. /\ F!TypeOK /\ CallsFit /\ Meet /\ RowIsOne /\ RowsKnown /\ Recorded /\ Shown
  BY DEF FunctionsInv
<1>1. /\ exec[c].at = "idle" /\ functions[f].id # 0 /\ begun < MaxCalls /\ begun' = begun + 1
      /\ F!Then(c, q)
      /\ doubled' = (IF F!Running(id) = {} THEN doubled ELSE doubled \union {id})
      /\ UNCHANGED <<functions, fresh, ended>>
  BY DEF F!call_function, F!In, F!There
<1>2. q.at = "ask" /\ q.name = f /\ q.read = functions[f]
  OBVIOUS
<1>3. /\ DOMAIN exec' = Calls /\ exec'[c] = q
      /\ \A d \in Calls \ {c} : exec'[d] = exec[d]
  BY <1>1, <1>a, ExecMoves DEF CallsFit
<1> HIDE DEF q
<1>4. functions[f] \in F!FunctionRows /\ id \in 1..fresh /\ id \in F!Rows
  <2>1. functions[f] \in F!FunctionRows /\ fresh \in 0..MaxRows /\ id \in 0..fresh /\ MaxRows \in Nat
    BY <1>a DEF F!TypeOK, RowsKnown, FunctionsAssumption
  <2> QED
    BY <1>1, <2>1 DEF F!Rows
<1>5. doubled \subseteq doubled' /\ doubled' \subseteq F!Rows
  BY <1>1, <1>4, <1>a DEF F!TypeOK
<1>6. CallsFit'
  <2>1. CallFits(q, fresh, ended, doubled')
    <3>1. Even(functions[f], ended[id], id \in doubled')
      BY <1>1, <1>5, <1>a, TellsTo DEF Shown
    <3> QED
      BY <1>2, <1>4, <3>1 DEF CallFits
  <2>2. ASSUME NEW d \in Calls \ {c} PROVE CallFits(exec[d], fresh, ended, doubled')
    <3>1. CallFits(exec[d], fresh, ended, doubled)
      BY <1>a DEF CallsFit
    <3> QED
      BY <1>5, <3>1 DEF CallFits, Even
  <2> QED
    BY <1>1, <1>3, <2>1, <2>2 DEF CallsFit
<1>7. Meet'
  <2>1. ASSUME NEW d \in Calls, d # c, exec[d].at # "idle", exec[d].read.id = id PROVE id \in doubled'
    <3>1. d \in F!Running(id)
      BY <2>1 DEF F!Running, F!In
    <3> QED
      BY <1>1, <3>1
  <2> QED
    BY <1>2, <1>3, <1>5, <1>a, <2>1 DEF Meet
<1>8. IsFiniteSet(Busy) /\ Busy' \subseteq Busy \union {c}
  <2>1. IsFiniteSet(Busy)
    BY FS_Subset DEF Busy, FunctionsAssumption
  <2> QED
    BY <1>3, <2>1 DEF Busy
<1>9. Cardinality(Busy) \in Nat /\ Cardinality(Busy') \in Nat /\ Cardinality(Busy') <= Cardinality(Busy) + 1
  BY <1>8, CountsOneMore
<1>10. begun \in Nat /\ Cardinality(Busy) <= begun /\ Cardinality(Busy') <= begun'
  <2>1. begun \in Nat /\ Cardinality(Busy) <= begun
    BY <1>a DEF F!TypeOK, Recorded
  <2> QED
    BY <1>1, <1>9, <2>1
<1>11. Recorded'
  <2>1. ASSUME NEW i \in F!Rows PROVE ended[i].calls + Cardinality(Busy') <= begun'
    <3>1. ended[i].calls \in Nat /\ ended[i].calls + Cardinality(Busy) <= begun
      BY <1>a DEF Recorded, Tallies
    <3> QED
      BY <1>1, <1>9, <1>10, <3>1
  <2> QED
    BY <1>1, <1>10, <1>a, <2>1 DEF Recorded
<1>12. Shown'
  BY <1>1, <1>5, <1>a DEF Shown, Even
<1>13. F!TypeOK'
  <2>1. \A d \in Calls : exec'[d].at \in {"idle", "ask", "run"}
    BY <1>6 DEF CallsFit, CallFits
  <2>2. begun' \in 0..MaxCalls
    BY <1>1, <1>10 DEF FunctionsAssumption
  <2> QED
    BY <1>1, <1>5, <1>a, <2>1, <2>2 DEF F!TypeOK
<1> QED
  BY <1>1, <1>6, <1>7, <1>11, <1>12, <1>13, <1>a DEF FunctionsInv, RowIsOne, RowsKnown

LEMMA CallIsRecorded ==
  ASSUME FunctionsAssumption, FunctionsInv, NEW c \in Calls, NEW ok \in BOOLEAN, F!_record(c, ok)
  PROVE  FunctionsInv'
<1> DEFINE f  == exec[c].name
           r  == exec[c].read
           id == exec[c].read.id
<1>a. /\ F!TypeOK /\ CallsFit /\ Meet /\ RowIsOne /\ RowsKnown /\ Recorded /\ Shown
  BY DEF FunctionsInv
<1>1. exec[c].at = "run" /\ F!Then(c, F!Idle) /\ UNCHANGED <<fresh, begun, doubled>>
  BY DEF F!_record, F!In, F!Leaves
<1>2. F!Idle.at = "idle"
  BY DEF F!Idle
<1>3. CASE functions[f].id # id
  <2>1. UNCHANGED <<functions, ended>>
    BY <1>3 DEF F!_record
  <2> QED
    BY <1>1, <1>2, <2>1, CallGoesOn
<1>4. CASE functions[f].id = id
  <2>1. /\ functions' = [functions EXCEPT ![f].calls = r.calls + 1,
                                          ![f].failures = IF ok THEN @ ELSE r.failures + 1]
        /\ ended' = [ended EXCEPT ![id].calls = @ + 1, ![id].failures = IF ok THEN @ ELSE @ + 1]
    BY <1>4 DEF F!_record
  <2>2. f \in Names /\ r \in F!FunctionRows /\ id \in 1..fresh /\ Even(r, ended[id], id \in doubled)
    BY <1>1, <1>a DEF CallsFit, CallFits
  <2>3. id \in F!Rows /\ fresh \in Nat /\ id # 0
    BY <1>a, <2>2 DEF F!Rows, F!TypeOK, FunctionsAssumption
  <2> DEFINE old == functions[f]
             new == functions'[f]
             was == ended[id]
             is  == ended'[id]
  <2>4. functions \in [Names -> F!FunctionRows] /\ ended \in [F!Rows -> Tallies]
    BY <1>a DEF F!TypeOK, Recorded
  <2>5. old \in F!FunctionRows /\ was \in Tallies
    BY <2>2, <2>3, <2>4
  <2>6. /\ old.source \in 0..MaxVersion /\ old.calls \in Nat /\ old.failures \in Nat
        /\ old.id = id /\ id \in 0..MaxRows
        /\ r.calls \in Nat /\ r.failures \in Nat /\ was.calls \in Nat /\ was.failures \in Nat
    BY <1>4, <2>2, <2>5 DEF F!FunctionRows, Tallies
  <2>7. /\ new = [[functions[f] EXCEPT !.calls = r.calls + 1]
                     EXCEPT !.failures = IF ok THEN @ ELSE r.failures + 1]
        /\ \A g \in Names \ {f} : functions'[g] = functions[g]
        /\ DOMAIN functions' = Names /\ functions' = [g \in Names |-> functions'[g]]
    BY <2>1, <2>2, <2>4
  <2>8. /\ is = [[ended[id] EXCEPT !.calls = @ + 1] EXCEPT !.failures = IF ok THEN @ ELSE @ + 1]
        /\ \A i \in F!Rows \ {id} : ended'[i] = ended[i]
        /\ DOMAIN ended' = F!Rows /\ ended' = [i \in F!Rows |-> ended'[i]]
    BY <2>1, <2>3, <2>4
  <2>9. /\ new = [id |-> id, source |-> old.source, calls |-> r.calls + 1,
                  failures |-> IF ok THEN old.failures ELSE r.failures + 1]
        /\ is = [calls |-> was.calls + 1, failures |-> IF ok THEN was.failures ELSE was.failures + 1]
    BY <2>5, <2>6, <2>7, <2>8 DEF F!FunctionRows, Tallies
  <2>10. Even(old, was, id \in doubled)
    BY <1>4, <1>a, <2>2, <2>3 DEF Shown
  <2>11. Even(new, is, id \in doubled)
    <3>1. CASE ok
      BY <2>2, <2>6, <2>9, <2>10, <3>1 DEF Even
    <3>2. CASE ~ok
      BY <2>2, <2>6, <2>9, <2>10, <3>2 DEF Even
    <3> QED
      BY <3>1, <3>2
  <2>12. /\ DOMAIN exec' = Calls /\ exec'[c] = F!Idle
         /\ \A d \in Calls \ {c} : exec'[d] = exec[d]
    BY <1>1, <1>a, ExecMoves DEF CallsFit
  <2>13. /\ Cardinality(Busy) \in Nat /\ Cardinality(Busy') \in Nat
         /\ Cardinality(Busy') + 1 <= Cardinality(Busy)
    <3>1. IsFiniteSet(Busy)
      BY FS_Subset DEF Busy, FunctionsAssumption
    <3>2. c \in Busy /\ Busy' \subseteq Busy \ {c}
      BY <1>1, <1>2, <2>12 DEF Busy
    <3> QED
      BY <3>1, <3>2, CountsOneLess
  <2>14. /\ begun \in Nat /\ begun \in 0..MaxCalls /\ MaxCalls \in Nat
         /\ was.calls + Cardinality(Busy) <= begun /\ was.failures <= was.calls
    BY <1>a, <2>3 DEF F!TypeOK, Recorded, FunctionsAssumption
  <2>15. is.calls + Cardinality(Busy') <= begun /\ is.failures <= is.calls /\ is \in Tallies
    <3>1. is.calls = was.calls + 1 /\ is.failures \in {was.failures, was.failures + 1}
      BY <2>9
    <3>2. is \in Tallies
      BY <2>6, <2>9 DEF Tallies
    <3> QED
      BY <2>6, <2>13, <2>14, <3>1, <3>2
  <2>16. new \in F!FunctionRows /\ new.id = id
    <3>1. is.calls \in Nat /\ is.failures \in Nat
      BY <2>15 DEF Tallies
    <3>2. new.calls <= is.calls /\ new.failures <= is.failures
      BY <2>11 DEF Even
    <3>3. is.calls <= MaxCalls /\ is.failures <= MaxCalls
      BY <2>13, <2>14, <2>15, <3>1
    <3>4. new.calls \in Nat /\ new.failures \in Nat
      BY <2>6, <2>9
    <3>5. new.calls \in 0..MaxCalls /\ new.failures \in 0..MaxCalls
      BY <2>14, <3>1, <3>2, <3>3, <3>4
    <3> QED
      BY <2>6, <2>9, <3>5 DEF F!FunctionRows
  <2> HIDE DEF new, is
  <2>17. CallsFit'
    <3>1. ASSUME NEW d \in Calls \ {c} PROVE CallFits(exec[d], fresh, ended', doubled)
      <4>1. CallFits(exec[d], fresh, ended, doubled)
        BY <1>a DEF CallsFit
      <4>2. CASE exec[d].at = "idle"
        BY <4>1, <4>2 DEF CallFits
      <4>3. CASE exec[d].at # "idle" /\ exec[d].read.id # id
        <5>1. exec[d].read.id \in F!Rows
          BY <1>a, <4>1, <4>3 DEF CallFits, F!Rows, F!TypeOK, FunctionsAssumption
        <5> QED
          BY <2>8, <4>1, <4>3, <5>1 DEF CallFits
      <4>4. CASE exec[d].at # "idle" /\ exec[d].read.id = id
        <5>1. id \in doubled
          BY <1>1, <1>a, <4>4 DEF Meet
        <5>2. exec[d].read.calls \in Nat /\ exec[d].read.failures \in Nat
          BY <4>1, <4>4 DEF CallFits, F!FunctionRows
        <5>3. exec[d].read.calls <= was.calls /\ exec[d].read.failures <= was.failures
          BY <4>1, <4>4 DEF CallFits, Even
        <5>4. was.calls <= is.calls /\ was.failures <= is.failures /\ is.calls \in Nat /\ is.failures \in Nat
          BY <2>6, <2>9
        <5>5. Even(exec[d].read, is, id \in doubled)
          BY <2>6, <5>1, <5>2, <5>3, <5>4 DEF Even
        <5> QED
          BY <4>1, <4>4, <5>5 DEF CallFits, is
      <4> QED
        BY <4>2, <4>3, <4>4
    <3>2. CallFits(F!Idle, fresh, ended', doubled)
      BY <1>2 DEF CallFits
    <3> QED
      BY <1>1, <2>12, <3>1, <3>2 DEF CallsFit
  <2>18. Meet'
    BY <1>1, <1>2, <1>a, <2>12 DEF Meet
  <2>19. \A g \in Names : functions'[g].id = functions[g].id
    BY <1>4, <2>7, <2>16 DEF new
  <2>20. Recorded'
    <3>1. ended' \in [F!Rows -> Tallies]
      BY <2>4, <2>8, <2>15 DEF is
    <3>2. ASSUME NEW i \in F!Rows \ {id} PROVE ended[i].calls + Cardinality(Busy') <= begun
      <4>1. ended[i].calls \in Nat /\ ended[i].calls + Cardinality(Busy) <= begun
        BY <1>a DEF Recorded, Tallies
      <4> QED
        BY <2>13, <2>14, <4>1
    <3>3. ~(id > fresh)
      BY <2>2, <2>3
    <3>4. Cardinality(Busy') <= begun
      BY <1>a, <2>13, <2>14 DEF Recorded
    <3> QED
      BY <1>1, <1>a, <2>8, <2>15, <3>1, <3>2, <3>3, <3>4 DEF Recorded, is
  <2>21. Shown'
    <3>1. ASSUME NEW g \in Names \ {f}, functions[g].id # 0 PROVE functions[g].id # id /\ functions[g].id \in F!Rows
      <4>1. functions[g].id \in 0..MaxRows
        BY <2>4, FunctionRow
      <4> QED
        BY <1>4, <1>a, <2>2, <3>1, <4>1 DEF RowIsOne, F!Rows, FunctionsAssumption
    <3>2. ASSUME NEW g \in Names, functions'[g].id # 0
          PROVE  Even(functions'[g], ended'[functions'[g].id], functions'[g].id \in doubled)
      <4>1. CASE g = f
        BY <2>11, <2>16, <4>1 DEF new, is
      <4>2. CASE g # f
        <5>1. functions'[g] = functions[g] /\ functions[g].id \in F!Rows \ {id}
          BY <2>7, <3>1, <3>2, <4>2
        <5> QED
          BY <1>a, <2>8, <3>2, <5>1 DEF Shown
      <4> QED
        BY <4>1, <4>2
    <3> QED
      BY <1>1, <3>2 DEF Shown
  <2>22. F!TypeOK'
    <3>1. functions' \in [Names -> F!FunctionRows]
      BY <2>4, <2>7, <2>16 DEF new
    <3>2. \A d \in Calls : exec'[d].at \in {"idle", "ask", "run"}
      BY <2>17 DEF CallsFit, CallFits
    <3> QED
      BY <1>1, <1>a, <3>1, <3>2 DEF F!TypeOK
  <2> QED
    BY <1>1, <1>a, <2>17, <2>18, <2>19, <2>20, <2>21, <2>22 DEF FunctionsInv, RowIsOne, RowsKnown
<1> QED
  BY <1>3, <1>4

LEMMA FunctionsNext ==
  ASSUME FunctionsAssumption, FunctionsInv, [F!Next]_F!functionVars
  PROVE  FunctionsInv'
<1>a. /\ F!TypeOK /\ CallsFit /\ Meet /\ RowIsOne /\ RowsKnown /\ Recorded /\ Shown
  BY DEF FunctionsInv
<1>b. fresh \in 0..MaxRows /\ MaxRows \in Nat /\ functions \in [Names -> F!FunctionRows]
  BY <1>a DEF F!TypeOK, FunctionsAssumption
<1>1. ASSUME NEW f \in Names, F!create(f) PROVE FunctionsInv'
  <2> DEFINE r == [F!NoFunction EXCEPT !.id = fresh + 1, !.source = 1]
  <2>1. /\ fresh < MaxRows /\ fresh' = fresh + 1 /\ functions' = [functions EXCEPT ![f] = r]
        /\ UNCHANGED <<begun, exec, ended, doubled>>
    BY <1>1 DEF F!create
  <2>2. r.id = fresh + 1 /\ r.source = 1 /\ r.calls = 0 /\ r.failures = 0 /\ r \in F!FunctionRows
    <3>1. r = [id |-> fresh + 1, source |-> 1, calls |-> 0, failures |-> 0]
      <4>1. F!NoFunction = [id |-> 0, source |-> 0, calls |-> 0, failures |-> 0]
        BY DEF F!NoFunction
      <4>2. [F!NoFunction EXCEPT !.id = fresh + 1] = [id |-> fresh + 1, source |-> 0, calls |-> 0, failures |-> 0]
        BY <4>1
      <4>3. r = [[F!NoFunction EXCEPT !.id = fresh + 1] EXCEPT !.source = 1]
        OBVIOUS
      <4>4. [[id |-> fresh + 1, source |-> 0, calls |-> 0, failures |-> 0] EXCEPT !.source = 1]
            = [id |-> fresh + 1, source |-> 1, calls |-> 0, failures |-> 0]
        OBVIOUS
      <4> HIDE DEF r
      <4> QED
        BY <4>2, <4>3, <4>4, Zenon
    <3>2. fresh + 1 \in 0..MaxRows /\ 1 \in 0..MaxVersion /\ 0 \in 0..MaxCalls
      BY <1>b, <2>1 DEF FunctionsAssumption
    <3> QED
      BY <3>1, <3>2 DEF F!FunctionRows
  <2>3. ended[fresh + 1].calls = 0 /\ ended[fresh + 1].failures = 0
    <3>1. fresh + 1 \in F!Rows /\ fresh + 1 > fresh
      BY <1>b, <2>1 DEF F!Rows
    <3>2. ended[fresh + 1].failures \in Nat
      BY <1>a, <3>1 DEF Recorded, Tallies
    <3> QED
      BY <1>a, <3>1, <3>2 DEF Recorded
  <2>4. Even(r, ended[r.id], r.id \in doubled)
    BY <2>2, <2>3 DEF Even
  <2> HIDE DEF r
  <2>5. fresh' \in fresh..MaxRows
    BY <1>b, <2>1
  <2> QED
    BY <2>1, <2>2, <2>4, <2>5, RowChanges
<1>2. ASSUME NEW f \in Names, F!update(f) PROVE FunctionsInv'
  <2> DEFINE r == [functions[f] EXCEPT !.source = @ + 1]
  <2>1. /\ functions[f].id # 0 /\ functions[f].source < MaxVersion
        /\ functions' = [functions EXCEPT ![f] = r]
        /\ UNCHANGED <<fresh, begun, exec, ended, doubled>>
    BY <1>2, <1>b DEF F!update, F!There
  <2>2. /\ r.id = functions[f].id /\ r.calls = functions[f].calls /\ r.failures = functions[f].failures
        /\ r \in F!FunctionRows
    BY <1>b, <2>1 DEF F!FunctionRows, FunctionsAssumption
  <2>3. Even(r, ended[r.id], r.id \in doubled)
    BY <1>a, <2>1, <2>2 DEF Even, Shown
  <2> HIDE DEF r
  <2>4. fresh' \in fresh..MaxRows
    BY <1>b, <2>1
  <2> QED
    BY <2>1, <2>2, <2>3, <2>4, RowChanges
<1>3. ASSUME NEW f \in Names, F!delete(f) PROVE FunctionsInv'
  <2>1. F!NoFunction.id = 0 /\ F!NoFunction \in F!FunctionRows
    BY DEF F!NoFunction, F!FunctionRows, FunctionsAssumption
  <2>2. functions' = [functions EXCEPT ![f] = F!NoFunction] /\ UNCHANGED <<begun, exec, ended, doubled>>
    BY <1>3 DEF F!delete
  <2>3. fresh' \in fresh..MaxRows
    BY <1>3, <1>b DEF F!delete
  <2> QED
    BY <2>1, <2>2, <2>3, RowChanges
<1>4. ASSUME NEW c \in Calls, F!EngineUnavailable(c) \/ F!run_once(c) PROVE FunctionsInv'
  <2>1. exec[c].at = "ask" /\ UNCHANGED <<functions, fresh, begun, ended, doubled>>
    BY <1>4 DEF F!EngineUnavailable, F!run_once, F!In
  <2>2. CASE F!Then(c, F!Idle)
    BY <2>1, <2>2, CallGoesOn DEF F!Idle
  <2>3. CASE F!Then(c, [exec[c] EXCEPT !.at = "run"])
    <3> DEFINE q == [exec[c] EXCEPT !.at = "run"]
    <3>1. q.read = exec[c].read /\ q.name = exec[c].name /\ q.at \in {"ask", "run", "idle"}
      BY <2>1
    <3>2. q.at \in {"ask", "run"} \/ q.at = "idle"
      BY <3>1
    <3> HIDE DEF q
    <3> QED
      BY <2>1, <2>3, <3>1, <3>2, CallGoesOn DEF q
  <2> QED
    BY <1>4, <2>2, <2>3 DEF F!EngineUnavailable, F!run_once, F!Leaves
<1>5. ASSUME NEW c \in Calls, NEW o \in F!Outcomes, F!_record(c, F!_read_outcome(o)) PROVE FunctionsInv'
  <2>1. F!_read_outcome(o) \in BOOLEAN
    BY DEF F!_read_outcome
  <2> QED
    BY <1>5, <2>1, CallIsRecorded
<1>6. ASSUME UNCHANGED F!functionVars PROVE FunctionsInv'
  <2>1. Busy' = Busy
    BY <1>6 DEF F!functionVars, Busy
  <2> QED
    BY <1>6, <1>a, <2>1 DEF F!functionVars, FunctionsInv, F!TypeOK, CallsFit, Meet, RowIsOne, RowsKnown,
       Recorded, Shown
<1> QED
  BY <1>1, <1>2, <1>3, <1>4, <1>5, <1>6, CallBegins DEF F!Next

(* CountersAreHonest: the calls and failures shown of a function never     *)
(* exceed what was recorded, and tell it as long as no two calls of it     *)
(* overlapped, though it is changed or forgotten while they run            *)
(* (functions/service.py _record).                                         *)
THEOREM CountersTellTheCalls ==
  ASSUME FunctionsAssumption
  PROVE  F!Spec => [](F!TypeOK /\ F!CountersAreHonest)
<1>1. FunctionsInv => F!TypeOK /\ F!CountersAreHonest
  BY DEF FunctionsInv, Shown, Even, F!CountersAreHonest, F!There
<1>2. F!Init => FunctionsInv
  BY FunctionsInit
<1>3. FunctionsInv /\ [F!Next]_F!functionVars => FunctionsInv'
  BY FunctionsNext
<1> QED
  BY <1>1, <1>2, <1>3, PTL DEF F!Spec

-----------------------------------------------------------------------------
(* Error reports.                                                          *)

Arriving == {"look", "insert", "flushed", "add"}
Arrivals == {c \in Calls : delivery[c].at \in Arriving}

\* What a request knows of its issue: the source is deleted, or nothing was
\* counted since it read the row unless another report was under way with it.
ReportFits(q, recs, over, met) ==
    /\ q.at \in Arriving \union {"idle", "resolve"}
    /\ q.at # "idle" => q.about \in X!Problems
    /\ q.at = "resolve" => q.resolved \in BOOLEAN
    /\ q.at = "flushed" =>
          /\ q.read.count = 0 /\ q.about[1] \notin over
          /\ q.about \notin met => recs[q.about].reports = 0
    /\ q.at = "add" =>
          /\ q.read.count \in Nat
          /\ \/ q.about[1] \in over
             \/ /\ recs[q.about].reports > 0 /\ q.read.count <= recs[q.about].reports
                /\ q.about \notin met => q.read.count = recs[q.about].reports
ReportsFit == /\ DOMAIN delivery = Calls
              /\ \A c \in Calls : ReportFits(delivery[c], issues, gone, overlapped)

ReportsMeet == \A c, d \in Calls :
    /\ c # d /\ delivery[c].at \in Arriving /\ delivery[d].at \in Arriving
    /\ delivery[c].about = delivery[d].about
    => delivery[c].about \in overlapped

GoneIsGone == sources \intersect gone = {} /\ \A p \in X!Problems : p[1] \in gone => issues[p].reports = 0

Counted ==
    /\ Cardinality(Arrivals) <= sent
    /\ \A p \in X!Problems : issues[p].reports + Cardinality(Arrivals) <= sent

ErrorsInv == X!TypeOK /\ ReportsFit /\ ReportsMeet /\ GoneIsGone /\ Counted /\ X!CountsWhatCame

LEMMA IssueRow ==
  ASSUME NEW r
  PROVE  r \in X!IssueRows => /\ r.count \in 0..MaxReports /\ r.reports \in 0..MaxReports
                              /\ r = [count |-> r.count, resolved |-> r.resolved, reports |-> r.reports]
  BY DEF X!IssueRows

LEMMA ErrorsInit == ErrorsAssumption /\ X!Init => ErrorsInv
<1> SUFFICES ASSUME ErrorsAssumption, X!Init PROVE ErrorsInv
  OBVIOUS
<1>1. /\ sources = {} /\ gone = {} /\ issues = [p \in X!Problems |-> X!NoIssue]
      /\ delivery = [c \in Calls |-> X!Idle] /\ overlapped = {} /\ sent = 0
  BY DEF X!Init
<1>2. /\ X!NoIssue \in X!IssueRows /\ X!NoIssue.count = 0 /\ X!NoIssue.reports = 0
      /\ X!Idle.at = "idle"
  BY DEF X!NoIssue, X!IssueRows, X!Idle, ErrorsAssumption
<1>3. \A c \in Calls : delivery[c].at = "idle"
  BY <1>1, <1>2
<1>4. Arrivals = {} /\ Cardinality(Arrivals) = 0
  BY <1>3, FS_EmptySet DEF Arrivals, Arriving
<1>5. X!TypeOK
  BY <1>1, <1>2, <1>3 DEF X!TypeOK, ErrorsAssumption
<1>6. ReportsFit /\ ReportsMeet
  BY <1>1, <1>3 DEF ReportsFit, ReportFits, ReportsMeet, Arriving
<1>7. \A p \in X!Problems : issues[p].count = 0 /\ issues[p].reports = 0
  BY <1>1, <1>2
<1> QED
  BY <1>1, <1>4, <1>5, <1>6, <1>7 DEF ErrorsInv, GoneIsGone, Counted, X!CountsWhatCame

LEMMA DeliveryMoves ==
  ASSUME DOMAIN delivery = Calls, NEW c \in Calls, NEW q, X!Then(c, q)
  PROVE  /\ DOMAIN delivery' = Calls /\ delivery'[c] = q
         /\ \A d \in Calls \ {c} : delivery'[d] = delivery[d]
  BY DEF X!Then

LEMMA ArrivalsAreFinite == ErrorsAssumption => IsFiniteSet(Arrivals) /\ Cardinality(Arrivals) \in Nat
  BY FS_Subset, FS_CardinalityType DEF Arrivals, ErrorsAssumption

\* No more reports are under way, and what was kept is what it was.
LEMMA CountedStays ==
  ASSUME ErrorsAssumption, X!TypeOK, Counted, Arrivals' \subseteq Arrivals, UNCHANGED sent,
         \A p \in X!Problems : issues'[p].reports \in {0, issues[p].reports}
  PROVE  Counted'
<1>1. /\ Cardinality(Arrivals) \in Nat /\ Cardinality(Arrivals') \in Nat
      /\ Cardinality(Arrivals') <= Cardinality(Arrivals)
  BY ArrivalsAreFinite, CountsNoMore
<1>2. sent \in Nat /\ Cardinality(Arrivals) <= sent
  BY DEF X!TypeOK, Counted, ErrorsAssumption
<1>3. ASSUME NEW p \in X!Problems PROVE issues'[p].reports + Cardinality(Arrivals') <= sent
  <2>1. issues[p].reports \in Nat /\ issues[p].reports + Cardinality(Arrivals) <= sent
    BY IssueRow DEF X!TypeOK, Counted, ErrorsAssumption
  <2> QED
    BY <1>1, <1>2, <2>1
<1> QED
  BY <1>1, <1>2, <1>3 DEF Counted

\* A request goes on, or is over, and nothing is written.
LEMMA ReportGoesOn ==
  ASSUME ErrorsAssumption, ErrorsInv, NEW c \in Calls, NEW q, X!Then(c, q),
         UNCHANGED <<sources, gone, issues, overlapped, sent>>,
         ReportFits(q, issues, gone, overlapped),
         q.at \in Arriving => delivery[c].at \in Arriving /\ q.about = delivery[c].about
  PROVE  ErrorsInv'
<1>a. X!TypeOK /\ ReportsFit /\ ReportsMeet /\ GoneIsGone /\ Counted /\ X!CountsWhatCame
  BY DEF ErrorsInv
<1>1. /\ DOMAIN delivery' = Calls /\ delivery'[c] = q
      /\ \A d \in Calls \ {c} : delivery'[d] = delivery[d]
  BY <1>a, DeliveryMoves DEF ReportsFit
<1>2. ReportsFit'
  BY <1>1, <1>a DEF ReportsFit
<1>3. ReportsMeet'
  BY <1>1, <1>a DEF ReportsMeet
<1>4. Arrivals' \subseteq Arrivals
  BY <1>1 DEF Arrivals
<1>5. Counted'
  BY <1>4, <1>a, CountedStays
<1>6. X!TypeOK'
  <2>1. \A d \in Calls : delivery'[d].at \in {"idle", "look", "insert", "flushed", "add", "resolve"}
    BY <1>2 DEF ReportsFit, ReportFits, Arriving
  <2> QED
    BY <1>a, <2>1 DEF X!TypeOK
<1> QED
  BY <1>2, <1>3, <1>5, <1>6, <1>a DEF ErrorsInv, GoneIsGone, X!CountsWhatCame

LEMMA ReportArrives ==
  ASSUME ErrorsAssumption, ErrorsInv, NEW c \in Calls, NEW p \in X!Problems, X!take_report(c, p)
  PROVE  ErrorsInv'
<1> DEFINE q == [at |-> "look", about |-> p]
<1>a. X!TypeOK /\ ReportsFit /\ ReportsMeet /\ GoneIsGone /\ Counted /\ X!CountsWhatCame
  BY DEF ErrorsInv
<1>1. /\ delivery[c].at = "idle" /\ sent < MaxReports /\ sent' = sent + 1 /\ X!Then(c, q)
      /\ overlapped' = (IF X!Reporting(p) = {} THEN overlapped ELSE overlapped \union {p})
      /\ UNCHANGED <<sources, gone, issues>>
  BY DEF X!take_report, X!In
<1>2. q.at = "look" /\ q.about = p
  OBVIOUS
<1> HIDE DEF q
<1>3. /\ DOMAIN delivery' = Calls /\ delivery'[c] = q
      /\ \A d \in Calls \ {c} : delivery'[d] = delivery[d]
  BY <1>1, <1>a, DeliveryMoves DEF ReportsFit
<1>4. overlapped \subseteq overlapped' /\ overlapped' \subseteq X!Problems
  BY <1>1, <1>a DEF X!TypeOK
<1>5. ReportsFit'
  <2>1. ReportFits(q, issues, gone, overlapped')
    BY <1>2 DEF ReportFits, Arriving
  <2>2. ASSUME NEW d \in Calls \ {c} PROVE ReportFits(delivery[d], issues, gone, overlapped')
    <3>1. ReportFits(delivery[d], issues, gone, overlapped)
      BY <1>a DEF ReportsFit
    <3> QED
      BY <1>4, <3>1 DEF ReportFits
  <2> QED
    BY <1>1, <1>3, <2>1, <2>2 DEF ReportsFit
<1>6. ReportsMeet'
  <2>1. ASSUME NEW d \in Calls, delivery[d].at \in Arriving, delivery[d].about = p PROVE p \in overlapped'
    <3>1. d \in X!Reporting(p)
      BY <2>1 DEF X!Reporting, Arriving
    <3> QED
      BY <1>1, <3>1
  <2> QED
    BY <1>2, <1>3, <1>4, <1>a, <2>1 DEF ReportsMeet
<1>7. /\ Cardinality(Arrivals) \in Nat /\ Cardinality(Arrivals') \in Nat
      /\ Cardinality(Arrivals') <= Cardinality(Arrivals) + 1
  <2>1. Arrivals' \subseteq Arrivals \union {c}
    BY <1>3 DEF Arrivals
  <2> QED
    BY <2>1, ArrivalsAreFinite, CountsOneMore
<1>8. sent \in Nat /\ sent' \in 0..MaxReports
  BY <1>1, <1>a DEF X!TypeOK, ErrorsAssumption
<1>9. Counted'
  <2>1. Cardinality(Arrivals) <= sent
    BY <1>a DEF Counted
  <2>2. ASSUME NEW o \in X!Problems PROVE issues[o].reports + Cardinality(Arrivals') <= sent'
    <3>1. issues[o].reports \in Nat /\ issues[o].reports + Cardinality(Arrivals) <= sent
      BY <1>a, IssueRow DEF X!TypeOK, Counted, ErrorsAssumption
    <3> QED
      BY <1>1, <1>7, <1>8, <3>1
  <2> QED
    BY <1>1, <1>7, <1>8, <2>1, <2>2 DEF Counted
<1>10. X!TypeOK'
  <2>1. \A d \in Calls : delivery'[d].at \in {"idle", "look", "insert", "flushed", "add", "resolve"}
    BY <1>5 DEF ReportsFit, ReportFits, Arriving
  <2> QED
    BY <1>1, <1>4, <1>8, <1>a, <2>1 DEF X!TypeOK
<1> QED
  BY <1>1, <1>4, <1>5, <1>6, <1>9, <1>10, <1>a DEF ErrorsInv, GoneIsGone, X!CountsWhatCame

LEMMA SourceGoes ==
  ASSUME ErrorsAssumption, ErrorsInv, NEW s \in Sources, X!delete_source(s)
  PROVE  ErrorsInv'
<1>a. X!TypeOK /\ ReportsFit /\ ReportsMeet /\ GoneIsGone /\ Counted /\ X!CountsWhatCame
  BY DEF ErrorsInv
<1>1. /\ s \in sources /\ sources' = sources \ {s} /\ gone' = gone \union {s}
      /\ \A p \in {s} \X Fingerprints : ~X!Flushed(p)
      /\ issues' = [p \in X!Problems |-> IF p[1] = s THEN X!NoIssue ELSE issues[p]]
      /\ UNCHANGED <<delivery, overlapped, sent>>
  BY DEF X!delete_source
<1>2. X!NoIssue \in X!IssueRows /\ X!NoIssue.count = 0 /\ X!NoIssue.reports = 0
  BY DEF X!NoIssue, X!IssueRows, ErrorsAssumption
<1>3. \A p \in X!Problems :
         /\ p[1] = s => issues'[p].count = 0 /\ issues'[p].reports = 0
         /\ p[1] # s => issues'[p] = issues[p]
  BY <1>1, <1>2
<1>4. ReportsFit'
  <2>1. ASSUME NEW c \in Calls PROVE ReportFits(delivery[c], issues', gone', overlapped)
    <3>1. ReportFits(delivery[c], issues, gone, overlapped)
      BY <1>a DEF ReportsFit
    <3>2. delivery[c].at = "flushed" => delivery[c].about[1] # s
      <4>1. SUFFICES ASSUME delivery[c].at = "flushed", delivery[c].about[1] = s PROVE FALSE
        OBVIOUS
      <4>2. delivery[c].about \in X!Problems
        BY <3>1, <4>1 DEF ReportFits
      <4>3. delivery[c].about \in {s} \X Fingerprints
        BY <4>1, <4>2 DEF X!Problems
      <4>4. ~X!Flushed(delivery[c].about)
        BY <1>1, <4>3
      <4> QED
        BY <4>1, <4>4 DEF X!Flushed, X!In
    <3>3. delivery[c].at \in {"flushed", "add"} => delivery[c].about \in X!Problems
      BY <3>1 DEF ReportFits
    <3> QED
      BY <1>1, <1>3, <3>1, <3>2, <3>3 DEF ReportFits
  <2> QED
    BY <1>1, <1>a, <2>1 DEF ReportsFit
<1>5. GoneIsGone'
  BY <1>1, <1>3, <1>a DEF GoneIsGone
<1>6. Counted'
  <2>1. Arrivals' = Arrivals
    BY <1>1 DEF Arrivals
  <2>2. \A p \in X!Problems : issues'[p].reports \in {0, issues[p].reports}
    BY <1>3
  <2> QED
    BY <1>1, <1>a, <2>1, <2>2, CountedStays
<1>7. X!CountsWhatCame'
  <2>1. \A p \in X!Problems : issues'[p].count <= issues'[p].reports
                             /\ (p \notin overlapped => issues'[p].count = issues'[p].reports)
    BY <1>3, <1>a DEF X!CountsWhatCame
  <2> QED
    BY <1>1, <2>1 DEF X!CountsWhatCame
<1>8. X!TypeOK'
  BY <1>1, <1>2, <1>a DEF X!TypeOK
<1> QED
  BY <1>1, <1>4, <1>5, <1>6, <1>7, <1>8, <1>a DEF ErrorsInv, ReportsMeet

LEMMA ReportIsKept ==
  ASSUME ErrorsAssumption, ErrorsInv, NEW c \in Calls, X!report(c)
  PROVE  ErrorsInv'
<1> DEFINE p   == delivery[c].about
           n   == delivery[c].read.count
           old == issues[p]
<1>a. X!TypeOK /\ ReportsFit /\ ReportsMeet /\ GoneIsGone /\ Counted /\ X!CountsWhatCame
  BY DEF ErrorsInv
<1>1. /\ delivery[c].at \in {"flushed", "add"} /\ delivery[c].at \in Arriving
      /\ X!Then(c, X!Idle) /\ UNCHANGED <<sources, gone, overlapped, sent>>
  BY DEF X!report, X!Leaves, Arriving
<1>2. X!Idle.at = "idle" /\ X!Idle.at \notin Arriving
  BY DEF X!Idle, Arriving
<1>3. ReportFits(delivery[c], issues, gone, overlapped) /\ p \in X!Problems
  BY <1>1, <1>a DEF ReportsFit, ReportFits
<1>4. ReportFits(X!Idle, issues, gone, overlapped)
  BY <1>2 DEF ReportFits
<1>5. CASE UNCHANGED issues
  BY <1>1, <1>2, <1>4, <1>5, ReportGoesOn
<1>6. CASE /\ delivery[c].at = "flushed" \/ issues[p].reports > 0
           /\ issues' = [issues EXCEPT ![p] = [count |-> n + 1,
                              resolved |-> @.resolved /\ ~delivery[c].read.resolved,
                              reports |-> @.reports + 1]]
  <2> DEFINE met == p \in overlapped
             new == [count |-> n + 1, resolved |-> old.resolved /\ ~delivery[c].read.resolved,
                     reports |-> old.reports + 1]
  <2>1. issues \in [X!Problems -> X!IssueRows] /\ old \in X!IssueRows
    BY <1>3, <1>a DEF X!TypeOK
  <2>2. old.count \in Nat /\ old.reports \in Nat /\ n \in Nat
    <3>1. old.count \in 0..MaxReports /\ old.reports \in 0..MaxReports
      BY <2>1, IssueRow
    <3>2. n \in Nat
      BY <1>1, <1>3 DEF ReportFits
    <3> QED
      BY <3>1, <3>2 DEF ErrorsAssumption
  <2>3. p[1] \notin gone /\ n <= old.reports /\ (~met => n = old.reports)
    <3>1. CASE delivery[c].at = "flushed"
      BY <1>3, <2>2, <3>1 DEF ReportFits
    <3>2. CASE delivery[c].at = "add"
      <4>1. old.reports > 0
        BY <1>6, <3>2
      <4>2. p[1] \notin gone
        BY <1>3, <1>a, <2>2, <4>1 DEF GoneIsGone
      <4> QED
        BY <1>3, <3>2, <4>2 DEF ReportFits
    <3> QED
      BY <1>1, <3>1, <3>2
  <2>4. /\ issues'[p] = new /\ \A o \in X!Problems \ {p} : issues'[o] = issues[o]
        /\ DOMAIN issues' = X!Problems /\ issues' = [o \in X!Problems |-> issues'[o]]
    BY <1>3, <1>6, <2>1
  <2>5. new.count = n + 1 /\ new.reports = old.reports + 1 /\ new.resolved \in BOOLEAN
    OBVIOUS
  <2>6. new = [count |-> new.count, resolved |-> new.resolved, reports |-> new.reports]
    OBVIOUS
  <2> HIDE DEF new
  <2>7. /\ DOMAIN delivery' = Calls /\ delivery'[c] = X!Idle
        /\ \A d \in Calls \ {c} : delivery'[d] = delivery[d]
    BY <1>1, <1>a, DeliveryMoves DEF ReportsFit
  <2>8. /\ Cardinality(Arrivals) \in Nat /\ Cardinality(Arrivals') \in Nat
        /\ Cardinality(Arrivals') + 1 <= Cardinality(Arrivals)
    <3>1. c \in Arrivals /\ Arrivals' \subseteq Arrivals \ {c}
      BY <1>1, <1>2, <2>7 DEF Arrivals
    <3> QED
      BY <3>1, ArrivalsAreFinite, CountsOneLess
  <2>9. /\ sent \in Nat /\ sent <= MaxReports /\ Cardinality(Arrivals) <= sent
        /\ old.reports + Cardinality(Arrivals) <= sent
    BY <1>3, <1>a DEF X!TypeOK, Counted, ErrorsAssumption
  <2>10. new.count \in 0..MaxReports /\ new.reports \in 0..MaxReports /\ new \in X!IssueRows
    <3>1. new.count \in 0..MaxReports /\ new.reports \in 0..MaxReports
      BY <2>2, <2>3, <2>5, <2>8, <2>9 DEF ErrorsAssumption
    <3> QED
      BY <2>5, <2>6, <3>1 DEF X!IssueRows
  <2>11. ReportsFit'
    <3>1. ASSUME NEW d \in Calls \ {c} PROVE ReportFits(delivery[d], issues', gone, overlapped)
      <4>1. ReportFits(delivery[d], issues, gone, overlapped)
        BY <1>a DEF ReportsFit
      <4>2. delivery[d].at \in {"flushed", "add"} => delivery[d].about \in X!Problems
        BY <4>1 DEF ReportFits
      <4>3. CASE delivery[d].at \notin {"flushed", "add"}
        BY <4>1, <4>3 DEF ReportFits
      <4>4. CASE delivery[d].at \in {"flushed", "add"} /\ delivery[d].about # p
        BY <2>4, <4>1, <4>2, <4>4 DEF ReportFits
      <4>5. CASE delivery[d].at \in {"flushed", "add"} /\ delivery[d].about = p
        <5>1. p \in overlapped
          BY <1>1, <1>a, <4>5 DEF ReportsMeet, Arriving
        <5>2. delivery[d].at = "add" =>
                 delivery[d].read.count \in Nat /\ delivery[d].read.count <= old.reports
          BY <2>3, <4>1, <4>5 DEF ReportFits
        <5>3. issues'[p].reports = old.reports + 1
          BY <2>4, <2>5
        <5>4. delivery[d].at = "add" =>
                 issues'[p].reports > 0 /\ delivery[d].read.count <= issues'[p].reports
          BY <2>2, <5>2, <5>3
        <5> QED
          BY <4>1, <4>5, <5>1, <5>4 DEF ReportFits
      <4> QED
        BY <4>3, <4>4, <4>5
    <3>2. ReportFits(X!Idle, issues', gone, overlapped)
      BY <1>2 DEF ReportFits, X!Idle
    <3> QED
      BY <1>1, <2>7, <3>1, <3>2 DEF ReportsFit
  <2>12. ReportsMeet'
    BY <1>1, <1>2, <1>a, <2>7 DEF ReportsMeet
  <2>13. GoneIsGone'
    BY <1>1, <1>a, <2>3, <2>4 DEF GoneIsGone
  <2>14. Counted'
    <3>1. issues'[p].reports + Cardinality(Arrivals') <= sent
      BY <2>2, <2>4, <2>5, <2>8, <2>9
    <3>2. ASSUME NEW o \in X!Problems, o # p PROVE issues'[o].reports + Cardinality(Arrivals') <= sent
      <4>1. /\ issues'[o] = issues[o] /\ issues[o].reports \in Nat
            /\ issues[o].reports + Cardinality(Arrivals) <= sent
        BY <1>a, <2>1, <2>4, <3>2, IssueRow DEF Counted, ErrorsAssumption
      <4> QED
        BY <2>8, <2>9, <4>1
    <3>3. Cardinality(Arrivals') <= sent
      BY <2>8, <2>9
    <3> QED
      BY <1>1, <3>1, <3>2, <3>3 DEF Counted
  <2>15. X!CountsWhatCame'
    <3>1. issues'[p].count <= issues'[p].reports /\ (~met => issues'[p].count = issues'[p].reports)
      BY <2>2, <2>3, <2>4, <2>5
    <3> QED
      BY <1>1, <1>a, <2>4, <3>1 DEF X!CountsWhatCame
  <2>16. X!TypeOK'
    <3>1. \A d \in Calls : delivery'[d].at \in {"idle", "look", "insert", "flushed", "add", "resolve"}
      BY <2>11 DEF ReportsFit, ReportFits, Arriving
    <3>2. issues' \in [X!Problems -> X!IssueRows]
      BY <2>1, <2>4, <2>10
    <3> QED
      BY <1>1, <1>a, <3>1, <3>2 DEF X!TypeOK
  <2> QED
    BY <2>11, <2>12, <2>13, <2>14, <2>15, <2>16 DEF ErrorsInv
<1>7. CASE delivery[c].at = "add" /\ ~X!There(p)
  BY <1>5, <1>7 DEF X!report
<1>8. CASE ~(delivery[c].at = "add" /\ ~X!There(p))
  BY <1>1, <1>6, <1>8 DEF X!report, X!There
<1> QED
  BY <1>7, <1>8

LEMMA IssueIsMarked ==
  ASSUME ErrorsAssumption, ErrorsInv, NEW c \in Calls, X!set_resolved(c)
  PROVE  ErrorsInv'
<1> DEFINE p == delivery[c].about
<1>a. X!TypeOK /\ ReportsFit /\ ReportsMeet /\ GoneIsGone /\ Counted /\ X!CountsWhatCame
  BY DEF ErrorsInv
<1>1. /\ delivery[c].at = "resolve" /\ X!Then(c, X!Idle) /\ UNCHANGED <<sources, gone, overlapped, sent>>
  BY DEF X!set_resolved, X!Leaves, X!In
<1>2. X!Idle.at = "idle" /\ X!Idle.at \notin Arriving
  BY DEF X!Idle, Arriving
<1>3. p \in X!Problems /\ delivery[c].resolved \in BOOLEAN
  BY <1>1, <1>a DEF ReportsFit, ReportFits
<1>4. CASE UNCHANGED issues
  <2>1. ReportFits(X!Idle, issues, gone, overlapped)
    BY <1>2 DEF ReportFits
  <2> QED
    BY <1>1, <1>2, <1>4, <2>1, ReportGoesOn
<1>5. CASE issues' = [issues EXCEPT ![p].resolved = delivery[c].resolved]
  <2>1. issues \in [X!Problems -> X!IssueRows]
    BY <1>a DEF X!TypeOK
  <2>2. /\ issues' \in [X!Problems -> X!IssueRows]
        /\ \A o \in X!Problems : issues'[o].count = issues[o].count /\ issues'[o].reports = issues[o].reports
    BY <1>3, <1>5, <2>1 DEF X!IssueRows
  <2>3. /\ DOMAIN delivery' = Calls /\ delivery'[c] = X!Idle
        /\ \A d \in Calls \ {c} : delivery'[d] = delivery[d]
    BY <1>1, <1>a, DeliveryMoves DEF ReportsFit
  <2>4. ReportsFit'
    <3>1. ASSUME NEW d \in Calls \ {c} PROVE ReportFits(delivery[d], issues', gone, overlapped)
      <4>1. ReportFits(delivery[d], issues, gone, overlapped)
        BY <1>a DEF ReportsFit
      <4>2. delivery[d].at \in {"flushed", "add"} => delivery[d].about \in X!Problems
        BY <4>1 DEF ReportFits
      <4> QED
        BY <2>2, <4>1, <4>2 DEF ReportFits
    <3>2. ReportFits(X!Idle, issues', gone, overlapped)
      BY <1>2 DEF ReportFits, X!Idle
    <3> QED
      BY <1>1, <2>3, <3>1, <3>2 DEF ReportsFit
  <2>5. ReportsMeet'
    BY <1>1, <1>2, <1>a, <2>3 DEF ReportsMeet
  <2>6. Counted'
    <3>1. Arrivals' \subseteq Arrivals
      BY <1>2, <2>3 DEF Arrivals
    <3> QED
      BY <1>1, <1>a, <2>2, <3>1, CountedStays
  <2>7. X!TypeOK'
    <3>1. \A d \in Calls : delivery'[d].at \in {"idle", "look", "insert", "flushed", "add", "resolve"}
      BY <2>4 DEF ReportsFit, ReportFits, Arriving
    <3> QED
      BY <1>1, <1>a, <2>2, <3>1 DEF X!TypeOK
  <2> QED
    BY <1>1, <1>a, <2>2, <2>4, <2>5, <2>6, <2>7 DEF ErrorsInv, GoneIsGone, X!CountsWhatCame
<1> QED
  BY <1>4, <1>5 DEF X!set_resolved

LEMMA ErrorsNext ==
  ASSUME ErrorsAssumption, ErrorsInv, [X!Next]_X!errorVars
  PROVE  ErrorsInv'
<1>a. X!TypeOK /\ ReportsFit /\ ReportsMeet /\ GoneIsGone /\ Counted /\ X!CountsWhatCame
  BY DEF ErrorsInv
<1>1. ASSUME NEW s \in Sources, X!create(s) PROVE ErrorsInv'
  <2>1. /\ s \notin gone /\ sources' = sources \union {s}
        /\ UNCHANGED <<gone, issues, delivery, overlapped, sent>>
    BY <1>1 DEF X!create
  <2>2. Counted'
    BY <1>a, <2>1 DEF Counted, Arrivals
  <2> QED
    BY <1>a, <2>1, <2>2 DEF ErrorsInv, X!TypeOK, ReportsFit, ReportsMeet, GoneIsGone, X!CountsWhatCame
<1>2. ASSUME NEW c \in Calls, X!Look(c) PROVE ErrorsInv'
  <2> DEFINE p == delivery[c].about
  <2>1. /\ delivery[c].at = "look" /\ delivery[c].at \in Arriving
        /\ UNCHANGED <<sources, gone, issues, overlapped, sent>>
    BY <1>2 DEF X!Look, X!In, Arriving
  <2>2. p \in X!Problems
    BY <1>a, <2>1 DEF ReportsFit, ReportFits
  <2>3. CASE X!There(p)
    <3> DEFINE q == [at |-> "add", about |-> p, read |-> issues[p]]
    <3>1. q.at = "add" /\ q.about = p /\ q.read = issues[p] /\ X!Then(c, q)
      BY <1>2, <2>3 DEF X!Look
    <3> HIDE DEF q
    <3>2. issues[p].count \in Nat /\ issues[p].reports \in Nat /\ issues[p].reports > 0
      BY <1>a, <2>2, <2>3, IssueRow DEF X!TypeOK, X!There, ErrorsAssumption
    <3>3. ReportFits(q, issues, gone, overlapped)
      BY <1>a, <2>2, <3>1, <3>2 DEF ReportFits, Arriving, X!CountsWhatCame
    <3> QED
      BY <2>1, <3>1, <3>3, ReportGoesOn
  <2>4. CASE ~X!There(p)
    <3> DEFINE q == [at |-> "insert", about |-> p]
    <3>1. q.at = "insert" /\ q.about = p /\ X!Then(c, q)
      BY <1>2, <2>4 DEF X!Look
    <3> HIDE DEF q
    <3>2. ReportFits(q, issues, gone, overlapped)
      BY <2>2, <3>1 DEF ReportFits, Arriving
    <3> QED
      BY <2>1, <3>1, <3>2, ReportGoesOn
  <2> QED
    BY <2>3, <2>4
<1>3. ASSUME NEW c \in Calls, X!Insert(c) PROVE ErrorsInv'
  <2> DEFINE p == delivery[c].about
  <2>1. /\ delivery[c].at = "insert" /\ delivery[c].at \in Arriving
        /\ UNCHANGED <<sources, gone, issues, overlapped, sent>>
    BY <1>3 DEF X!Insert, X!In, Arriving
  <2>2. p \in X!Problems
    BY <1>a, <2>1 DEF ReportsFit, ReportFits
  <2>3. CASE X!There(p) \/ p[1] \notin sources
    <3>1. X!Then(c, X!Idle)
      BY <1>3, <2>3 DEF X!Insert, X!Leaves
    <3>2. ReportFits(X!Idle, issues, gone, overlapped) /\ X!Idle.at \notin Arriving
      BY DEF ReportFits, X!Idle, Arriving
    <3> QED
      BY <2>1, <3>1, <3>2, ReportGoesOn
  <2>4. CASE ~(X!There(p) \/ p[1] \notin sources)
    <3> DEFINE q == [at |-> "flushed", about |-> p, read |-> X!NoIssue]
    <3>1. q.at = "flushed" /\ q.about = p /\ q.read = X!NoIssue /\ X!Then(c, q)
      BY <1>3, <2>4 DEF X!Insert
    <3> HIDE DEF q
    <3>2. issues[p].reports = 0 /\ p[1] \notin gone /\ X!NoIssue.count = 0
      <4>1. issues[p].reports \in Nat /\ ~(issues[p].reports > 0)
        BY <1>a, <2>2, <2>4, IssueRow DEF X!TypeOK, X!There, ErrorsAssumption
      <4> QED
        BY <1>a, <2>4, <4>1 DEF GoneIsGone, X!NoIssue
    <3>3. ReportFits(q, issues, gone, overlapped)
      BY <2>2, <3>1, <3>2 DEF ReportFits, Arriving
    <3> QED
      BY <2>1, <3>1, <3>3, ReportGoesOn
  <2> QED
    BY <2>3, <2>4
<1>4. ASSUME NEW c \in Calls, NEW p \in X!Problems, NEW b \in BOOLEAN, X!resolve_issue(c, p, b)
      PROVE  ErrorsInv'
  <2> DEFINE q == [at |-> "resolve", about |-> p, read |-> issues[p].resolved, resolved |-> b]
  <2>1. q.at = "resolve" /\ q.about = p /\ q.resolved = b
    OBVIOUS
  <2>2. X!Then(c, q) /\ UNCHANGED <<sources, gone, issues, overlapped, sent>>
    BY <1>4 DEF X!resolve_issue
  <2> HIDE DEF q
  <2>3. ReportFits(q, issues, gone, overlapped) /\ q.at \notin Arriving
    BY <2>1 DEF ReportFits, Arriving
  <2> QED
    BY <2>2, <2>3, ReportGoesOn
<1>5. ASSUME UNCHANGED X!errorVars PROVE ErrorsInv'
  <2>1. Counted'
    BY <1>5, <1>a DEF X!errorVars, Counted, Arrivals
  <2> QED
    BY <1>5, <1>a, <2>1 DEF X!errorVars, ErrorsInv, X!TypeOK, ReportsFit, ReportsMeet, GoneIsGone, X!CountsWhatCame
<1> QED
  BY <1>1, <1>2, <1>3, <1>4, <1>5, SourceGoes, ReportArrives, ReportIsKept, IssueIsMarked DEF X!Next

(* CountsWhatCame: an issue counts no report that was not kept, and every  *)
(* one that was, unless two reports of the problem were under way at once; *)
(* and this whatever is deleted or dealt with meanwhile                    *)
(* (errors/service.py report).                                             *)
THEOREM ReportsAreCounted ==
  ASSUME ErrorsAssumption
  PROVE  X!Spec => [](X!TypeOK /\ X!CountsWhatCame)
<1>1. ErrorsInv => X!TypeOK /\ X!CountsWhatCame
  BY DEF ErrorsInv
<1>2. X!Init => ErrorsInv
  BY ErrorsInit
<1>3. ErrorsInv /\ [X!Next]_X!errorVars => ErrorsInv'
  BY ErrorsNext
<1> QED
  BY <1>1, <1>2, <1>3, PTL DEF X!Spec

-----------------------------------------------------------------------------
(* Watched addresses.                                                      *)

Getting    == {w \in M!Lookers : looker[w].at = "get"}
Pruning(k) == {w \in M!Lookers : looker[w].at \in {"count", "forget"} /\ looker[w].check = k}

LookersFit ==
    /\ DOMAIN looker = M!Lookers
    /\ \A w \in M!Lookers : /\ looker[w].at \in {"idle", "get", "count", "forget"}
                            /\ looker[w].at # "idle" => looker[w].check \in Checks
Entries == [check : Checks, read : M!States]
InList == list \in Seq(Entries)
Looked == /\ Cardinality(Getting) <= looks
          /\ \A k \in Checks : results[k] + Cardinality(Getting) <= looks

Bounded == \A k \in Checks : results[k] <= Kept + unpruned[k] + Cardinality(Pruning(k))

WatchTyped ==
    /\ checks \in [Checks -> M!CheckRows] /\ results \in [Checks -> Nat]
    /\ unpruned \in [Checks -> Nat] /\ looks \in 0..MaxLooks /\ lost \in 0..MaxLost

WatchInv == WatchTyped /\ LookersFit /\ InList /\ Looked /\ Bounded

LEMMA ListEntries ==
  ASSUME NEW S, NEW s \in Seq(S)
  PROVE  /\ \A i \in DOMAIN s : s[i] \in S
         /\ s # <<>> => Head(s) \in S /\ Tail(s) \in Seq(S)
  OBVIOUS

LEMMA ListOf ==
  ASSUME NEW S, NEW n \in Nat, NEW s \in [1..n -> S] PROVE s \in Seq(S)
  BY SeqDef

LEMMA MonitoringCountsAlike == \A S : M!Cardinality(S) = Cardinality(S)
  BY DEF M!Cardinality, Cardinality

LEMMA LookersAreFinite ==
  ASSUME WatchAssumption
  PROVE  /\ IsFiniteSet(M!Lookers) /\ IsFiniteSet(Getting) /\ Cardinality(Getting) \in Nat
         /\ \A k : IsFiniteSet(Pruning(k)) /\ Cardinality(Pruning(k)) \in Nat
<1>1. IsFiniteSet(M!Lookers)
  BY FS_AddElement DEF M!Lookers, WatchAssumption
<1>2. \A S \in SUBSET M!Lookers : IsFiniteSet(S) /\ Cardinality(S) \in Nat
  BY <1>1, FS_Subset, FS_CardinalityType
<1> QED
  BY <1>1, <1>2 DEF Getting, Pruning

\* The same one step later.
LEMMA LookersStayFinite ==
  ASSUME WatchAssumption
  PROVE  /\ IsFiniteSet(Getting') /\ Cardinality(Getting') \in Nat
         /\ \A k : IsFiniteSet(Pruning(k)') /\ Cardinality(Pruning(k)') \in Nat
<1>1. IsFiniteSet(M!Lookers)
  BY LookersAreFinite
<1>2. \A S \in SUBSET M!Lookers : IsFiniteSet(S) /\ Cardinality(S) \in Nat
  BY <1>1, FS_Subset, FS_CardinalityType
<1> QED
  BY <1>2 DEF Getting, Pruning

LEMMA WatchInit == WatchAssumption /\ M!Init => WatchInv
<1> SUFFICES ASSUME WatchAssumption, M!Init PROVE WatchInv
  OBVIOUS
<1>1. /\ checks = [k \in Checks |-> M!NoCheck] /\ results = [k \in Checks |-> 0]
      /\ list = <<>> /\ looker = [w \in M!Lookers |-> M!Idle]
      /\ looks = 0 /\ lost = 0 /\ unpruned = [k \in Checks |-> 0]
  BY DEF M!Init
<1>2. M!NoCheck \in M!CheckRows /\ M!Idle.at = "idle"
  BY DEF M!NoCheck, M!CheckRows, M!States, M!Idle
<1>3. \A w \in M!Lookers : looker[w].at = "idle"
  BY <1>1, <1>2
<1>4. Getting = {} /\ Cardinality(Getting) = 0
  BY <1>3, FS_EmptySet DEF Getting
<1>5. \A k : Cardinality(Pruning(k)) \in Nat
  BY LookersAreFinite
<1>6. WatchTyped
  BY <1>1, <1>2 DEF WatchTyped, WatchAssumption
<1>7. LookersFit /\ InList
  BY <1>1, <1>3 DEF LookersFit, InList
<1>8. Looked /\ Bounded
  BY <1>1, <1>4, <1>5 DEF Looked, Bounded, WatchAssumption
<1> QED
  BY <1>6, <1>7, <1>8 DEF WatchInv

LEMMA LookerMoves ==
  ASSUME LookersFit, NEW w \in M!Lookers, NEW q, M!Then(w, q)
  PROVE  /\ DOMAIN looker' = M!Lookers /\ looker'[w] = q
         /\ \A v \in M!Lookers \ {w} : looker'[v] = looker[v]
  BY DEF LookersFit, M!Then

\* No look is added or lost, and no result.
LEMMA LooksStay ==
  ASSUME WatchAssumption, WatchInv, WatchTyped', LookersFit', InList',
         Getting' \subseteq Getting, looks' = looks,
         \A k \in Checks : \/ results'[k] = 0
                           \/ results'[k] <= results[k] /\ results'[k] <= Kept
                           \/ /\ results'[k] = results[k] /\ unpruned'[k] = unpruned[k]
                              /\ Pruning(k) \subseteq Pruning(k)'
  PROVE  WatchInv'
<1>1. /\ Cardinality(Getting) \in Nat /\ Cardinality(Getting') \in Nat
      /\ Cardinality(Getting') <= Cardinality(Getting)
  BY LookersAreFinite, CountsNoMore
<1>2. /\ looks \in Nat /\ Cardinality(Getting) <= looks /\ Kept \in Nat
      /\ \A k \in Checks : /\ results[k] \in Nat /\ results'[k] \in Nat /\ results'[k] <= results[k]
                           /\ unpruned[k] \in Nat /\ unpruned'[k] \in Nat
                           /\ results[k] + Cardinality(Getting) <= looks
                           /\ results[k] <= Kept + unpruned[k] + Cardinality(Pruning(k))
  BY DEF WatchInv, WatchTyped, Looked, Bounded, WatchAssumption
<1>3. Looked'
  <2>1. ASSUME NEW k \in Checks PROVE results'[k] + Cardinality(Getting') <= looks'
    <3>1. /\ results[k] \in Nat /\ results'[k] \in Nat /\ results'[k] <= results[k]
          /\ results[k] + Cardinality(Getting) <= looks /\ looks \in Nat
      BY <1>2
    <3> QED
      BY <1>1, <3>1
  <2>2. Cardinality(Getting') <= looks'
    BY <1>1, <1>2
  <2> QED
    BY <2>1, <2>2 DEF Looked
<1>4. Bounded'
  <2>1. ASSUME NEW k \in Checks PROVE results'[k] <= Kept + unpruned'[k] + Cardinality(Pruning(k)')
    <3>1. /\ results[k] \in Nat /\ results'[k] \in Nat /\ unpruned[k] \in Nat /\ unpruned'[k] \in Nat
          /\ results[k] <= Kept + unpruned[k] + Cardinality(Pruning(k)) /\ Kept \in Nat
      BY <1>2
    <3>2. Cardinality(Pruning(k)) \in Nat /\ Cardinality(Pruning(k)') \in Nat
      BY LookersAreFinite, LookersStayFinite
    <3>3. CASE results'[k] = 0 \/ results'[k] <= Kept
      BY <3>1, <3>2, <3>3
    <3>4. CASE /\ results'[k] = results[k] /\ unpruned'[k] = unpruned[k]
               /\ Pruning(k) \subseteq Pruning(k)'
      <4>1. Cardinality(Pruning(k)) <= Cardinality(Pruning(k)')
        BY <3>4, LookersStayFinite, CountsNoMore
      <4> QED
        BY <3>1, <3>2, <3>4, <4>1
    <3> QED
      BY <3>3, <3>4
  <2> QED
    BY <2>1 DEF Bounded
<1> QED
  BY <1>3, <1>4 DEF WatchInv

\* A look begins, by the loop or for a request.
LEMMA LookBegins ==
  ASSUME WatchAssumption, WatchInv, NEW w \in M!Lookers, NEW q, M!Then(w, q),
         looker[w].at = "idle", q.at = "get", q.check \in Checks,
         looks < MaxLooks, looks' = looks + 1, InList',
         UNCHANGED <<checks, results, lost, unpruned>>
  PROVE  WatchInv'
<1>a. WatchTyped /\ LookersFit /\ Looked /\ Bounded
  BY DEF WatchInv
<1>1. /\ DOMAIN looker' = M!Lookers /\ looker'[w] = q
      /\ \A v \in M!Lookers \ {w} : looker'[v] = looker[v]
  BY <1>a, LookerMoves
<1>2. LookersFit'
  BY <1>1, <1>a DEF LookersFit
<1>3. /\ Cardinality(Getting) \in Nat /\ Cardinality(Getting') \in Nat
      /\ Cardinality(Getting') <= Cardinality(Getting) + 1
  <2>1. Getting' \subseteq Getting \union {w}
    BY <1>1 DEF Getting
  <2> QED
    BY <2>1, LookersAreFinite, CountsOneMore
<1>4. looks \in Nat /\ looks' \in 0..MaxLooks /\ Cardinality(Getting) <= looks
  BY <1>a DEF WatchTyped, WatchAssumption, Looked
<1>5. WatchTyped'
  BY <1>4, <1>a DEF WatchTyped
<1>6. Looked'
  <2>1. ASSUME NEW k \in Checks PROVE results[k] + Cardinality(Getting') <= looks'
    <3>1. results[k] \in Nat /\ results[k] + Cardinality(Getting) <= looks
      BY <1>a DEF WatchTyped, Looked
    <3> QED
      BY <1>3, <1>4, <3>1
  <2> QED
    BY <1>3, <1>4, <2>1 DEF Looked
<1>7. \A k \in Checks : Pruning(k)' = Pruning(k)
  BY <1>1 DEF Pruning
<1>8. Bounded'
  BY <1>7, <1>a DEF Bounded
<1> QED
  BY <1>2, <1>5, <1>6, <1>8 DEF WatchInv

LEMMA LookIsKept ==
  ASSUME WatchAssumption, WatchInv, NEW w \in M!Lookers, NEW ok \in BOOLEAN, M!run_check(w, ok)
  PROVE  WatchInv'
<1> DEFINE found == IF ok THEN "up" ELSE "down"
<1>a. WatchTyped /\ LookersFit /\ InList /\ Looked /\ Bounded
  BY DEF WatchInv
<1>1. looker[w].at = "get" /\ UNCHANGED <<looks, lost, unpruned>>
  BY DEF M!run_check, M!In
<1>2. PICK k \in Checks : k = looker[w].check
  BY <1>1, <1>a DEF LookersFit
<1>3. CASE ~checks[k].there
  <2>1. M!Then(w, M!Idle) /\ UNCHANGED <<checks, results>> /\ (list' = <<>> \/ list' = list)
    BY <1>2, <1>3 DEF M!run_check, M!Leaves
  <2>2. /\ DOMAIN looker' = M!Lookers /\ looker'[w] = M!Idle /\ M!Idle.at = "idle"
        /\ \A v \in M!Lookers \ {w} : looker'[v] = looker[v]
    BY <1>a, <2>1, LookerMoves DEF M!Idle
  <2>3. LookersFit'
    BY <1>a, <2>2 DEF LookersFit
  <2>4. InList' /\ WatchTyped'
    <3>1. list' = <<>> => InList'
      BY DEF InList, Entries, M!States
    <3>2. list' = list => InList'
      BY <1>a DEF InList, Entries, M!States
    <3> QED
      BY <1>1, <1>a, <2>1, <3>1, <3>2 DEF WatchTyped
  <2>5. Getting' \subseteq Getting /\ \A j \in Checks : Pruning(j) \subseteq Pruning(j)'
    BY <1>1, <2>2 DEF Getting, Pruning
  <2> QED
    BY <1>1, <2>1, <2>3, <2>4, <2>5, LooksStay
<1>4. CASE checks[k].there
  <2> DEFINE q == [at |-> "count", check |-> k]
  <2>1. /\ checks' = [checks EXCEPT ![k].state = IF found = looker[w].read THEN @ ELSE found,
                                    ![k].due = FALSE]
        /\ results' = [results EXCEPT ![k] = @ + 1]
        /\ M!Then(w, q) /\ UNCHANGED list
    BY <1>2, <1>4 DEF M!run_check
  <2>2. q.at = "count" /\ q.check = k
    OBVIOUS
  <2> HIDE DEF q
  <2>3. /\ DOMAIN looker' = M!Lookers /\ looker'[w] = q
        /\ \A v \in M!Lookers \ {w} : looker'[v] = looker[v]
    BY <1>a, <2>1, LookerMoves
  <2>4. LookersFit' /\ InList'
    BY <1>2, <1>a, <2>1, <2>2, <2>3 DEF LookersFit, InList
  <2>5. checks' \in [Checks -> M!CheckRows]
    <3>1. checks \in [Checks -> M!CheckRows] /\ found \in M!States
      BY <1>a DEF WatchTyped, M!States
    <3> HIDE DEF found
    <3>2. (IF found = looker[w].read THEN checks[k].state ELSE found) \in M!States
      BY <1>2, <3>1 DEF M!CheckRows
    <3>3. PICK s \in M!States : s = IF found = looker[w].read THEN checks[k].state ELSE found
      BY <3>2
    <3>4. checks' = [[checks EXCEPT ![k].state = s] EXCEPT ![k].due = FALSE]
      BY <1>2, <2>1, <3>1, <3>3
    <3>5. [checks EXCEPT ![k].state = s] \in [Checks -> M!CheckRows]
      BY <1>2, <3>1, <3>3 DEF M!CheckRows
    <3> QED
      BY <1>2, <3>4, <3>5 DEF M!CheckRows
  <2>6. /\ results'[k] = results[k] + 1 /\ \A j \in Checks \ {k} : results'[j] = results[j]
        /\ results' \in [Checks -> Nat]
    BY <1>2, <1>a, <2>1 DEF WatchTyped
  <2>7. /\ Cardinality(Getting) \in Nat /\ Cardinality(Getting') \in Nat
        /\ Cardinality(Getting') + 1 <= Cardinality(Getting)
    <3>1. w \in Getting /\ Getting' \subseteq Getting \ {w}
      BY <1>1, <2>2, <2>3 DEF Getting
    <3> QED
      BY <3>1, LookersAreFinite, CountsOneLess
  <2>8. Looked'
    <3>1. looks \in Nat /\ Cardinality(Getting) <= looks
      BY <1>a DEF WatchTyped, Looked
    <3>2. ASSUME NEW j \in Checks PROVE results'[j] + Cardinality(Getting') <= looks
      <4>1. results[j] \in Nat /\ results[j] + Cardinality(Getting) <= looks
        BY <1>a DEF WatchTyped, Looked
      <4>2. results'[j] \in {results[j], results[j] + 1}
        BY <2>6
      <4> QED
        BY <2>7, <3>1, <4>1, <4>2
    <3> QED
      BY <1>1, <2>7, <3>1, <3>2 DEF Looked
  <2>9. Bounded'
    <3>1. ASSUME NEW j \in Checks PROVE results'[j] <= Kept + unpruned[j] + Cardinality(Pruning(j)')
      <4>1. /\ results[j] \in Nat /\ unpruned[j] \in Nat /\ Kept \in Nat
            /\ results[j] <= Kept + unpruned[j] + Cardinality(Pruning(j))
            /\ Cardinality(Pruning(j)) \in Nat /\ Cardinality(Pruning(j)') \in Nat
        BY <1>a, LookersAreFinite, LookersStayFinite DEF WatchTyped, Bounded, WatchAssumption
      <4>2. CASE j = k
        <5>1. w \in Pruning(k)' /\ Pruning(k) \subseteq Pruning(k)' \ {w}
          BY <1>1, <2>2, <2>3 DEF Pruning
        <5>2. Cardinality(Pruning(k)) + 1 <= Cardinality(Pruning(k)')
          BY <5>1, LookersStayFinite, CountsOneLess
        <5>3. results'[j] = results[j] + 1
          BY <2>6, <4>2
        <5> QED
          BY <4>1, <4>2, <5>2, <5>3
      <4>3. CASE j # k
        <5>1. Pruning(j) \subseteq Pruning(j)'
          BY <1>1, <2>2, <2>3 DEF Pruning
        <5>2. Cardinality(Pruning(j)) <= Cardinality(Pruning(j)')
          BY <5>1, LookersStayFinite, CountsNoMore
        <5>3. results'[j] = results[j]
          BY <2>6, <4>3
        <5> QED
          BY <4>1, <5>2, <5>3
      <4> QED
        BY <4>2, <4>3
    <3> QED
      BY <1>1, <3>1 DEF Bounded
  <2>10. WatchTyped'
    BY <1>1, <1>a, <2>5, <2>6 DEF WatchTyped
  <2> QED
    BY <2>4, <2>8, <2>9, <2>10 DEF WatchInv
<1> QED
  BY <1>3, <1>4

LEMMA PlatformRestarts == ASSUME WatchAssumption, WatchInv, M!Restart PROVE WatchInv'
<1>a. WatchTyped /\ LookersFit /\ InList /\ Looked /\ Bounded
  BY DEF WatchInv
<1>1. /\ lost < MaxLost /\ lost' = lost + 1 /\ UNCHANGED <<checks, results, looks>>
      /\ looker' = [w \in M!Lookers |-> M!Idle] /\ list' = <<>>
      /\ unpruned' = [k \in Checks |-> unpruned[k] + Cardinality(Pruning(k))]
  <2>1. \A k : M!Cardinality(Pruning(k)) = Cardinality(Pruning(k))
    BY MonitoringCountsAlike
  <2> QED
    BY <2>1 DEF M!Restart, Pruning
<1>2. DOMAIN looker' = M!Lookers /\ \A w \in M!Lookers : looker'[w].at = "idle"
  BY <1>1 DEF M!Idle
<1>3. LookersFit' /\ InList'
  BY <1>1, <1>2 DEF LookersFit, InList
<1>4. \A k \in Checks : Cardinality(Pruning(k)) \in Nat /\ Cardinality(Pruning(k)') \in Nat
  BY LookersAreFinite, LookersStayFinite
<1>5. WatchTyped'
  <2>1. lost' \in 0..MaxLost
    BY <1>1, <1>a DEF WatchTyped, WatchAssumption
  <2>2. unpruned' \in [Checks -> Nat]
    BY <1>1, <1>4, <1>a DEF WatchTyped
  <2> QED
    BY <1>1, <1>a, <2>1, <2>2 DEF WatchTyped
<1>6. Getting' = {} /\ Cardinality(Getting') = 0
  BY <1>2, FS_EmptySet DEF Getting
<1>7. Looked'
  <2>1. looks \in Nat /\ \A k \in Checks : results[k] \in Nat
    BY <1>a DEF WatchTyped
  <2>2. Cardinality(Getting) \in Nat
    BY LookersAreFinite
  <2>3. \A k \in Checks : results[k] + Cardinality(Getting) <= looks
    BY <1>a DEF Looked
  <2>4. \A k \in Checks : results[k] + 0 <= looks
    BY <2>1, <2>2, <2>3
  <2> QED
    BY <1>1, <1>6, <2>1, <2>4 DEF Looked
<1>8. Bounded'
  <2>1. ASSUME NEW k \in Checks PROVE results[k] <= Kept + unpruned'[k] + Cardinality(Pruning(k)')
    <3>1. /\ results[k] \in Nat /\ unpruned[k] \in Nat /\ Kept \in Nat
          /\ results[k] <= Kept + unpruned[k] + Cardinality(Pruning(k))
      BY <1>a DEF WatchTyped, Bounded, WatchAssumption
    <3>2. unpruned'[k] = unpruned[k] + Cardinality(Pruning(k))
      BY <1>1
    <3> QED
      BY <1>4, <3>1, <3>2
  <2> QED
    BY <1>1, <2>1 DEF Bounded
<1> QED
  BY <1>3, <1>5, <1>7, <1>8 DEF WatchInv

LEMMA WatchNext ==
  ASSUME WatchAssumption, WatchInv, [M!Next]_M!watchVars
  PROVE  WatchInv'
<1>a. WatchTyped /\ LookersFit /\ InList /\ Looked /\ Bounded
  BY DEF WatchInv
<1>b. checks \in [Checks -> M!CheckRows] /\ results \in [Checks -> Nat] /\ unpruned \in [Checks -> Nat]
  BY <1>a DEF WatchTyped
\* Nobody looks; a check is made, changed or deleted.
<1>c. ASSUME NEW k \in Checks, NEW r \in M!CheckRows, checks' = [checks EXCEPT ![k] = r],
             UNCHANGED <<list, looker, looks, lost>>,
             results' \in [Checks -> Nat], unpruned' \in [Checks -> Nat],
             \A j \in Checks : \/ results'[j] = 0
                               \/ results'[j] = results[j] /\ unpruned'[j] = unpruned[j]
      PROVE  WatchInv'
  <2>1. WatchTyped'
    BY <1>a, <1>c DEF WatchTyped
  <2>2. LookersFit' /\ InList'
    BY <1>a, <1>c DEF LookersFit, InList, Entries, M!States
  <2>3. Getting' = Getting /\ \A j \in Checks : Pruning(j)' = Pruning(j)
    BY <1>c DEF Getting, Pruning
  <2> QED
    BY <1>c, <2>1, <2>2, <2>3, LooksStay
\* A look goes on; old results of its check may go.
<1>d. ASSUME NEW w \in M!Lookers, NEW k \in Checks, NEW q, M!Then(w, q),
             looker[w].at \in {"count", "forget"}, looker[w].check = k,
             q.at = "idle" \/ (q.at \in {"count", "forget"} /\ q.check = k /\ UNCHANGED <<results, unpruned>>),
             UNCHANGED <<checks, list, looks, lost>>,
             results' \in [Checks -> Nat], unpruned' \in [Checks -> Nat],
             results'[k] <= results[k], results'[k] <= Kept \/ q.at # "idle",
             \A j \in Checks \ {k} : results'[j] = results[j] /\ unpruned'[j] = unpruned[j]
      PROVE  WatchInv'
  <2>1. /\ DOMAIN looker' = M!Lookers /\ looker'[w] = q
        /\ \A v \in M!Lookers \ {w} : looker'[v] = looker[v]
    BY <1>a, <1>d, LookerMoves
  <2>2. WatchTyped' /\ LookersFit' /\ InList'
    BY <1>a, <1>d, <2>1 DEF WatchTyped, LookersFit, InList, Entries, M!States
  <2>3. Getting' \subseteq Getting
    BY <1>d, <2>1 DEF Getting
  <2>4. \A j \in Checks \ {k} : Pruning(j) \subseteq Pruning(j)'
    BY <1>d, <2>1 DEF Pruning
  <2>5. q.at # "idle" => Pruning(k) \subseteq Pruning(k)'
    BY <1>d, <2>1 DEF Pruning
  <2> QED
    BY <1>d, <2>2, <2>3, <2>4, <2>5, LooksStay
<1>1. ASSUME NEW k \in Checks, M!create(k) PROVE WatchInv'
  <2> DEFINE r == [there |-> TRUE, enabled |-> TRUE, due |-> TRUE, state |-> "unknown"]
  <2>1. r \in M!CheckRows
    BY DEF M!CheckRows, M!States
  <2> HIDE DEF r
  <2>2. /\ results[k] = 0 /\ checks' = [checks EXCEPT ![k] = r] /\ unpruned' = [unpruned EXCEPT ![k] = 0]
        /\ UNCHANGED <<results, list, looker, looks, lost>>
    BY <1>1 DEF M!create, r
  <2>3. unpruned' \in [Checks -> Nat] /\ \A j \in Checks \ {k} : unpruned'[j] = unpruned[j]
    BY <1>b, <2>2
  <2> QED
    BY <1>b, <1>c, <2>1, <2>2, <2>3
<1>2. ASSUME NEW k \in Checks, NEW b \in BOOLEAN, M!update(k, b) PROVE WatchInv'
  <2> DEFINE r == [checks[k] EXCEPT !.enabled = b]
  <2>1. r \in M!CheckRows
    BY <1>b DEF M!CheckRows
  <2>2. checks' = [checks EXCEPT ![k] = r] /\ UNCHANGED <<results, list, looker, looks, lost, unpruned>>
    BY <1>2 DEF M!update
  <2> HIDE DEF r
  <2> QED
    BY <1>b, <1>c, <2>1, <2>2
<1>3. ASSUME NEW k \in Checks, M!delete(k) PROVE WatchInv'
  <2>1. M!NoCheck \in M!CheckRows
    BY DEF M!NoCheck, M!CheckRows, M!States
  <2>2. /\ checks' = [checks EXCEPT ![k] = M!NoCheck] /\ results' = [results EXCEPT ![k] = 0]
        /\ UNCHANGED <<list, looker, looks, lost, unpruned>>
    BY <1>3 DEF M!delete
  <2>3. results' \in [Checks -> Nat] /\ results'[k] = 0 /\ \A j \in Checks \ {k} : results'[j] = results[j]
    BY <1>b, <2>2
  <2> QED
    BY <1>b, <1>c, <2>1, <2>2, <2>3
<1>4. ASSUME NEW k \in Checks, M!TimeComes(k) PROVE WatchInv'
  <2> DEFINE r == [checks[k] EXCEPT !.due = TRUE]
  <2>1. r \in M!CheckRows
    BY <1>b DEF M!CheckRows
  <2>2. checks' = [checks EXCEPT ![k] = r] /\ UNCHANGED <<results, list, looker, looks, lost, unpruned>>
    BY <1>4 DEF M!TimeComes
  <2> HIDE DEF r
  <2> QED
    BY <1>b, <1>c, <2>1, <2>2
<1>5. ASSUME M!due_checks PROVE WatchInv'
  <2> DEFINE S == {M!Loaded(k) : k \in {c \in Checks : checks[c].enabled /\ checks[c].due}}
  <2>1. list' \in M!SetToSeqs(S) /\ UNCHANGED <<checks, results, looker, looks, lost, unpruned>>
    BY <1>5 DEF M!due_checks
  <2>2. S \subseteq Entries /\ IsFiniteSet(S)
    <3> DEFINE T == {c \in Checks : checks[c].enabled /\ checks[c].due}
               f == [c \in T |-> M!Loaded(c)]
    <3>1. S \subseteq Entries
      BY <1>b DEF M!Loaded, M!CheckRows, Entries
    <3>2. IsFiniteSet(T)
      BY FS_Subset DEF WatchAssumption
    <3>3. f \in Surjection(T, S)
      BY DEF Surjection
    <3> HIDE DEF f, S, T
    <3> QED
      BY <3>1, <3>2, <3>3, FS_Surjection
  <2> HIDE DEF S
  <2>3. InList'
    <3>1. Cardinality(S) \in Nat
      BY <2>2, FS_CardinalityType
    <3>2. list' \in [1..Cardinality(S) -> S]
      BY <2>1, MonitoringCountsAlike DEF M!SetToSeqs
    <3>3. list' \in [1..Cardinality(S) -> Entries]
      BY <2>2, <3>2
    <3>4. list' \in Seq(Entries)
      BY <3>1, <3>3, ListOf
    <3> QED
      BY <3>4 DEF InList, Entries, M!States
  <2>4. WatchTyped' /\ LookersFit'
    BY <1>a, <2>1 DEF WatchTyped, LookersFit
  <2>5. Getting' = Getting /\ \A j \in Checks : Pruning(j)' = Pruning(j)
    BY <2>1 DEF Getting, Pruning
  <2> QED
    BY <2>1, <2>3, <2>4, <2>5, LooksStay
<1>6. ASSUME M!_tick PROVE WatchInv'
  <2> DEFINE q == [at |-> "get", check |-> Head(list).check, read |-> Head(list).read]
  <2>1. /\ looker["loop"].at = "idle" /\ list # <<>> /\ looks < MaxLooks /\ looks' = looks + 1
        /\ list' = Tail(list) /\ M!Then("loop", q) /\ UNCHANGED <<checks, results, lost, unpruned>>
    BY <1>6 DEF M!_tick, M!In
  <2>2. Head(list) \in Entries /\ list' \in Seq(Entries)
    BY <1>a, <2>1, ListEntries DEF InList
  <2>4. InList'
    BY <2>2 DEF InList, Entries, M!States
  <2>3. q.at = "get" /\ q.check \in Checks /\ "loop" \in M!Lookers
    BY <2>2 DEF M!Lookers, Entries
  <2> HIDE DEF q
  <2> QED
    BY <2>1, <2>3, <2>4, LookBegins
<1>7. ASSUME NEW w \in M!Lookers, NEW k \in Checks, M!run_check_now(w, k) PROVE WatchInv'
  <2> DEFINE q == [at |-> "get", check |-> k, read |-> checks[k].state]
  <2>1. /\ looker[w].at = "idle" /\ looks < MaxLooks /\ looks' = looks + 1
        /\ M!Then(w, q) /\ UNCHANGED <<checks, results, list, lost, unpruned>>
    BY <1>7 DEF M!run_check_now, M!In
  <2>2. q.at = "get" /\ q.check = k
    OBVIOUS
  <2> HIDE DEF q
  <2>3. InList'
    BY <1>a, <2>1 DEF InList, Entries, M!States
  <2> QED
    BY <2>1, <2>2, <2>3, LookBegins
<1>8. ASSUME NEW w \in M!Lookers, M!CountResults(w) PROVE WatchInv'
  <2>1. looker[w].at = "count" /\ UNCHANGED <<checks, results, list, looks, lost>>
    BY <1>8 DEF M!CountResults, M!In
  <2>2. PICK k \in Checks : k = looker[w].check
    BY <1>a, <2>1 DEF LookersFit
  <2>3. CASE results[k] <= Kept
    <3>1. M!Then(w, M!Idle) /\ unpruned' = [unpruned EXCEPT ![k] = 0] /\ M!Idle.at = "idle"
      BY <1>8, <2>2, <2>3 DEF M!CountResults, M!Leaves, M!Idle
    <3>2. unpruned' \in [Checks -> Nat] /\ \A j \in Checks \ {k} : unpruned'[j] = unpruned[j]
      BY <1>b, <3>1
    <3>3. results[k] <= results[k]
      BY <1>b
    <3> QED
      BY <1>b, <1>d, <2>1, <2>2, <2>3, <3>1, <3>2, <3>3
  <2>4. CASE ~(results[k] <= Kept)
    <3> DEFINE q == [at |-> "forget", check |-> k]
    <3>1. q.at = "forget" /\ q.check = k /\ M!Then(w, q) /\ UNCHANGED unpruned
      BY <1>8, <2>2, <2>4 DEF M!CountResults
    <3> HIDE DEF q
    <3>2. results[k] <= results[k]
      BY <1>b
    <3> QED
      BY <1>b, <1>d, <2>1, <2>2, <3>1, <3>2
  <2> QED
    BY <2>3, <2>4
<1>9. ASSUME NEW w \in M!Lookers, M!_forget_old(w) PROVE WatchInv'
  <2>1. /\ looker[w].at = "forget" /\ M!Then(w, M!Idle) /\ M!Idle.at = "idle"
        /\ UNCHANGED <<checks, list, looks, lost>>
    BY <1>9 DEF M!_forget_old, M!In, M!Leaves, M!Idle
  <2>2. PICK k \in Checks : k = looker[w].check
    BY <1>a, <2>1 DEF LookersFit
  <2>3. /\ results' = [results EXCEPT ![k] = IF @ > Kept THEN Kept ELSE @]
        /\ unpruned' = [unpruned EXCEPT ![k] = 0]
    BY <1>9, <2>2 DEF M!_forget_old
  <2>4. results[k] \in Nat /\ Kept \in Nat
    BY <1>b DEF WatchAssumption
  <2>5. /\ results'[k] = (IF results[k] > Kept THEN Kept ELSE results[k])
        /\ results' \in [Checks -> Nat] /\ unpruned' \in [Checks -> Nat]
        /\ \A j \in Checks \ {k} : results'[j] = results[j] /\ unpruned'[j] = unpruned[j]
    BY <1>b, <2>3, <2>4
  <2>6. results'[k] <= results[k] /\ results'[k] <= Kept
    BY <2>4, <2>5
  <2> QED
    BY <1>d, <2>1, <2>2, <2>5, <2>6
<1>10. ASSUME UNCHANGED M!watchVars PROVE WatchInv'
  <2>1. UNCHANGED <<checks, results, list, looker, looks, lost, unpruned>>
    BY <1>10 DEF M!watchVars
  <2>2. WatchTyped' /\ LookersFit' /\ InList'
    BY <1>a, <2>1 DEF WatchTyped, LookersFit, InList, Entries, M!States
  <2>3. Getting' = Getting /\ \A j \in Checks : Pruning(j)' = Pruning(j)
    BY <2>1 DEF Getting, Pruning
  <2> QED
    BY <2>1, <2>2, <2>3, LooksStay
<1> QED
  BY <1>1, <1>2, <1>3, <1>4, <1>5, <1>6, <1>7, <1>8, <1>9, <1>10, PlatformRestarts, LookIsKept DEF M!Next

(* HistoryIsBounded: beyond the results kept of a check there is one at    *)
(* most for every look that has still to forget the old ones, or was cut   *)
(* off before it could (monitoring/service.py run_check, _forget_old).     *)
THEOREM HistoryStaysShort ==
  ASSUME WatchAssumption
  PROVE  M!Spec => [](M!TypeOK /\ M!HistoryIsBounded)
<1>1. WatchInv => M!TypeOK /\ M!HistoryIsBounded
  <2> SUFFICES ASSUME WatchInv PROVE M!TypeOK /\ M!HistoryIsBounded
    OBVIOUS
  <2>1. WatchTyped /\ LookersFit /\ InList /\ Looked /\ Bounded
    BY DEF WatchInv
  <2>2. M!HistoryIsBounded
    BY <2>1, MonitoringCountsAlike DEF M!HistoryIsBounded, Bounded, Pruning
  <2>3. ASSUME NEW k \in Checks PROVE results[k] \in 0..MaxLooks
    <3>1. results[k] \in Nat /\ looks \in 0..MaxLooks /\ results[k] + Cardinality(Getting) <= looks
      BY <2>1 DEF WatchTyped, Looked
    <3>2. Cardinality(Getting) \in Nat /\ MaxLooks \in Nat
      BY LookersAreFinite DEF WatchAssumption
    <3> QED
      BY <3>1, <3>2
  <2>4. \A i \in DOMAIN list : list[i].check \in Checks
    <3>1. \A i \in DOMAIN list : list[i] \in Entries
      BY <2>1, ListEntries DEF InList
    <3> QED
      BY <3>1 DEF Entries
  <2>5. results \in [Checks -> 0..MaxLooks]
    BY <2>1, <2>3 DEF WatchTyped
  <2> QED
    BY <2>1, <2>2, <2>4, <2>5 DEF M!TypeOK, WatchTyped, LookersFit
<1>2. M!Init => WatchInv
  BY WatchInit
<1>3. WatchInv /\ [M!Next]_M!watchVars => WatchInv'
  BY WatchNext
<1> QED
  BY <1>1, <1>2, <1>3, PTL DEF M!Spec

-----------------------------------------------------------------------------
(* Managed databases.                                                      *)

Creating == {"role", "database", "keep"}
Rotating == {"alter", "store"}
Dropping == {"drop", "drop_role", "forget"}
Halfway  == {"drop_role", "forget"}

\* What a request that is alone with its database may rely on.
AloneFits(q, recs, logins, held) ==
    /\ q.at \in {"database", "keep", "store"} => logins[q.db] = q.password
    /\ q.at = "keep" => q.db \in held
    /\ q.at \in Rotating => recs[q.db] # NoPassword
    /\ q.at \in Halfway => q.db \notin held
    /\ q.at = "forget" => logins[q.db] = NoPassword
OrderFits(q, recs, known) ==
    /\ q.at \in Creating \union Rotating \union Dropping \union {"free"}
    /\ "at" \in DOMAIN q /\ (q.at # "free" => q.db \in known /\ "met" \in DOMAIN q)
    /\ q.at \in Creating \union Rotating => q.password \in 0..MaxPasswords
    /\ q.at \in Creating => ~q.met /\ recs[q.db] = NoPassword
OrdersFit == /\ DOMAIN order = Owners
             /\ \A c \in Owners : /\ OrderFits(order[c], record, born)
                                  /\ order[c].at # "free" /\ ~order[c].met
                                     => AloneFits(order[c], record, role, holds)
\* Who met nobody has the database to itself.
Alone == \A c, d \in Owners :
    order[c].at # "free" /\ order[d].at # "free" /\ order[c].db = order[d].db /\ ~order[c].met => c = d

\* A record without its database is about to go, or something was broken off.
HalfGone == \A d \in Dbs : record[d] # NoPassword /\ d \notin holds =>
    breaks > 0 \/ \E c \in Owners : order[c].at \in Halfway /\ order[c].db = d
SoleAtRest == \A d \in sole : \A c \in Owners : order[c].at # "free" => order[c].db # d
UnusedIsNew == \A d \in Dbs \ born : record[d] = NoPassword

\* What PasswordOpens asks of one database.
Opens(recs, logins, held, broken, d) ==
    IF recs[d] # NoPassword THEN logins[d] = recs[d] /\ (d \in held \/ broken > 0)
    ELSE d \notin held /\ logins[d] = NoPassword
SoleOpens == \A d \in sole : Opens(record, role, holds, breaks, d)

DatabasesInv ==
    /\ D!TypeOK /\ made \in 0..MaxPasswords /\ breaks \in Nat
    /\ OrdersFit /\ Alone /\ HalfGone /\ SoleAtRest /\ UnusedIsNew /\ SoleOpens

LEMMA DatabasesInit == DatabasesAssumption /\ D!Init => DatabasesInv
<1> SUFFICES ASSUME DatabasesAssumption, D!Init PROVE DatabasesInv
  OBVIOUS
<1>1. /\ record = [d \in Dbs |-> NoPassword] /\ role = [d \in Dbs |-> NoPassword]
      /\ holds = {} /\ born = {} /\ sole = {} /\ made = 0 /\ breaks = 0
      /\ order = [c \in Owners |-> [at |-> "free"]]
  BY DEF D!Init
<1>2. \A c \in Owners : order[c].at = "free"
  BY <1>1
<1>3. D!TypeOK
  BY <1>1 DEF D!TypeOK, D!DatabaseRows
<1>4. OrdersFit
  BY <1>1, <1>2 DEF OrdersFit, OrderFits, Creating, Rotating, Dropping
<1> QED
  BY <1>1, <1>2, <1>3, <1>4
  DEF DatabasesAssumption, DatabasesInv, Alone, HalfGone, SoleAtRest, UnusedIsNew, SoleOpens

LEMMA OrderMoves ==
  ASSUME DOMAIN order = Owners, NEW c \in Owners, NEW q, order' = [order EXCEPT ![c] = q]
  PROVE  /\ DOMAIN order' = Owners /\ order'[c] = q
         /\ \A e \in Owners \ {c} : order'[e] = order[e]
  OBVIOUS

\* A field that says whether something is so.
LEMMA FieldTells ==
  ASSUME NEW a, NEW d, NEW p, NEW b \in BOOLEAN, NEW q,
         q = [at |-> a, db |-> d, password |-> p, met |-> b]
  PROVE  /\ q.at = a /\ q.db = d /\ q.password = p /\ (q.met <=> b)
         /\ DOMAIN q = {"at", "db", "password", "met"}
  OBVIOUS

LEMMA FieldIsSet ==
  ASSUME NEW q, "met" \in DOMAIN q, "at" \in DOMAIN q
  PROVE  LET r == [q EXCEPT !.met = TRUE]
         IN  r.at = q.at /\ r.db = q.db /\ r.password = q.password /\ r.met /\ DOMAIN r = DOMAIN q
  OBVIOUS

\* Who comes to a database where somebody is has met them, and they have met it.
LEMMA EnterMoves ==
  ASSUME OrdersFit, NEW c \in Owners, NEW d, NEW step, NEW secret, D!Enter(c, d, step, secret)
  PROVE  /\ DOMAIN order' = Owners /\ order[c].at = "free" /\ sole' = sole \ {d}
         /\ order'[c].at = step /\ order'[c].db = d /\ order'[c].password = secret
         /\ {"at", "met"} \subseteq DOMAIN order'[c]
         /\ order'[c].met <=> D!With(d) # {}
         /\ \A e \in Owners \ {c} :
               /\ e \notin D!With(d) => order'[e] = order[e]
               /\ e \in D!With(d) => /\ order'[e].at = order[e].at /\ order'[e].db = order[e].db
                                     /\ order'[e].password = order[e].password /\ order'[e].met
                                     /\ {"at", "met"} \subseteq DOMAIN order'[e]
<1> DEFINE b == D!With(d) # {}
<1>1. /\ order[c].at = "free" /\ sole' = sole \ {d}
      /\ order' = [e \in Owners |->
            IF e = c THEN [at |-> step, db |-> d, password |-> secret, met |-> b]
            ELSE IF e \in D!With(d) THEN [order[e] EXCEPT !.met = TRUE] ELSE order[e]]
  BY DEF D!Enter, D!Is
<1>2. b \in BOOLEAN
  OBVIOUS
<1> HIDE DEF b
<1>3. order'[c] = [at |-> step, db |-> d, password |-> secret, met |-> b]
  BY <1>1, Zenon
<1>4. /\ order'[c].at = step /\ order'[c].db = d /\ order'[c].password = secret
      /\ (order'[c].met <=> b) /\ DOMAIN order'[c] = {"at", "db", "password", "met"}
  BY <1>2, <1>3, FieldTells
<1>5. \A e \in Owners \ {c} : order'[e] = IF e \in D!With(d) THEN [order[e] EXCEPT !.met = TRUE] ELSE order[e]
  BY <1>1, Zenon
<1>6. DOMAIN order' = Owners
  BY <1>1, Zenon
<1>7. ASSUME NEW e \in Owners \ {c}, e \in D!With(d)
      PROVE  /\ order'[e].at = order[e].at /\ order'[e].db = order[e].db
             /\ order'[e].password = order[e].password /\ order'[e].met
             /\ {"at", "met"} \subseteq DOMAIN order'[e]
  <2>1. order'[e] = [order[e] EXCEPT !.met = TRUE]
    BY <1>5, <1>7
  <2>2. "met" \in DOMAIN order[e] /\ "at" \in DOMAIN order[e]
    BY <1>7 DEF OrdersFit, OrderFits, D!With, D!Is
  <2>3. /\ order'[e].at = order[e].at /\ order'[e].db = order[e].db
        /\ order'[e].password = order[e].password /\ order'[e].met /\ DOMAIN order'[e] = DOMAIN order[e]
    BY <2>1, <2>2, FieldIsSet, Zenon
  <2> QED
    BY <2>2, <2>3
<1>8. \A e \in Owners \ {c} : e \notin D!With(d) => order'[e] = order[e]
  BY <1>5, Zenon
<1> QED
  BY <1>1, <1>4, <1>6, <1>7, <1>8 DEF b

\* A request that enters leaves everything as it should be.
LEMMA EnterKeeps ==
  ASSUME DatabasesAssumption, DatabasesInv, NEW c \in Owners, NEW d \in Dbs, NEW step, NEW secret,
         D!Enter(c, d, step, secret), UNCHANGED <<record, role, holds, breaks>>,
         born' = born \union {d}, made' \in 0..MaxPasswords,
         step \in {"role", "alter", "drop"},
         step = "role" => d \notin born,
         step # "role" => record[d] # NoPassword,
         step # "drop" => secret \in 0..MaxPasswords
  PROVE  DatabasesInv'
<1>1. /\ D!TypeOK /\ breaks \in Nat /\ OrdersFit /\ Alone /\ HalfGone /\ SoleAtRest /\ UnusedIsNew /\ SoleOpens
  BY DEF DatabasesInv
<1>2. /\ record' = record /\ role' = role /\ holds' = holds /\ breaks' = breaks
  OBVIOUS
<1>3. /\ DOMAIN order' = Owners /\ order[c].at = "free" /\ sole' = sole \ {d}
      /\ order'[c].at = step /\ order'[c].db = d /\ order'[c].password = secret
      /\ {"at", "met"} \subseteq DOMAIN order'[c]
      /\ order'[c].met <=> D!With(d) # {}
      /\ \A e \in Owners \ {c} :
            /\ e \notin D!With(d) => order'[e] = order[e]
            /\ e \in D!With(d) => /\ order'[e].at = order[e].at /\ order'[e].db = order[e].db
                                  /\ order'[e].password = order[e].password /\ order'[e].met
                                  /\ {"at", "met"} \subseteq DOMAIN order'[e]
  BY <1>1, EnterMoves
<1>4. \A e \in Owners : e \in D!With(d) <=> order[e].at # "free" /\ order[e].db = d
  BY DEF D!With, D!Is, D!Its
<1>5. \A e \in Owners : OrderFits(order[e], record, born)
  BY <1>1 DEF OrdersFit
<1>6. D!With(d) # {} => d \in born
  BY <1>4, <1>5 DEF OrderFits, D!With
<1>7. \A e \in Owners \ {c} : order'[e].at = order[e].at /\ (order[e].at # "free" => order'[e].db = order[e].db)
  BY <1>3
<1>8. D!TypeOK'
  BY <1>1, <1>2, <1>3 DEF D!TypeOK, D!DatabaseRows
<1>9. OrderFits(order'[c], record, born') /\ (~order'[c].met => AloneFits(order'[c], record, role, holds))
  <2>1. step = "role" => ~order'[c].met /\ record[d] = NoPassword
    BY <1>1, <1>3, <1>6 DEF UnusedIsNew
  <2>2. step \in Creating => step = "role"
    BY DEF Creating
  <2>3. step \in Creating \union Rotating => step # "drop"
    BY DEF Creating, Rotating
  <2>4. step \in Creating \union Rotating \union Dropping
    BY DEF Creating, Rotating, Dropping
  <2>5. OrderFits(order'[c], record, born')
    BY <1>3, <2>1, <2>2, <2>3, <2>4 DEF OrderFits
  <2>6. step \notin {"database", "keep", "store"} /\ step \notin Halfway /\ (step \in Rotating => step # "role")
    BY DEF Halfway, Rotating
  <2> QED
    BY <1>3, <2>5, <2>6 DEF AloneFits
<1>10. ASSUME NEW e \in Owners \ {c}
       PROVE  /\ OrderFits(order'[e], record, born')
              /\ order'[e].at # "free" /\ ~order'[e].met => AloneFits(order'[e], record, role, holds)
  <2>1. CASE e \in D!With(d)
    <3>1. order[e].at \notin Creating
      BY <1>4, <1>5, <1>6, <2>1 DEF OrderFits
    <3> QED
      BY <1>3, <1>4, <1>5, <2>1, <3>1 DEF OrderFits
  <2>2. CASE e \notin D!With(d)
    BY <1>1, <1>3, <1>5, <2>2 DEF OrdersFit, OrderFits
  <2> QED
    BY <2>1, <2>2
<1>11. OrdersFit'
  <2>1. ASSUME NEW e \in Owners
        PROVE  /\ OrderFits(order'[e], record, born')
               /\ order'[e].at # "free" /\ ~order'[e].met => AloneFits(order'[e], record, role, holds)
    BY <1>9, <1>10
  <2>2. ASSUME NEW e \in Owners
        PROVE  /\ OrderFits(order'[e], record', born')
               /\ order'[e].at # "free" /\ ~order'[e].met => AloneFits(order'[e], record', role', holds')
    BY <1>2, <2>1, Zenon
  <2> QED
    BY <1>3, <2>2 DEF OrdersFit
<1>12. Alone'
  <2>1. SUFFICES ASSUME NEW e \in Owners, NEW f \in Owners, order'[e].at # "free", order'[f].at # "free",
                        order'[e].db = order'[f].db, ~order'[e].met
                 PROVE  e = f
    BY DEF Alone
  <2>2. CASE e = c
    BY <1>3, <1>4, <1>7, <2>1, <2>2
  <2>3. CASE e # c /\ f = c
    BY <1>3, <1>4, <1>7, <2>1, <2>3
  <2>4. CASE e # c /\ f # c
    BY <1>1, <1>3, <1>7, <2>1, <2>4 DEF Alone
  <2> QED
    BY <2>2, <2>3, <2>4
<1>13. HalfGone'
  <2>1. ASSUME NEW e \in Owners, order[e].at \in Halfway
        PROVE  order'[e].at = order[e].at /\ order'[e].db = order[e].db
    <3>1. order[e].at # "free"
      BY <2>1 DEF Halfway
    <3> QED
      BY <1>3, <1>7, <3>1
  <2> QED
    BY <1>1, <1>2, <2>1 DEF HalfGone
<1>14. SoleAtRest'
  BY <1>1, <1>3, <1>7 DEF SoleAtRest
<1>15. UnusedIsNew' /\ SoleOpens'
  BY <1>1, <1>2, <1>3 DEF UnusedIsNew, SoleOpens
<1> QED
  BY <1>1, <1>2, <1>8, <1>11, <1>12, <1>13, <1>14, <1>15 DEF DatabasesInv

\* A request that goes on, or ends, and touches its own database at most.
LEMMA StepKeeps ==
  ASSUME DatabasesAssumption, DatabasesInv, NEW c \in Owners, order[c].at # "free",
         NEW d \in Dbs, order[c].db = d, NEW q, order' = [order EXCEPT ![c] = q],
         q.at = "free" \/ (q.db = d /\ (q.met <=> order[c].met)),
         born' = born, made' = made, breaks' \in Nat, breaks' >= breaks, D!TypeOK',
         \A x \in Dbs \ {d} : record'[x] = record[x] /\ role'[x] = role[x] /\ (x \in holds' <=> x \in holds),
         OrderFits(q, record', born),
         q.at # "free" /\ ~q.met => AloneFits(q, record', role', holds'),
         record'[d] # NoPassword /\ d \notin holds' =>
            \/ breaks' > 0 \/ q.at \in Halfway
            \/ record[d] # NoPassword /\ d \notin holds /\ order[c].at \notin Halfway,
         sole' \subseteq sole \union {d},
         d \in sole' => q.at = "free" /\ D!With(d) = {c} /\ Opens(record', role', holds', breaks', d)
  PROVE  DatabasesInv'
<1>1. /\ D!TypeOK /\ made \in 0..MaxPasswords /\ breaks \in Nat
      /\ OrdersFit /\ Alone /\ HalfGone /\ SoleAtRest /\ UnusedIsNew /\ SoleOpens
  BY DEF DatabasesInv
<1>2. DOMAIN order' = Owners /\ order'[c] = q /\ \A e \in Owners \ {c} : order'[e] = order[e]
  BY <1>1, OrderMoves DEF OrdersFit
<1>3. \A e \in Owners : OrderFits(order[e], record, born)
  BY <1>1 DEF OrdersFit
<1>4. born \subseteq Dbs /\ d \in born
  BY <1>1, <1>3 DEF OrderFits, D!TypeOK
<1>5. OrdersFit'
  <2>1. ASSUME NEW e \in Owners
        PROVE  /\ OrderFits(order'[e], record', born)
               /\ order'[e].at # "free" /\ ~order'[e].met => AloneFits(order'[e], record', role', holds')
    <3>1. CASE e = c
      BY <1>2, <3>1, Zenon
    <3>2. CASE e # c /\ order[e].at = "free"
      <4>1. "free" \notin Creating /\ "free" \notin Rotating
        BY DEF Creating, Rotating
      <4>2. OrderFits(order[e], record', born)
        BY <1>3, <3>2, <4>1 DEF OrderFits
      <4> QED
        BY <1>2, <3>2, <4>2
    <3>3. CASE e # c /\ order[e].at # "free" /\ order[e].db = d
      <4>1. order[e].met
        BY <1>1, <3>3 DEF Alone
      <4>2. OrderFits(order[e], record', born)
        BY <1>3, <4>1 DEF OrderFits
      <4> QED
        BY <1>2, <3>3, <4>1, <4>2
    <3>4. CASE e # c /\ order[e].at # "free" /\ order[e].db # d
      <4>1. order[e].db \in Dbs \ {d}
        BY <1>3, <1>4, <3>4 DEF OrderFits
      <4>2. OrderFits(order[e], record', born)
        BY <1>3, <4>1 DEF OrderFits
      <4>3. ~order[e].met => AloneFits(order[e], record, role, holds)
        BY <1>1, <3>4 DEF OrdersFit
      <4>4. ~order[e].met => AloneFits(order[e], record', role', holds')
        BY <4>1, <4>3 DEF AloneFits
      <4> QED
        BY <1>2, <3>4, <4>2, <4>4
    <3> QED
      BY <3>1, <3>2, <3>3, <3>4
  <2> QED
    BY <1>2, <2>1 DEF OrdersFit
<1>6. Alone'
  <2>1. SUFFICES ASSUME NEW e \in Owners, NEW f \in Owners, order'[e].at # "free", order'[f].at # "free",
                        order'[e].db = order'[f].db, ~order'[e].met
                 PROVE  e = f
    BY DEF Alone
  <2>2. ASSUME NEW g \in Owners, order'[g].at # "free"
        PROVE  order[g].at # "free" /\ order'[g].db = order[g].db /\ (order'[g].met <=> order[g].met)
    BY <1>2, <2>2
  <2> QED
    BY <1>1, <2>1, <2>2 DEF Alone
<1>7. HalfGone'
  <2>1. SUFFICES ASSUME NEW x \in Dbs, record'[x] # NoPassword, x \notin holds', ~(breaks' > 0)
                 PROVE  \E e \in Owners : order'[e].at \in Halfway /\ order'[e].db = x
    BY DEF HalfGone
  <2>2. ~(breaks > 0)
    BY <1>1, <2>1
  <2>3. CASE x # d
    <3>1. PICK e \in Owners : order[e].at \in Halfway /\ order[e].db = x
      BY <1>1, <2>1, <2>2, <2>3 DEF HalfGone
    <3> QED
      BY <1>2, <2>3, <3>1
  <2>4. CASE x = d /\ q.at \in Halfway
    <3>1. q.db = d
      BY <2>4 DEF Halfway
    <3> QED
      BY <1>2, <2>4, <3>1
  <2>5. CASE x = d /\ q.at \notin Halfway
    <3>1. record[d] # NoPassword /\ d \notin holds /\ order[c].at \notin Halfway
      BY <2>1, <2>5
    <3>2. PICK e \in Owners : order[e].at \in Halfway /\ order[e].db = d
      BY <1>1, <2>2, <3>1 DEF HalfGone
    <3> QED
      BY <1>2, <2>5, <3>1, <3>2
  <2> QED
    BY <2>3, <2>4, <2>5
<1>8. SoleAtRest'
  <2>1. SUFFICES ASSUME NEW x \in sole', NEW e \in Owners, order'[e].at # "free" PROVE order'[e].db # x
    BY DEF SoleAtRest
  <2>2. CASE x = d
    <3>1. q.at = "free" /\ D!With(d) = {c}
      BY <2>2
    <3>2. e # c
      BY <1>2, <2>1, <3>1
    <3>3. e \notin D!With(d)
      BY <3>1, <3>2
    <3> QED
      BY <1>2, <2>1, <2>2, <3>2, <3>3 DEF D!With, D!Is, D!Its
  <2>3. CASE x # d
    BY <1>1, <1>2, <2>1, <2>3 DEF SoleAtRest
  <2> QED
    BY <2>2, <2>3
<1>9. UnusedIsNew'
  BY <1>1, <1>4 DEF UnusedIsNew
<1>10. SoleOpens'
  <2>1. SUFFICES ASSUME NEW x \in sole' PROVE Opens(record', role', holds', breaks', x)
    BY DEF SoleOpens
  <2>2. CASE x # d
    <3>1. x \in Dbs \ {d} /\ x \in sole
      BY <1>1, <2>2 DEF D!TypeOK
    <3>2. Opens(record, role, holds, breaks, x)
      BY <1>1, <3>1 DEF SoleOpens
    <3> QED
      BY <1>1, <3>1, <3>2 DEF Opens
  <2> QED
    BY <2>2
<1> QED
  BY <1>1, <1>5, <1>6, <1>7, <1>8, <1>9, <1>10 DEF DatabasesInv

\* What the invariant says of one request under way.
LEMMA OrderKnown ==
  ASSUME DatabasesAssumption, DatabasesInv, NEW c \in Owners, order[c].at # "free"
  PROVE  \E d \in Dbs :
            /\ order[c].db = d /\ D!Its(c) = d /\ d \in born /\ {"at", "met"} \subseteq DOMAIN order[c]
            /\ OrderFits(order[c], record, born)
            /\ ~order[c].met => AloneFits(order[c], record, role, holds)
<1>1. /\ OrderFits(order[c], record, born)
      /\ ~order[c].met => AloneFits(order[c], record, role, holds)
  BY DEF DatabasesInv, OrdersFit
<1> QED
  BY <1>1 DEF OrderFits, D!Its, DatabasesInv, D!TypeOK

LEMMA AtIsSet ==
  ASSUME NEW q, NEW s, "met" \in DOMAIN q, "at" \in DOMAIN q, NEW r, r = [q EXCEPT !.at = s]
  PROVE  r.at = s /\ r.db = q.db /\ r.password = q.password /\ (r.met <=> q.met) /\ DOMAIN r = DOMAIN q
  OBVIOUS

\* A request that goes on keeps what it carries; one that ends carries nothing.
LEMMA StepMoves ==
  ASSUME NEW c, NEW s, D!Step(c, s), c \in DOMAIN order, {"at", "met"} \subseteq DOMAIN order[c]
  PROVE  \E q : /\ order' = [order EXCEPT ![c] = q]
                /\ q.at = s /\ q.db = order[c].db /\ q.password = order[c].password
                /\ (q.met <=> order[c].met) /\ {"at", "met"} \subseteq DOMAIN q
<1>1. order' = [order EXCEPT ![c] = [order[c] EXCEPT !.at = s]]
  BY DEF D!Step
<1> DEFINE q == [order[c] EXCEPT !.at = s]
<1>2. /\ q.at = s /\ q.db = order[c].db /\ q.password = order[c].password
      /\ (q.met <=> order[c].met) /\ DOMAIN q = DOMAIN order[c]
  BY AtIsSet
<1> HIDE DEF q
<1>3. order' = [order EXCEPT ![c] = q]
  BY <1>1 DEF q
<1> QED
  BY <1>2, <1>3

LEMMA DoneMoves ==
  ASSUME NEW c, D!Done(c)
  PROVE  \E q : /\ order' = [order EXCEPT ![c] = q]
                /\ q.at = "free" /\ \A recs, known : OrderFits(q, recs, known)
<1> DEFINE q == [at |-> "free"]
<1>1. q.at = "free" /\ "at" \in DOMAIN q
  OBVIOUS
<1>2. order' = [order EXCEPT ![c] = q]
  BY DEF D!Done
<1> HIDE DEF q
<1>3. \A recs, known : OrderFits(q, recs, known)
  BY <1>1 DEF OrderFits, Creating, Rotating, Dropping
<1> QED
  BY <1>1, <1>2, <1>3

\* A request that is broken off.
LEMMA StopKeeps ==
  ASSUME DatabasesAssumption, DatabasesInv, NEW c \in Owners, order[c].at # "free", D!Done(c),
         D!Breaks \/ (breaks' = breaks /\ order[c].at \notin Halfway),
         UNCHANGED <<record, role, holds, born, sole, made>>
  PROVE  DatabasesInv'
<1>1. PICK d \in Dbs : order[c].db = d /\ d \in born
  BY OrderKnown
<1>2. PICK q : order' = [order EXCEPT ![c] = q] /\ q.at = "free" /\ \A recs, known : OrderFits(q, recs, known)
  BY DoneMoves
<1>3. /\ D!TypeOK /\ breaks \in Nat /\ SoleAtRest
  BY DEF DatabasesInv
<1>4. breaks' \in Nat /\ breaks' >= breaks /\ (breaks' > 0 \/ order[c].at \notin Halfway)
  BY <1>3 DEF D!Breaks
<1>5. D!TypeOK'
  BY <1>3 DEF D!TypeOK, D!DatabaseRows
<1>6. d \notin sole' /\ sole' = sole
  BY <1>1, <1>3 DEF SoleAtRest
<1> QED
  BY <1>1, <1>2, <1>4, <1>5, <1>6, StepKeeps

LEMMA CreateDatabaseKeeps ==
  ASSUME DatabasesAssumption, DatabasesInv, NEW c \in Owners, D!create_database(c)
  PROVE  DatabasesInv'
<1>1. /\ order[c].at \in {"role", "database"} /\ record' = record /\ born' = born
      /\ sole' = sole /\ made' = made
  BY DEF D!create_database, D!Is
<1>2. PICK d \in Dbs :
         /\ order[c].db = d /\ D!Its(c) = d /\ d \in born /\ {"at", "met"} \subseteq DOMAIN order[c]
         /\ OrderFits(order[c], record, born)
         /\ ~order[c].met => AloneFits(order[c], record, role, holds)
  BY <1>1, OrderKnown
<1>3. /\ D!TypeOK /\ breaks \in Nat /\ SoleAtRest /\ DOMAIN order = Owners
  BY DEF DatabasesInv, OrdersFit
<1>4. ~order[c].met /\ record[d] = NoPassword /\ order[c].password \in 0..MaxPasswords
  BY <1>1, <1>2 DEF OrderFits, Creating
<1>5. d \notin sole' /\ sole' \subseteq sole \union {d}
  BY <1>1, <1>2, <1>3 DEF SoleAtRest
<1>6. CASE /\ order[c].at = "role" /\ role' = [role EXCEPT ![d] = order[c].password] /\ holds' = holds
           /\ D!Step(c, "database") /\ breaks' = breaks
  <2>1. PICK q : /\ order' = [order EXCEPT ![c] = q]
                 /\ q.at = "database" /\ q.db = order[c].db /\ q.password = order[c].password
                 /\ (q.met <=> order[c].met) /\ {"at", "met"} \subseteq DOMAIN q
    BY <1>2, <1>3, <1>6, StepMoves
  <2>2. D!TypeOK'
    BY <1>1, <1>3, <1>4, <1>6 DEF D!TypeOK, D!DatabaseRows
  <2>3. OrderFits(q, record', born)
    BY <1>1, <1>2, <1>4, <2>1 DEF OrderFits, Creating
  <2>4. AloneFits(q, record', role', holds')
    BY <1>2, <1>3, <1>6, <2>1 DEF AloneFits, Rotating, Halfway, D!TypeOK
  <2>5. /\ \A x \in Dbs \ {d} : record'[x] = record[x] /\ role'[x] = role[x] /\ (x \in holds' <=> x \in holds)
        /\ breaks' \in Nat /\ breaks' >= breaks /\ record'[d] = NoPassword /\ order[c].at # "free"
    BY <1>1, <1>3, <1>4, <1>6 DEF D!TypeOK
  <2> QED
    BY <1>1, <1>2, <1>5, <2>1, <2>2, <2>3, <2>4, <2>5, StepKeeps
<1>7. CASE /\ order[c].at = "database" /\ role' = role /\ holds' = holds \union {d}
           /\ D!Step(c, "keep") /\ breaks' = breaks
  <2>1. PICK q : /\ order' = [order EXCEPT ![c] = q]
                 /\ q.at = "keep" /\ q.db = order[c].db /\ q.password = order[c].password
                 /\ (q.met <=> order[c].met) /\ {"at", "met"} \subseteq DOMAIN q
    BY <1>2, <1>3, <1>7, StepMoves
  <2>2. D!TypeOK'
    BY <1>1, <1>2, <1>3, <1>7 DEF D!TypeOK, D!DatabaseRows
  <2>3. OrderFits(q, record', born)
    BY <1>1, <1>2, <1>4, <2>1 DEF OrderFits, Creating
  <2>4. AloneFits(q, record', role', holds')
    BY <1>2, <1>4, <1>7, <2>1 DEF AloneFits, Rotating, Halfway
  <2>5. /\ \A x \in Dbs \ {d} : record'[x] = record[x] /\ role'[x] = role[x] /\ (x \in holds' <=> x \in holds)
        /\ breaks' \in Nat /\ breaks' >= breaks /\ record'[d] = NoPassword /\ order[c].at # "free"
    BY <1>1, <1>3, <1>4, <1>7 DEF D!TypeOK
  <2> QED
    BY <1>1, <1>2, <1>5, <2>1, <2>2, <2>3, <2>4, <2>5, StepKeeps
<1>8. CASE D!Breaks /\ D!Done(c) /\ role' = role /\ holds' = holds
  BY <1>1, <1>8, StopKeeps
<1> QED
  BY <1>1, <1>2, <1>6, <1>7, <1>8 DEF D!create_database, D!Is, D!server

\* A request that ends having done what it came for; sole tells whether alone.
LEMMA EndKeeps ==
  ASSUME DatabasesAssumption, DatabasesInv, NEW c \in Owners, order[c].at # "free", D!Done(c), D!Counted(c),
         UNCHANGED <<role, holds, born, made, breaks>>, record' \in D!DatabaseRows,
         NEW d \in Dbs, order[c].db = d, \A x \in Dbs \ {d} : record'[x] = record[x],
         record'[d] # NoPassword => (record[d] # NoPassword /\ order[c].at \notin Halfway) \/ d \in holds,
         D!With(d) = {c} /\ ~order[c].met => Opens(record', role, holds, breaks, d)
  PROVE  DatabasesInv'
<1>1. PICK q : order' = [order EXCEPT ![c] = q] /\ q.at = "free" /\ \A recs, known : OrderFits(q, recs, known)
  BY DoneMoves
<1>2. D!Its(c) = d /\ d \in born
  BY OrderKnown
<1>3. /\ D!TypeOK /\ breaks \in Nat
  BY DEF DatabasesInv
<1>4. /\ role' = role /\ holds' = holds /\ breaks' = breaks /\ born' = born /\ made' = made
  OBVIOUS
<1>5. sole' \subseteq sole \union {d} /\ (d \in sole' => D!With(d) = {c} /\ ~order[c].met)
  BY <1>2 DEF D!Counted, D!ByItself
<1>6. D!TypeOK'
  BY <1>2, <1>3, <1>4, <1>5 DEF D!TypeOK
<1>7. d \in sole' => Opens(record', role', holds', breaks', d)
  BY <1>4, <1>5, Zenon
<1>8. /\ breaks' \in Nat /\ breaks' >= breaks
      /\ \A x \in Dbs \ {d} : record'[x] = record[x] /\ role'[x] = role[x] /\ (x \in holds' <=> x \in holds)
      /\ record'[d] # NoPassword /\ d \notin holds' =>
            record[d] # NoPassword /\ d \notin holds /\ order[c].at \notin Halfway
  BY <1>3, <1>4
<1> QED
  BY <1>1, <1>4, <1>5, <1>6, <1>7, <1>8, StepKeeps

LEMMA KeepKeeps ==
  ASSUME DatabasesAssumption, DatabasesInv, NEW c \in Owners, D!keep(c)
  PROVE  DatabasesInv'
<1>1. /\ order[c].at = "keep" /\ D!Done(c) /\ D!Counted(c)
      /\ record' = [record EXCEPT ![D!Its(c)] = order[c].password]
      /\ role' = role /\ holds' = holds /\ born' = born /\ made' = made /\ breaks' = breaks
  BY DEF D!keep, D!Is, D!server, D!counts
<1>2. PICK d \in Dbs :
         /\ order[c].db = d /\ D!Its(c) = d /\ d \in born
         /\ OrderFits(order[c], record, born)
         /\ ~order[c].met => AloneFits(order[c], record, role, holds)
  BY <1>1, OrderKnown
<1>3. order[c].password \in 0..MaxPasswords /\ role[d] = order[c].password /\ d \in holds
  BY <1>1, <1>2 DEF OrderFits, AloneFits, Creating
<1>4. record \in D!DatabaseRows
  BY DEF DatabasesInv, D!TypeOK
<1>5. /\ record' \in D!DatabaseRows /\ record'[d] = order[c].password
      /\ \A x \in Dbs \ {d} : record'[x] = record[x]
  BY <1>1, <1>2, <1>3, <1>4 DEF D!DatabaseRows
<1>6. Opens(record', role, holds, breaks, d)
  BY <1>3, <1>5 DEF Opens, DatabasesAssumption
<1> QED
  BY <1>1, <1>2, <1>3, <1>5, <1>6, EndKeeps

LEMMA SetPasswordKeeps ==
  ASSUME DatabasesAssumption, DatabasesInv, NEW c \in Owners, D!set_password(c)
  PROVE  DatabasesInv'
<1>1. /\ order[c].at = "alter" /\ record' = record /\ holds' = holds /\ born' = born /\ made' = made
  BY DEF D!set_password, D!Is
<1>2. PICK d \in Dbs :
         /\ order[c].db = d /\ D!Its(c) = d /\ d \in born /\ {"at", "met"} \subseteq DOMAIN order[c]
         /\ OrderFits(order[c], record, born)
         /\ ~order[c].met => AloneFits(order[c], record, role, holds)
  BY <1>1, OrderKnown
<1>3. /\ D!TypeOK /\ breaks \in Nat /\ SoleAtRest /\ DOMAIN order = Owners
  BY DEF DatabasesInv, OrdersFit
<1>4. order[c].at \notin Halfway /\ order[c].at # "free" /\ order[c].at \in Rotating
  BY <1>1 DEF Halfway, Rotating
<1>5. CASE role' = [role EXCEPT ![d] = order[c].password] /\ D!Step(c, "store") /\ sole' = sole /\ breaks' = breaks
  <2>1. PICK q : /\ order' = [order EXCEPT ![c] = q]
                 /\ q.at = "store" /\ q.db = order[c].db /\ q.password = order[c].password
                 /\ (q.met <=> order[c].met) /\ {"at", "met"} \subseteq DOMAIN q
    BY <1>2, <1>3, <1>5, StepMoves
  <2>2. order[c].password \in 0..MaxPasswords
    BY <1>2, <1>4 DEF OrderFits
  <2>3. D!TypeOK'
    BY <1>1, <1>3, <1>5, <2>2 DEF D!TypeOK, D!DatabaseRows
  <2>4. OrderFits(q, record', born)
    BY <1>1, <1>2, <2>1, <2>2 DEF OrderFits, Creating, Rotating
  <2>5. q.at # "free" /\ ~q.met => AloneFits(q, record', role', holds')
    <3>1. ~order[c].met => record[d] # NoPassword
      BY <1>2, <1>4 DEF AloneFits
    <3>2. role'[d] = order[c].password
      BY <1>3, <1>5 DEF D!TypeOK
    <3>3. q.at \notin Halfway
      BY <2>1 DEF Halfway
    <3> QED
      BY <1>1, <1>2, <2>1, <3>1, <3>2, <3>3 DEF AloneFits
  <2>6. d \notin sole' /\ sole' \subseteq sole \union {d}
    BY <1>2, <1>3, <1>4, <1>5 DEF SoleAtRest
  <2>7. /\ \A x \in Dbs \ {d} : record'[x] = record[x] /\ role'[x] = role[x] /\ (x \in holds' <=> x \in holds)
        /\ breaks' \in Nat /\ breaks' >= breaks
        /\ record'[d] # NoPassword /\ d \notin holds' => record[d] # NoPassword /\ d \notin holds
    BY <1>1, <1>3, <1>5 DEF D!TypeOK
  <2> QED
    BY <1>1, <1>2, <1>4, <2>1, <2>3, <2>4, <2>5, <2>6, <2>7, StepKeeps
<1>6. CASE D!Done(c) /\ role' = role /\ sole' = sole /\ (breaks' = breaks \/ D!Breaks)
  BY <1>1, <1>4, <1>6, StopKeeps
<1> QED
  BY <1>2, <1>5, <1>6 DEF D!set_password

\* What stands on the server when the record is written is what it says.
LEMMA StoreKeeps ==
  ASSUME DatabasesAssumption, DatabasesInv, NEW c \in Owners, D!store(c)
  PROVE  DatabasesInv'
<1>1. /\ order[c].at = "store" /\ D!Done(c) /\ D!Counted(c)
      /\ record' = IF ~D!There(D!Its(c)) THEN record ELSE [record EXCEPT ![D!Its(c)] = order[c].password]
      /\ role' = role /\ holds' = holds /\ born' = born /\ made' = made /\ breaks' = breaks
  BY DEF D!store, D!Is, D!server, D!counts
<1>2. PICK d \in Dbs :
         /\ order[c].db = d /\ D!Its(c) = d /\ d \in born
         /\ OrderFits(order[c], record, born)
         /\ ~order[c].met => AloneFits(order[c], record, role, holds)
  BY <1>1, OrderKnown
<1>3. order[c].at \in Rotating /\ order[c].at \notin Halfway /\ order[c].at # "free"
  BY <1>1 DEF Rotating, Halfway
<1>4. order[c].password \in 0..MaxPasswords
  BY <1>2, <1>3 DEF OrderFits
<1>5. record \in D!DatabaseRows /\ HalfGone
  BY DEF DatabasesInv, D!TypeOK
<1>6. /\ record' \in D!DatabaseRows /\ \A x \in Dbs \ {d} : record'[x] = record[x]
      /\ record[d] = NoPassword => record'[d] = NoPassword
      /\ record[d] # NoPassword => record'[d] = order[c].password
  BY <1>1, <1>2, <1>4, <1>5 DEF D!There, D!DatabaseRows
<1>7. ASSUME D!With(d) = {c}, ~order[c].met PROVE Opens(record', role, holds, breaks, d)
  <2>1. record[d] # NoPassword /\ role[d] = order[c].password
    BY <1>1, <1>2, <1>3, <1>7 DEF AloneFits
  <2>2. d \in holds \/ breaks > 0
    <3>1. SUFFICES ASSUME d \notin holds, ~(breaks > 0) PROVE FALSE
      OBVIOUS
    <3>2. PICK e \in Owners : order[e].at \in Halfway /\ order[e].db = d
      BY <1>5, <2>1, <3>1 DEF HalfGone
    <3>3. e \in D!With(d)
      BY <3>2 DEF Halfway, D!With, D!Is, D!Its
    <3> QED
      BY <1>3, <1>7, <3>2, <3>3
  <2> QED
    BY <1>4, <1>6, <2>1, <2>2 DEF Opens, DatabasesAssumption
<1> QED
  BY <1>1, <1>2, <1>3, <1>6, <1>7, EndKeeps

LEMMA DropKeeps ==
  ASSUME DatabasesAssumption, DatabasesInv, NEW c \in Owners, D!drop_database(c)
  PROVE  DatabasesInv'
<1>1. /\ order[c].at \in {"drop", "drop_role"} /\ record' = record /\ born' = born
      /\ sole' = sole /\ made' = made /\ breaks' = breaks
  BY DEF D!drop_database, D!Is, D!counts
<1>2. PICK d \in Dbs :
         /\ order[c].db = d /\ D!Its(c) = d /\ d \in born /\ {"at", "met"} \subseteq DOMAIN order[c]
         /\ OrderFits(order[c], record, born)
         /\ ~order[c].met => AloneFits(order[c], record, role, holds)
  BY <1>1, OrderKnown
<1>3. /\ D!TypeOK /\ breaks \in Nat /\ SoleAtRest /\ DOMAIN order = Owners
  BY DEF DatabasesInv, OrdersFit
<1>4. d \notin sole' /\ sole' \subseteq sole \union {d}
  BY <1>1, <1>2, <1>3 DEF SoleAtRest
<1>5. ASSUME NEW q, q.at \in Halfway, q.db = d, {"at", "met"} \subseteq DOMAIN q
      PROVE  OrderFits(q, record', born)
  BY <1>2, <1>5 DEF OrderFits, Halfway, Creating, Rotating, Dropping
<1>8. record' = record /\ breaks' \in Nat /\ breaks' >= breaks
  BY <1>1, <1>3
<1>6. CASE /\ order[c].at = "drop" /\ holds' = holds \ {d} /\ role' = role /\ D!Step(c, "drop_role")
  <2>1. PICK q : /\ order' = [order EXCEPT ![c] = q] /\ q.at = "drop_role" /\ q.db = order[c].db
                 /\ q.password = order[c].password /\ (q.met <=> order[c].met) /\ {"at", "met"} \subseteq DOMAIN q
    BY <1>2, <1>3, <1>6, StepMoves
  <2>2. D!TypeOK'
    BY <1>1, <1>3, <1>6 DEF D!TypeOK, D!DatabaseRows
  <2>3. q.at \in Halfway /\ q.at \notin Rotating
    BY <2>1 DEF Halfway, Rotating
  <2>4. AloneFits(q, record', role', holds')
    BY <1>2, <1>6, <2>1, <2>3 DEF AloneFits
  <2>5. OrderFits(q, record', born)
    BY <1>2, <1>5, <2>1, <2>3
  <2>6. /\ \A x \in Dbs \ {d} : record'[x] = record[x] /\ role'[x] = role[x] /\ (x \in holds' <=> x \in holds)
        /\ breaks' \in Nat /\ breaks' >= breaks
    BY <1>6, <1>8
  <2> QED
    BY <1>1, <1>2, <1>4, <2>1, <2>2, <2>3, <2>4, <2>5, <2>6, StepKeeps
<1>7. CASE /\ order[c].at = "drop_role" /\ holds' = holds /\ D!Step(c, "forget")
           /\ role' = IF d \in holds THEN role ELSE [role EXCEPT ![d] = NoPassword]
  <2>1. PICK q : /\ order' = [order EXCEPT ![c] = q] /\ q.at = "forget" /\ q.db = order[c].db
                 /\ q.password = order[c].password /\ (q.met <=> order[c].met) /\ {"at", "met"} \subseteq DOMAIN q
    BY <1>2, <1>3, <1>7, StepMoves
  <2>2. D!TypeOK'
    BY <1>1, <1>3, <1>7 DEF D!TypeOK, D!DatabaseRows
  <2>3. q.at \in Halfway /\ q.at \notin Rotating /\ order[c].at \in Halfway
    BY <1>7, <2>1 DEF Halfway, Rotating
  <2>4. q.at # "free" /\ ~q.met => AloneFits(q, record', role', holds')
    <3>1. ~order[c].met => d \notin holds
      BY <1>2, <2>3 DEF AloneFits
    <3>2. ~order[c].met => role'[d] = NoPassword
      BY <1>3, <1>7, <3>1 DEF D!TypeOK
    <3> QED
      BY <1>2, <1>7, <2>1, <2>3, <3>1, <3>2 DEF AloneFits
  <2>5. OrderFits(q, record', born)
    BY <1>2, <1>5, <2>1, <2>3
  <2>6. /\ \A x \in Dbs \ {d} : record'[x] = record[x] /\ role'[x] = role[x] /\ (x \in holds' <=> x \in holds)
        /\ breaks' \in Nat /\ breaks' >= breaks
    <3>1. \A x \in Dbs \ {d} : role'[x] = role[x]
      BY <1>3, <1>7 DEF D!TypeOK
    <3> QED
      BY <1>7, <1>8, <3>1
  <2> QED
    BY <1>1, <1>2, <1>4, <2>1, <2>2, <2>3, <2>4, <2>5, <2>6, StepKeeps
<1> QED
  BY <1>1, <1>2, <1>6, <1>7 DEF D!drop_database, D!Is

LEMMA ForgetKeeps ==
  ASSUME DatabasesAssumption, DatabasesInv, NEW c \in Owners, D!forget(c)
  PROVE  DatabasesInv'
<1>1. /\ order[c].at = "forget" /\ D!Done(c) /\ D!Counted(c)
      /\ record' = [record EXCEPT ![D!Its(c)] = NoPassword]
      /\ role' = role /\ holds' = holds /\ born' = born /\ made' = made /\ breaks' = breaks
  BY DEF D!forget, D!Is, D!server, D!counts
<1>2. PICK d \in Dbs :
         /\ order[c].db = d /\ D!Its(c) = d /\ d \in born
         /\ ~order[c].met => AloneFits(order[c], record, role, holds)
  BY <1>1, OrderKnown
<1>3. record \in D!DatabaseRows
  BY DEF DatabasesInv, D!TypeOK
<1>4. /\ record' \in D!DatabaseRows /\ record'[d] = NoPassword
      /\ \A x \in Dbs \ {d} : record'[x] = record[x]
  BY <1>1, <1>2, <1>3 DEF D!DatabaseRows
<1>5. ~order[c].met => Opens(record', role, holds, breaks, d)
  BY <1>1, <1>2, <1>4 DEF AloneFits, Opens, Halfway
<1> QED
  BY <1>1, <1>2, <1>4, <1>5, EndKeeps

LEMMA DatabasesNext == DatabasesAssumption /\ DatabasesInv /\ [D!Next]_D!databaseVars => DatabasesInv'
<1> SUFFICES ASSUME DatabasesAssumption, DatabasesInv, [D!Next]_D!databaseVars PROVE DatabasesInv'
  OBVIOUS
<1>1. /\ UnusedIsNew /\ made \in 0..MaxPasswords /\ MaxPasswords \in Nat
  BY DEF DatabasesInv, DatabasesAssumption
<1>2. \A d \in Dbs : record[d] # NoPassword => born \union {d} = born
  BY <1>1 DEF UnusedIsNew
<1>3. ASSUME NEW c \in Owners, NEW d \in Dbs, D!create(c, d) PROVE DatabasesInv'
  <2>1. made' \in 0..MaxPasswords
    BY <1>1, <1>3 DEF D!create
  <2> QED
    BY <1>1, <1>3, <2>1, EnterKeeps DEF D!create, D!server
<1>4. ASSUME NEW c \in Owners, NEW d \in Dbs, D!rotate_password(c, d) PROVE DatabasesInv'
  <2>1. /\ made' \in 0..MaxPasswords /\ record[d] # NoPassword /\ born' = born \union {d}
    BY <1>1, <1>2, <1>4 DEF D!rotate_password, D!There
  <2> QED
    BY <1>1, <1>4, <2>1, EnterKeeps DEF D!rotate_password, D!server
<1>5. ASSUME NEW c \in Owners, NEW d \in Dbs, D!delete(c, d) PROVE DatabasesInv'
  <2>1. /\ made' \in 0..MaxPasswords /\ record[d] # NoPassword /\ born' = born \union {d}
    BY <1>1, <1>2, <1>5 DEF D!delete, D!There, D!counts
  <2> QED
    BY <1>1, <1>5, <2>1, EnterKeeps DEF D!delete, D!server, D!counts
<1>6. ASSUME NEW c \in Owners, D!Stops(c) PROVE DatabasesInv'
  BY <1>6, StopKeeps DEF D!Stops, D!Is, D!server
<1>7. CASE UNCHANGED D!databaseVars
  BY <1>7 DEF D!databaseVars, DatabasesInv, D!TypeOK, D!DatabaseRows, OrdersFit, Alone, HalfGone,
    SoleAtRest, UnusedIsNew, SoleOpens
<1> QED
  BY <1>3, <1>4, <1>5, <1>6, <1>7, CreateDatabaseKeeps, KeepKeeps, SetPasswordKeeps, StoreKeeps, DropKeeps,
    ForgetKeeps DEF D!Next

(* PasswordOpens: after a creation, a rotation or a deletion that no other *)
(* request for the database overlapped, the record's password is the one   *)
(* the server takes, or there is nothing left on the server, whatever      *)
(* earlier requests broke off half way (databases/service.py create,       *)
(* rotate_password, delete, each statement committed by itself).           *)
THEOREM RecordsOpenTheServer ==
  ASSUME DatabasesAssumption
  PROVE  D!Spec => [](D!TypeOK /\ D!PasswordOpens)
<1>1. DatabasesInv => D!TypeOK /\ D!PasswordOpens
  BY DEF DatabasesInv, D!PasswordOpens, SoleOpens, Opens, D!There, D!connection_of
<1> QED
  BY <1>1, DatabasesInit, DatabasesNext, PTL DEF D!Spec
-----------------------------------------------------------------------------
(* The services together: a component behaves as it does alone.            *)

LEMMA RunningBegins == Init =>
    /\ scene = "functions" => F!Init
    /\ scene = "errors" => X!Init
    /\ scene = "monitoring" => M!Init
    /\ scene = "databases" => D!Init
  BY DEF Init

LEMMA RunningGoesOn == [Next]_serviceVars =>
    /\ scene' = scene
    /\ scene = "functions" => [F!Next]_F!functionVars
    /\ scene = "errors" => [X!Next]_X!errorVars
    /\ scene = "monitoring" => [M!Next]_M!watchVars
    /\ scene = "databases" => [D!Next]_D!databaseVars
<1> SUFFICES ASSUME [Next]_serviceVars
    PROVE  /\ scene' = scene
           /\ scene = "functions" => [F!Next]_F!functionVars
           /\ scene = "errors" => [X!Next]_X!errorVars
           /\ scene = "monitoring" => [M!Next]_M!watchVars
           /\ scene = "databases" => [D!Next]_D!databaseVars
  OBVIOUS
<1>1. CASE UNCHANGED serviceVars \/ Access \/ Storage
  BY <1>1 DEF serviceVars, Access, Storage, runningVars,
    functionVars, F!functionVars, errorVars, X!errorVars, watchVars, M!watchVars, databaseVars, D!databaseVars
<1>2. CASE Running
  BY <1>2 DEF Running,
    functionVars, F!functionVars, errorVars, X!errorVars, watchVars, M!watchVars, databaseVars, D!databaseVars
<1> QED
  BY <1>1, <1>2 DEF Next

\* What runs is of its kind.
RunningTyped ==
    /\ scene = "functions" => F!TypeOK
    /\ scene = "errors" => X!TypeOK
    /\ scene = "monitoring" => M!TypeOK
    /\ scene = "databases" => D!TypeOK

LEMMA RunningTypedStands == Spec => []RunningTyped
<1>1. Spec => [](scene = "functions" => F!TypeOK)
  <2>1. Init => (scene = "functions" => F!Init)
    BY RunningBegins
  <2>2. [Next]_serviceVars => /\ scene = "functions" <=> (scene = "functions")'
                              /\ scene = "functions" => [F!Next]_F!functionVars
    BY RunningGoesOn
  <2>3. F!Spec => []F!TypeOK
    BY CountersTellTheCalls, ServicesAssumption, PTL
  <2> QED
    BY <2>1, <2>2, <2>3, PTL DEF Spec, F!Spec
<1>2. Spec => [](scene = "errors" => X!TypeOK)
  <2>1. Init => (scene = "errors" => X!Init)
    BY RunningBegins
  <2>2. [Next]_serviceVars => /\ scene = "errors" <=> (scene = "errors")'
                              /\ scene = "errors" => [X!Next]_X!errorVars
    BY RunningGoesOn
  <2>3. X!Spec => []X!TypeOK
    BY ReportsAreCounted, ServicesAssumption, PTL
  <2> QED
    BY <2>1, <2>2, <2>3, PTL DEF Spec, X!Spec
<1>3. Spec => [](scene = "monitoring" => M!TypeOK)
  <2>1. Init => (scene = "monitoring" => M!Init)
    BY RunningBegins
  <2>2. [Next]_serviceVars => /\ scene = "monitoring" <=> (scene = "monitoring")'
                              /\ scene = "monitoring" => [M!Next]_M!watchVars
    BY RunningGoesOn
  <2>3. M!Spec => []M!TypeOK
    BY HistoryStaysShort, ServicesAssumption, PTL
  <2> QED
    BY <2>1, <2>2, <2>3, PTL DEF Spec, M!Spec
<1>4. Spec => [](scene = "databases" => D!TypeOK)
  <2>1. Init => (scene = "databases" => D!Init)
    BY RunningBegins
  <2>2. [Next]_serviceVars => /\ scene = "databases" <=> (scene = "databases")'
                              /\ scene = "databases" => [D!Next]_D!databaseVars
    BY RunningGoesOn
  <2>3. D!Spec => []D!TypeOK
    BY RecordsOpenTheServer, ServicesAssumption, PTL
  <2> QED
    BY <2>1, <2>2, <2>3, PTL DEF Spec, D!Spec
<1>5. (scene = "functions" => F!TypeOK) /\ (scene = "errors" => X!TypeOK) /\ (scene = "monitoring" => M!TypeOK) /\ (scene = "databases" => D!TypeOK) <=> RunningTyped
  BY DEF RunningTyped
<1> QED
  BY <1>1, <1>2, <1>3, <1>4, <1>5, PTL

(* The state of every service stays of its kind, whichever requests are    *)
(* under way: rows, files, sessions and counters of accounts, storage and  *)
(* what runs (Services composes them).                                     *)
THEOREM TypeCorrect == Spec => []TypeOK
<1>1. AccessTyped /\ StorageTyped /\ RunningTyped => TypeOK
  BY DEF AccessTyped, StorageTyped, RunningTyped, TypeOK
<1> QED
  BY <1>1, AccessTypedStands, StorageTypedStands, RunningTypedStands, PTL

(* What is counted and kept is neither invented nor without end: reports   *)
(* of a problem, calls of a function, results of a check                   *)
(* (errors/service.py report, functions/service.py _record,                *)
(* monitoring/service.py _forget_old).                                     *)
THEOREM CountersAreHonestHolds == Spec => []CountersAreHonest
<1>1. Init => (scene = "errors" => X!Init)
  BY RunningBegins
<1>2. [Next]_serviceVars => /\ scene = "errors" <=> (scene = "errors")'
                            /\ scene = "errors" => [X!Next]_X!errorVars
  BY RunningGoesOn
<1>3. X!Spec => []X!CountsWhatCame
  BY ReportsAreCounted, ServicesAssumption, PTL
<1>4. Init => (scene = "functions" => F!Init)
  BY RunningBegins
<1>5. [Next]_serviceVars => /\ scene = "functions" <=> (scene = "functions")'
                            /\ scene = "functions" => [F!Next]_F!functionVars
  BY RunningGoesOn
<1>6. F!Spec => []F!CountersAreHonest
  BY CountersTellTheCalls, ServicesAssumption, PTL
<1>7. Init => (scene = "monitoring" => M!Init)
  BY RunningBegins
<1>8. [Next]_serviceVars => /\ scene = "monitoring" <=> (scene = "monitoring")'
                            /\ scene = "monitoring" => [M!Next]_M!watchVars
  BY RunningGoesOn
<1>9. M!Spec => []M!HistoryIsBounded
  BY HistoryStaysShort, ServicesAssumption, PTL
<1>10. (scene = "errors" => X!CountsWhatCame) /\ (scene = "functions" => F!CountersAreHonest) /\ (scene = "monitoring" => M!HistoryIsBounded) <=> CountersAreHonest
  BY DEF CountersAreHonest
<1> QED
  BY <1>1, <1>2, <1>3, <1>4, <1>5, <1>6, <1>7, <1>8, <1>9, <1>10, PTL DEF Spec, X!Spec, F!Spec, M!Spec

(* The password a record keeps is the one the server takes                 *)
(* (databases/service.py rotate_password).                                 *)
THEOREM PasswordOpensHolds == Spec => []PasswordOpens
<1>1. Init => (scene = "databases" => D!Init)
  BY RunningBegins
<1>2. [Next]_serviceVars => /\ scene = "databases" <=> (scene = "databases")'
                            /\ scene = "databases" => [D!Next]_D!databaseVars
  BY RunningGoesOn
<1>3. D!Spec => []D!PasswordOpens
  BY RecordsOpenTheServer, ServicesAssumption, PTL
<1>4. (scene = "databases" => D!PasswordOpens) <=> PasswordOpens
  BY DEF PasswordOpens
<1> QED
  BY <1>1, <1>2, <1>3, <1>4, PTL DEF Spec, D!Spec
=============================================================================
