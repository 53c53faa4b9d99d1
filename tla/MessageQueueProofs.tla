------------------------- MODULE MessageQueueProofs -------------------------
(* Proofs about MessageQueue for any number of messages and consumers, and *)
(* any number of purges and restarts.                                      *)
EXTENDS MessageQueue, FiniteSetTheorems, SequenceTheorems, TLAPS

-----------------------------------------------------------------------------
(* What the commands do to the list.                                       *)

LEMMA PushedIsAmong ==
  ASSUME NEW S, NEW s \in Seq(S), NEW t \in Seq(S), NEW x
  PROVE  t \o s \in Seq(S) /\ (Contains(t \o s, x) <=> Contains(t, x) \/ Contains(s, x))
<1>1. t \o s \in Seq(S) /\ Len(t \o s) = Len(t) + Len(s)
  OBVIOUS
<1>2. ASSUME NEW i \in 1..Len(t) PROVE i \in 1..Len(t \o s) /\ (t \o s)[i] = t[i]
  OBVIOUS
<1>3. ASSUME NEW i \in 1..Len(s)
      PROVE  Len(t) + i \in 1..Len(t \o s) /\ (t \o s)[Len(t) + i] = s[i]
  OBVIOUS
<1>4. ASSUME Contains(t \o s, x) PROVE Contains(t, x) \/ Contains(s, x)
  <2>1. PICK i \in 1..Len(t \o s) : (t \o s)[i] = x
    BY <1>4 DEF Contains
  <2>2. CASE i <= Len(t)
    BY <1>2, <2>1, <2>2 DEF Contains
  <2>3. CASE i > Len(t)
    <3>1. i - Len(t) \in 1..Len(s) /\ s[i - Len(t)] = x
      BY <1>1, <2>1, <2>3
    <3> QED
      BY <3>1 DEF Contains
  <2> QED
    BY <2>2, <2>3
<1> QED
  BY <1>1, <1>2, <1>3, <1>4 DEF Contains

LEMMA Shortened ==
  ASSUME NEW S, NEW s \in Seq(S), NEW n \in Nat, n < Len(s)
  PROVE  /\ SubSeq(s, 1, n) \in Seq(S) /\ Len(SubSeq(s, 1, n)) = n
         /\ \A i \in 1..n : SubSeq(s, 1, n)[i] = s[i]
<1>1. \A i \in 1..n : s[i] \in S
  OBVIOUS
<1>2. SubSeq(s, 1, n) \in Seq(S)
  BY <1>1, SubSeqProperties
<1> QED
  BY <1>2

LEMMA LastIsPopped ==
  ASSUME NEW S, NEW s \in Seq(S), s # <<>>, NEW x
  PROVE  /\ Front(s) \in Seq(S) /\ Last(s) \in S /\ Contains(s, Last(s))
         /\ Contains(s, x) <=> Contains(Front(s), x) \/ x = Last(s)
<1>1. Len(s) \in Nat \ {0} /\ Len(s) - 1 \in Nat /\ Len(s) - 1 < Len(s)
  OBVIOUS
<1>2. /\ Front(s) \in Seq(S) /\ Len(Front(s)) = Len(s) - 1
      /\ \A i \in 1..Len(s) - 1 : Front(s)[i] = s[i]
  BY <1>1, Shortened DEF Front
<1>3. Last(s) \in S /\ Contains(s, Last(s))
  BY <1>1 DEF Last, Contains
<1>4. Contains(s, x) <=> Contains(Front(s), x) \/ x = Last(s)
  BY <1>1, <1>2 DEF Contains, Last
<1> QED
  BY <1>2, <1>3, <1>4

\* A set read back as a list, in any order: everything in it, nothing else.
LEMMA OrderOfASet ==
  ASSUME NEW S, IsFiniteSet(S), NEW order \in SetToSeqs(S), NEW x
  PROVE  order \in Seq(S) /\ (Contains(order, x) <=> x \in S)
<1> DEFINE n == Cardinality(S)
<1>1. n \in Nat
  BY FS_CardinalityType
<1>2. order \in [1..n -> S] /\ \A i, j \in 1..n : i # j => order[i] # order[j]
  BY DEF SetToSeqs
<1>3. order \in Seq(S) /\ Len(order) = n
  BY <1>1, <1>2
<1>4. order \in Injection(1..n, S)
  BY <1>2 DEF Injection, IsInjective
<1>5. IsFiniteSet(1..n) /\ Cardinality(1..n) = n
  BY <1>1, FS_Interval
<1>6. order \in Surjection(1..n, S)
  BY <1>4, <1>5, FS_Injection
<1>7. \A y \in S : \E i \in 1..n : order[i] = y
  BY <1>6 DEF Surjection
<1> QED
  BY <1>2, <1>3, <1>7 DEF Contains

-----------------------------------------------------------------------------
(* The inductive invariant.                                                *)

Over     == dead \union done \union dropped
Handling == {"read", "stamp", "hide", "bury"}

\* Whatever the store, a call or a client names was published.
Known ==
    /\ IsFiniteSet(published)
    /\ \A m \in Messages : Contains(waiting, m) => m \in published
    /\ taken \subseteq published
    /\ \A c \in Consumers : found[c] \subseteq published
    /\ \A c \in Consumers : got[c] # Nobody => got[c] \in published
    /\ \A c \in Consumers : \A x \in batch[c] \union holds[c] : x[1] \in published

HasRecord == \A c \in Consumers : pc[c] \in {"stamp", "hide"} => record[c] \in Records

Typed == TypeOK /\ Known /\ HasRecord

\* A message is held by a call that has yet to put it somewhere.  Somewhere
\* counts every call; a restart records only these as dropped, so a call that
\* is past that point has to have its message in Over already.
Held(m) == \E c \in Consumers : got[c] = m /\ pc[c] \in Handling

Kept == \A m \in published :
    Contains(waiting, m) \/ m \in taken \/ Held(m) \/ m \in Over

\* Why a body that is gone may be skipped, and a buried one cleared.
BodyGone == \A m \in published : bodies[m] = Nobody => m \in Over
Buried   == \A c \in Consumers : pc[c] = "clear" => got[c] \in Over

Inv == Typed /\ Kept /\ BodyGone /\ Buried

-----------------------------------------------------------------------------
(* Types.                                                                  *)

LEMMA UpsetTyped ==
  ASSUME TypeOK, Upset
  PROVE  upsets' \in 0..MaxUpsets
  BY QueueAssumption DEF TypeOK, Upset, QueueAssumption

LEMMA TypedInit == Init => Typed
<1> SUFFICES ASSUME Init PROVE Typed
  OBVIOUS
<1>1. \A m \in Messages : ~Contains(waiting, m)
  BY DEF Init, Contains
<1>2. TypeOK
  BY QueueAssumption DEF Init, TypeOK, QueueAssumption
<1>3. Known
  BY <1>1, FS_EmptySet DEF Init, Known
<1> QED
  BY <1>2, <1>3 DEF Typed, Init, HasRecord

\* Sorting the overdue ids into the list is well defined: they are finitely
\* many, because finitely many messages were published.
LEMMA Returned ==
  ASSUME Typed, NEW c \in Consumers, ReturnExpired(c), NEW m
  PROVE  /\ waiting' \in Seq(Messages)
         /\ Contains(waiting', m) <=> Contains(waiting, m) \/ m \in found[c]
<1>1. found[c] \subseteq Messages /\ waiting \in Seq(Messages)
  BY DEF Typed, TypeOK
<1>2. IsFiniteSet(found[c])
  BY FS_Subset DEF Typed, Known
<1>3. PICK order \in SetToSeqs(found[c]) : waiting' = order \o waiting
  BY DEF ReturnExpired
<1>4. order \in Seq(found[c]) /\ (Contains(order, m) <=> m \in found[c])
  BY <1>2, OrderOfASet
<1>5. order \in Seq(Messages)
  BY <1>1, <1>4
<1> QED
  BY <1>1, <1>3, <1>4, <1>5, PushedIsAmong

LEMMA Published ==
  ASSUME Typed, NEW p \in Messages, Publish(p), NEW m
  PROVE  /\ waiting' \in Seq(Messages)
         /\ Contains(waiting', m) <=> Contains(waiting, m) \/ m = p
<1>1. waiting \in Seq(Messages) /\ <<p>> \in Seq(Messages) /\ waiting' = <<p>> \o waiting
  BY DEF Typed, TypeOK, Publish
<1>2. Contains(<<p>>, m) <=> m = p
  BY DEF Contains
<1> QED
  BY <1>1, <1>2, PushedIsAmong

LEMMA Popped ==
  ASSUME Typed, NEW c \in Consumers, pc[c] = "pop", waiting # <<>>, Pop(c), NEW m
  PROVE  /\ waiting' \in Seq(Messages) /\ Last(waiting) \in Messages
         /\ Contains(waiting, Last(waiting))
         /\ waiting' = Front(waiting) /\ got' = [got EXCEPT ![c] = Last(waiting)]
         /\ pc' = [pc EXCEPT ![c] = "read"]
         /\ Contains(waiting, m) <=> Contains(waiting', m) \/ m = Last(waiting)
<1>1. waiting \in Seq(Messages) /\ waiting' = Front(waiting)
      /\ got' = [got EXCEPT ![c] = Last(waiting)] /\ pc' = [pc EXCEPT ![c] = "read"]
  BY DEF Typed, TypeOK, Pop, Goes
<1> QED
  BY <1>1, LastIsPopped

LEMMA TypedNext == Typed /\ [Next]_vars => Typed'
<1> SUFFICES ASSUME Typed, [Next]_vars PROVE Typed'
  OBVIOUS
<1> USE DEF Typed, Goes
<1>0. Nobody \notin Messages /\ Nobody \notin Records
  BY QueueAssumption DEF QueueAssumption
<1>1. ASSUME NEW m \in Messages, Publish(m) PROVE Typed'
  <2>1. /\ waiting' \in Seq(Messages)
        /\ \A x \in Messages : Contains(waiting', x) <=> Contains(waiting, x) \/ x = m
    BY <1>1, Published
  <2>2. TypeOK'
    BY <1>1, <2>1 DEF Publish, TypeOK, call, Records
  <2>3. IsFiniteSet(published')
    BY <1>1, FS_AddElement DEF Publish, Known
  <2>4. Known'
    BY <1>1, <2>1, <2>3 DEF Publish, Known, call
  <2> QED
    BY <1>1, <2>2, <2>4 DEF Publish, HasRecord, call
<1>2. ASSUME NEW m \in Messages, TimePasses(m) PROVE Typed'
  BY <1>2 DEF TimePasses, TypeOK, Known, HasRecord, call, history
<1>3. ASSUME NEW c \in Consumers, Receive(c) PROVE Typed'
  BY <1>3 DEF Receive, TypeOK, Known, HasRecord, store, history
<1>4. ASSUME NEW c \in Consumers, ReturnExpired(c) PROVE Typed'
  <2>1. /\ waiting' \in Seq(Messages)
        /\ \A x \in Messages : Contains(waiting', x) <=> Contains(waiting, x) \/ x \in found[c]
    BY <1>4, Returned
  <2>2. TypeOK'
    BY <1>4, <2>1 DEF ReturnExpired, TypeOK, history
  <2>3. Known'
    BY <1>4, <2>1 DEF ReturnExpired, TypeOK, Known, history
  <2> QED
    BY <1>4, <2>2, <2>3 DEF ReturnExpired, TypeOK, HasRecord
<1>5. ASSUME NEW c \in Consumers, Pop(c) PROVE Typed'
  <2>1. CASE waiting = <<>>
    <3>1. pc' = [pc EXCEPT ![c] = "answer"] /\ UNCHANGED <<waiting, got>>
      BY <1>5, <2>1 DEF Pop
    <3> QED
      BY <1>5, <3>1 DEF Pop, TypeOK, Known, HasRecord, history
  <2>2. CASE waiting # <<>>
    <3>1. /\ waiting' \in Seq(Messages) /\ Last(waiting) \in published
          /\ got' = [got EXCEPT ![c] = Last(waiting)] /\ pc' = [pc EXCEPT ![c] = "read"]
          /\ \A x \in Messages : Contains(waiting', x) => Contains(waiting, x)
      BY <1>5, <2>2, Popped DEF Pop, Known
    <3>2. Last(waiting) \in Messages
      BY <3>1 DEF TypeOK
    <3>3. TypeOK'
      BY <1>0, <1>5, <3>1, <3>2 DEF Pop, TypeOK, history
    <3>4. Known'
      BY <1>5, <3>1 DEF Pop, TypeOK, Known, history
    <3> QED
      BY <1>5, <3>1, <3>3, <3>4 DEF Pop, TypeOK, HasRecord
  <2> QED
    BY <2>1, <2>2
<1>6. ASSUME NEW c \in Consumers, ReadBody(c) PROVE Typed'
  <2>1. got[c] \in Messages /\ bodies[got[c]] \in Records \union {Nobody}
    BY <1>6 DEF ReadBody, TypeOK
  <2>2. CASE NextOfBatch(c)
    BY <1>6, <2>2 DEF ReadBody, NextOfBatch, TypeOK, Known, HasRecord, store, history
  <2>3. CASE /\ bodies[got[c]] # Nobody
             /\ record' = [record EXCEPT ![c] = [bodies[got[c]] EXCEPT !.attempts = @ + 1]]
             /\ Goes(c, IF TriedEnough(bodies[got[c]].attempts + 1) THEN "bury" ELSE "stamp")
             /\ UNCHANGED got
    <3>1. [bodies[got[c]] EXCEPT !.attempts = @ + 1] \in Records
      BY <2>1, <2>3 DEF Records
    <3>2. \E to \in {"bury", "stamp"} : pc' = [pc EXCEPT ![c] = to]
      BY <2>3
    <3>3. record' \in [Consumers -> Records \union {Nobody}] /\ record'[c] \in Records
      BY <2>3, <3>1 DEF TypeOK
    <3>4. TypeOK'
      BY <1>6, <2>3, <3>2, <3>3 DEF ReadBody, TypeOK, store, history
    <3>5. Known'
      BY <1>6, <2>3 DEF ReadBody, Known, store, history
    <3>6. HasRecord'
      BY <2>3, <3>2, <3>3 DEF TypeOK, HasRecord
    <3> QED
      BY <3>4, <3>5, <3>6
  <2> QED
    BY <1>6, <2>2, <2>3 DEF ReadBody
<1>7. ASSUME NEW c \in Consumers, Bury(c) PROVE Typed'
  BY <1>7 DEF Bury, TypeOK, Known, HasRecord, history
<1>8. ASSUME NEW c \in Consumers, Clear(c) PROVE Typed'
  BY <1>8 DEF Clear, NextOfBatch, TypeOK, Known, HasRecord, history
<1>9. ASSUME NEW c \in Consumers, Stamp(c) PROVE Typed'
  <2>0. got[c] \in Messages /\ record[c] \in Records
    BY <1>9 DEF Stamp, TypeOK, HasRecord
  <2>1. got[c] \in Messages /\ record[c] \in Records /\ stamps[got[c]] + 1 \in Nat
    BY <2>0 DEF TypeOK
  <2>2. [record[c] EXCEPT !.receipt = stamps[got[c]] + 1] \in Records
    BY <2>1 DEF Records
  <2>3. record' \in [Consumers -> Records \union {Nobody}] /\ record'[c] \in Records
    BY <1>9, <2>2 DEF Stamp, TypeOK
  <2>4. TypeOK'
    BY <1>9, <2>1, <2>2, <2>3 DEF Stamp, TypeOK
  <2>5. Known'
    BY <1>9 DEF Stamp, Known
  <2>6. HasRecord'
    BY <1>9, <2>3 DEF Stamp, TypeOK, HasRecord
  <2> QED
    BY <2>4, <2>5, <2>6
<1>10. ASSUME NEW c \in Consumers, Hide(c) PROVE Typed'
  <2>1. got[c] \in published /\ got[c] \in Messages /\ record[c].receipt \in Nat
    BY <1>10 DEF Hide, TypeOK, Known, HasRecord, Records
  <2>2. <<got[c], record[c].receipt>> \in Messages \X Nat
    BY <2>1
  <2>3. TypeOK'
    BY <1>10, <2>1, <2>2 DEF Hide, NextOfBatch, TypeOK, history
  <2>4. Known'
    BY <1>10, <2>1 DEF Hide, NextOfBatch, TypeOK, Known, history
  <2> QED
    BY <1>10, <2>3, <2>4 DEF Hide, NextOfBatch, TypeOK, HasRecord
<1>11. ASSUME NEW c \in Consumers, Answer(c) PROVE Typed'
  BY <1>11 DEF Answer, TypeOK, Known, HasRecord, store, history
<1>12. ASSUME NEW c \in Consumers, AckReads(c) PROVE Typed'
  <2>1. PICK held \in holds[c] :
          /\ holds' = [holds EXCEPT ![c] = @ \ {held}]
          /\ \/ UNCHANGED <<pc, got>>
             \/ got' = [got EXCEPT ![c] = held[1]] /\ pc' = [pc EXCEPT ![c] = "strike"]
    BY <1>12 DEF AckReads
  <2>2. held[1] \in published /\ held[1] \in Messages
    BY DEF TypeOK, Known
  <2>3. TypeOK'
    BY <1>0, <1>12, <2>1, <2>2 DEF AckReads, TypeOK, store, history
  <2>4. Known'
    BY <1>12, <2>1, <2>2 DEF AckReads, TypeOK, Known, store, history
  <2> QED
    BY <1>12, <2>1, <2>3, <2>4 DEF AckReads, TypeOK, HasRecord
<1>13. ASSUME NEW c \in Consumers, AckWrites(c) PROVE Typed'
  BY <1>13 DEF AckWrites, TypeOK, Known, HasRecord
<1>14. ASSUME Purge PROVE Typed'
  <2>1. \A x : ~Contains(<<>>, x)
    BY DEF Contains
  <2> QED
    BY <1>14, <2>1, UpsetTyped DEF Purge, TypeOK, Known, HasRecord, call
<1>15. ASSUME Crash PROVE Typed'
  <2>1. upsets' \in 0..MaxUpsets
    BY <1>15, UpsetTyped DEF Crash
  <2>2. \A c \in Consumers : pc[c] \in Handling => got[c] \in published
    BY DEF TypeOK, Known, Handling
  <2>3. TypeOK'
    BY <1>15, <2>1, <2>2 DEF Crash, TypeOK, store, Handling
  <2> QED
    BY <1>15, <2>3 DEF Crash, Known, HasRecord, store
<1>16. ASSUME UNCHANGED vars PROVE Typed'
  BY <1>16 DEF vars, store, call, history, TypeOK, Known, HasRecord
<1> QED
  BY <1>1, <1>2, <1>3, <1>4, <1>5, <1>6, <1>7, <1>8, <1>9, <1>10, <1>11, <1>12, <1>13,
     <1>14, <1>15, <1>16 DEF Next, Receiving

(* TypeOK: every reachable state is well typed. *)
THEOREM TypeCorrect == Spec => []TypeOK
<1>1. Typed => TypeOK
  BY DEF Typed
<1> QED
  BY <1>1, TypedInit, TypedNext, PTL DEF Spec

-----------------------------------------------------------------------------
(* Nothing is lost.                                                        *)

LEMMA InvInit == Init => Inv
  BY TypedInit DEF Init, Inv, Kept, BodyGone, Buried

LEMMA InvNext == Inv /\ [Next]_vars => Inv'
<1> SUFFICES ASSUME Inv, [Next]_vars PROVE Inv'
  OBVIOUS
<1>0. Typed /\ Typed'
  BY TypedNext DEF Inv
<1> DEFINE Safe == Kept /\ BodyGone /\ Buried
<1> SUFFICES Safe'
  BY <1>0 DEF Inv
<1>T. /\ Nobody \notin Messages /\ Nobody \notin Records /\ published \subseteq Messages
      /\ got \in [Consumers -> Messages \union {Nobody}]
      /\ bodies \in [Messages -> Records \union {Nobody}]
      /\ \A c \in Consumers : got[c] # Nobody => got[c] \in published
      /\ \A c \in Consumers : pc[c] \in Handling \union {"clear", "strike"} <=> got[c] # Nobody
      /\ pc \in [Consumers -> {"idle", "return", "pop", "read", "bury", "clear", "stamp",
                               "hide", "answer", "strike"}]
  BY <1>0, QueueAssumption DEF Typed, TypeOK, Known, Handling, QueueAssumption
<1>S. Kept /\ BodyGone /\ Buried
  BY DEF Inv
<1> USE DEF Goes, Kept, BodyGone, Buried, Over, Held, Handling
<1>1. ASSUME NEW m \in Messages, Publish(m) PROVE Safe'
  <2>1. \A x \in published : Contains(waiting, x) => Contains(waiting', x)
    BY <1>0, <1>1, Published
  <2>2. Contains(waiting', m)
    BY <1>0, <1>1, Published
  <2>3. published' = published \union {m}
        /\ UNCHANGED <<taken, dead, done, dropped, pc, got>>
        /\ bodies'[m] # Nobody /\ \A x \in Messages \ {m} : bodies'[x] = bodies[x]
    BY <1>T, <1>1 DEF Publish, call, Records
  <2>4. Kept'
    BY <1>S, <2>1, <2>2, <2>3
  <2>5. BodyGone' /\ Buried'
    BY <1>S, <1>T, <2>3
  <2> QED
    BY <2>4, <2>5
<1>2. ASSUME NEW m \in Messages, TimePasses(m) PROVE Safe'
  BY <1>S, <1>2 DEF TimePasses, call, history
<1>3. ASSUME NEW c \in Consumers, Receive(c) PROVE Safe'
  <2>1. /\ UNCHANGED <<store, got, history>> /\ pc[c] = "idle"
        /\ \E to \in {"pop", "return"} : pc' = [pc EXCEPT ![c] = to]
    BY <1>3 DEF Receive
  <2>2. /\ pc'[c] \in {"pop", "return"} /\ \A d \in Consumers \ {c} : pc'[d] = pc[d]
    BY <1>T, <2>1
  <2> QED
    BY <1>S, <2>1, <2>2 DEF store, history
<1>4. ASSUME NEW c \in Consumers, ReturnExpired(c) PROVE Safe'
  <2>1. \A x : Contains(waiting', x) <=> Contains(waiting, x) \/ x \in found[c]
    BY <1>0, <1>4, Returned
  <2> QED
    BY <1>S, <1>T, <1>4, <2>1 DEF ReturnExpired, history
<1>5. ASSUME NEW c \in Consumers, Pop(c) PROVE Safe'
  <2>1. CASE waiting = <<>>
    <3>1. UNCHANGED <<waiting, got>> /\ pc[c] = "pop" /\ pc' = [pc EXCEPT ![c] = "answer"]
      BY <1>5, <2>1 DEF Pop
    <3> QED
      BY <1>S, <1>T, <1>5, <3>1 DEF Pop, history
  <2>2. CASE waiting # <<>>
    <3>1. /\ pc[c] = "pop" /\ pc' = [pc EXCEPT ![c] = "read"]
          /\ got' = [got EXCEPT ![c] = Last(waiting)]
          /\ \A x : Contains(waiting, x) <=> Contains(waiting', x) \/ x = Last(waiting)
      BY <1>0, <1>5, <2>2, Popped DEF Pop
    <3>2. \A x : Held(x) \/ x = Last(waiting) => Held(x)'
      BY <1>T, <3>1
    <3> QED
      BY <1>S, <1>T, <1>5, <3>1, <3>2 DEF Pop, history
  <2> QED
    BY <2>1, <2>2
<1>6. ASSUME NEW c \in Consumers, ReadBody(c) PROVE Safe'
  <2>1. pc[c] = "read" /\ got[c] \in published /\ UNCHANGED <<store, history>>
    BY <1>T, <1>6 DEF ReadBody
  <2>2. CASE bodies[got[c]] = Nobody /\ NextOfBatch(c)
    <3>1. got[c] \in Over /\ got' = [got EXCEPT ![c] = Nobody]
          /\ pc'[c] \in {"pop", "answer"} /\ \A d \in Consumers \ {c} : pc'[d] = pc[d]
      BY <1>S, <1>T, <2>1, <2>2 DEF NextOfBatch
    <3> QED
      BY <1>S, <1>T, <2>1, <3>1 DEF store, history
  <2>3. CASE UNCHANGED got /\ \E to \in {"bury", "stamp"} : pc' = [pc EXCEPT ![c] = to]
    <3>1. \A x : Held(x) => Held(x)'
      BY <1>T, <2>1, <2>3
    <3> QED
      BY <1>S, <1>T, <2>1, <2>3, <3>1 DEF store, history
  <2> QED
    BY <1>6, <2>2, <2>3 DEF ReadBody
<1>7. ASSUME NEW c \in Consumers, Bury(c) PROVE Safe'
  BY <1>S, <1>T, <1>7 DEF Bury, history
<1>8. ASSUME NEW c \in Consumers, Clear(c) PROVE Safe'
  <2>1. /\ got[c] \in Over /\ pc[c] = "clear" /\ got' = [got EXCEPT ![c] = Nobody]
        /\ pc'[c] \in {"pop", "answer"} /\ \A d \in Consumers \ {c} : pc'[d] = pc[d]
    BY <1>S, <1>T, <1>8 DEF Clear, NextOfBatch
  <2> QED
    BY <1>S, <1>T, <1>8, <2>1 DEF Clear, history
<1>9. ASSUME NEW c \in Consumers, Stamp(c) PROVE Safe'
  <2>1. got[c] \in Messages /\ record[c] \in Records /\ stamps \in [Messages -> Nat]
    BY <1>0, <1>T, <1>9 DEF Stamp, Typed, TypeOK, HasRecord
  <2>2. \A r \in Records, k \in Nat : [r EXCEPT !.receipt = k + 1] # Nobody
    BY <1>T DEF Records
  <2>3. bodies'[got[c]] # Nobody /\ \A x \in Messages \ {got[c]} : bodies'[x] = bodies[x]
    BY <1>T, <1>9, <2>1, <2>2 DEF Stamp
  <2>4. BodyGone'
    BY <1>S, <1>T, <1>9, <2>3 DEF Stamp
  <2>5. Kept' /\ Buried'
    BY <1>S, <1>T, <1>9 DEF Stamp
  <2> QED
    BY <2>4, <2>5
<1>10. ASSUME NEW c \in Consumers, Hide(c) PROVE Safe'
  <2>1. /\ got' = [got EXCEPT ![c] = Nobody] /\ taken' = taken \union {got[c]} /\ pc[c] = "hide"
        /\ pc'[c] \in {"pop", "answer"} /\ \A d \in Consumers \ {c} : pc'[d] = pc[d]
    BY <1>T, <1>10 DEF Hide, NextOfBatch
  <2> QED
    BY <1>S, <1>T, <1>10, <2>1 DEF Hide, history
<1>11. ASSUME NEW c \in Consumers, Answer(c) PROVE Safe'
  BY <1>S, <1>T, <1>11 DEF Answer, store, history
<1>12. ASSUME NEW c \in Consumers, AckReads(c) PROVE Safe'
  <2>1. /\ UNCHANGED <<store, history>> /\ pc[c] = "idle" /\ got[c] = Nobody
        /\ pc'[c] \in {"idle", "strike"}
        /\ \A d \in Consumers \ {c} : pc'[d] = pc[d] /\ got'[d] = got[d]
    BY <1>T, <1>12 DEF AckReads
  <2> QED
    BY <1>S, <1>T, <2>1 DEF store, history
<1>13. ASSUME NEW c \in Consumers, AckWrites(c) PROVE Safe'
  BY <1>S, <1>T, <1>13 DEF AckWrites
<1>14. ASSUME Purge PROVE Safe'
  BY <1>S, <1>T, <1>14 DEF Purge, call
<1>15. ASSUME Crash PROVE Safe'
  BY <1>S, <1>T, <1>15 DEF Crash, store
<1>16. ASSUME UNCHANGED vars PROVE Safe'
  BY <1>S, <1>16 DEF vars, store, call, history
<1> HIDE DEF Safe
<1> QED
  BY <1>1, <1>2, <1>3, <1>4, <1>5, <1>6, <1>7, <1>8, <1>9, <1>10, <1>11, <1>12, <1>13,
     <1>14, <1>15, <1>16 DEF Next, Receiving

(* Somewhere: a message that was published waits, was taken, is in the     *)
(* hands of a call, or was acknowledged, buried or taken along by a purge  *)
(* or a restart, whatever calls run into each other.                       *)
THEOREM NothingIsLost == Spec => []Somewhere
<1>1. Inv => Somewhere
  <2> SUFFICES ASSUME Inv, NEW m \in published
               PROVE  Contains(waiting, m) \/ m \in taken \union InMemory \/ m \in Over
    BY DEF Somewhere, Over
  <2>1. Held(m) => m \in InMemory
    BY QueueAssumption DEF Held, InMemory, Inv, Typed, TypeOK, QueueAssumption
  <2> QED
    BY <2>1 DEF Inv, Kept
<1> QED
  BY <1>1, InvInit, InvNext, PTL DEF Spec
=============================================================================
