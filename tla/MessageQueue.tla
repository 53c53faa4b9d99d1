---------------------------- MODULE MessageQueue ----------------------------
(***************************************************************************)
(* Message queues: a list of what waits, a sorted set of what was taken    *)
(* and has to come back, a hash of bodies and a hash of dead messages, all *)
(* in Valkey.  One Valkey command, or one MULTI, is a step; a request is a *)
(* row of them with nothing held in between, so that consumers interleave  *)
(* and a restart can fall between any two.                                 *)
(*                                                                         *)
(* Time is an action: a message that was taken becomes overdue whenever    *)
(* its visibility timeout may have run out.                                *)
(***************************************************************************)
EXTENDS Naturals, SequencesExt

CONSTANTS
    Messages,       \* message ids
    Consumers,      \* clients that receive and acknowledge, one call at a time
    Nobody,         \* no message, no record
    MaxAttempts,    \* Queue.max_attempts
    MaxUpsets       \* bound: purges and restarts

VARIABLES
    waiting,        \* queues:waiting, RPOP takes the last one
    taken,          \* queues:taken, the ids in it
    overdue,        \* those of them whose deadline has passed
    bodies,         \* queues:bodies, id -> attempts and receipt
    dead,           \* queues:dead, the ids in it
    pc,             \* where the call of a consumer stands
    found,          \* the overdue ids _return_expired has read
    got,            \* the message the call is at
    record,         \* its record as this call read and changed it
    batch,          \* receipts the answer will carry
    holds,          \* receipts a client has been given
    stamps,         \* history: how often a receipt was written for a message
    published,      \* history
    done,           \* history: messages acknowledged with success
    dropped,        \* history: messages a restart or a purge took along
    upsets

store   == <<waiting, taken, overdue, bodies, dead>>
call    == <<pc, found, got, record, batch>>
history == <<stamps, published, done, dropped>>
vars    == <<store, call, holds, history, upsets>>

Records  == [attempts: Nat, receipt: Nat]
InMemory == {got[c] : c \in Consumers} \ {Nobody}

ASSUME QueueAssumption ==
    /\ Nobody \notin Messages \union Records
    /\ MaxAttempts \in Nat \ {0} /\ MaxUpsets \in Nat

-----------------------------------------------------------------------------
Init ==
    /\ waiting = <<>> /\ taken = {} /\ overdue = {} /\ dead = {}
    /\ bodies = [m \in Messages |-> Nobody]
    /\ pc = [c \in Consumers |-> "idle"] /\ found = [c \in Consumers |-> {}]
    /\ got = [c \in Consumers |-> Nobody] /\ record = [c \in Consumers |-> Nobody]
    /\ batch = [c \in Consumers |-> {}] /\ holds = [c \in Consumers |-> {}]
    /\ stamps = [m \in Messages |-> 0]
    /\ published = {} /\ done = {} /\ dropped = {} /\ upsets = 0

Upset == upsets < MaxUpsets /\ upsets' = upsets + 1

Goes(c, to) == pc' = [pc EXCEPT ![c] = to]

Publish(m) ==
    /\ m \notin published
    /\ published' = published \union {m}
    /\ bodies' = [bodies EXCEPT ![m] = [attempts |-> 0, receipt |-> 0]]
    /\ waiting' = <<m>> \o waiting
    /\ UNCHANGED <<taken, overdue, dead, call, holds, stamps, done, dropped, upsets>>

\* The visibility timeout of a message runs out.
TimePasses(m) ==
    /\ m \in taken \ overdue
    /\ overdue' = overdue \union {m}
    /\ UNCHANGED <<waiting, taken, bodies, dead, call, holds, history, upsets>>

-----------------------------------------------------------------------------
(* receive, command by command.                                            *)

\* Mutant: nobody looks for messages that are overdue.
ReceiveWithoutLooking(c) ==
    /\ pc[c] = "idle" /\ Goes(c, "pop")
    /\ UNCHANGED <<store, found, got, record, batch, holds, history, upsets>>

Receive(c) ==
    /\ pc[c] = "idle"
    /\ found' = [found EXCEPT ![c] = overdue]
    /\ Goes(c, IF overdue = {} THEN "pop" ELSE "return")
    /\ UNCHANGED <<store, got, record, batch, holds, history, upsets>>

\* Mutant: what is overdue is struck off, nothing is put back.
ReturnNothing(c) ==
    /\ pc[c] = "return" /\ Goes(c, "pop")
    /\ taken' = taken \ found[c] /\ overdue' = overdue \ found[c]
    /\ found' = [found EXCEPT ![c] = {}]
    /\ UNCHANGED <<waiting, bodies, dead, got, record, batch, holds, history, upsets>>

\* One MULTI, but nothing looks whether somebody else returned them already.
ReturnExpired(c) ==
    /\ pc[c] = "return" /\ Goes(c, "pop")
    /\ \E order \in SetToSeqs(found[c]) : waiting' = order \o waiting
    /\ taken' = taken \ found[c] /\ overdue' = overdue \ found[c]
    /\ found' = [found EXCEPT ![c] = {}]
    /\ UNCHANGED <<bodies, dead, got, record, batch, holds, history, upsets>>

Pop(c) ==
    /\ pc[c] = "pop"
    /\ \/ waiting = <<>> /\ Goes(c, "answer") /\ UNCHANGED <<waiting, got>>
       \/ /\ waiting # <<>> /\ Goes(c, "read")
          /\ waiting' = Front(waiting) /\ got' = [got EXCEPT ![c] = Last(waiting)]
    /\ UNCHANGED <<taken, overdue, bodies, dead, found, record, batch, holds, history, upsets>>

\* Mutant: the loop keeps the message it is finished with.
NextOfBatchStill(c) ==
    /\ \E to \in {"pop", "answer"} : Goes(c, to)
    /\ record' = [record EXCEPT ![c] = Nobody] /\ UNCHANGED got

\* On to the next message of the batch, or to the answer.
NextOfBatch(c) ==
    /\ \E to \in {"pop", "answer"} : Goes(c, to)
    /\ got' = [got EXCEPT ![c] = Nobody] /\ record' = [record EXCEPT ![c] = Nobody]

TriedEnough(attempts) == attempts > MaxAttempts

\* A body that is gone leaves nothing to hand over.
ReadBody(c) ==
    /\ pc[c] = "read"
    /\ \/ bodies[got[c]] = Nobody /\ NextOfBatch(c)
       \/ /\ bodies[got[c]] # Nobody
          /\ record' = [record EXCEPT ![c] = [bodies[got[c]] EXCEPT !.attempts = @ + 1]]
          /\ Goes(c, IF TriedEnough(bodies[got[c]].attempts + 1) THEN "bury" ELSE "stamp")
          /\ UNCHANGED got
    /\ UNCHANGED <<store, found, batch, holds, history, upsets>>

Bury(c) ==
    /\ pc[c] = "bury" /\ Goes(c, "clear")
    /\ dead' = dead \union {got[c]}
    /\ UNCHANGED <<waiting, taken, overdue, bodies, found, got, record, batch, holds, history, upsets>>

Clear(c) ==
    /\ pc[c] = "clear"
    /\ bodies' = [bodies EXCEPT ![got[c]] = Nobody]
    /\ NextOfBatch(c)
    /\ UNCHANGED <<waiting, taken, overdue, dead, found, batch, holds, history, upsets>>

\* The record goes back with a receipt nobody had before, over whatever has
\* become of the body since it was read.
Stamp(c) ==
    /\ pc[c] = "stamp" /\ Goes(c, "hide")
    /\ stamps' = [stamps EXCEPT ![got[c]] = @ + 1]
    /\ record' = [record EXCEPT ![c].receipt = stamps[got[c]] + 1]
    /\ bodies' = [bodies EXCEPT ![got[c]] = [record[c] EXCEPT !.receipt = stamps[got[c]] + 1]]
    /\ UNCHANGED <<waiting, taken, overdue, dead, found, got, batch, holds, published, done,
                   dropped, upsets>>

Hide(c) ==
    /\ pc[c] = "hide"
    /\ taken' = taken \union {got[c]} /\ overdue' = overdue \ {got[c]}
    /\ batch' = [batch EXCEPT ![c] = @ \union {<<got[c], record[c].receipt>>}]
    /\ NextOfBatch(c)
    /\ UNCHANGED <<waiting, bodies, dead, found, holds, history, upsets>>

Answer(c) ==
    /\ pc[c] = "answer" /\ Goes(c, "idle")
    /\ holds' = [holds EXCEPT ![c] = @ \union batch[c]]
    /\ batch' = [batch EXCEPT ![c] = {}]
    /\ UNCHANGED <<store, found, got, record, history, upsets>>

-----------------------------------------------------------------------------
(* acknowledge: a look at the receipt, and one MULTI.                      *)

IsCurrent(m, receipt) == bodies[m] # Nobody /\ bodies[m].receipt = receipt

AckReads(c) ==
    /\ pc[c] = "idle"
    /\ \E held \in holds[c] :
       /\ holds' = [holds EXCEPT ![c] = @ \ {held}]
       /\ \/ ~IsCurrent(held[1], held[2]) /\ UNCHANGED <<pc, got>>
          \/ /\ IsCurrent(held[1], held[2])
             /\ got' = [got EXCEPT ![c] = held[1]] /\ Goes(c, "strike")
    /\ UNCHANGED <<store, found, record, batch, history, upsets>>

AckWrites(c) ==
    /\ pc[c] = "strike" /\ Goes(c, "idle")
    /\ taken' = taken \ {got[c]} /\ overdue' = overdue \ {got[c]}
    /\ bodies' = [bodies EXCEPT ![got[c]] = Nobody]
    /\ done' = done \union {got[c]}
    /\ got' = [got EXCEPT ![c] = Nobody]
    /\ UNCHANGED <<waiting, dead, found, record, batch, holds, stamps, published, dropped, upsets>>

-----------------------------------------------------------------------------
\* One DEL of all four keys, by purge and as the first half of delete.
Purge ==
    /\ Upset
    /\ waiting' = <<>> /\ taken' = {} /\ overdue' = {} /\ dead' = {}
    /\ bodies' = [m \in Messages |-> Nobody]
    /\ dropped' = dropped \union published
    /\ UNCHANGED <<call, holds, stamps, published, done>>

\* The server restarts: calls are cut off between two commands.
Crash ==
    /\ \E c \in Consumers : pc[c] # "idle"
    /\ Upset
    /\ pc' = [c \in Consumers |-> "idle"] /\ found' = [c \in Consumers |-> {}]
    /\ got' = [c \in Consumers |-> Nobody] /\ record' = [c \in Consumers |-> Nobody]
    /\ batch' = [c \in Consumers |-> {}]
    /\ dropped' = dropped \union
                  {got[c] : c \in {d \in Consumers : pc[d] \in {"read", "stamp", "hide", "bury"}}}
    /\ UNCHANGED <<store, holds, stamps, published, done>>

-----------------------------------------------------------------------------
Receiving(c) == \/ Receive(c) \/ ReturnExpired(c) \/ Pop(c) \/ ReadBody(c)
                \/ Bury(c) \/ Clear(c) \/ Stamp(c) \/ Hide(c) \/ Answer(c)

Next == \/ \E m \in Messages : Publish(m) \/ TimePasses(m)
        \/ \E c \in Consumers : Receiving(c) \/ AckReads(c) \/ AckWrites(c)
        \/ Purge \/ Crash

Spec == Init /\ [][Next]_vars

\* Time passes, the server takes every next step of a call, and every client
\* keeps asking for messages.  Nobody has to acknowledge any.
Fairness == /\ \A m \in Messages : WF_vars(TimePasses(m))
            /\ \A c \in Consumers : WF_vars(Receiving(c) \/ AckWrites(c))

FairSpec == Spec /\ Fairness

-----------------------------------------------------------------------------
(* Correctness.                                                            *)

TypeOK ==
    /\ waiting \in Seq(Messages) /\ overdue \subseteq taken /\ taken \subseteq Messages
    /\ bodies \in [Messages -> Records \union {Nobody}] /\ dead \subseteq Messages
    /\ pc \in [Consumers -> {"idle", "return", "pop", "read", "bury", "clear", "stamp",
                             "hide", "answer", "strike"}]
    /\ found \in [Consumers -> SUBSET Messages]
    /\ got \in [Consumers -> Messages \union {Nobody}]
    /\ \A c \in Consumers : (got[c] = Nobody) <=> pc[c] \in {"idle", "return", "pop", "answer"}
    /\ record \in [Consumers -> Records \union {Nobody}]
    /\ batch \in [Consumers -> SUBSET (Messages \X Nat)]
    /\ holds \in [Consumers -> SUBSET (Messages \X Nat)]
    /\ stamps \in [Messages -> Nat]
    /\ published \subseteq Messages /\ done \subseteq published /\ dropped \subseteq published
    /\ upsets \in 0..MaxUpsets

(* A published message is somewhere: it waits, was taken, is in the hands  *)
(* of a call, was given up as dead or was acknowledged.  Only a restart or *)
(* a purge takes one away, whatever calls run into each other.             *)
Somewhere ==
    \A m \in published :
        \/ Contains(waiting, m) \/ m \in taken \union InMemory
        \/ m \in dead \union done \union dropped

(* A message nobody acknowledges does not go round for ever, also when two *)
(* calls return it at once and overwrite each other's count.               *)
EveryMessageEnds ==
    \A m \in Messages : (m \in published) ~> (m \in dead \union done \union dropped)

(* What is said of acknowledge (queues/service.py): "Say a message is done *)
(* with, so it never comes back."  The record another call had read before *)
(* is written over its end, and what was done waits again with a body.     *)
AcknowledgedNeverComesBack ==
    \A m \in done : Contains(waiting, m) => bodies[m] = Nobody
=============================================================================
