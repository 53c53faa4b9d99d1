------------------------------- MODULE Quotas -------------------------------
(***************************************************************************)
(* What one account may hold.  A limit is weighed in one transaction and   *)
(* what it lets in is written in another, later one: a row for a thing     *)
(* that is counted, and bytes that may be more than was announced.         *)
(***************************************************************************)
EXTENDS Naturals, FiniteSets

CONSTANTS
    Askers,         \* requests of the account at a time
    Unset,
    Default,        \* settings.quota_*: things, and bytes
    Given,          \* columns of account_limits, Unset where empty
    Sizes,          \* bytes of one upload
    MaxHeld         \* bound: bytes the account ever held

VARIABLES
    things,         \* rows of the kind that is counted
    bytes,          \* sum of the sizes of objects, packages and layers
    asks            \* where each request stands

quotaVars == <<things, bytes, asks>>

Asked(c)   == asks[c].at
Turns(c, r) == asks' = [asks EXCEPT ![c] = r]

\* limits_of: its own where the account has one, else everybody's.
LimitOf(what) == IF Given[what] = Unset THEN Default[what] ELSE Given[what]

Init == things = 0 /\ bytes = 0 /\ asks = [c \in Askers |-> [at |-> "idle"]]

\* Mutant: the one that fills the account up is followed by another.
RoomForTwoMore(count) == count <= LimitOf("things")

RoomForOneMore(count) == count < LimitOf("things")

EnsureRoomForOneMore(c) ==
    /\ Asked(c) = "idle" /\ RoomForOneMore(things)
    /\ Turns(c, [at |-> "insert"])
    /\ UNCHANGED <<things, bytes>>

Insert(c) ==
    /\ Asked(c) = "insert" /\ Turns(c, [at |-> "idle"])
    /\ things' = things + 1 /\ UNCHANGED bytes

\* storage_of: files, packages and layers; repositories are not counted.
storage_of == bytes

RoomForBytes(adding) == storage_of + adding <= LimitOf("bytes")

EnsureRoomForBytes(c, announced) ==
    /\ Asked(c) = "idle" /\ bytes < MaxHeld /\ RoomForBytes(announced)
    /\ Turns(c, [at |-> "write", announced |-> announced])
    /\ UNCHANGED <<things, bytes>>

\* What comes may be more than was announced; it is counted afterwards.
Write(c) ==
    /\ Asked(c) = "write" /\ Turns(c, [at |-> "idle"])
    /\ \E size \in Sizes : bytes' = bytes + size
    /\ UNCHANGED things

Remove ==
    \/ things > 0 /\ things' = things - 1 /\ UNCHANGED <<bytes, asks>>
    \/ \E size \in Sizes : size <= bytes /\ bytes' = bytes - size /\ UNCHANGED <<things, asks>>

Next ==
    \/ \E c \in Askers :
          \/ EnsureRoomForOneMore(c) \/ Insert(c) \/ Write(c)
          \/ \E announced \in Sizes \union {0} : EnsureRoomForBytes(c, announced)
    \/ Remove

Spec == Init /\ [][Next]_quotaVars

-----------------------------------------------------------------------------
(* Counts are counts. *)
TypeOK == things \in Nat /\ bytes \in Nat

Underway(step) == Cardinality({c \in Askers : Asked(c) = step})

(* Requests that are weighed at the same time pass the limit together, and
   never by more than there are at a time less one; the bytes by no more
   than each of those may send (service.ensure_room_for_one_more). *)
PassedByFewOnly ==
    /\ things + Underway("insert") <= LimitOf("things") + Cardinality(Askers) - 1
    /\ \A most \in Sizes : (\A size \in Sizes : size <= most) =>
          bytes <= LimitOf("bytes") + Cardinality(Askers) * most
=============================================================================
