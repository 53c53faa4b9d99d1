----------------------------- MODULE Databases -----------------------------
(***************************************************************************)
(* Managed databases: a record in the platform's own database, and a role  *)
(* and a database on the server applications connect to.  Each statement   *)
(* on the server is committed at once (AUTOCOMMIT); the record is written  *)
(* in a transaction that is committed after them, or before none of them.  *)
(***************************************************************************)
EXTENDS Naturals, FiniteSets

CONSTANTS
    Dbs,            \* identifiers of records; the names on the server carry them
    Owners,         \* requests under way
    NoPassword,
    MaxPasswords,   \* bound: passwords made in all
    MaxBreaks       \* bound: restarts, and statements the server refuses

VARIABLES
    record,         \* what a committed record says the password is
    role, holds,    \* the server: the password of a role, the databases
    order,          \* where a request stands
    used,           \* identifiers that were given to a record
    sole,           \* history: databases one request alone touched last
    made, breaks

databaseVars == <<record, role, holds, order, used, sole, made, breaks>>
server       == <<role, holds>>
counts       == <<made, breaks>>

DatabaseRows == [Dbs -> (0..MaxPasswords) \union {NoPassword}]
There(d)     == record[d] # NoPassword
Is(c, s)     == order[c].at = s
Its(c)       == order[c].db
With(d)      == {c \in Owners : ~Is(c, "free") /\ Its(c) = d}
Step(c, s)   == order' = [order EXCEPT ![c].at = s]
Done(c)      == order' = [order EXCEPT ![c] = [at |-> "free"]]
ByItself(c)  == With(Its(c)) = {c} /\ ~order[c].met
Counted(c)   == sole' = IF ByItself(c) THEN sole \union {Its(c)} ELSE sole \ {Its(c)}
Breaks       == breaks < MaxBreaks /\ breaks' = breaks + 1

Init ==
    /\ record = [d \in Dbs |-> NoPassword] /\ role = [d \in Dbs |-> NoPassword]
    /\ holds = {} /\ used = {} /\ sole = {} /\ made = 0 /\ breaks = 0
    /\ order = [c \in Owners |-> [at |-> "free"]]

Enter(c, d, step, password) ==
    /\ Is(c, "free")
    /\ order' = [e \in Owners |->
          IF e = c THEN [at |-> step, db |-> d, password |-> password, met |-> With(d) # {}]
          ELSE IF e \in With(d) THEN [order[e] EXCEPT !.met = TRUE] ELSE order[e]]
    /\ sole' = sole \ {d}

\* The record is flushed for its identifier, and seen by nobody yet.
create(c, d) ==
    /\ d \notin used /\ made < MaxPasswords
    /\ Enter(c, d, "role", made) /\ used' = used \union {d} /\ made' = made + 1
    /\ UNCHANGED <<record, server, breaks>>

\* A statement the server refuses rolls the record back, and only that.
create_database(c) ==
    /\ Is(c, "role") \/ Is(c, "database")
    /\ \/ /\ IF Is(c, "role") THEN role' = [role EXCEPT ![Its(c)] = order[c].password] /\ UNCHANGED holds
             ELSE holds' = holds \union {Its(c)} /\ UNCHANGED role
          /\ Step(c, IF Is(c, "role") THEN "database" ELSE "keep")
          /\ UNCHANGED breaks
       \/ /\ Breaks /\ Done(c) /\ UNCHANGED server
    /\ UNCHANGED <<record, used, sole, made>>

keep(c) ==
    /\ Is(c, "keep") /\ Done(c)
    /\ record' = [record EXCEPT ![Its(c)] = order[c].password]
    /\ Counted(c) /\ UNCHANGED <<server, used, counts>>

\* Mutant: the record is written and the server told afterwards, if ever.
RecordFirst(c, d) ==
    /\ There(d) /\ made < MaxPasswords
    /\ Enter(c, d, "store", made) /\ made' = made + 1
    /\ UNCHANGED <<record, server, used, breaks>>

rotate_password(c, d) ==
    /\ There(d) /\ made < MaxPasswords
    /\ Enter(c, d, "alter", made) /\ made' = made + 1
    /\ UNCHANGED <<record, server, used, breaks>>

\* ALTER ROLE: a role that is not there is an error, and nothing is written.
set_password(c) ==
    /\ Is(c, "alter")
    /\ \/ role[Its(c)] # NoPassword /\ role' = [role EXCEPT ![Its(c)] = order[c].password]
          /\ Step(c, "store") /\ UNCHANGED <<sole, breaks>>
       \/ role[Its(c)] = NoPassword /\ Done(c) /\ UNCHANGED <<role, sole, breaks>>
       \/ Breaks /\ Done(c) /\ UNCHANGED <<role, sole>>
    /\ UNCHANGED <<record, holds, used, made>>

store(c) ==
    /\ Is(c, "store") /\ Done(c)
    /\ record' = IF ~There(Its(c)) THEN record
                 ELSE [record EXCEPT ![Its(c)] = order[c].password]
    /\ Counted(c) /\ UNCHANGED <<server, used, counts>>

delete(c, d) ==
    /\ There(d)
    /\ Enter(c, d, "drop", NoPassword) /\ UNCHANGED <<record, server, used, counts>>

\* DROP ... IF EXISTS: what an earlier attempt took away is no error.
drop_database(c) ==
    /\ Is(c, "drop") \/ Is(c, "drop_role")
    /\ IF Is(c, "drop") THEN holds' = holds \ {Its(c)} /\ UNCHANGED role
       ELSE /\ role' = IF Its(c) \in holds THEN role ELSE [role EXCEPT ![Its(c)] = NoPassword]
            /\ UNCHANGED holds
    /\ Step(c, IF Is(c, "drop") THEN "drop_role" ELSE "forget")
    /\ UNCHANGED <<record, used, sole, counts>>

forget(c) ==
    /\ Is(c, "forget") /\ Done(c)
    /\ record' = [record EXCEPT ![Its(c)] = NoPassword]
    /\ Counted(c) /\ UNCHANGED <<server, used, counts>>

Stops(c) ==
    /\ ~Is(c, "free") /\ Breaks /\ Done(c)
    /\ UNCHANGED <<record, server, used, sole, made>>

Next ==
    \/ \E c \in Owners, d \in Dbs : create(c, d) \/ rotate_password(c, d) \/ delete(c, d)
    \/ \E c \in Owners :
          \/ create_database(c) \/ keep(c) \/ set_password(c) \/ store(c) \/ drop_database(c)
          \/ forget(c) \/ Stops(c)

Spec == Init /\ [][Next]_databaseVars

-----------------------------------------------------------------------------
\* The password read_connection and rotate_password answer with.
connection_of(d) == record[d]

(* Records, roles and requests are of their kind. *)
TypeOK ==
    /\ record \in DatabaseRows
    /\ role \in [Dbs -> (0..MaxPasswords) \union {NoPassword}]
    /\ holds \subseteq used /\ used \subseteq Dbs /\ sole \subseteq used

(* After a creation, a rotation or a deletion that ran alone, the password
   the record keeps is the one the server takes (read_connection hands it
   out), and without a record neither role nor database is left: what an
   earlier request broke off or ran into is mended by the next, except that
   a database half deleted does not come back. *)
PasswordOpens == \A d \in sole :
    IF There(d) THEN role[d] = connection_of(d) /\ (d \in holds \/ breaks > 0)
    ELSE d \notin holds /\ role[d] = NoPassword
=============================================================================
