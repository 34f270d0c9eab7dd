----------------------------- MODULE SessionKill -----------------------------
(***************************************************************************)
(* Ending a session of a target database by hand: a page lists the         *)
(* sessions, an operator picks one, and the request ends whatever session  *)
(* has that id when it arrives.  A server gives an id to a new session     *)
(* once its session is gone; Oracle tells the two apart by a serial.       *)
(***************************************************************************)
EXTENDS Naturals

CONSTANTS
    SessionIds,        \* session ids of the target
    Operators,  \* pages on which sessions are listed and ended
    MaxSerial   \* bound: sessions ever started

ASSUME KillBound == MaxSerial \in Nat

VARIABLES
    brand,   \* sql_instance.db_type
    live,    \* the target: serial of the session that has an id, 0 when none
    serials, \* the target: sessions started so far
    page,    \* what each page shows of the session picked, 0 when none
    killed,   \* history: the last kill of each page: serial picked and ended
    trail    \* operation_log: results of kills, as a set

killVars == <<brand, live, serials, page, killed, trail>>

KillInit ==
    /\ brand \in {"oracle", "mysql", "pgsql"}
    /\ live = [i \in SessionIds |-> 0]
    /\ serials = 0
    /\ page = [o \in Operators |-> [id |-> CHOOSE i \in SessionIds : TRUE, serial |-> 0]]
    /\ killed = [o \in Operators |-> [picked |-> 0, ended |-> 0]]
    /\ trail = {}

\* An application connects to the target.
Connect(i) ==
    /\ live[i] = 0 /\ serials < MaxSerial
    /\ serials' = serials + 1
    /\ live' = [live EXCEPT ![i] = serials']
    /\ UNCHANGED <<brand, page, killed, trail>>

Disconnect(i) ==
    /\ live[i] # 0
    /\ live' = [live EXCEPT ![i] = 0]
    /\ UNCHANGED <<brand, serials, page, killed, trail>>

\* get_processlist, and an operator who picks a session of the list.
Pick(o, i) ==
    /\ live[i] # 0
    /\ page' = [page EXCEPT ![o] = [id |-> i, serial |-> live[i]]]
    /\ UNCHANGED <<brand, live, serials, killed, trail>>

\* Mutant of Struck: the serial is left out of the statement.
StruckById(o) == live[page[o].id]
\* kill_connection: the session the statement ends, 0 when there is none.
Struck(o) ==
    LET found == live[page[o].id]
    IN  IF brand = "oracle" /\ found # page[o].serial THEN 0 ELSE found

\* PostgreSQL answers FALSE, the others raise an error, when there is none.
KillResult(o) == IF Struck(o) # 0 \/ brand = "pgsql" THEN "success" ELSE "failed"

\* kill_session: the statement, and the audit log in a transaction of its own.
Kill(o) ==
    /\ page[o].serial # 0
    /\ live' = [live EXCEPT ![page[o].id] = IF Struck(o) # 0 THEN 0 ELSE @]
    /\ killed' = [killed EXCEPT ![o] = [picked |-> page[o].serial, ended |-> Struck(o)]]
    /\ trail' = trail \cup {KillResult(o)}
    /\ page' = [page EXCEPT ![o].serial = 0]
    /\ UNCHANGED <<brand, serials>>

\* AuditLogService.write failed: it is logged, the kill stands.
KillUnlogged(o) ==
    /\ page[o].serial # 0
    /\ live' = [live EXCEPT ![page[o].id] = IF Struck(o) # 0 THEN 0 ELSE @]
    /\ killed' = [killed EXCEPT ![o] = [picked |-> page[o].serial, ended |-> Struck(o)]]
    /\ page' = [page EXCEPT ![o].serial = 0]
    /\ UNCHANGED <<brand, serials, trail>>

KillNext ==
    \/ \E i \in SessionIds : Connect(i) \/ Disconnect(i)
    \/ \E o \in Operators, i \in SessionIds : Pick(o, i)
    \/ \E o \in Operators : Kill(o) \/ KillUnlogged(o)

KillSpec == KillInit /\ [][KillNext]_killVars
----------------------------------------------------------------------------
(***************************************************************************)
(* On Oracle a kill ends the session that was listed or none, however      *)
(* long the page was open: the id may be another session's by then         *)
(* (routers/diagnostic.py:244, engines/oracle.py:668).  MySQL, StarRocks   *)
(* and PostgreSQL end whoever has the id.                                  *)
(***************************************************************************)
ListedIsEnded ==
    brand = "oracle" =>
        \A o \in Operators : killed[o].ended # 0 => killed[o].ended = killed[o].picked
=============================================================================
