--------------------------- MODULE InstanceRegistry ---------------------------
(***************************************************************************)
(* The databases registered for one instance: added, disabled and deleted  *)
(* by hand, and synchronised with what the engine lists.  A sync asks the  *)
(* engine, reads the rows, and commits deletions, updates and insertions   *)
(* at the end; several syncs and edits overlap, and the engine changes.    *)
(* The pair of instance and name is unique.                                *)
(***************************************************************************)
EXTENDS Naturals, FiniteSets

CONSTANTS
    Databases,   \* names of databases
    Syncs,       \* overlapping requests to synchronise
    MaxTurns     \* bound: syncs begun, edits, and changes of the engine

ASSUME TurnAssumption == MaxTurns \in Nat

VARIABLES
    visible,     \* what the engine lists
    registered,  \* instance_database: number, active, legacy remark
    running,     \* the instance is active
    sync,        \* what each sync has listed and read
    off,         \* history: names disabled by hand
    turns        \* history: numbers rows as well

registryVars == <<visible, registered, running, sync, off, turns>>

Unregistered == [number |-> 0]
Registered(n) == registered[n] # Unregistered
Entry(number) == [number |-> number, active |-> TRUE, legacy |-> FALSE]
Turn == turns < MaxTurns /\ turns' = turns + 1
Dormant == [at |-> "dormant"]

RegistryInit ==
    /\ visible \in SUBSET Databases
    /\ registered \in [Databases -> {Unregistered, [number |-> 1, active |-> FALSE, legacy |-> TRUE]}]
    /\ running = TRUE
    /\ sync = [s \in Syncs |-> Dormant]
    /\ off = {} /\ turns = 1
----------------------------------------------------------------------------
\* add_database; the check and the unique key refuse a name that is registered.
AddDatabase(n) ==
    /\ ~Registered(n) /\ Turn
    /\ registered' = [registered EXCEPT ![n] = Entry(turns')]
    /\ UNCHANGED <<visible, running, sync, off>>
\* update_database.
SwitchDatabase(n) ==
    /\ Registered(n) /\ Turn
    /\ registered' = [registered EXCEPT ![n].active = ~@]
    /\ off' = IF registered[n].active THEN off \cup {n} ELSE off \ {n}
    /\ UNCHANGED <<visible, running, sync>>
RemoveDatabase(n) ==
    /\ Registered(n) /\ Turn
    /\ registered' = [registered EXCEPT ![n] = Unregistered]
    /\ off' = off \ {n}
    /\ UNCHANGED <<visible, running, sync>>
\* InstanceService.delete: the instance is marked, what is registered stays.
StopRegistry ==
    /\ running /\ running' = FALSE
    /\ UNCHANGED <<visible, registered, sync, off, turns>>
EngineChanges(n) ==
    /\ Turn
    /\ visible' = IF n \in visible THEN visible \ {n} ELSE visible \cup {n}
    /\ UNCHANGED <<registered, running, sync, off>>
----------------------------------------------------------------------------
\* sync_from_engine: of an active instance; what the engine lists, unless it fails.
ListEngine(s) ==
    /\ sync[s] = Dormant /\ running /\ Turn
    /\ sync' = [sync EXCEPT ![s] = [at |-> "listed", names |-> visible]]
    /\ UNCHANGED <<visible, registered, running, off>>
ReadRegistered(s) ==
    /\ sync[s].at = "listed"
    /\ sync' = [sync EXCEPT ![s] = [at |-> "read", names |-> sync[s].names, seen |-> registered]]
    /\ UNCHANGED <<visible, registered, running, off, turns>>

\* Mutant of Renewal: what is visible is enabled.
RenewalEnabled(row) == [row EXCEPT !.active = TRUE, !.legacy = FALSE]
\* What is still visible: only rows an old version had disabled are enabled.
Renewal(row) == IF row.legacy THEN [row EXCEPT !.active = TRUE, !.legacy = FALSE] ELSE row
\* The unit of work writes the columns that differ from what was read.
Merge(now, seen, new) ==
    [now EXCEPT !.active = IF new.active # seen.active THEN new.active ELSE @,
                !.legacy = IF new.legacy # seen.legacy THEN new.legacy ELSE @]
Vanished(s) == {n \in Databases : sync[s].seen[n] # Unregistered /\ n \notin sync[s].names}
Kept(s) == {n \in sync[s].names : sync[s].seen[n] # Unregistered}
New(s) == sync[s].names \ Kept(s)
\* The commit goes through when every row to update is there and every new name is free.
Committable(s) ==
    /\ \A n \in Kept(s) : registered[n].number = sync[s].seen[n].number
    /\ \A n \in New(s) : ~Registered(n)
CommitSync(s) ==
    /\ sync[s].at = "read" /\ Committable(s)
    /\ LET seen == sync[s].seen
           gone == {n \in Vanished(s) : registered[n].number = seen[n].number}
       IN  /\ registered' = [n \in Databases |->
                  IF n \in gone THEN Unregistered
                  ELSE IF n \in New(s) THEN Entry(turns)
                  ELSE IF n \in Kept(s) THEN Merge(registered[n], seen[n], Renewal(seen[n]))
                  ELSE registered[n]]
           /\ off' = off \ (gone \cup {n \in Kept(s) : seen[n].legacy})
    /\ sync' = [sync EXCEPT ![s] = Dormant]
    /\ UNCHANGED <<visible, running, turns>>
RefuseSync(s) ==
    /\ sync[s].at = "read" /\ ~Committable(s)
    /\ sync' = [sync EXCEPT ![s] = Dormant]
    /\ UNCHANGED <<visible, registered, running, off, turns>>

RegistryNext ==
    \/ \E n \in Databases : AddDatabase(n) \/ SwitchDatabase(n) \/ RemoveDatabase(n) \/ EngineChanges(n)
    \/ \E s \in Syncs : ListEngine(s) \/ ReadRegistered(s) \/ CommitSync(s) \/ RefuseSync(s)
    \/ StopRegistry

RegistrySpec == RegistryInit /\ [][RegistryNext]_registryVars
----------------------------------------------------------------------------
DatabaseRow == [number : Nat \ {0}, active : BOOLEAN, legacy : BOOLEAN]
Registry == [Databases -> DatabaseRow \cup {Unregistered}]
\* The rows, and what syncs have read of them, are well-formed.
RegistryTypeOK ==
    /\ turns \in Nat \ {0}
    /\ visible \in SUBSET Databases
    /\ off \in SUBSET Databases
    /\ registered \in Registry
    /\ sync \in [Syncs -> {Dormant} \cup [at : {"listed"}, names : SUBSET Databases]
                          \cup [at : {"read"}, names : SUBSET Databases, seen : Registry]]

(***************************************************************************)
(* A database disabled by hand stays disabled while it is registered and   *)
(* visible, however many syncs overlap with the edit: only rows an old     *)
(* version had disabled are enabled (instance_database.py 199-211).        *)
(***************************************************************************)
DisabledIsKept == \A n \in off : Registered(n) /\ ~registered[n].active

(***************************************************************************)
(* A sync that succeeds leaves exactly what it listed, apart from names    *)
(* that were registered after it read the rows (instance_database.py       *)
(* 136-237).                                                               *)
(***************************************************************************)
SyncedIsListed ==
    [][\A s \in Syncs : CommitSync(s) =>
        LET after == {n \in Databases : registered'[n] # Unregistered}
        IN  /\ sync[s].names \subseteq after
            /\ \A n \in after \ sync[s].names : registered[n].number # sync[s].seen[n].number]_registryVars

(***************************************************************************)
(* Syncs that overlap with edits by hand keep both.                        *)
(***************************************************************************)
RegistryAgrees == [](RegistryTypeOK /\ DisabledIsKept) /\ SyncedIsListed
=============================================================================
