------------------------------- MODULE SlowLog -------------------------------
(***************************************************************************)
(* Slow SQL: statements run on the platform and entries the engines keep   *)
(* are copied to one table, by the beat, by hand and, for the platform's   *)
(* own, by every page that lists them.  A copy reads which rows are there  *)
(* and inserts the others, and a unique key refuses the copy that comes    *)
(* second.  The beat cleans the table at its end.                          *)
(***************************************************************************)
EXTENDS SlowStats

CONSTANTS
    Statements,   \* statements on the platform, records with id, inst, db, print, took, minute
    Natives,      \* entries of the engines, records alike; minute: the key holds the time
    Sources,      \* instances
    Copiers,      \* beats, requests to collect and pages
    Span,         \* a sync looks back this far: 7 days
    Most,         \* and copies at most this many: the latest 1000
    Keeps,        \* retention_days a configuration may have
    DefaultKeep,  \* retention_days of a default configuration
    LastHourRun,  \* bound: the clock
    MaxCopies     \* bound: copies begun and configurations edited

ASSUME SlowAssumption ==
    /\ Span \in Nat /\ Most \in Nat /\ Keeps \subseteq Nat \ {0} /\ DefaultKeep \in Nat
    /\ LastHourRun \in Nat /\ MaxCopies \in Nat

\* An id tells what was run or listed, and where (query_log.id; source and source_ref).
Entries == Statements \cup Natives
ASSUME EntryAssumption ==
    /\ IsFiniteSet(Entries)
    /\ \A e \in Entries : e.inst \in Sources /\ e.took \in Nat
    /\ \A e, f \in Entries : e.id = f.id => e = f

VARIABLES
    ran,       \* when each statement ran, 0 if it did not: query_log
    slow,      \* slow_query_log: entries with the hour they occurred
    policy,    \* slow_query_config by instance: enabled, retention; none yet
    copier,    \* what each copier has left to do and has read
    hour,      \* now
    copies     \* history: bounds the run

slowVars == <<ran, slow, policy, copier, hour, copies>>

NoPolicy == [keep |-> 0]
Idle == [at |-> "idle"]
Ids == {s.id : s \in Statements}
Row(e, at) == [id |-> e.id, inst |-> e.inst, db |-> e.db, print |-> e.print, took |-> e.took,
               minute |-> e.minute, at |-> at]
\* The unique key of source and source_ref is taken.
Copied(r) == \E s \in slow : s.id = r.id /\ (r.minute => s.at = r.at)

SlowInit ==
    /\ ran = [id \in Ids |-> 0]
    /\ slow = {}
    /\ policy \in [Sources -> {NoPolicy} \cup {[on |-> TRUE, keep |-> k] : k \in Keeps}]
    /\ copier = [c \in Copiers |-> Idle]
    /\ hour = 1 /\ copies = 0
----------------------------------------------------------------------------
RunStatement(id) ==
    /\ ran[id] = 0 /\ ran' = [ran EXCEPT ![id] = hour]
    /\ UNCHANGED <<slow, policy, copier, hour, copies>>
\* ensure_default_config of a page, upsert_config, update_config.
SetPolicy(i, on, keep) ==
    /\ copies < MaxCopies /\ copies' = copies + 1
    /\ policy' = [policy EXCEPT ![i] = [on |-> on, keep |-> keep]]
    /\ UNCHANGED <<ran, slow, copier, hour>>
PassHour ==
    /\ hour < LastHourRun /\ hour' = hour + 1
    /\ UNCHANGED <<ran, slow, policy, copier, copies>>
----------------------------------------------------------------------------
\* sync_platform_logs: the latest slow statements of the span that have no row yet.
Recent(back) == {s \in Statements : ran[s.id] # 0 /\ ran[s.id] >= hour - back}
Latest(back) == {s \in Recent(back) : Cardinality({t \in Recent(back) : ran[t.id] > ran[s.id]}) < Most}
ToCopy(back) == {r \in {Row(s, ran[s.id]) : s \in Latest(back)} : ~Copied(r)}

\* A page, a request to collect and the beat begin with the sync; a page may ask for any span.
BeginCopy(c, task, back) ==
    /\ task = "beat" => back = Span
    /\ copier[c] = Idle /\ copies < MaxCopies /\ copies' = copies + 1
    /\ copier' = [copier EXCEPT ![c] =
           [at |-> "sync", task |-> task, new |-> ToCopy(back), todo |-> IF task = "page" THEN {} ELSE Sources]]
    /\ UNCHANGED <<ran, slow, policy, hour>>
\* The unique key refuses the whole commit if one row is there by now: a page
\* answers with an error, and so does the beat, whose session is unusable.
Refused(c) == \E r \in copier[c].new : Copied(r)
CommitCopy(c) ==
    /\ copier[c].at \in {"sync", "native"} /\ ~Refused(c)
    /\ slow' = slow \cup copier[c].new
    /\ copier' = [copier EXCEPT ![c].at = "next", ![c].new = {}]
    /\ UNCHANGED <<ran, policy, hour, copies>>
RefuseCopy(c) ==
    /\ copier[c].at \in {"sync", "native"} /\ Refused(c)
    /\ copier' = [copier EXCEPT ![c] = Idle]
    /\ UNCHANGED <<ran, slow, policy, hour, copies>>

\* One instance: a missing configuration is created, a disabled one is passed
\* by, and so is one that is not due; the engine lists some entries or fails.
Collect(c, i, listed) ==
    /\ copier[c].at = "next" /\ i \in copier[c].todo
    /\ policy' = IF policy[i] = NoPolicy THEN [policy EXCEPT ![i] = [on |-> TRUE, keep |-> DefaultKeep]] ELSE policy
    /\ listed \subseteq {e \in Natives : e.inst = i}
    /\ policy'[i].on \/ listed = {}
    /\ copier' = [copier EXCEPT ![c].todo = @ \ {i}, ![c].at = IF listed = {} THEN @ ELSE "native",
                                ![c].new = {r \in {Row(e, hour) : e \in listed} : ~Copied(r)}]
    /\ UNCHANGED <<ran, slow, hour, copies>>

\* Mutant of Shortest: the longest retention decides.
LongestKeep(keeps) == CHOOSE k \in keeps : \A j \in keeps : k >= j
\* The beat cleans with the shortest retention of the enabled configurations.
Shortest(keeps) == CHOOSE k \in keeps : \A j \in keeps : k <= j
Retained == LET keeps == {policy[i].keep : i \in {j \in Sources : policy[j] # NoPolicy /\ policy[j].on}}
            IN  IF keeps = {} THEN DefaultKeep ELSE Shortest(keeps)
CleanUp(c) ==
    /\ copier[c].at = "next" /\ copier[c].todo = {} /\ copier[c].task = "beat"
    /\ slow' = {r \in slow : r.at >= hour - Retained}
    /\ copier' = [copier EXCEPT ![c] = Idle]
    /\ UNCHANGED <<ran, policy, hour, copies>>
\* A page reads the rows of its scope; a request to collect is done.
Answer(c) ==
    /\ copier[c].at = "next" /\ copier[c].todo = {} /\ copier[c].task # "beat"
    /\ copier' = [copier EXCEPT ![c] = Idle]
    /\ UNCHANGED <<ran, slow, policy, hour, copies>>
CrashCopy(c) ==
    /\ copier[c] # Idle /\ copier' = [copier EXCEPT ![c] = Idle]
    /\ UNCHANGED <<ran, slow, policy, hour, copies>>

SlowNext ==
    \/ \E id \in Ids : RunStatement(id)
    \/ \E i \in Sources, on \in BOOLEAN, keep \in Keeps : SetPolicy(i, on, keep)
    \/ \E c \in Copiers : \/ \E task \in {"beat", "hand", "page"} : BeginCopy(c, task, Span) \/ BeginCopy(c, task, LastHourRun)
                          \/ CommitCopy(c) \/ RefuseCopy(c) \/ CleanUp(c) \/ Answer(c) \/ CrashCopy(c)
                          \/ \E i \in Sources, listed \in SUBSET Natives : Collect(c, i, listed)
    \/ PassHour

SlowSpec == SlowInit /\ [][SlowNext]_slowVars
----------------------------------------------------------------------------
\* What a viewer of some instances is shown: scoped_instance_ids and _filters.
ShownTo(scope) == {r \in slow : r.inst \in scope}

(***************************************************************************)
(* Whatever overlapping copies and cleanups left in the table, each        *)
(* statement is there once, and what each scope is shown adds up           *)
(* (slowlog.py 369-433, 481-736).                                          *)
(***************************************************************************)
ShownAddsUp ==
    /\ \A r, s \in slow : r.id = s.id /\ ~r.minute => r = s
    /\ \A scope \in SUBSET Sources : AddsUp(ShownTo(scope))

(***************************************************************************)
(* A beat that cleans leaves no row past the retention of its instance's   *)
(* enabled configuration (tasks/monitor.py 176-182).                       *)
(***************************************************************************)
CleanedInTime ==
    [][\A c \in Copiers : CleanUp(c) =>
        \A r \in slow' : LET p == policy[r.inst]
                         IN  p # NoPolicy /\ p.on => r.at >= hour - p.keep]_slowVars

(***************************************************************************)
(* Copies, cleanups and edits that overlap keep both.                      *)
(***************************************************************************)
SlowLogAgrees == []ShownAddsUp /\ CleanedInTime
=============================================================================
