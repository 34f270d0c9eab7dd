--------------------------- MODULE SessionSampling ---------------------------
(***************************************************************************)
(* The history of database sessions.  Every ten seconds a beat goes        *)
(* through the active instances, creates missing configurations, stores    *)
(* the sessions of those that are due, cleans each instance by its own     *)
(* retention and commits once.  The page of configurations creates missing *)
(* ones too.  The second of two insertions of one configuration waits for  *)
(* the first, fails when it commits, and two may wait for each other.      *)
(***************************************************************************)
EXTENDS Integers, FiniteSets

CONSTANTS
    Engines,       \* active instances
    Samplers,      \* beats and pages
    Period,        \* collect_interval, in ticks
    Terms,         \* retention_days a configuration may have
    DefaultTerm,   \* retention_days of a default configuration
    LastBeat,      \* bound: the clock
    MaxSamplings   \* bound: beats, pages and edits

ASSUME SamplingAssumption ==
    /\ Period \in Nat \ {0} /\ Terms \subseteq Nat \ {0} /\ DefaultTerm \in Nat \ {0}
    /\ LastBeat \in Nat /\ MaxSamplings \in Nat

VARIABLES
    scheme,     \* session_collect_config by instance
    history,    \* session_snapshot: per instance and time, the sessions or the error
    sampler,    \* each beat or page, with the writes of its transaction
    tick,       \* now
    samplings   \* history: bounds the run

samplingVars == <<scheme, history, sampler, tick, samplings>>

Undefined == [term |-> 0]
Away == [at |-> "away"]
DefaultScheme == [term |-> DefaultTerm, on |-> TRUE, last |-> 0, status |-> "never"]
StepOf(s) == sampler[s].at

SamplingInit ==
    /\ scheme = [e \in Engines |-> Undefined]
    /\ history = {}
    /\ sampler = [s \in Samplers |-> Away]
    /\ tick = 1 /\ samplings = 0
----------------------------------------------------------------------------
BeginSampling(s, kind) ==
    /\ sampler[s] = Away /\ samplings < MaxSamplings /\ samplings' = samplings + 1
    /\ sampler' = [sampler EXCEPT ![s] =
           [at |-> "next", kind |-> kind, now |-> tick, todo |-> Engines, on |-> {}, made |-> {}, held |-> {},
            stamp |-> scheme, read |-> {}, due |-> {}, new |-> {}, gone |-> {}]]
    /\ UNCHANGED <<scheme, history, tick>>

\* Another transaction has inserted, or written, the configuration.
MadeByOther(s, e) == \E t \in Samplers \ {s} : sampler[t] # Away /\ e \in sampler[t].made
HeldByOther(s, e) == \E t \in Samplers \ {s} : sampler[t] # Away /\ e \in sampler[t].held
\* ensure_default_config: found, inserted, or inserted by another meanwhile.
Ensure(s, e) ==
    /\ StepOf(s) = "next" /\ e \in sampler[s].todo
    /\ sampler' = [sampler EXCEPT
           ![s].at = IF scheme[e] = Undefined /\ MadeByOther(s, e) THEN "wait" ELSE "found",
           ![s].on = {e},
           ![s].made = IF scheme[e] = Undefined /\ ~MadeByOther(s, e) THEN @ \cup {e} ELSE @,
           ![s].stamp[e] = IF scheme[e] = Undefined THEN DefaultScheme ELSE scheme[e]]
    /\ UNCHANGED <<scheme, history, tick, samplings>>
\* The other transaction ended without its insertion.
InsertAfter(s, e) ==
    /\ StepOf(s) = "wait" /\ sampler[s].on = {e} /\ scheme[e] = Undefined /\ ~MadeByOther(s, e)
    /\ sampler' = [sampler EXCEPT ![s].at = "found", ![s].made = @ \cup {e}]
    /\ UNCHANGED <<scheme, history, tick, samplings>>
\* s waits for a transaction that waits for s: the database ends one of them.
Crosswise(s) ==
    \E t \in Samplers \ {s} :
        /\ StepOf(t) = "wait" /\ sampler[t].on \subseteq sampler[s].made
        /\ sampler[s].on \subseteq sampler[t].made
\* The insertion is refused, or the transaction is chosen to end a deadlock.
LoseSampling(s) ==
    /\ StepOf(s) = "wait" /\ (Crosswise(s) \/ \E e \in sampler[s].on : scheme[e] # Undefined)
    /\ sampler' = [sampler EXCEPT ![s] = Away]
    /\ UNCHANGED <<scheme, history, tick, samplings>>
----------------------------------------------------------------------------
\* is_collect_due.
DueToSample(c, now) == c.on /\ (c.last = 0 \/ now - c.last >= Period)
\* Mutant of Snapshots: an engine that fails leaves no row.
SnapshotsOfSessions(e, now, answer) == IF answer = "sessions" THEN {[inst |-> e, at |-> now, ok |-> TRUE]} ELSE {}
\* save_snapshot: the sessions, none of an idle engine, one row for an error.
Snapshots(e, now, answer) ==
    CASE answer = "sessions" -> {[inst |-> e, at |-> now, ok |-> TRUE]}
      [] answer = "error" -> {[inst |-> e, at |-> now, ok |-> FALSE]}
      [] OTHER -> {}
Outdated(e, c) == {h \in history : h.inst = e /\ h.at < tick - c.term}
\* One instance of the beat: the engine's answer if it is due, and the cleanup.
SampleOne(s, answer) ==
    /\ StepOf(s) = "found" /\ sampler[s].kind = "beat"
    /\ \E e \in sampler[s].on :
          LET c == sampler[s].stamp[e]
              now == sampler[s].now
              due == DueToSample(c, now)
              after == IF ~c.on THEN [c EXCEPT !.status = "skipped"]
                       ELSE IF ~due THEN c
                       ELSE [c EXCEPT !.last = now, !.status = IF answer = "error" THEN "failed" ELSE "success"]
          IN  /\ after # c => ~HeldByOther(s, e)
              /\ sampler' = [sampler EXCEPT
                     ![s].at = "next", ![s].on = {}, ![s].todo = @ \ {e},
                     ![s].held = IF after # c THEN @ \cup {e} ELSE @,
                     ![s].stamp[e] = after, ![s].read = @ \cup {e},
                     ![s].due = IF due THEN @ \cup {<<e, answer>>} ELSE @,
                     ![s].new = IF due THEN @ \cup Snapshots(e, now, answer) ELSE @,
                     ![s].gone = @ \cup Outdated(e, c)]
    /\ UNCHANGED <<scheme, history, tick, samplings>>
\* One instance of the page.
ListOne(s) ==
    /\ StepOf(s) = "found" /\ sampler[s].kind = "page"
    /\ sampler' = [sampler EXCEPT ![s].at = "next", ![s].on = {}, ![s].todo = @ \ sampler[s].on]
    /\ UNCHANGED <<scheme, history, tick, samplings>>
CommitSampling(s) ==
    /\ StepOf(s) = "next" /\ sampler[s].todo = {}
    /\ scheme' = [e \in Engines |->
           IF e \in sampler[s].made THEN sampler[s].stamp[e]
           ELSE IF e \in sampler[s].held
                THEN [scheme[e] EXCEPT !.last = sampler[s].stamp[e].last, !.status = sampler[s].stamp[e].status]
                ELSE scheme[e]]
    /\ history' = (history \ sampler[s].gone) \cup sampler[s].new
    /\ sampler' = [sampler EXCEPT ![s] = Away]
    /\ UNCHANGED <<tick, samplings>>
CrashSampling(s) ==
    /\ sampler[s] # Away /\ sampler' = [sampler EXCEPT ![s] = Away]
    /\ UNCHANGED <<scheme, history, tick, samplings>>

\* upsert_config and update_config of a configuration that is there.
EditScheme(e, on, term) ==
    /\ scheme[e] # Undefined /\ \A s \in Samplers : ~HeldByOther(s, e)
    /\ samplings < MaxSamplings /\ samplings' = samplings + 1
    /\ scheme' = [scheme EXCEPT ![e].on = on, ![e].term = term]
    /\ UNCHANGED <<history, sampler, tick>>
Second ==
    /\ tick < LastBeat /\ tick' = tick + 1
    /\ UNCHANGED <<scheme, history, sampler, samplings>>

SamplingNext ==
    \/ \E s \in Samplers : \/ \E kind \in {"beat", "page"} : BeginSampling(s, kind)
                           \/ \E e \in Engines : Ensure(s, e) \/ InsertAfter(s, e)
                           \/ \E answer \in {"sessions", "idle", "error"} : SampleOne(s, answer)
                           \/ ListOne(s) \/ CommitSampling(s) \/ LoseSampling(s) \/ CrashSampling(s)
    \/ \E e \in Engines, on \in BOOLEAN, term \in Terms : EditScheme(e, on, term)
    \/ Second

SamplingSpec == SamplingInit /\ [][SamplingNext]_samplingVars
----------------------------------------------------------------------------
(***************************************************************************)
(* A beat that commits leaves, for each instance that was due, its         *)
(* sessions or its error at the beat's time, and takes only rows past the  *)
(* retention of their own instance; nothing else takes a row, whichever    *)
(* insertions waited for each other or failed (tasks/monitor.py 57-128).   *)
(***************************************************************************)
SampledAndKept ==
    [][/\ \A s \in Samplers : CommitSampling(s) /\ sampler[s].kind = "beat" =>
             \A d \in sampler[s].due : d[2] # "idle" =>
                 \E h \in history' : h.inst = d[1] /\ h.at = sampler[s].now /\ h.ok = (d[2] = "sessions")
       /\ \A h \in history \ history' :
             \E s \in Samplers : /\ CommitSampling(s) /\ h.inst \in sampler[s].read
                                 /\ h.at < tick - sampler[s].stamp[h.inst].term]_samplingVars
=============================================================================
