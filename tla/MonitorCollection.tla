-------------------------- MODULE MonitorCollection --------------------------
(***************************************************************************)
(* Native monitoring.  Every minute a beat reads the enabled collection    *)
(* configurations, asks each due instance for metrics and sizes, cleans    *)
(* old samples and commits once at the end.  A slow beat overlaps with the *)
(* next one, with collections by hand and with edits of configurations.  A *)
(* flush locks the configuration's row until the beat ends.                *)
(***************************************************************************)
EXTENDS Integers, FiniteSets

CONSTANTS
    Watched,           \* instances
    Beats,             \* workers that run beats
    Interval,          \* collect_interval, in ticks
    SizeInterval,      \* capacity_collect_interval
    Retentions,        \* retention_days a configuration may have
    LastTime,          \* bound: the clock
    MaxBeats,          \* bound: beats started, and collections by hand
    MaxConfigs         \* bound: configurations created, and edits of them

ASSUME CollectAssumption ==
    /\ Interval \in Nat \ {0} /\ SizeInterval \in Nat \ {0} /\ Retentions \subseteq Nat
    /\ LastTime \in Nat \ {0} /\ MaxBeats \in Nat /\ MaxConfigs \in Nat

VARIABLES
    config,      \* monitor_collect_config by instance: number, on, keep, metric, size, good
    alive,       \* active instances
    samples,     \* monitor_metric_snapshot
    sizes,       \* monitor_database_capacity_snapshot and its tables
    beat,        \* the beat of each worker, with the writes of its transaction
    time,        \* now
    beats,       \* history: beats started and collections by hand
    configEdits,       \* history: numbers the configurations
    overlapped   \* history: a collection began while another one ran

collectVars == <<config, alive, samples, sizes, beat, time, beats, configEdits, overlapped>>

Never == 0
Unset == [number |-> 0]
Asleep == [at |-> "asleep"]
Configured(i) == config[i] # Unset
Running == {b \in Beats : beat[b] # Asleep}
\* Rows a beat has flushed and not yet committed.
Locked(i) == \E b \in Running : i \in beat[b].flushed

CollectInit ==
    /\ config = [i \in Watched |-> Unset]
    /\ alive = Watched
    /\ samples = {} /\ sizes = {}
    /\ beat = [b \in Beats |-> Asleep]
    /\ time = 1 /\ beats = 0 /\ configEdits = 0 /\ overlapped = FALSE
----------------------------------------------------------------------------
\* Mutant of Elapsed: collected at every beat.
ElapsedAlways(last, interval, now) == TRUE
Elapsed(last, interval, now) == last = Never \/ now - last >= interval
MetricDue(c, now) == Elapsed(c.metric, Interval, now)
SizeDue(c, now) == Elapsed(c.size, SizeInterval, now)
Due(c, now) == MetricDue(c, now) \/ SizeDue(c, now)

Sample(i, c, now, good, by) == [inst |-> i, config |-> c.number, at |-> now, good |-> good, by |-> by]
\* What the engine answers: to the metrics, and to the sizes if they are asked for.
Answers == {"both", "metrics", "none"}
\* A good sample if the metrics were due and answered, a failed one if anything failed.
Taken(i, c, now, metric, answer, by) ==
    (IF metric /\ answer # "none" THEN {Sample(i, c, now, TRUE, by)} ELSE {})
    \cup (IF answer # "both" THEN {Sample(i, c, now, FALSE, by)} ELSE {})
\* The columns of the configuration a collection writes.
Stamped(c, now, metric, size, answer) ==
    [c EXCEPT !.metric = IF metric /\ answer # "none" THEN now ELSE @,
              !.size = IF size /\ answer = "both" THEN now ELSE @,
              !.good = (answer = "both")]
PastRetention(i, c, now) == {s \in samples \cup sizes : s.inst = i /\ s.at < now - (IF c.keep = 0 THEN 1 ELSE c.keep)}
----------------------------------------------------------------------------
\* collect_due_native reads the enabled configurations of active instances once.
StartBeat(b) ==
    /\ beat[b] = Asleep /\ beats < MaxBeats
    /\ LET on == {i \in alive : Configured(i) /\ config[i].on}
       IN  beat' = [beat EXCEPT ![b] =
               [at |-> "run", nth |-> beats + 1, now |-> time, seen |-> [i \in on |-> config[i]], todo |-> on,
                flushed |-> {}, marks |-> [i \in on |-> config[i]], new |-> {}, measured |-> {}, gone |-> {}]]
    /\ beats' = beats + 1
    /\ overlapped' = (overlapped \/ Running # {})
    /\ UNCHANGED <<config, alive, samples, sizes, time, configEdits>>

\* In the order of their numbers.
First(b) == CHOOSE i \in beat[b].todo : \A j \in beat[b].todo : beat[b].seen[i].number <= beat[b].seen[j].number

PassBy(b) ==
    /\ b \in Running /\ beat[b].todo # {}
    /\ LET i == First(b)
       IN  /\ ~Due(beat[b].seen[i], beat[b].now)
           /\ beat' = [beat EXCEPT ![b].todo = @ \ {i}]
    /\ UNCHANGED <<config, alive, samples, sizes, time, beats, configEdits, overlapped>>

\* One due instance: the engine's answer, the stamps, the flush, the cleanup.
CollectOne(b, answer) ==
    /\ b \in Running /\ beat[b].todo # {}
    /\ LET i == First(b)
           c == beat[b].seen[i]
           now == beat[b].now
           metric == MetricDue(c, now)
           size == SizeDue(c, now)
           mark == Stamped(c, now, metric, size, answer)
       IN  /\ Due(c, now)
           /\ answer = "metrics" => metric /\ size
           /\ mark # c => ~Locked(i)
           /\ mark # c => config[i].number = c.number
           /\ beat' = [beat EXCEPT
                  ![b].todo = @ \ {i},
                  ![b].flushed = IF mark # c THEN @ \cup {i} ELSE @,
                  ![b].marks[i] = mark,
                  ![b].new = @ \cup Taken(i, c, now, metric, answer, [hand |-> FALSE, nth |-> beat[b].nth]),
                  ![b].measured = IF size /\ answer = "both" THEN @ \cup {[inst |-> i, at |-> now]} ELSE @,
                  ![b].gone = @ \cup PastRetention(i, c, now)]
    /\ UNCHANGED <<config, alive, samples, sizes, time, beats, configEdits, overlapped>>

\* The configuration was deleted meanwhile: the flush finds no row and the
\* error, which no handler of the beat catches, loses the whole transaction.
LoseBeat(b) ==
    /\ b \in Running /\ beat[b].todo # {}
    /\ LET i == First(b)
       IN  Due(beat[b].seen[i], beat[b].now) /\ ~Locked(i) /\ config[i].number # beat[b].seen[i].number
    /\ beat' = [beat EXCEPT ![b] = Asleep]
    /\ UNCHANGED <<config, alive, samples, sizes, time, beats, configEdits, overlapped>>

CommitBeat(b) ==
    /\ b \in Running /\ beat[b].todo = {}
    /\ config' = [i \in Watched |->
           IF i \in beat[b].flushed
           THEN LET c == beat[b].seen[i] n == beat[b].marks[i]
                IN  [config[i] EXCEPT !.metric = IF n.metric # c.metric THEN n.metric ELSE @,
                                      !.size = IF n.size # c.size THEN n.size ELSE @,
                                      !.good = IF n.good # c.good THEN n.good ELSE @]
           ELSE config[i]]
    /\ samples' = (samples \ beat[b].gone) \cup beat[b].new
    /\ sizes' = (sizes \ beat[b].gone) \cup beat[b].measured
    /\ beat' = [beat EXCEPT ![b] = Asleep]
    /\ UNCHANGED <<alive, time, beats, configEdits, overlapped>>

\* The worker dies.
CrashBeat(b) ==
    /\ b \in Running
    /\ beat' = [beat EXCEPT ![b] = Asleep]
    /\ UNCHANGED <<config, alive, samples, sizes, time, beats, configEdits, overlapped>>
----------------------------------------------------------------------------
\* collect_native_instance: by hand, due or not; a missing configuration is created.
CollectByHand(i, answer) ==
    /\ i \in alive /\ ~Locked(i) /\ beats < MaxBeats
    /\ Configured(i) \/ configEdits < MaxConfigs
    /\ \E keep \in Retentions :
          LET c == IF Configured(i) THEN config[i]
                   ELSE [number |-> configEdits + 1, on |-> TRUE, keep |-> keep, metric |-> Never, size |-> Never, good |-> TRUE]
          IN  /\ config' = [config EXCEPT ![i] = Stamped(c, time, TRUE, TRUE, answer)]
              /\ samples' = samples \cup Taken(i, c, time, TRUE, answer, [hand |-> TRUE, nth |-> beats + 1])
    /\ configEdits' = IF Configured(i) THEN configEdits ELSE configEdits + 1
    /\ sizes' = IF answer = "both" THEN sizes \cup {[inst |-> i, at |-> time]} ELSE sizes
    /\ beats' = beats + 1
    /\ overlapped' = (overlapped \/ Running # {})
    /\ UNCHANGED <<alive, beat, time>>

\* create_config, upsert_native_config, update_config_with_access.
Configure(i, on, keep) ==
    /\ ~Locked(i) /\ configEdits < MaxConfigs
    /\ config' = [config EXCEPT ![i] =
           IF Configured(i) THEN [@ EXCEPT !.on = on, !.keep = keep]
           ELSE [number |-> configEdits + 1, on |-> on, keep |-> keep, metric |-> Never, size |-> Never, good |-> TRUE]]
    /\ configEdits' = configEdits + 1
    /\ UNCHANGED <<alive, samples, sizes, beat, time, beats, overlapped>>

DeleteConfig(i) ==
    /\ Configured(i) /\ ~Locked(i)
    /\ config' = [config EXCEPT ![i] = Unset]
    /\ UNCHANGED <<alive, samples, sizes, beat, time, beats, configEdits, overlapped>>

StopWatching(i) ==
    /\ i \in alive /\ alive' = alive \ {i}
    /\ UNCHANGED <<config, samples, sizes, beat, time, beats, configEdits, overlapped>>

Elapse ==
    /\ time < LastTime /\ time' = time + 1
    /\ UNCHANGED <<config, alive, samples, sizes, beat, beats, configEdits, overlapped>>

CollectNext ==
    \/ \E b \in Beats : \/ StartBeat(b) \/ PassBy(b) \/ LoseBeat(b) \/ CommitBeat(b) \/ CrashBeat(b)
                        \/ \E answer \in Answers : CollectOne(b, answer)
    \/ \E i \in Watched : \/ \E answer \in Answers : CollectByHand(i, answer)
                          \/ \E on \in BOOLEAN, keep \in Retentions : Configure(i, on, keep)
                          \/ DeleteConfig(i) \/ StopWatching(i)
    \/ Elapse

CollectSpec == CollectInit /\ [][CollectNext]_collectVars
----------------------------------------------------------------------------
\* The rows are well-formed, and the columns a beat has flushed are locked by it alone.
CollectTypeOK ==
    /\ config \in [Watched -> {Unset} \cup [number : 1..MaxConfigs, on : BOOLEAN, keep : Retentions,
                                           metric : 0..LastTime, size : 0..LastTime, good : BOOLEAN]]
    /\ alive \subseteq Watched
    /\ samples \subseteq [inst : Watched, config : Nat, at : 1..LastTime, good : BOOLEAN,
                          by : [hand : BOOLEAN, nth : 1..MaxBeats]]
    /\ sizes \subseteq [inst : Watched, at : 1..LastTime]
    /\ \A b, d \in Running : b # d => beat[b].flushed \cap beat[d].flushed = {}
    /\ time \in 1..LastTime /\ beats \in 0..MaxBeats /\ configEdits \in 0..MaxConfigs /\ overlapped \in BOOLEAN

(***************************************************************************)
(* A beat that commits leaves a sample, good or failed, of its time for    *)
(* every instance that was due when it began, and cleans no sample of its  *)
(* own (monitor.py 642-700).                                               *)
(***************************************************************************)
DueIsSampled ==
    [][\A b \in Beats : CommitBeat(b) =>
        \A i \in DOMAIN beat[b].seen :
            Due(beat[b].seen[i], beat[b].now) =>
                \/ \E s \in samples' : s.inst = i /\ s.at = beat[b].now
                \/ \E s \in sizes' : s.inst = i /\ s.at = beat[b].now]_collectVars

(***************************************************************************)
(* As long as no two collections overlap, the beat leaves two good samples *)
(* of a configuration at least the interval apart, whatever was collected  *)
(* by hand, failed, crashed or was edited between them (monitor.py         *)
(* 659-672).  Overlapping beats may write the last time backwards.         *)
(***************************************************************************)
SpacedUnlessOverlapped ==
    ~overlapped =>
        \A s, t \in samples :
            /\ s.good /\ t.good /\ ~t.by.hand
            /\ s.inst = t.inst /\ s.config = t.config /\ s.by.nth < t.by.nth
            => t.at - s.at >= Interval

(***************************************************************************)
(* Beats, collections by hand, edits and crashes keep both.                *)
(***************************************************************************)
CollectedOnTime == [](CollectTypeOK /\ SpacedUnlessOverlapped) /\ DueIsSampled
=============================================================================
