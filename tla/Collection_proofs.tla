-------------------------- MODULE Collection_proofs --------------------------
(***************************************************************************)
(* What beats collect, for any instances, workers and intervals.  A beat   *)
(* that commits has sampled what was due and cleaned only what is past its *)
(* retention, and samples of the metrics keep their distance unless two    *)
(* collections overlapped.  On Oracle a kill by hand ends the session that *)
(* was listed.  The pages of the slow log add up, whatever has been copied *)
(* and cleaned: their sums, counts and ranks are over finite sets, and     *)
(* what holds of those is proved from a least subset for which it fails.   *)
(* The same sums show that the cards, trends and lists of the overviews    *)
(* agree.                                                                  *)
(***************************************************************************)
EXTENDS MonitorCollection, SessionSampling, SessionKill, SlowLog, Dashboards,
        FiniteSetTheorems, WellFoundedInduction, TLAPS

\* A kill is the only step that writes what was ended, and on Oracle it
\* compares the serial (routers/diagnostic.py:244, engines/oracle.py:668).
THEOREM ListedCorrect == KillSpec => []ListedIsEnded
<1> DEFINE Ended == DOMAIN killed = Operators /\ ListedIsEnded
<1>1. KillInit => Ended
  BY DEF KillInit, ListedIsEnded
<1>2. Ended /\ [KillNext]_killVars => Ended'
  <2> SUFFICES ASSUME Ended, [KillNext]_killVars PROVE Ended'
    OBVIOUS
  <2>1. ASSUME NEW o \in Operators, UNCHANGED brand,
               killed' = [killed EXCEPT ![o] = [picked |-> page[o].serial, ended |-> Struck(o)]]
        PROVE  Ended'
    <3>1. brand = "oracle" /\ Struck(o) # 0 => Struck(o) = page[o].serial
      BY DEF Struck
    <3>2. QED
      BY <2>1, <3>1 DEF ListedIsEnded
  <2>2. CASE UNCHANGED <<killed, brand>>
    BY <2>2 DEF ListedIsEnded
  <2>3. QED
    BY <2>1, <2>2 DEF KillNext, Connect, Disconnect, Pick, Kill, KillUnlogged, killVars
<1>3. QED
  BY <1>1, <1>2, PTL DEF KillSpec
----------------------------------------------------------------------------
\* A configuration, a row of the history, and the transaction of a beat or page.
Scheme == [term : Nat, on : BOOLEAN, last : Nat, status : {"never", "skipped", "failed", "success"}]
Snapshot == [inst : Engines, at : Nat, ok : BOOLEAN]
Told == {"sessions", "idle", "error"}
Sampling ==
    [at : {"next", "wait", "found"}, kind : {"beat", "page"}, now : Nat,
     todo : SUBSET Engines, on : SUBSET Engines, made : SUBSET Engines, held : SUBSET Engines,
     stamp : [Engines -> {Undefined} \cup Scheme], read : SUBSET Engines,
     due : SUBSET (Engines \X Told), new : SUBSET Snapshot, gone : SUBSET Snapshot]

SamplingTypeOK ==
    /\ scheme \in [Engines -> {Undefined} \cup Scheme]
    /\ history \subseteq Snapshot
    /\ sampler \in [Samplers -> {Away} \cup Sampling]
    /\ tick \in Nat

\* What a transaction holds: the configuration it works on and those it writes
\* are in the table, or its own; it reads each instance once, will store what
\* those that were due answered, and clean by the retention it has read.
Sound(r) ==
    /\ \A e \in r.made : r.stamp[e] \in Scheme
    /\ \A e \in r.held : r.stamp[e] \in Scheme /\ (e \in r.made \/ scheme[e] \in Scheme)
    /\ r.at = "found" =>
         \A e \in r.on : r.stamp[e] \in Scheme /\ (e \in r.made \/ scheme[e] \in Scheme)
    /\ r.at = "wait" => \A e \in r.on : r.stamp[e] \in Scheme
    /\ r.read \cap r.todo = {}
    /\ \A d \in r.due : d[2] # "idle" => [inst |-> d[1], at |-> r.now, ok |-> (d[2] = "sessions")] \in r.new
    /\ \A h \in r.gone : h.inst \in r.read /\ h.at < tick - r.stamp[h.inst].term

SamplingSound ==
    /\ SamplingTypeOK
    /\ \A s \in Samplers : sampler[s] # Away => Sound(sampler[s])

\* What a step of one transaction leaves to show.
LEMMA OneSampler ==
    ASSUME SamplingSound, NEW s \in Samplers, NEW m \in {Away} \cup Sampling,
           m # Away => Sound(m),
           sampler' = [sampler EXCEPT ![s] = m], UNCHANGED <<scheme, history, tick>>
    PROVE  SamplingSound'
<1>1. SamplingTypeOK'
  BY DEF SamplingSound, SamplingTypeOK
<1>2. ASSUME NEW t \in Samplers, sampler'[t] # Away PROVE Sound(sampler'[t])
  BY <1>2 DEF SamplingSound, SamplingTypeOK
<1>3. ASSUME NEW t \in Samplers, sampler'[t] # Away PROVE Sound(sampler[t])'
  BY <1>2, <1>3 DEF Sound
<1>4. QED
  BY <1>1, <1>3 DEF SamplingSound

\* A default configuration is one.
LEMMA DefaultType == DefaultScheme \in Scheme
BY SamplingAssumption DEF DefaultScheme, Scheme

\* A transaction that is under way.
LEMMA Underway ==
    ASSUME SamplingSound, NEW s \in Samplers, sampler[s] # Away
    PROVE  sampler[s] \in Sampling /\ Sound(sampler[s])
BY DEF SamplingSound, SamplingTypeOK

\* A beat or a page begins with nothing to write.
LEMMA BeginKeeps ==
    ASSUME SamplingSound, NEW s \in Samplers, NEW sort \in {"beat", "page"}, BeginSampling(s, sort)
    PROVE  SamplingSound'
<1> DEFINE m == [at |-> "next", kind |-> sort, now |-> tick, todo |-> Engines, on |-> {}, made |-> {}, held |-> {},
                 stamp |-> scheme, read |-> {}, due |-> {}, new |-> {}, gone |-> {}]
<1>1. m \in Sampling
  BY DEF SamplingSound, SamplingTypeOK, Sampling
<1>2. Sound(m)
  BY DEF Sound
<1>3. sampler' = [sampler EXCEPT ![s] = m] /\ UNCHANGED <<scheme, history, tick>>
  BY DEF BeginSampling
<1> HIDE DEF m
<1>4. QED
  BY <1>1, <1>2, <1>3, OneSampler

\* ensure_default_config: the configuration was found, made, or is waited
\* for.
LEMMA EnsureKeeps ==
    ASSUME SamplingSound, NEW s \in Samplers, NEW e \in Engines, Ensure(s, e)
    PROVE  SamplingSound'
<1> DEFINE r == sampler[s]
           at == IF scheme[e] = Undefined /\ MadeByOther(s, e) THEN "wait" ELSE "found"
           made == IF scheme[e] = Undefined /\ ~MadeByOther(s, e) THEN r.made \cup {e} ELSE r.made
           c == IF scheme[e] = Undefined THEN DefaultScheme ELSE scheme[e]
           m == [r EXCEPT !.at = at, !.on = {e}, !.made = made, !.stamp[e] = c]
<1>1. r.at = "next" /\ r \in Sampling /\ Sound(r) /\ e \in r.todo
  BY Underway DEF Ensure, StepOf, Away
<1>2. c \in Scheme /\ (scheme[e] = Undefined \/ scheme[e] \in Scheme)
  BY DefaultType DEF SamplingSound, SamplingTypeOK
<1>3. m = [r EXCEPT !.at = at, !.on = {e}, !.made = made, !.stamp = [r.stamp EXCEPT ![e] = c]]
  OBVIOUS
<1>4. /\ m \in Sampling /\ m.at = at /\ m.on = {e} /\ m.made = made /\ m.stamp = [r.stamp EXCEPT ![e] = c]
      /\ m.held = r.held /\ m.read = r.read /\ m.todo = r.todo /\ m.due = r.due /\ m.new = r.new
      /\ m.gone = r.gone /\ m.now = r.now
  <2>1. at \in {"wait", "found"} /\ made \in SUBSET Engines
    BY <1>1 DEF Sampling
  <2>2. r \in Sampling /\ [r.stamp EXCEPT ![e] = c] \in [Engines -> {Undefined} \cup Scheme]
    BY <1>1, <1>2 DEF Sampling
  <2> DEFINE stamp == [r.stamp EXCEPT ![e] = c]
  <2> HIDE DEF at, made, stamp, c
  <2>3. [r EXCEPT !.at = at, !.on = {e}, !.made = made, !.stamp = stamp] \in Sampling
    BY <2>1, <2>2 DEF Sampling, stamp
  <2>4. r = [at |-> r.at, kind |-> r.kind, now |-> r.now, todo |-> r.todo, on |-> r.on, made |-> r.made,
             held |-> r.held, stamp |-> r.stamp, read |-> r.read, due |-> r.due, new |-> r.new, gone |-> r.gone]
    BY <2>2 DEF Sampling
  <2> QED BY <1>3, <2>3, <2>4 DEF stamp
<1>5. sampler' = [sampler EXCEPT ![s] = m] /\ UNCHANGED <<scheme, history, tick>>
  <2>1. /\ sampler' = [sampler EXCEPT ![s].at = at, ![s].on = {e}, ![s].made = made, ![s].stamp[e] = c]
        /\ UNCHANGED <<scheme, history, tick>>
    BY DEF Ensure
  <2> HIDE DEF at, made, c
  <2>2. sampler \in [Samplers -> {Away} \cup Sampling]
    BY DEF SamplingSound, SamplingTypeOK
  <2> QED BY <2>1, <2>2, <1>1 DEF Sampling
<1>6. at \in {"wait", "found"} /\ (at = "found" => e \in made \/ scheme[e] \in Scheme)
      /\ r.made \subseteq made /\ made \subseteq r.made \cup {e}
  BY <1>2
<1> HIDE DEF m, at, made, c
<1>7. \A d \in Engines : m.stamp[d] = IF d = e THEN c ELSE r.stamp[d]
  BY <1>1, <1>4 DEF Sampling
<1>8. Sound(m)
  <2>1. \A h \in r.gone : h.inst \in Engines /\ h.inst # e
    BY <1>1 DEF Sound, Sampling, Snapshot
  <2>2. r.made \subseteq Engines /\ r.held \subseteq Engines /\ made \subseteq Engines
    BY <1>1, <1>4 DEF Sampling
  <2>3. QED
    BY <1>1, <1>2, <1>4, <1>6, <1>7, <2>1, <2>2 DEF Sound
<1>9. QED
  BY <1>4, <1>5, <1>8, OneSampler

\* The insertion goes through once the other transaction is gone.
LEMMA InsertKeeps ==
    ASSUME SamplingSound, NEW s \in Samplers, NEW e \in Engines, InsertAfter(s, e)
    PROVE  SamplingSound'
<1> DEFINE r == sampler[s]
           m == [r EXCEPT !.at = "found", !.made = r.made \cup {e}]
<1>1. r.at = "wait" /\ r \in Sampling /\ Sound(r) /\ r.on = {e}
  BY Underway DEF InsertAfter, StepOf, Away
<1>2. /\ m \in Sampling /\ m.at = "found" /\ m.on = {e} /\ m.made = r.made \cup {e} /\ m.stamp = r.stamp
      /\ m.held = r.held /\ m.read = r.read /\ m.todo = r.todo /\ m.due = r.due /\ m.new = r.new
      /\ m.gone = r.gone /\ m.now = r.now
  BY <1>1 DEF Sampling
<1>3. sampler' = [sampler EXCEPT ![s] = m] /\ UNCHANGED <<scheme, history, tick>>
  BY DEF InsertAfter
<1> HIDE DEF m
<1>4. Sound(m)
  BY <1>1, <1>2 DEF Sound
<1>5. QED
  BY <1>2, <1>3, <1>4, OneSampler

\* What SampleOne makes of a configuration.
After(c, due, now, answer) ==
    IF ~c.on THEN [c EXCEPT !.status = "skipped"]
    ELSE IF ~due THEN c
    ELSE [c EXCEPT !.last = now, !.status = IF answer = "error" THEN "failed" ELSE "success"]
\* Sampling an instance leaves its configuration one, with its retention.
LEMMA AfterType ==
    ASSUME NEW c \in Scheme, NEW due, NEW now \in Nat, NEW answer
    PROVE  After(c, due, now, answer) \in Scheme /\ After(c, due, now, answer).term = c.term
BY DEF After, Scheme

\* An answer is stored as snapshots of the beat's time.
LEMMA SnapshotType ==
    ASSUME NEW e \in Engines, NEW now \in Nat, NEW answer \in Told
    PROVE  /\ Snapshots(e, now, answer) \subseteq Snapshot
           /\ answer # "idle" => [inst |-> e, at |-> now, ok |-> (answer = "sessions")] \in Snapshots(e, now, answer)
<1>1. answer = "sessions" \/ answer = "error" \/ answer = "idle"
  BY DEF Told
<1>2. CASE answer = "sessions"
  <2>1. Snapshots(e, now, answer) = {[inst |-> e, at |-> now, ok |-> TRUE]} /\ (answer = "sessions") = TRUE
    BY <1>2 DEF Snapshots
  <2>2. [inst |-> e, at |-> now, ok |-> TRUE] \in Snapshot
    BY DEF Snapshot
  <2>3. QED
    BY <2>1, <2>2, Zenon
<1>3. CASE answer = "error"
  <2>1. Snapshots(e, now, answer) = {[inst |-> e, at |-> now, ok |-> FALSE]} /\ (answer = "sessions") = FALSE
    BY <1>3 DEF Snapshots
  <2>2. [inst |-> e, at |-> now, ok |-> FALSE] \in Snapshot
    BY DEF Snapshot
  <2>3. QED
    BY <2>1, <2>2, Zenon
<1>4. CASE answer = "idle"
  BY <1>4 DEF Snapshots
<1>5. QED
  BY <1>1, <1>2, <1>3, <1>4

\* One instance of a beat: nothing is cleaned that the retention it has
\* read keeps.
LEMMA SampleKeeps ==
    ASSUME SamplingSound, NEW s \in Samplers, NEW answer \in Told, SampleOne(s, answer)
    PROVE  SamplingSound'
<1> DEFINE r == sampler[s]
<1>1. r.at = "found" /\ r \in Sampling /\ Sound(r) /\ UNCHANGED <<scheme, history, tick>>
  <2>1. r.at = "found" /\ UNCHANGED <<scheme, history, tick>>
    BY DEF SampleOne, StepOf
  <2>2. QED
    BY <2>1, Underway DEF Away
<1>2. PICK e \in r.on :
        LET c == r.stamp[e]
            now == r.now
            due == DueToSample(c, now)
            after == IF ~c.on THEN [c EXCEPT !.status = "skipped"]
                     ELSE IF ~due THEN c
                     ELSE [c EXCEPT !.last = now, !.status = IF answer = "error" THEN "failed" ELSE "success"]
        IN  /\ after # c => ~HeldByOther(s, e)
            /\ sampler' = [sampler EXCEPT
                     ![s].at = "next", ![s].on = {}, ![s].todo = @ \ {e},
                     ![s].held = IF after # c THEN @ \cup {e} ELSE @,
                     ![s].stamp[e] = after, ![s].read = @ \cup {e},
                     ![s].due = IF due THEN @ \cup {<<e, answer>>} ELSE @,
                     ![s].new = IF due THEN @ \cup Snapshots(e, now, answer) ELSE @,
                     ![s].gone = @ \cup Outdated(e, c)]
  BY Zenon DEF SampleOne
<1> DEFINE c == r.stamp[e]
           due == DueToSample(c, r.now)
           after == After(c, due, r.now, answer)
           held == IF after # c THEN r.held \cup {e} ELSE r.held
           dues == IF due THEN r.due \cup {<<e, answer>>} ELSE r.due
           new == IF due THEN r.new \cup Snapshots(e, r.now, answer) ELSE r.new
           m == [r EXCEPT !.at = "next", !.on = {}, !.todo = r.todo \ {e}, !.held = held,
                          !.stamp = [r.stamp EXCEPT ![e] = after], !.read = r.read \cup {e},
                          !.due = dues, !.new = new, !.gone = r.gone \cup Outdated(e, c)]
<1>3. sampler' = [sampler EXCEPT ![s] = m]
  <2>1. sampler' = [sampler EXCEPT
              ![s].at = "next", ![s].on = {}, ![s].todo = @ \ {e},
              ![s].held = held, ![s].stamp[e] = after, ![s].read = @ \cup {e},
              ![s].due = dues, ![s].new = new, ![s].gone = @ \cup Outdated(e, c)]
    BY <1>2, Zenon DEF After
  <2> HIDE DEF c, due, after, held, dues, new
  <2>2. sampler \in [Samplers -> {Away} \cup Sampling]
    BY DEF SamplingSound, SamplingTypeOK
  <2>3. DOMAIN sampler = Samplers /\ s \in Samplers /\ sampler[s] = r
    BY <2>2
  <2>4. DOMAIN r = {"at", "kind", "now", "todo", "on", "made", "held", "stamp", "read", "due", "new", "gone"}
    BY <1>1 DEF Sampling
  <2> HIDE DEF r
  <2>5. QED
    BY <2>1, <2>3, <2>4
<1>4. e \in Engines /\ c \in Scheme /\ (e \in r.made \/ scheme[e] \in Scheme) /\ r.now \in Nat
  BY <1>1 DEF Sound, Sampling
<1>5. after \in Scheme /\ after.term = c.term
  BY <1>4, AfterType
<1>6. Outdated(e, c) \subseteq Snapshot /\ \A h \in Outdated(e, c) : h.inst = e /\ h.at < tick - c.term
  BY DEF Outdated, SamplingSound, SamplingTypeOK
<1>7. held \subseteq r.held \cup {e} /\ r.held \subseteq held
  OBVIOUS
<1>8. /\ dues \subseteq r.due \cup {<<e, answer>>} /\ r.new \subseteq new
      /\ <<e, answer>> \in dues \ r.due => due
      /\ due => Snapshots(e, r.now, answer) \subseteq new
      /\ new \subseteq Snapshot
  BY <1>1, <1>4, SnapshotType DEF Sampling
<1> HIDE DEF c, due, after, held, dues, new
<1>9. r.stamp \in [Engines -> {Undefined} \cup Scheme]
  BY <1>1 DEF Sampling
<1>10. /\ m \in Sampling /\ m.at = "next" /\ m.on = {} /\ m.made = r.made
       /\ m.stamp = [r.stamp EXCEPT ![e] = after]
       /\ m.held = held /\ m.read = r.read \cup {e} /\ m.todo = r.todo \ {e} /\ m.due = dues /\ m.new = new
       /\ m.gone = r.gone \cup Outdated(e, c) /\ m.now = r.now
  <2>1. dues \in SUBSET (Engines \X Told) /\ held \in SUBSET Engines
    BY <1>1, <1>4, <1>7, <1>8 DEF Sampling
  <2>2. [r.stamp EXCEPT ![e] = after] \in [Engines -> {Undefined} \cup Scheme]
    BY <1>5, <1>9
  <2>3. r.gone \cup Outdated(e, c) \in SUBSET Snapshot
    BY <1>1, <1>6 DEF Sampling
  <2>4. QED
    BY <1>1, <1>4, <1>8, <2>1, <2>2, <2>3 DEF Sampling
<1> HIDE DEF m
<1>11. \A d \in Engines : m.stamp[d] = IF d = e THEN after ELSE r.stamp[d]
  BY <1>9, <1>10
<1>12. Sound(m)
  <2>1. \A h \in r.gone : h.inst \in Engines /\ (h.inst = e => after.term = r.stamp[h.inst].term)
    BY <1>1, <1>5 DEF Sampling, Snapshot, c
  <2>2. \A h \in r.gone \cup Outdated(e, c) : h.inst \in r.read \cup {e} /\ h.at < tick - m.stamp[h.inst].term
    BY <1>1, <1>4, <1>5, <1>6, <1>11, <2>1 DEF Sound
  <2>3. \A d \in dues : d[2] # "idle" => [inst |-> d[1], at |-> r.now, ok |-> (d[2] = "sessions")] \in new
    <3>1. ASSUME NEW d \in dues, d[2] # "idle"
          PROVE  [inst |-> d[1], at |-> r.now, ok |-> (d[2] = "sessions")] \in new
      <4>1. CASE d \in r.due
        BY <1>1, <1>8, <3>1, <4>1 DEF Sound
      <4>2. CASE d \notin r.due
        <5>1. d = <<e, answer>> /\ due
          BY <1>8, <3>1, <4>2
        <5>2. d[1] = e /\ d[2] = answer
          BY <5>1
        <5>3. QED
          BY <1>4, <1>8, <3>1, <5>1, <5>2, SnapshotType
      <4>3. QED
        BY <4>1, <4>2
    <3>2. QED
      BY <3>1
  <2>4. \A d \in r.made \cup held : d \in Engines
    BY <1>10 DEF Sampling
  <2>5. (r.read \cup {e}) \cap (r.todo \ {e}) = {}
    BY <1>1 DEF Sound
  <2>6. \A d \in r.made : m.stamp[d] \in Scheme
    BY <1>1, <1>5, <1>11, <2>4 DEF Sound
  <2>7. \A d \in held : m.stamp[d] \in Scheme /\ (d \in r.made \/ scheme[d] \in Scheme)
    BY <1>1, <1>4, <1>5, <1>7, <1>11, <2>4 DEF Sound
  <2>8. QED
    BY <1>10, <2>2, <2>3, <2>5, <2>6, <2>7 DEF Sound
<1>13. QED
  BY <1>1, <1>3, <1>10, <1>12, OneSampler

\* One instance of a page.
LEMMA ListKeeps ==
    ASSUME SamplingSound, NEW s \in Samplers, ListOne(s)
    PROVE  SamplingSound'
<1> DEFINE r == sampler[s]
           m == [r EXCEPT !.at = "next", !.on = {}, !.todo = r.todo \ r.on]
<1>1. r.at = "found" /\ r \in Sampling /\ Sound(r)
  BY Underway DEF ListOne, StepOf, Away
<1>2. /\ m \in Sampling /\ m.at = "next" /\ m.made = r.made /\ m.stamp = r.stamp
      /\ m.held = r.held /\ m.read = r.read /\ m.todo = r.todo \ r.on /\ m.due = r.due /\ m.new = r.new
      /\ m.gone = r.gone /\ m.now = r.now
  BY <1>1 DEF Sampling
<1>3. sampler' = [sampler EXCEPT ![s] = m] /\ UNCHANGED <<scheme, history, tick>>
  BY DEF ListOne
<1> HIDE DEF m
<1>4. Sound(m)
  BY <1>1, <1>2 DEF Sound
<1>5. QED
  BY <1>2, <1>3, <1>4, OneSampler

\* The table only gains configurations, and the clock does not go back.
LEMMA TableKeeps ==
    ASSUME SamplingSound, SamplingTypeOK',
           \A e \in Engines : scheme[e] \in Scheme => scheme'[e] \in Scheme, tick' >= tick,
           \A t \in Samplers : sampler'[t] \in {Away, sampler[t]}
    PROVE  SamplingSound'
<1>1. ASSUME NEW t \in Samplers, NEW r, r = sampler'[t], r # Away PROVE Sound(r)'
  <2>1. r = sampler[t] /\ r \in Sampling /\ Sound(r)
    BY <1>1, Underway
  <2>2. \A h \in r.gone : h.inst \in Engines /\ h.at \in Nat
    BY <2>1 DEF Sampling, Snapshot
  <2>3. \A h \in r.gone : r.stamp[h.inst].term \in Nat
    BY <2>1, <2>2 DEF Sampling, Scheme, Undefined
  <2>4. \A h \in r.gone : h.at < tick - r.stamp[h.inst].term => h.at < tick' - r.stamp[h.inst].term
    BY <2>2, <2>3 DEF SamplingSound, SamplingTypeOK
  <2>5. r.held \subseteq Engines /\ r.on \subseteq Engines
    BY <2>1 DEF Sampling
  <2>6. QED
    BY <2>1, <2>4, <2>5 DEF Sound
<1>2. ASSUME NEW t \in Samplers, sampler'[t] # Away PROVE Sound(sampler[t])'
  BY <1>1, <1>2 DEF Sound
<1>3. QED
  BY <1>2 DEF SamplingSound

\* The commit writes configurations only where one is, or the transaction
\* made one.
LEMMA CommitKeeps ==
    ASSUME SamplingSound, NEW s \in Samplers, CommitSampling(s)
    PROVE  SamplingSound'
<1> DEFINE r == sampler[s]
           Next(e) == IF e \in r.made THEN r.stamp[e]
                      ELSE IF e \in r.held
                           THEN [scheme[e] EXCEPT !.last = r.stamp[e].last, !.status = r.stamp[e].status]
                           ELSE scheme[e]
<1>1. /\ r \in Sampling /\ Sound(r)
      /\ scheme' = [e \in Engines |-> Next(e)]
      /\ history' = (history \ r.gone) \cup r.new
      /\ sampler' = [sampler EXCEPT ![s] = Away] /\ UNCHANGED tick
  <2>1. StepOf(s) = "next"
    BY DEF CommitSampling
  <2>2. sampler[s] # Away
    BY <2>1 DEF StepOf, Away
  <2>3. QED
    BY <2>2, Underway DEF CommitSampling
<1>type. scheme \in [Engines -> {Undefined} \cup Scheme] /\ history \subseteq Snapshot
         /\ sampler \in [Samplers -> {Away} \cup Sampling] /\ tick \in Nat
  BY DEF SamplingSound, SamplingTypeOK
<1>2. ASSUME NEW e \in Engines
      PROVE  Next(e) \in {Undefined} \cup Scheme /\ (scheme[e] \in Scheme => Next(e) \in Scheme)
  <2>1. CASE e \in r.made
    BY <1>1, <2>1 DEF Sound
  <2>2. CASE e \notin r.made /\ e \in r.held
    <3>1. scheme[e] \in Scheme /\ r.stamp[e] \in Scheme
      BY <1>1, <2>2 DEF Sound
    <3>2. QED
      BY <2>2, <3>1 DEF Scheme
  <2>3. CASE e \notin r.made /\ e \notin r.held
    BY <1>type, <2>3
  <2>4. QED
    BY <2>1, <2>2, <2>3
<1> HIDE DEF Next
<1>3. SamplingTypeOK'
  BY <1>1, <1>2, <1>type DEF SamplingTypeOK, Sampling
<1>4. QED
  BY <1>1, <1>2, <1>3, <1>type, TableKeeps

\* An edit of a configuration that is there.
LEMMA EditKeeps ==
    ASSUME SamplingSound, NEW e \in Engines, NEW on \in BOOLEAN, NEW term \in Terms, EditScheme(e, on, term)
    PROVE  SamplingSound'
<1> DEFINE c == [scheme[e] EXCEPT !.on = on, !.term = term]
<1>type. /\ scheme \in [Engines -> {Undefined} \cup Scheme] /\ history \subseteq Snapshot
         /\ sampler \in [Samplers -> {Away} \cup Sampling] /\ tick \in Nat
  BY DEF SamplingSound, SamplingTypeOK
<1>1. scheme[e] \in Scheme /\ UNCHANGED <<history, sampler, tick>>
  BY <1>type DEF EditScheme
<1>2. c \in Scheme
  BY <1>1, SamplingAssumption DEF Scheme
<1>3. scheme' = [scheme EXCEPT ![e] = c]
  BY <1>1, <1>type DEF EditScheme, Scheme
<1> HIDE DEF c
<1>4. SamplingTypeOK'
  BY <1>1, <1>2, <1>3, <1>type DEF SamplingTypeOK
<1>5. QED
  BY <1>1, <1>2, <1>3, <1>4, <1>type, TableKeeps

\* At first there is no configuration and nobody samples.
LEMMA SamplingSoundInit == SamplingInit => SamplingSound
BY DEF SamplingInit, SamplingSound, SamplingTypeOK

\* Every step of session sampling keeps the invariant.
LEMMA SamplingStep == SamplingSound /\ [SamplingNext]_samplingVars => SamplingSound'
<1> SUFFICES ASSUME SamplingSound, [SamplingNext]_samplingVars PROVE SamplingSound'
  OBVIOUS
<1>1. ASSUME NEW s \in Samplers, NEW sort \in {"beat", "page"}, BeginSampling(s, sort) PROVE SamplingSound'
  BY <1>1, BeginKeeps
<1>2. ASSUME NEW s \in Samplers, NEW e \in Engines, Ensure(s, e) \/ InsertAfter(s, e) PROVE SamplingSound'
  BY <1>2, EnsureKeeps, InsertKeeps
<1>3. ASSUME NEW s \in Samplers, NEW answer \in Told, SampleOne(s, answer) PROVE SamplingSound'
  BY <1>3, SampleKeeps
<1>4. ASSUME NEW s \in Samplers, ListOne(s) \/ CommitSampling(s) PROVE SamplingSound'
  BY <1>4, ListKeeps, CommitKeeps
<1>5. ASSUME NEW s \in Samplers, LoseSampling(s) \/ CrashSampling(s) PROVE SamplingSound'
  <2>1. sampler' = [sampler EXCEPT ![s] = Away] /\ UNCHANGED <<scheme, history, tick>>
    BY <1>5 DEF LoseSampling, CrashSampling
  <2>2. QED
    BY <2>1, OneSampler
<1>6. ASSUME NEW e \in Engines, NEW on \in BOOLEAN, NEW term \in Terms, EditScheme(e, on, term)
      PROVE  SamplingSound'
  BY <1>6, EditKeeps
<1>7. CASE Second \/ UNCHANGED samplingVars
  <2>1. UNCHANGED <<scheme, history, sampler>> /\ tick' \in {tick, tick + 1}
    BY <1>7 DEF Second, samplingVars
  <2>2. SamplingTypeOK' /\ tick' >= tick /\ \A t \in Samplers : sampler'[t] = sampler[t]
    BY <2>1 DEF SamplingSound, SamplingTypeOK
  <2>3. QED
    BY <2>1, <2>2, TableKeeps
<1>8. QED
  BY <1>1, <1>2, <1>3, <1>4, <1>5, <1>6, <1>7 DEF SamplingNext, Told

\* What transactions of sampling hold is sound in every reachable state,
\* for any instances, beats and pages that overlap (session_diagnostic.py
\* 219-240, tasks/monitor.py 57-128).
THEOREM SamplingCorrect == SamplingSpec => []SamplingSound
BY SamplingSoundInit, SamplingStep, PTL DEF SamplingSpec

\* A beat that commits has stored what every due instance answered, and
\* only rows past the retention of their own instance are taken away
\* (tasks/monitor.py 57-128).
THEOREM SampledCorrect == SamplingSpec => SampledAndKept
<1> DEFINE Kept ==
      /\ \A s \in Samplers : CommitSampling(s) /\ sampler[s].kind = "beat" =>
             \A d \in sampler[s].due : d[2] # "idle" =>
                 \E h \in history' : h.inst = d[1] /\ h.at = sampler[s].now /\ h.ok = (d[2] = "sessions")
      /\ \A h \in history \ history' :
             \E s \in Samplers : /\ CommitSampling(s) /\ h.inst \in sampler[s].read
                                 /\ h.at < tick - sampler[s].stamp[h.inst].term
<1>1. SamplingSound /\ [SamplingNext]_samplingVars => [Kept]_samplingVars
  <2> SUFFICES ASSUME SamplingSound, SamplingNext PROVE Kept
    OBVIOUS
  <2>1. ASSUME NEW s \in Samplers, CommitSampling(s)
        PROVE  /\ sampler[s] \in Sampling /\ Sound(sampler[s])
               /\ history' = (history \ sampler[s].gone) \cup sampler[s].new
    <3>1. StepOf(s) = "next"
      BY <2>1 DEF CommitSampling
    <3>2. sampler[s] # Away
      BY <3>1 DEF StepOf, Away
    <3>3. QED
      BY <2>1, <3>2, Underway DEF CommitSampling
  <2>2. ASSUME NEW s \in Samplers, CommitSampling(s), NEW d \in sampler[s].due, d[2] # "idle"
        PROVE  \E h \in history' : h.inst = d[1] /\ h.at = sampler[s].now /\ h.ok = (d[2] = "sessions")
    <3> DEFINE h == [inst |-> d[1], at |-> sampler[s].now, ok |-> (d[2] = "sessions")]
    <3>1. h \in history'
      BY <2>1, <2>2 DEF Sound
    <3>2. h.inst = d[1] /\ h.at = sampler[s].now /\ h.ok = (d[2] = "sessions")
      OBVIOUS
    <3> HIDE DEF h
    <3>3. QED
      BY <3>1, <3>2
  <2>3. ASSUME NEW h \in history \ history'
        PROVE  \E s \in Samplers : /\ CommitSampling(s) /\ h.inst \in sampler[s].read
                                   /\ h.at < tick - sampler[s].stamp[h.inst].term
    <3>1. PICK s \in Samplers : CommitSampling(s)
      <4>1. history' # history
        BY <2>3
      <4>2. ASSUME NEW s \in Samplers, NEW answer, SampleOne(s, answer) PROVE FALSE
        BY <4>1, <4>2 DEF SampleOne
      <4>3. ASSUME NEW s \in Samplers, NEW sort, NEW e,
                   \/ BeginSampling(s, sort) \/ Ensure(s, e) \/ InsertAfter(s, e)
                   \/ ListOne(s) \/ LoseSampling(s) \/ CrashSampling(s)
            PROVE  FALSE
        BY <4>1, <4>3 DEF BeginSampling, Ensure, InsertAfter, ListOne, LoseSampling, CrashSampling
      <4>4. ASSUME NEW e, NEW on, NEW term, EditScheme(e, on, term) \/ Second PROVE FALSE
        BY <4>1, <4>4 DEF EditScheme, Second
      <4>5. QED
        BY <4>2, <4>3, <4>4 DEF SamplingNext
    <3>2. h \in sampler[s].gone
      BY <2>1, <2>3, <3>1
    <3>3. QED
      BY <2>1, <3>1, <3>2 DEF Sound
  <2>4. QED
    BY <2>2, <2>3
<1>2. QED
  BY <1>1, SamplingCorrect, PTL DEF SamplingSpec, SampledAndKept
----------------------------------------------------------------------------
\* Numbers have a smallest one.
LEMMA Smallest ==
    ASSUME NEW S \in SUBSET Nat, S # {}
    PROVE  \E m \in S : \A n \in S : m <= n
<1>1. IsWellFoundedOn(OpToRel(<, Nat), Nat)
  BY NatLessThanWellFounded, Zenon
<1>2. PICK m \in S : \A n \in S : ~(<<n, m>> \in OpToRel(<, Nat))
  BY <1>1, WFMin, Zenon
<1>3. \A n \in S : ~(n < m)
  BY <1>2, Zenon DEF OpToRel
<1>4. QED
  BY <1>3

\* A configuration, a sample, and the transaction of a beat.
Config == [number : 1..MaxConfigs, on : BOOLEAN, keep : Retentions,
           metric : 0..LastTime, size : 0..LastTime, good : BOOLEAN]
Measure == [inst : Watched, config : Nat, at : 1..LastTime, good : BOOLEAN,
            by : [hand : BOOLEAN, nth : 1..MaxBeats]]
Capacity == [inst : Watched, at : 1..LastTime]
Views == UNION {[S -> Config] : S \in SUBSET Watched}
Round == [at : {"run"}, nth : 1..MaxBeats, now : 1..LastTime, seen : Views, todo : SUBSET Watched,
          flushed : SUBSET Watched, marks : Views, new : SUBSET Measure,
          measured : SUBSET Capacity, gone : SUBSET (Measure \cup Capacity)]

\* What a beat has read and will write.
Collects(r) ==
    /\ r.todo \subseteq DOMAIN r.seen /\ r.flushed \subseteq DOMAIN r.seen /\ DOMAIN r.marks = DOMAIN r.seen
    /\ r.now <= time /\ r.nth <= beats
    /\ \A i \in DOMAIN r.seen :
         /\ r.seen[i].number <= configEdits /\ r.seen[i].metric <= r.now
         /\ r.marks[i].metric \in {r.seen[i].metric, r.now}
         /\ i \notin r.todo /\ Due(r.seen[i], r.now) =>
              \/ \E s \in r.new : s.inst = i /\ s.at = r.now
              \/ [inst |-> i, at |-> r.now] \in r.measured
    /\ \A i \in r.flushed : config[i].number = r.seen[i].number
    /\ \A t \in r.new :
         /\ t.inst \in DOMAIN r.seen \ r.todo /\ t.config = r.seen[t.inst].number /\ t.at = r.now /\ t.by.nth = r.nth
         /\ t.good => MetricDue(r.seen[t.inst], r.now) /\ t.inst \in r.flushed /\ r.marks[t.inst].metric = r.now

\* Nothing was collected since the beat began.
Alone(r) ==
    \A s \in samples :
        /\ s.by.nth < r.nth
        /\ s.good /\ s.inst \in DOMAIN r.seen /\ s.config = r.seen[s.inst].number =>
             s.at <= r.seen[s.inst].metric

Dated ==
    /\ \A s \in samples : s.at <= time /\ s.by.nth <= beats /\ s.config \in 1..configEdits
    /\ \A i \in Watched : Configured(i) => config[i].number <= configEdits /\ config[i].metric <= time

CollectSound ==
    /\ CollectTypeOK /\ Dated
    /\ beat \in [Beats -> {Asleep} \cup Round]
    /\ \A b \in Running : Collects(beat[b])
    /\ ~overlapped =>
         /\ \A s \in samples : s.good /\ s.config = config[s.inst].number => s.at <= config[s.inst].metric
         /\ \A b, d \in Running : b = d
         /\ \A b \in Running : Alone(beat[b])
    /\ SpacedUnlessOverlapped

\* Intervals, times and bounds are numbers.
USE CollectAssumption

\* What a beat has read are configurations of instances that are watched.
LEMMA ViewType ==
    ASSUME NEW v \in Views
    PROVE  DOMAIN v \subseteq Watched /\ \A i \in DOMAIN v : v[i] \in Config
BY DEF Views

\* A function from instances to configurations is a view.
LEMMA ViewMade ==
    ASSUME NEW S \in SUBSET Watched, NEW v \in [S -> Config]
    PROVE  v \in Views
BY DEF Views

\* A view that gets one new configuration is a view.
LEMMA ViewUpdate ==
    ASSUME NEW v \in Views, NEW i \in DOMAIN v, NEW c \in Config
    PROVE  [v EXCEPT ![i] = c] \in Views
<1>1. PICK S \in SUBSET Watched : v \in [S -> Config]
  BY DEF Views
<1>2. [v EXCEPT ![i] = c] \in [S -> Config]
  BY <1>1
<1>3. QED
  BY <1>2 DEF Views

\* The type invariant in terms of the sets above.
LEMMA CollectTypes ==
    CollectTypeOK <=>
        /\ config \in [Watched -> {Unset} \cup Config]
        /\ alive \subseteq Watched
        /\ samples \subseteq Measure /\ sizes \subseteq Capacity
        /\ \A b, d \in Running : b # d => beat[b].flushed \cap beat[d].flushed = {}
        /\ time \in 1..LastTime /\ beats \in 0..MaxBeats /\ configEdits \in 0..MaxConfigs /\ overlapped \in BOOLEAN
BY DEF CollectTypeOK, Config, Measure, Capacity

\* A beat that runs.
LEMMA RoundAwake == \A r \in Round : r # Asleep
BY DEF Round, Asleep

\* The instance a beat turns to.
LEMMA FirstIn ==
    ASSUME NEW b, beat[b] \in Round, Collects(beat[b]), beat[b].todo # {}
    PROVE  First(b) \in beat[b].todo
<1> DEFINE r == beat[b]
           S == {r.seen[i].number : i \in r.todo}
<1>1. \A i \in r.todo : r.seen[i].number \in Nat
  BY ViewType DEF Round, Collects, Config
<1>2. S \in SUBSET Nat /\ S # {}
  BY <1>1
<1>3. PICK m \in S : \A n \in S : m <= n
  BY <1>2, Smallest
<1>4. PICK i \in r.todo : m = r.seen[i].number
  BY <1>3
<1>5. \A j \in r.todo : r.seen[i].number <= r.seen[j].number
  BY <1>3, <1>4
<1>6. QED
  BY <1>4, <1>5 DEF First


\* What a beat holds outlasts steps that touch none of the rows it has locked.
LEMMA CollectsKept ==
    ASSUME NEW r \in Round, Collects(r), CollectTypeOK, CollectTypeOK',
           time <= time', beats <= beats', configEdits <= configEdits',
           \A i \in r.flushed : config'[i].number = config[i].number
    PROVE  Collects(r)'
<1>1. \A i \in DOMAIN r.seen : r.seen[i].number \in Nat
  BY ViewType DEF Round, Config
<1>2. r.now \in Nat /\ r.nth \in Nat
  BY DEF Round
<1>n. time \in Nat /\ beats \in Nat /\ configEdits \in Nat /\ time' \in Nat /\ beats' \in Nat /\ configEdits' \in Nat
  BY DEF CollectTypeOK
<1>o. r.now <= time /\ r.nth <= beats /\ \A i \in DOMAIN r.seen : r.seen[i].number <= configEdits
  BY DEF Collects
<1>3. r.now <= time' /\ r.nth <= beats' /\ \A i \in DOMAIN r.seen : r.seen[i].number <= configEdits'
  BY <1>1, <1>2, <1>n, <1>o
<1>4. \A i \in r.flushed : config'[i].number = r.seen[i].number
  BY DEF Collects
<1>5. QED
  BY <1>3, <1>4 DEF Collects

\* A beat that goes on, and what it adds up to.
LEMMA Goes ==
    ASSUME CollectSound, NEW b \in Running
    PROVE  b \in Beats /\ beat[b] \in Round /\ Collects(beat[b])
BY DEF CollectSound, Running

\* Two beats lock different rows as long as one that moves takes only free
\* ones.
LEMMA Disjoint ==
    ASSUME CollectSound, NEW b \in Beats, NEW m \in {Asleep} \cup Round,
           beat' = [beat EXCEPT ![b] = m],
           m # Asleep => \A d \in Running \ {b} : m.flushed \cap beat[d].flushed = {}
    PROVE  (\A x, y \in Running : x # y => beat[x].flushed \cap beat[y].flushed = {})'
<1>1. \A d \in Beats : beat'[d] = IF d = b THEN m ELSE beat[d]
  BY DEF CollectSound
<1>2. \A d \in Running' : d \in Beats /\ IF d = b THEN m # Asleep ELSE d \in Running
  BY <1>1 DEF Running
<1>3. ASSUME NEW x \in Running', NEW y \in Running', x # y
      PROVE  beat'[x].flushed \cap beat'[y].flushed = {}
  <2>1. CASE x = b
    BY <1>1, <1>2, <1>3, <2>1
  <2>2. CASE y = b
    BY <1>1, <1>2, <1>3, <2>2
  <2>3. CASE x # b /\ y # b
    BY <1>1, <1>2, <1>3, <2>3 DEF CollectSound, CollectTypeOK
  <2>4. QED
    BY <2>1, <2>2, <2>3
<1>4. QED
  BY <1>3

\* A step of one beat that writes nothing but what it holds.
LEMMA OneBeat ==
    ASSUME CollectSound, NEW b \in Beats, NEW m \in {Asleep} \cup Round,
           beat[b] # Asleep, beat' = [beat EXCEPT ![b] = m],
           m # Asleep =>
             /\ Collects(m)
             /\ ~overlapped => Alone(m)
             /\ \A d \in Running \ {b} : m.flushed \cap beat[d].flushed = {},
           UNCHANGED <<config, alive, samples, sizes, time, beats, configEdits, overlapped>>
    PROVE  CollectSound'
<1>1. \A d \in Beats : beat'[d] = IF d = b THEN m ELSE beat[d]
  BY DEF CollectSound
<1>2. \A d \in Running' : d \in Running /\ IF d = b THEN m # Asleep ELSE d \in Running
  BY <1>1 DEF Running
<1>3. CollectTypeOK'
  <2>1. (\A x, y \in Running : x # y => beat[x].flushed \cap beat[y].flushed = {})'
    BY Disjoint
  <2>2. QED
    BY <2>1 DEF CollectSound, CollectTypeOK
<1>4. ASSUME NEW d \in Running', NEW r, r = beat'[d]
      PROVE  Collects(r)' /\ (~overlapped => Alone(r)')
  <2>1. r \in Round /\ Collects(r) /\ (~overlapped => Alone(r))
    BY <1>1, <1>2, <1>4, Goes DEF CollectSound
  <2>2. QED
    BY <2>1 DEF Collects, Alone
<1>5. \A d \in Running' : Collects(beat[d])' /\ (~overlapped => Alone(beat[d])')
  BY <1>4 DEF Collects, Alone
<1>6. beat' \in [Beats -> {Asleep} \cup Round]
  BY DEF CollectSound
<1>7. QED
  BY <1>2, <1>3, <1>5, <1>6 DEF CollectSound, Dated, Configured, SpacedUnlessOverlapped

\* An instance that is not due is passed by.
LEMMA PassKeeps ==
    ASSUME CollectSound, NEW b \in Beats, PassBy(b)
    PROVE  CollectSound'
<1> DEFINE r == beat[b]
           i == First(b)
           m == [r EXCEPT !.todo = r.todo \ {i}]
<1>1. b \in Running /\ r \in Round /\ Collects(r) /\ i \in r.todo
  BY Goes, FirstIn DEF PassBy
<1>2. ~Due(r.seen[i], r.now) /\ beat' = [beat EXCEPT ![b] = m]
      /\ UNCHANGED <<config, alive, samples, sizes, time, beats, configEdits, overlapped>>
  BY DEF PassBy
<1> HIDE DEF i
<1>3. m \in Round /\ m.todo = r.todo \ {i} /\ m.nth = r.nth /\ m.now = r.now /\ m.seen = r.seen
      /\ m.flushed = r.flushed /\ m.marks = r.marks /\ m.new = r.new /\ m.measured = r.measured
  BY <1>1 DEF Round
<1> HIDE DEF m
<1>4. Collects(m)
  BY <1>1, <1>2, <1>3 DEF Collects
<1>5. /\ ~overlapped => Alone(m)
      /\ \A d \in Running \ {b} : m.flushed \cap beat[d].flushed = {}
  BY <1>1, <1>3 DEF CollectSound, CollectTypeOK, Alone
<1>6. beat[b] # Asleep
  BY <1>1 DEF Running
<1>7. QED
  BY <1>2, <1>3, <1>4, <1>5, <1>6, OneBeat

\* A beat whose transaction is lost, or whose worker dies, leaves nothing.
LEMMA EndKeeps ==
    ASSUME CollectSound, NEW b \in Beats, LoseBeat(b) \/ CrashBeat(b)
    PROVE  CollectSound'
<1>1. /\ beat[b] # Asleep /\ beat' = [beat EXCEPT ![b] = Asleep]
      /\ UNCHANGED <<config, alive, samples, sizes, time, beats, configEdits, overlapped>>
  BY DEF LoseBeat, CrashBeat, Running
<1>2. QED
  BY <1>1, OneBeat

\* What a collection writes.
LEMMA StampType ==
    ASSUME NEW c \in Config, NEW now \in 1..LastTime, NEW metric \in BOOLEAN, NEW size \in BOOLEAN, NEW answer
    PROVE  LET n == Stamped(c, now, metric, size, answer)
           IN  /\ n \in Config /\ n.number = c.number
               /\ n.metric = IF metric /\ answer # "none" THEN now ELSE c.metric
<1> DEFINE x == IF metric /\ answer # "none" THEN now ELSE c.metric
           y == IF size /\ answer = "both" THEN now ELSE c.size
           z == (answer = "both")
<1>1. x \in 0..LastTime /\ y \in 0..LastTime
  BY DEF Config
<1>2. z \in BOOLEAN
  OBVIOUS
<1>3. Stamped(c, now, metric, size, answer) = [c EXCEPT !.metric = x, !.size = y, !.good = z]
  BY DEF Stamped
<1> HIDE DEF x, y, z
<1>4. /\ [c EXCEPT !.metric = x, !.size = y, !.good = z] \in Config
      /\ [c EXCEPT !.metric = x, !.size = y, !.good = z].number = c.number
      /\ [c EXCEPT !.metric = x, !.size = y, !.good = z].metric = x
  BY <1>1, <1>2 DEF Config
<1>5. QED
  BY <1>3, <1>4 DEF x

\* The samples of one collection: of its instance, configuration, time and
\* beat, a good one only if the metrics were asked for and answered, and at
\* least one unless all went well without the metrics.
LEMMA TakenType ==
    ASSUME NEW i \in Watched, NEW c \in Config, NEW now \in 1..LastTime, NEW metric \in BOOLEAN,
           NEW answer, NEW by \in [hand : BOOLEAN, nth : 1..MaxBeats]
    PROVE  /\ Taken(i, c, now, metric, answer, by) \subseteq Measure
           /\ \A t \in Taken(i, c, now, metric, answer, by) :
                /\ t.inst = i /\ t.config = c.number /\ t.at = now /\ t.by = by
                /\ t.good => metric /\ answer # "none"
           /\ (metric /\ answer # "none") \/ answer # "both" => Taken(i, c, now, metric, answer, by) # {}
<1> DEFINE g == Sample(i, c, now, TRUE, by)
           f == Sample(i, c, now, FALSE, by)
<1>1. g \in Measure /\ g.inst = i /\ g.config = c.number /\ g.at = now /\ g.by = by /\ g.good = TRUE
  BY DEF Sample, Measure, Config
<1>2. f \in Measure /\ f.inst = i /\ f.config = c.number /\ f.at = now /\ f.by = by /\ f.good = FALSE
  BY DEF Sample, Measure, Config
<1>3. Taken(i, c, now, metric, answer, by) =
        (IF metric /\ answer # "none" THEN {g} ELSE {}) \cup (IF answer # "both" THEN {f} ELSE {})
  BY DEF Taken
<1> HIDE DEF g, f
<1>4. QED
  BY <1>1, <1>2, <1>3

\* One due instance of a beat (monitor.py 642-700).
LEMMA CollectKeeps ==
    ASSUME CollectSound, NEW b \in Beats, NEW answer \in Answers, CollectOne(b, answer)
    PROVE  CollectSound'
<1> DEFINE r == beat[b]
           i == First(b)
           c == r.seen[i]
           metric == MetricDue(c, r.now)
           size == SizeDue(c, r.now)
           mark == Stamped(c, r.now, metric, size, answer)
           by == [hand |-> FALSE, nth |-> r.nth]
           took == Taken(i, c, r.now, metric, answer, by)
           flushed == IF mark # c THEN r.flushed \cup {i} ELSE r.flushed
           sized == IF size /\ answer = "both" THEN r.measured \cup {[inst |-> i, at |-> r.now]} ELSE r.measured
           gone == r.gone \cup PastRetention(i, c, r.now)
           m == [r EXCEPT !.todo = r.todo \ {i}, !.flushed = flushed, !.marks = [r.marks EXCEPT ![i] = mark],
                          !.new = r.new \cup took, !.measured = sized, !.gone = gone]
<1>1. b \in Running /\ r \in Round /\ Collects(r) /\ i \in r.todo /\ r # Asleep
  BY Goes, FirstIn DEF CollectOne, Running
<1>2. /\ Due(c, r.now)
      /\ mark # c => ~Locked(i) /\ config[i].number = c.number
      /\ answer = "metrics" => metric /\ size
      /\ UNCHANGED <<config, alive, samples, sizes, time, beats, configEdits, overlapped>>
  BY DEF CollectOne
<1>3. beat' = [beat EXCEPT
                  ![b].todo = @ \ {i},
                  ![b].flushed = IF mark # c THEN @ \cup {i} ELSE @,
                  ![b].marks[i] = mark,
                  ![b].new = @ \cup took,
                  ![b].measured = IF size /\ answer = "both" THEN @ \cup {[inst |-> i, at |-> r.now]} ELSE @,
                  ![b].gone = @ \cup PastRetention(i, c, r.now)]
  BY DEF CollectOne
<1>4. i \in Watched /\ i \in DOMAIN r.seen /\ i \in DOMAIN r.marks /\ c \in Config
      /\ r.now \in 1..LastTime /\ by \in [hand : BOOLEAN, nth : 1..MaxBeats] /\ by.nth = r.nth
  BY <1>1, ViewType DEF Collects, Round
<1>5. metric \in BOOLEAN /\ size \in BOOLEAN
  BY DEF MetricDue, SizeDue, Elapsed
<1>6. metric \/ size
  BY <1>2 DEF Due
<1> HIDE DEF i, metric, size, by
<1>7. mark \in Config /\ mark.number = c.number
      /\ mark.metric = IF metric /\ answer # "none" THEN r.now ELSE c.metric
  BY <1>4, <1>5, StampType
<1>8. /\ took \subseteq Measure
      /\ \A t \in took : /\ t.inst = i /\ t.config = c.number /\ t.at = r.now /\ t.by = by
                         /\ t.good => metric /\ answer # "none"
      /\ (metric /\ answer # "none") \/ answer # "both" => took # {}
  <2> HIDE DEF c
  <2> QED BY <1>4, <1>5, TakenType
<1>9. beat' = [beat EXCEPT ![b] = m]
  <2>1. beat' = [beat EXCEPT
              ![b].todo = @ \ {i}, ![b].flushed = flushed, ![b].marks[i] = mark,
              ![b].new = @ \cup took, ![b].measured = sized, ![b].gone = @ \cup PastRetention(i, c, r.now)]
    BY <1>3, Zenon
  <2> HIDE DEF c, mark, took, flushed, sized
  <2>2. beat \in [Beats -> {Asleep} \cup Round]
    BY DEF CollectSound
  <2>3. QED
    BY <1>1, <2>1, <2>2 DEF Round
<1>10. PastRetention(i, c, r.now) \subseteq Measure \cup Capacity
  BY CollectTypes DEF PastRetention, CollectSound
<1>11. sized \in SUBSET Capacity /\ r.measured \subseteq sized
       /\ (size /\ answer = "both" => [inst |-> i, at |-> r.now] \in sized)
  BY <1>1, <1>4 DEF Round, Capacity
<1>12. flushed \in SUBSET Watched /\ flushed \subseteq r.flushed \cup {i} /\ r.flushed \subseteq flushed
       /\ (i \in flushed \ r.flushed => mark # c) /\ (mark # c => i \in flushed)
  BY <1>1, <1>4 DEF Round
<1>13. [r.marks EXCEPT ![i] = mark] \in Views /\ DOMAIN [r.marks EXCEPT ![i] = mark] = DOMAIN r.marks
       /\ \A j \in DOMAIN r.marks : [r.marks EXCEPT ![i] = mark][j] = IF j = i THEN mark ELSE r.marks[j]
  BY <1>1, <1>4, <1>7, ViewUpdate DEF Round, Views
<1> HIDE DEF c, mark, took, flushed, sized, by
<1>14. /\ m \in Round /\ m.todo = r.todo \ {i} /\ m.flushed = flushed /\ m.marks = [r.marks EXCEPT ![i] = mark]
       /\ m.new = r.new \cup took /\ m.measured = sized /\ m.nth = r.nth /\ m.now = r.now /\ m.seen = r.seen
  BY <1>1, <1>8, <1>10, <1>11, <1>12, <1>13 DEF Round
<1> HIDE DEF m
<1>15. \A d \in Running \ {b} : m.flushed \cap beat[d].flushed = {}
  BY <1>1, <1>2, <1>12, <1>14 DEF CollectSound, CollectTypeOK, Locked
<1>16. ~overlapped => Alone(m)
  BY <1>1, <1>14 DEF CollectSound, Alone
<1>17. Collects(m)
  <2>1. /\ m.todo \subseteq DOMAIN m.seen /\ m.flushed \subseteq DOMAIN m.seen /\ DOMAIN m.marks = DOMAIN m.seen
        /\ m.now <= time /\ m.nth <= beats
    BY <1>1, <1>4, <1>12, <1>13, <1>14 DEF Collects
  <2>2. ASSUME NEW j \in DOMAIN m.seen
        PROVE  /\ m.seen[j].number <= configEdits /\ m.seen[j].metric <= m.now
               /\ m.marks[j].metric \in {m.seen[j].metric, m.now}
    BY <1>1, <1>7, <1>13, <1>14, <2>2 DEF Collects, c
  <2>3. ASSUME NEW j \in DOMAIN m.seen, j \notin m.todo, Due(m.seen[j], m.now)
        PROVE  \/ \E s \in m.new : s.inst = j /\ s.at = m.now
               \/ [inst |-> j, at |-> m.now] \in m.measured
    <3>1. CASE j = i
      <4>1. CASE size /\ answer = "both"
        BY <1>11, <1>14, <3>1, <4>1
      <4>2. CASE ~(size /\ answer = "both")
        <5>1. took # {}
          BY <1>5, <1>6, <1>8, <4>2
        <5>2. PICK t \in took : t.inst = i /\ t.at = r.now
          BY <1>8, <5>1
        <5>3. QED
          BY <1>14, <3>1, <5>2
      <4>3. QED
        BY <4>1, <4>2
    <3>2. CASE j # i
      BY <1>1, <1>11, <1>14, <2>3, <3>2 DEF Collects
    <3>3. QED
      BY <3>1, <3>2
  <2>4. \A j \in m.flushed : config[j].number = m.seen[j].number
    BY <1>1, <1>2, <1>12, <1>14 DEF Collects, c
  <2>5. ASSUME NEW t \in m.new
        PROVE  /\ t.inst \in DOMAIN m.seen \ m.todo /\ t.config = m.seen[t.inst].number /\ t.at = m.now /\ t.by.nth = m.nth
               /\ t.good => /\ MetricDue(m.seen[t.inst], m.now) /\ t.inst \in m.flushed
                            /\ m.marks[t.inst].metric = m.now
    <3>1. CASE t \in took
      <4>1. t.inst = i /\ t.config = c.number /\ t.at = r.now /\ t.by = by /\ (t.good => metric /\ answer # "none")
        BY <1>8, <3>1
      <4>2. ASSUME t.good PROVE MetricDue(c, r.now) /\ mark.metric = r.now /\ mark # c
        <5>1. MetricDue(c, r.now) /\ mark.metric = r.now
          BY <1>5, <1>7, <4>1, <4>2 DEF metric
        <5>2. c.metric # r.now
          <6>1. c.metric \in Nat /\ r.now \in Nat \ {0}
            BY <1>4 DEF Config
          <6>2. QED
            BY <5>1, <6>1 DEF MetricDue, Elapsed, Never
        <5>3. QED
          BY <5>1, <5>2
      <4>3. QED
        BY <1>4, <1>12, <1>13, <1>14, <4>1, <4>2 DEF c
    <3>2. CASE t \in r.new
      <4>1. /\ t.inst \in DOMAIN r.seen \ r.todo /\ t.config = r.seen[t.inst].number /\ t.at = r.now /\ t.by.nth = r.nth
            /\ t.good => MetricDue(r.seen[t.inst], r.now) /\ t.inst \in r.flushed /\ r.marks[t.inst].metric = r.now
        BY <1>1, <3>2 DEF Collects
      <4>2. r.flushed \subseteq flushed
        BY <1>12
      <4>3. QED
        BY <1>1, <1>13, <1>14, <4>1, <4>2 DEF Collects
    <3>3. QED
      BY <1>14, <3>1, <3>2
  <2>6. QED
    BY <2>1, <2>2, <2>3, <2>4, <2>5 DEF Collects
<1>18. QED
  BY <1>1, <1>2, <1>9, <1>14, <1>15, <1>16, <1>17, OneBeat

\* A beat begins with the configurations that are enabled, and notes
\* whether it overlaps.
LEMMA StartKeeps ==
    ASSUME CollectSound, NEW b \in Beats, StartBeat(b)
    PROVE  CollectSound'
<1> DEFINE on == {i \in alive : Configured(i) /\ config[i].on}
           view == [i \in on |-> config[i]]
           m == [at |-> "run", nth |-> beats + 1, now |-> time, seen |-> view, todo |-> on,
                 flushed |-> {}, marks |-> view, new |-> {}, measured |-> {}, gone |-> {}]
<1>1. /\ beat[b] = Asleep /\ beats < MaxBeats /\ beat' = [beat EXCEPT ![b] = m]
      /\ beats' = beats + 1 /\ overlapped' = (overlapped \/ Running # {})
      /\ UNCHANGED <<config, alive, samples, sizes, time, configEdits>>
  BY DEF StartBeat
<1>2. on \subseteq Watched /\ view \in [on -> Config]
      /\ \A i \in on : view[i] = config[i] /\ config[i].number <= configEdits /\ config[i].metric <= time
  BY CollectTypes DEF CollectSound, Dated, Configured
<1>3. view \in Views /\ DOMAIN view = on
  BY <1>2, ViewMade
<1> HIDE DEF on, view
<1>4. /\ m \in Round /\ m.nth = beats + 1 /\ m.now = time /\ m.seen = view /\ m.todo = on /\ m.flushed = {}
      /\ m.marks = view /\ m.new = {}
  BY <1>1, <1>2, <1>3 DEF CollectSound, CollectTypeOK, Round
<1> HIDE DEF m
<1>5. \A d \in Running' : d \in Beats /\ (d = b \/ d \in Running) /\ (d # b => beat'[d] = beat[d])
  BY <1>1 DEF Running, CollectSound
<1>6. beat'[b] = m /\ beat' \in [Beats -> {Asleep} \cup Round]
  BY <1>1, <1>4 DEF CollectSound
<1>7. CollectTypeOK'
  <2>1. (\A x, y \in Running : x # y => beat[x].flushed \cap beat[y].flushed = {})'
    BY <1>1, <1>4, Disjoint
  <2>2. QED
    BY <1>1, <2>1 DEF CollectSound, CollectTypeOK
<1>n. beats \in Nat /\ beats' \in Nat /\ time \in Nat /\ configEdits \in Nat
  BY <1>7, <1>1 DEF CollectSound, CollectTypeOK
<1>8. ASSUME NEW r, r = m PROVE Collects(r)'
  <2>1. r.now <= time' /\ r.nth <= beats'
    BY <1>1, <1>4, <1>8, <1>n
  <2>2. QED
    BY <1>1, <1>2, <1>3, <1>4, <1>8, <2>1 DEF Collects
<1>9. ASSUME NEW d \in Running', NEW r, r = beat'[d] PROVE Collects(r)'
  <2>1. CASE d = b
    BY <1>6, <1>8, <1>9, <2>1
  <2>2. CASE d # b
    <3>1. r \in Round /\ Collects(r)
      BY <1>5, <1>9, <2>2, Goes
    <3>2. QED
      BY <1>1, <1>7, <1>n, <3>1, CollectsKept DEF CollectSound
  <2>3. QED
    BY <2>1, <2>2
<1>10. (\A d \in Running : Collects(beat[d]))'
  BY <1>9 DEF Collects
<1>11. Dated'
  <2>1. \A s \in samples : s.by.nth \in Nat
    BY CollectTypes DEF CollectSound, Measure
  <2>2. QED
    BY <1>1, <1>n, <2>1 DEF CollectSound, Dated, Configured
<1>12. ASSUME ~overlapped' 
       PROVE  /\ \A s \in samples' : s.good /\ s.config = config'[s.inst].number => s.at <= config'[s.inst].metric
              /\ \A d \in Running' : d = b /\ Alone(beat[d])'
  <2>1. Running = {} /\ ~overlapped
    BY <1>1, <1>12
  <2>2. \A s \in samples : s.good /\ s.config = config[s.inst].number => s.at <= config[s.inst].metric
    BY <2>1 DEF CollectSound
  <2>3. \A s \in samples : s.by.nth \in Nat /\ s.by.nth <= beats
    BY CollectTypes DEF CollectSound, Measure, Dated
  <2>4. \A s \in samples : s.by.nth < m.nth
    BY <1>4, <1>n, <2>3
  <2>5. \A s \in samples :
          s.good /\ s.inst \in DOMAIN m.seen /\ s.config = m.seen[s.inst].number => s.at <= m.seen[s.inst].metric
    BY <1>2, <1>3, <1>4, <2>2
  <2>6. QED
    BY <1>1, <1>5, <1>6, <2>1, <2>2, <2>4, <2>5 DEF Alone
<1>14. SpacedUnlessOverlapped'
  BY <1>1 DEF CollectSound, SpacedUnlessOverlapped
<1>15. QED
  BY <1>6, <1>7, <1>10, <1>11, <1>12, <1>14 DEF CollectSound

\* A row that is written while no beat has locked it.
LEMMA RowKeeps ==
    ASSUME CollectSound, NEW i \in Watched, NEW c \in {Unset} \cup Config,
           ~Locked(i), config' = [config EXCEPT ![i] = c], UNCHANGED <<beat, alive, time>>,
           samples' \subseteq Measure, sizes' \subseteq Capacity,
           configEdits' \in {configEdits, configEdits + 1}, beats' \in {beats, beats + 1},
           overlapped' \in BOOLEAN, beats' <= MaxBeats, configEdits' <= MaxConfigs,
           c # Unset => c.number <= configEdits' /\ c.metric <= time
    PROVE  /\ CollectTypeOK'
           /\ (\A d \in Running : Collects(beat[d]))'
           /\ beat' \in [Beats -> {Asleep} \cup Round]
           /\ \A j \in Watched : config'[j] = IF j = i THEN c ELSE config[j]
           /\ \A j \in Watched : Configured(j)' => config'[j].number <= configEdits' /\ config'[j].metric <= time
<1>1. config \in [Watched -> {Unset} \cup Config] /\ Running' = Running
  BY CollectTypes DEF CollectSound, Running
<1>2. \A j \in Watched : config'[j] = IF j = i THEN c ELSE config[j]
  BY <1>1
<1>n. beats \in Nat /\ beats' \in Nat /\ time \in Nat /\ configEdits \in Nat /\ configEdits' \in Nat
  BY DEF CollectSound, CollectTypeOK
<1>3. CollectTypeOK'
  <2>1. config' \in [Watched -> {Unset} \cup Config]
    BY <1>1
  <2>2. (\A x, y \in Running : x # y => beat[x].flushed \cap beat[y].flushed = {})'
    BY <1>1 DEF CollectSound, CollectTypeOK
  <2>3. beats' \in 0..MaxBeats /\ configEdits' \in 0..MaxConfigs
    BY <1>n
  <2>4. QED
    BY <2>1, <2>2, <2>3 DEF CollectSound, CollectTypeOK, Config, Measure, Capacity
<1>4. ASSUME NEW d \in Running, NEW r, r = beat[d] PROVE Collects(r)'
  <2>1. r \in Round /\ Collects(r)
    BY <1>4, Goes
  <2>2. \A j \in r.flushed : j \in Watched /\ j # i
    BY <1>4, <2>1 DEF Locked, Round
  <2>3. \A j \in r.flushed : config'[j].number = config[j].number
    BY <1>2, <2>2
  <2>4. QED
    BY <1>3, <1>n, <2>1, <2>3, CollectsKept DEF CollectSound
<1>5. (\A d \in Running : Collects(beat[d]))'
  BY <1>1, <1>4 DEF Collects
<1>6. \A j \in Watched : Configured(j)' => config'[j].number <= configEdits' /\ config'[j].metric <= time
  <2>1. \A j \in Watched : Configured(j) => config[j].number \in Nat /\ config[j].number <= configEdits /\ config[j].metric <= time
    BY <1>1 DEF CollectSound, Dated, Config, Configured
  <2>2. \A j \in Watched : Configured(j) => config[j].number <= configEdits'
    BY <1>n, <2>1
  <2>3. QED
    BY <1>2, <2>1, <2>2 DEF Configured
<1>7. QED
  BY <1>2, <1>3, <1>5, <1>6 DEF CollectSound

\* What the history of samples says, when no row is written by two.
SampledBefore == \A s \in samples : s.good /\ s.config = config[s.inst].number => s.at <= config[s.inst].metric
Singly == (\A b, d \in Running : b = d) /\ (\A b \in Running : Alone(beat[b]))

\* A row is created, edited or deleted; a new row has a number of its own.
LEMMA EditRowKeeps ==
    ASSUME CollectSound, NEW i \in Watched, NEW c \in {Unset} \cup Config,
           ~Locked(i), config' = [config EXCEPT ![i] = c],
           UNCHANGED <<beat, alive, samples, sizes, time, beats, overlapped>>,
           configEdits' \in {configEdits, configEdits + 1}, configEdits' <= MaxConfigs,
           \/ c = Unset
           \/ c.number = configEdits + 1 /\ configEdits' = configEdits + 1 /\ c.metric = 0
           \/ config[i] # Unset /\ c.number = config[i].number /\ c.metric = config[i].metric
    PROVE  CollectSound'
<1>1. config \in [Watched -> {Unset} \cup Config] /\ samples \subseteq Measure /\ sizes \subseteq Capacity
      /\ time \in Nat /\ configEdits \in Nat /\ beats \in Nat /\ overlapped \in BOOLEAN /\ beats <= MaxBeats
  BY CollectTypes DEF CollectSound
<1>2. config[i] # Unset => config[i].number \in Nat /\ config[i].number <= configEdits /\ config[i].metric <= time
  BY <1>1 DEF CollectSound, Dated, Configured, Config
<1>3. c # Unset => c.number <= configEdits' /\ c.metric <= time
  BY <1>1, <1>2
<1>4. /\ CollectTypeOK'
      /\ (\A d \in Running : Collects(beat[d]))'
      /\ beat' \in [Beats -> {Asleep} \cup Round]
      /\ \A j \in Watched : config'[j] = IF j = i THEN c ELSE config[j]
      /\ \A j \in Watched : Configured(j)' => config'[j].number <= configEdits' /\ config'[j].metric <= time
  BY <1>1, <1>3, RowKeeps
<1>5. \A s \in samples : s.inst \in Watched /\ s.at \in Nat /\ s.by.nth \in Nat /\ s.config \in Nat
  BY <1>1 DEF Measure
<1>6. Dated'
  <2>1. \A s \in samples : s.at <= time /\ s.by.nth <= beats /\ s.config \in 1..configEdits'
    BY <1>1, <1>5 DEF CollectSound, Dated
  <2>2. QED
    BY <1>4, <2>1 DEF Dated
<1>7. ~overlapped => SampledBefore'
  <2> SUFFICES ASSUME ~overlapped, NEW s \in samples, s.good, s.config = config'[s.inst].number
               PROVE  s.at <= config'[s.inst].metric
    BY DEF SampledBefore
  <2>1. s.config = config[s.inst].number => s.at <= config[s.inst].metric
    BY DEF CollectSound
  <2>2. s.config # 0 /\ s.config # configEdits + 1
    BY <1>1, <1>5 DEF CollectSound, Dated
  <2>3. QED
    BY <1>4, <1>5, <2>1, <2>2 DEF Unset
<1>8. ~overlapped => Singly'
  BY DEF CollectSound, Singly, Running, Alone
<1>9. SpacedUnlessOverlapped'
  BY DEF CollectSound, SpacedUnlessOverlapped
<1>10. QED
  BY <1>4, <1>6, <1>7, <1>8, <1>9 DEF CollectSound, SampledBefore, Singly

\* A configuration is created or edited by hand.
LEMMA ConfigureKeeps ==
    ASSUME CollectSound, NEW i \in Watched, NEW on \in BOOLEAN, NEW keep \in Retentions, Configure(i, on, keep)
    PROVE  CollectSound'
<1> DEFINE old == [config[i] EXCEPT !.on = on, !.keep = keep]
           new == [number |-> configEdits + 1, on |-> on, keep |-> keep, metric |-> Never, size |-> Never, good |-> TRUE]
           c == IF Configured(i) THEN old ELSE new
<1>1. config \in [Watched -> {Unset} \cup Config] /\ configEdits \in Nat
  BY CollectTypes DEF CollectSound
<1>2. ~Locked(i) /\ configEdits < MaxConfigs /\ configEdits' = configEdits + 1
      /\ UNCHANGED <<beat, alive, samples, sizes, time, beats, overlapped>>
  BY DEF Configure
<1>3. config' = [config EXCEPT ![i] = c]
  BY <1>1 DEF Configure
<1>4. Configured(i) => old \in Config /\ old.number = config[i].number /\ old.metric = config[i].metric
  BY <1>1 DEF Configured, Config
<1>5. new \in Config /\ new.number = configEdits + 1 /\ new.metric = 0
  BY <1>1, <1>2 DEF Config, Never
<1> HIDE DEF old, new
<1>6. c \in Config /\ \/ c.number = configEdits + 1 /\ c.metric = 0
                      \/ config[i] # Unset /\ c.number = config[i].number /\ c.metric = config[i].metric
  BY <1>4, <1>5 DEF Configured
<1> HIDE DEF c
<1>7. configEdits' <= MaxConfigs /\ c \in {Unset} \cup Config
  BY <1>1, <1>2, <1>6
<1>8. \/ c.number = configEdits + 1 /\ configEdits' = configEdits + 1 /\ c.metric = 0
      \/ config[i] # Unset /\ c.number = config[i].number /\ c.metric = config[i].metric
  BY <1>2, <1>6
<1>9. QED
  BY <1>2, <1>3, <1>7, <1>8, EditRowKeeps

\* A configuration is deleted.
LEMMA DeleteKeeps ==
    ASSUME CollectSound, NEW i \in Watched, DeleteConfig(i)
    PROVE  CollectSound'
<1>1. configEdits \in Nat /\ configEdits <= MaxConfigs
  BY DEF CollectSound, CollectTypeOK
<1>2. ~Locked(i) /\ config' = [config EXCEPT ![i] = Unset]
      /\ UNCHANGED <<alive, samples, sizes, beat, time, beats, configEdits, overlapped>>
  BY DEF DeleteConfig
<1>3. Unset \in {Unset} \cup Config /\ configEdits' <= MaxConfigs /\ configEdits' \in {configEdits, configEdits + 1}
  BY <1>1, <1>2
<1>4. QED
  BY <1>2, <1>3, EditRowKeeps

\* The clock and the list of active instances move.
LEMMA ElapseKeeps ==
    ASSUME CollectSound, UNCHANGED <<config, samples, sizes, beat, beats, configEdits, overlapped>>,
           time' \in {time, time + 1}, time' <= LastTime, alive' \subseteq Watched
    PROVE  CollectSound'
<1>1. time \in Nat \ {0} /\ time' \in Nat /\ time <= time' /\ configEdits \in Nat /\ beats \in Nat
  BY DEF CollectSound, CollectTypeOK
<1>2. CollectTypeOK'
  BY <1>1 DEF CollectSound, CollectTypeOK, Running
<1>3. ASSUME NEW d \in Running', NEW r, r = beat'[d] PROVE Collects(r)'
  BY <1>1, <1>2, <1>3, Goes, CollectsKept DEF CollectSound, Running
<1>4. (\A d \in Running : Collects(beat[d]))'
  BY <1>3 DEF Collects
<1>5. Dated'
  <2>1. \A s \in samples : s.at \in Nat /\ s.at <= time
    BY CollectTypes DEF CollectSound, Measure, Dated
  <2>2. \A j \in Watched : Configured(j) => config[j].metric \in Nat /\ config[j].metric <= time
    BY CollectTypes DEF CollectSound, Dated, Configured, Config
  <2>3. QED
    BY <1>1, <2>1, <2>2 DEF CollectSound, Dated, Configured
<1>6. ~overlapped => SampledBefore' /\ Singly'
  BY DEF CollectSound, Singly, Running, Alone, SampledBefore
<1>7. SpacedUnlessOverlapped' /\ beat' \in [Beats -> {Asleep} \cup Round]
  BY DEF CollectSound, SpacedUnlessOverlapped
<1>8. QED
  BY <1>2, <1>4, <1>5, <1>6, <1>7 DEF CollectSound, SampledBefore, Singly

\* A collection by hand, due or not, commits at once
\* (collect_native_instance).
LEMMA HandKeeps ==
    ASSUME CollectSound, NEW i \in Watched, NEW answer \in Answers, CollectByHand(i, answer)
    PROVE  CollectSound'
<1>1. PICK keep \in Retentions :
          LET c == IF Configured(i) THEN config[i]
                   ELSE [number |-> configEdits + 1, on |-> TRUE, keep |-> keep, metric |-> Never, size |-> Never, good |-> TRUE]
          IN  /\ config' = [config EXCEPT ![i] = Stamped(c, time, TRUE, TRUE, answer)]
              /\ samples' = samples \cup Taken(i, c, time, TRUE, answer, [hand |-> TRUE, nth |-> beats + 1])
  BY DEF CollectByHand
<1> DEFINE new == [number |-> configEdits + 1, on |-> TRUE, keep |-> keep, metric |-> Never, size |-> Never, good |-> TRUE]
           c == IF Configured(i) THEN config[i] ELSE new
           mark == Stamped(c, time, TRUE, TRUE, answer)
           by == [hand |-> TRUE, nth |-> beats + 1]
           took == Taken(i, c, time, TRUE, answer, by)
<1>2. /\ ~Locked(i) /\ beats < MaxBeats /\ (Configured(i) \/ configEdits < MaxConfigs)
      /\ configEdits' = (IF Configured(i) THEN configEdits ELSE configEdits + 1)
      /\ sizes' = (IF answer = "both" THEN sizes \cup {[inst |-> i, at |-> time]} ELSE sizes)
      /\ beats' = beats + 1
      /\ overlapped' = (overlapped \/ Running # {})
      /\ UNCHANGED <<alive, beat, time>>
  BY DEF CollectByHand
<1>3. config' = [config EXCEPT ![i] = mark] /\ samples' = samples \cup took
  BY <1>1
<1>4. /\ config \in [Watched -> {Unset} \cup Config] /\ samples \subseteq Measure /\ sizes \subseteq Capacity
      /\ time \in Nat \ {0} /\ time \in 1..LastTime /\ configEdits \in Nat /\ configEdits <= MaxConfigs
      /\ beats \in Nat /\ overlapped \in BOOLEAN
  BY CollectTypes DEF CollectSound
<1>5. by \in [hand : BOOLEAN, nth : 1..MaxBeats] /\ by.nth = beats + 1 /\ by.hand = TRUE
  BY <1>2, <1>4
<1>6. (new \in Config /\ new.number = configEdits + 1) \/ Configured(i)
  BY <1>2, <1>4 DEF Config, Never
<1> HIDE DEF by, new
<1>7. c \in Config /\ c.number <= configEdits' /\ c.number \in Nat
      /\ \/ c.number = config[i].number /\ config[i] # Unset /\ c = config[i]
         \/ c.number = configEdits + 1
  BY <1>2, <1>4, <1>6 DEF Configured, CollectSound, Dated, Config
<1>8. config[i] # Unset => config[i].metric <= time /\ config[i].metric \in Nat
  BY <1>4 DEF CollectSound, Dated, Configured, Config
<1>9. new.metric = 0
  BY DEF new, Never
<1>10. c.metric <= time /\ c.metric \in Nat
  BY <1>4, <1>8, <1>9 DEF Configured
<1> HIDE DEF c
<1>11. /\ mark \in Config /\ mark.number = c.number
       /\ mark.metric = IF answer # "none" THEN time ELSE c.metric
  <2>1. c \in Config /\ time \in 1..LastTime
    BY <1>4, <1>7
  <2>2. ASSUME NEW yes \in BOOLEAN, NEW n, n = Stamped(c, time, yes, yes, answer)
        PROVE  /\ n \in Config /\ n.number = c.number
               /\ n.metric = IF yes /\ answer # "none" THEN time ELSE c.metric
    BY <2>1, <2>2, StampType
  <2>3. TRUE \in BOOLEAN /\ mark = Stamped(c, time, TRUE, TRUE, answer)
    OBVIOUS
  <2> HIDE DEF mark
  <2>4. /\ mark \in Config /\ mark.number = c.number
        /\ mark.metric = IF TRUE /\ answer # "none" THEN time ELSE c.metric
    BY <2>2, <2>3, Zenon
  <2> QED
    BY <2>4
<1>12. /\ took \subseteq Measure
       /\ \A t \in took : /\ t.inst = i /\ t.config = c.number /\ t.at = time /\ t.by = by
                          /\ t.good => answer # "none"
  <2> SUFFICES ASSUME NEW metric \in BOOLEAN, took = Taken(i, c, time, metric, answer, by)
               PROVE  /\ took \subseteq Measure
                      /\ \A t \in took : /\ t.inst = i /\ t.config = c.number /\ t.at = time /\ t.by = by
                                         /\ t.good => answer # "none"
    <3>1. TRUE \in BOOLEAN /\ took = Taken(i, c, time, TRUE, answer, by)
      OBVIOUS
    <3>2. QED
      BY <3>1, Zenon
  <2> HIDE DEF took
  <2> QED
    BY <1>4, <1>5, <1>7, TakenType
<1> HIDE DEF mark, took
<1>13. mark # Unset /\ mark.metric <= time
  BY <1>4, <1>10, <1>11 DEF Config, Unset
<1>14. /\ CollectTypeOK'
       /\ (\A d \in Running : Collects(beat[d]))'
       /\ beat' \in [Beats -> {Asleep} \cup Round]
       /\ \A j \in Watched : config'[j] = IF j = i THEN mark ELSE config[j]
       /\ \A j \in Watched : Configured(j)' => config'[j].number <= configEdits' /\ config'[j].metric <= time
  <2>1. samples' \subseteq Measure /\ sizes' \subseteq Capacity
    BY <1>2, <1>3, <1>4, <1>12 DEF Capacity
  <2>2. configEdits' <= MaxConfigs /\ configEdits' \in {configEdits, configEdits + 1} /\ beats' <= MaxBeats
        /\ overlapped' \in BOOLEAN
    BY <1>2, <1>4
  <2>3. QED
    BY <1>2, <1>3, <1>7, <1>11, <1>13, <2>1, <2>2, RowKeeps
<1>15. \A s \in samples : /\ s.inst \in Watched /\ s.at \in Nat \ {0} /\ s.by.nth \in Nat /\ s.config \in Nat
                          /\ s.at <= time /\ s.by.nth <= beats /\ s.config >= 1 /\ s.config <= configEdits
  BY <1>4 DEF Measure, CollectSound, Dated
<1>16. configEdits' \in Nat /\ configEdits <= configEdits' /\ c.number >= 1
  BY <1>2, <1>4, <1>7 DEF Config
<1>17. Dated'
  <2>1. ASSUME NEW s \in samples' PROVE s.at <= time /\ s.by.nth <= beats' /\ s.config \in 1..configEdits'
    <3>1. CASE s \in took
      BY <1>2, <1>4, <1>5, <1>7, <1>12, <1>16, <3>1
    <3>2. CASE s \in samples
      BY <1>2, <1>4, <1>15, <1>16, <3>2
    <3>3. QED
      BY <1>3, <2>1, <3>1, <3>2
  <2>2. QED
    BY <1>2, <1>14, <2>1 DEF Dated
<1>18. ASSUME ~overlapped' PROVE SampledBefore'
  <2>1. ASSUME NEW s \in samples', s.good, s.config = config'[s.inst].number
        PROVE  s.at <= config'[s.inst].metric
    <3>1. CASE s \in took
      BY <1>4, <1>11, <1>12, <1>14, <2>1, <3>1
    <3>2. CASE s \in samples
      <4>1. s.config = config[s.inst].number => s.at <= config[s.inst].metric
        BY <1>2, <1>18, <2>1, <3>2 DEF CollectSound
      <4>2. s.inst # i => config'[s.inst] = config[s.inst]
        BY <1>14, <1>15, <3>2
      <4>3. CASE s.inst = i
        <5>1. s.config = c.number /\ c.number # configEdits + 1
          BY <1>4, <1>11, <1>14, <1>15, <2>1, <3>2, <4>3
        <5>2. s.at <= c.metric
          BY <1>7, <4>1, <4>3, <5>1
        <5>3. QED
          BY <1>4, <1>11, <1>14, <1>15, <3>2, <4>3, <5>2
      <4>4. QED
        BY <2>1, <4>1, <4>2, <4>3
    <3>3. QED
      BY <1>3, <2>1, <3>1, <3>2
  <2>2. QED
    BY <2>1 DEF SampledBefore
<1>19. ~overlapped' => Singly'
  BY <1>2 DEF Singly, Running
<1>20. SpacedUnlessOverlapped'
  <2> SUFFICES ASSUME ~overlapped', NEW s \in samples', NEW t \in samples',
                      s.good, t.good, ~t.by.hand, s.inst = t.inst, s.config = t.config, s.by.nth < t.by.nth
               PROVE  t.at - s.at >= Interval
    BY DEF SpacedUnlessOverlapped
  <2>1. t \notin took
    BY <1>5, <1>12
  <2>2. s \notin took
    BY <1>3, <1>4, <1>5, <1>12, <1>15, <2>1
  <2>3. QED
    BY <1>2, <1>3, <2>1, <2>2 DEF CollectSound, SpacedUnlessOverlapped
<1>21. QED
  BY <1>14, <1>17, <1>18, <1>19, <1>20 DEF CollectSound, SampledBefore, Singly

\* The commit of a beat: samples keep their distance because the times it
\* saw are those of the last samples, as long as nothing overlapped.
LEMMA CommitBeatKeeps ==
    ASSUME CollectSound, NEW b \in Beats, CommitBeat(b)
    PROVE  CollectSound'
<1> DEFINE r == beat[b]
           Next(i) == LET c == r.seen[i] n == r.marks[i]
                      IN  [config[i] EXCEPT !.metric = IF n.metric # c.metric THEN n.metric ELSE @,
                                            !.size = IF n.size # c.size THEN n.size ELSE @,
                                            !.good = IF n.good # c.good THEN n.good ELSE @]
<1>1. /\ b \in Running /\ r \in Round /\ Collects(r) /\ r.todo = {}
      /\ config' = [i \in Watched |-> IF i \in r.flushed THEN Next(i) ELSE config[i]]
      /\ samples' = (samples \ r.gone) \cup r.new
      /\ sizes' = (sizes \ r.gone) \cup r.measured
      /\ beat' = [beat EXCEPT ![b] = Asleep]
      /\ UNCHANGED <<alive, time, beats, configEdits, overlapped>>
  BY Goes DEF CommitBeat
<1>2. /\ config \in [Watched -> {Unset} \cup Config] /\ samples \subseteq Measure /\ sizes \subseteq Capacity
      /\ time \in Nat \ {0} /\ configEdits \in Nat /\ beats \in Nat /\ overlapped \in BOOLEAN
      /\ beat \in [Beats -> {Asleep} \cup Round]
  BY CollectTypes DEF CollectSound
<1>3. r.now \in Nat \ {0} /\ r.now <= time /\ r.nth \in Nat /\ r.nth <= beats /\ r.flushed \subseteq Watched
      /\ r.new \subseteq Measure /\ r.measured \subseteq Capacity /\ r.flushed \subseteq DOMAIN r.seen
      /\ DOMAIN r.marks = DOMAIN r.seen
  <2>1. /\ r.now \in Nat \ {0} /\ r.nth \in Nat /\ r.flushed \subseteq Watched
        /\ r.new \subseteq Measure /\ r.measured \subseteq Capacity
    <3>1. r \in Round
      BY <1>1
    <3> HIDE DEF r
    <3>2. /\ r.now \in 1..LastTime /\ r.nth \in 1..MaxBeats /\ r.flushed \in SUBSET Watched
          /\ r.new \in SUBSET Measure /\ r.measured \in SUBSET Capacity
      BY <3>1 DEF Round
    <3>3. QED
      BY <3>2
  <2>2. r.now <= time /\ r.nth <= beats /\ r.flushed \subseteq DOMAIN r.seen /\ DOMAIN r.marks = DOMAIN r.seen
    BY <1>1 DEF Collects
  <2>3. QED
    BY <2>1, <2>2
<1>4. \A i \in DOMAIN r.seen : /\ r.seen[i] \in Config /\ r.marks[i] \in Config /\ r.seen[i].metric <= r.now
                               /\ r.marks[i].metric \in {r.seen[i].metric, r.now}
                               /\ r.seen[i].number <= configEdits
  BY <1>1, <1>3, ViewType DEF Round, Collects
<1>5. ASSUME NEW i \in r.flushed
      PROVE  /\ config[i] \in Config /\ Next(i) \in Config /\ Next(i).number = config[i].number
             /\ Next(i).metric = IF r.marks[i].metric # r.seen[i].metric THEN r.marks[i].metric ELSE config[i].metric
             /\ config[i].number = r.seen[i].number
  <2>1. config[i].number = r.seen[i].number /\ r.seen[i] \in Config /\ r.marks[i] \in Config
    BY <1>1, <1>3, <1>4 DEF Collects
  <2>2. config[i] # Unset
    BY <2>1 DEF Unset, Config
  <2>3. config[i] \in Config
    BY <1>2, <1>3, <2>2
  <2> DEFINE x == IF r.marks[i].metric # r.seen[i].metric THEN r.marks[i].metric ELSE config[i].metric
             y == IF r.marks[i].size # r.seen[i].size THEN r.marks[i].size ELSE config[i].size
             z == IF r.marks[i].good # r.seen[i].good THEN r.marks[i].good ELSE config[i].good
  <2>4. x \in 0..LastTime /\ y \in 0..LastTime /\ z \in BOOLEAN
    BY <2>1, <2>3 DEF Config
  <2>5. Next(i) = [config[i] EXCEPT !.metric = x, !.size = y, !.good = z]
    OBVIOUS
  <2> HIDE DEF y, z, Next
  <2>6. Next(i) \in Config /\ Next(i).number = config[i].number /\ Next(i).metric = x
    <3> HIDE DEF x
    <3> QED BY <2>3, <2>4, <2>5 DEF Config
  <2>7. QED
    BY <2>1, <2>3, <2>6
<1> HIDE DEF Next
<1>6. \A i \in Watched : config'[i] = IF i \in r.flushed THEN Next(i) ELSE config[i]
  BY <1>1
<1>7. \A i \in Watched : config'[i].number = config[i].number /\ config'[i] \in {Unset} \cup Config
                         /\ (config'[i] # Unset <=> config[i] # Unset)
  BY <1>2, <1>5, <1>6 DEF Unset, Config
<1>8. beat' \in [Beats -> {Asleep} \cup Round] /\ \A d \in Running' : d \in Running \ {b} /\ beat'[d] = beat[d]
  BY <1>1, <1>2 DEF Running
<1>9. CollectTypeOK'
  <2>1. config' \in [Watched -> {Unset} \cup Config]
    BY <1>1, <1>7
  <2>2. samples' \subseteq Measure /\ sizes' \subseteq Capacity
    BY <1>1, <1>2, <1>3
  <2>3. (\A x, y \in Running : x # y => beat[x].flushed \cap beat[y].flushed = {})'
    <3>1. Asleep \in {Asleep} \cup Round
      OBVIOUS
    <3>2. QED
      BY <1>1, <3>1, Disjoint
  <2>4. alive' \subseteq Watched /\ time' \in 1..LastTime /\ beats' \in 0..MaxBeats /\ configEdits' \in 0..MaxConfigs
        /\ overlapped' \in BOOLEAN
    BY <1>1 DEF CollectSound, CollectTypeOK
  <2>5. QED
    BY <2>1, <2>2, <2>3, <2>4 DEF CollectTypeOK, Config, Measure, Capacity
<1>10. ASSUME NEW d \in Running', NEW q, q = beat'[d] PROVE Collects(q)'
  <2>1. q \in Round /\ Collects(q)
    BY <1>8, <1>10, Goes
  <2>2. \A j \in q.flushed : config'[j].number = config[j].number
    BY <1>7, <2>1 DEF Round
  <2>3. time <= time' /\ beats <= beats' /\ configEdits <= configEdits'
    BY <1>1, <1>2
  <2>4. QED
    BY <1>9, <2>1, <2>2, <2>3, CollectsKept DEF CollectSound
<1>11. (\A d \in Running : Collects(beat[d]))'
  BY <1>10 DEF Collects
<1>12. ASSUME NEW t \in r.new
       PROVE  /\ t.inst \in DOMAIN r.seen /\ t.config = r.seen[t.inst].number /\ t.at = r.now /\ t.by.nth = r.nth
              /\ t.good => MetricDue(r.seen[t.inst], r.now) /\ t.inst \in r.flushed /\ r.marks[t.inst].metric = r.now
  BY <1>1 DEF Collects
<1>13. \A s \in samples : /\ s.inst \in Watched /\ s.at \in Nat \ {0} /\ s.by.nth \in Nat /\ s.config \in Nat
                          /\ s.at <= time /\ s.by.nth <= beats /\ s.config \in 1..configEdits
  BY <1>2 DEF Measure, CollectSound, Dated
<1>14. Dated'
  <2>1. ASSUME NEW s \in samples' PROVE s.at <= time' /\ s.by.nth <= beats' /\ s.config \in 1..configEdits'
    <3>1. CASE s \in r.new
      <4>1. s.config \in Nat \ {0} /\ s.config <= configEdits
        BY <1>4, <1>12, <3>1 DEF Config
      <4>2. QED
        BY <1>1, <1>2, <1>3, <1>12, <3>1, <4>1
    <3>2. CASE s \in samples
      BY <1>1, <1>13, <3>2
    <3>3. QED
      BY <1>1, <2>1, <3>1, <3>2
  <2>2. ASSUME NEW j \in Watched, Configured(j)' PROVE config'[j].number <= configEdits' /\ config'[j].metric <= time'
    <3>1. config[j] # Unset /\ config[j].number <= configEdits /\ config[j].metric <= time
      BY <1>7, <2>2 DEF Configured, CollectSound, Dated
    <3>2. CASE j \in r.flushed
      BY <1>1, <1>2, <1>3, <1>4, <1>5, <1>6, <3>1, <3>2
    <3>3. CASE j \notin r.flushed
      BY <1>1, <1>6, <3>1, <3>3
    <3>4. QED
      BY <3>2, <3>3
  <2>3. QED
    BY <2>1, <2>2 DEF Dated
\* The time a good sample of the beat is later than what it saw.
<1>15. ASSUME NEW t \in r.new, t.good
       PROVE  /\ r.seen[t.inst].metric \in Nat
              /\ r.seen[t.inst].metric = 0 \/ r.now - r.seen[t.inst].metric >= Interval
              /\ r.seen[t.inst].metric # r.now
  <2>1. r.seen[t.inst].metric \in Nat /\ MetricDue(r.seen[t.inst], r.now)
    BY <1>4, <1>12, <1>15 DEF Config
  <2>2. QED
    BY <1>3, <2>1 DEF MetricDue, Elapsed, Never
<1>16. ASSUME ~overlapped'
       PROVE  /\ \A d \in Running : d = b
              /\ \A s \in samples : /\ s.by.nth < r.nth
                                    /\ s.good /\ s.inst \in DOMAIN r.seen /\ s.config = r.seen[s.inst].number =>
                                         s.at <= r.seen[s.inst].metric
  BY <1>1, <1>16 DEF CollectSound, Alone
<1>17. ASSUME ~overlapped' PROVE SampledBefore'
  <2>1. ASSUME NEW s \in samples', s.good, s.config = config'[s.inst].number
        PROVE  s.at <= config'[s.inst].metric
    <3>1. CASE s \in r.new
      BY <1>3, <1>5, <1>6, <1>12, <1>15, <2>1, <3>1
    <3>2. CASE s \in samples
      <4>1. s.inst \in Watched /\ s.config = config[s.inst].number
        BY <1>7, <1>13, <2>1, <3>2
      <4>2. s.at <= config[s.inst].metric
        BY <1>1, <1>17, <2>1, <3>2, <4>1 DEF CollectSound
      <4>3. CASE s.inst \in r.flushed
        <5>1. s.at <= r.seen[s.inst].metric
          BY <1>3, <1>5, <1>16, <1>17, <2>1, <3>2, <4>1, <4>3
        <5>2. r.seen[s.inst].metric \in Nat /\ r.seen[s.inst].metric <= r.now
              /\ r.marks[s.inst].metric \in {r.seen[s.inst].metric, r.now}
          BY <1>3, <1>4, <4>3 DEF Config
        <5>3. config'[s.inst].metric =
                IF r.marks[s.inst].metric # r.seen[s.inst].metric THEN r.now ELSE config[s.inst].metric
          BY <1>5, <1>6, <4>1, <4>3, <5>2
        <5>4. s.at \in Nat /\ r.now \in Nat
          BY <1>3, <1>13, <3>2
        <5>5. QED
          BY <4>2, <5>1, <5>2, <5>3, <5>4
      <4>4. CASE s.inst \notin r.flushed
        BY <1>6, <4>1, <4>2, <4>4
      <4>5. QED
        BY <4>3, <4>4
    <3>3. QED
      BY <1>1, <2>1, <3>1, <3>2
  <2>2. QED
    BY <2>1 DEF SampledBefore
<1>18. ASSUME ~overlapped' PROVE Singly'
  BY <1>8, <1>16, <1>18 DEF Singly
<1>19. SpacedUnlessOverlapped'
  <2> SUFFICES ASSUME ~overlapped', NEW s \in samples', NEW t \in samples',
                      s.good, t.good, ~t.by.hand, s.inst = t.inst, s.config = t.config, s.by.nth < t.by.nth
               PROVE  t.at - s.at >= Interval
    BY DEF SpacedUnlessOverlapped
  <2>1. CASE t \in r.new
    <3>1. s \in samples
      BY <1>1, <1>3, <1>12, <2>1
    <3>2. t.inst \in DOMAIN r.seen /\ t.config = r.seen[t.inst].number /\ t.at = r.now
      BY <1>12, <2>1
    <3>3. s.at <= r.seen[t.inst].metric
      BY <1>16, <3>1, <3>2
    <3>4. s.at \in Nat \ {0} /\ r.now \in Nat /\ Interval \in Nat
      BY <1>3, <1>13, <3>1
    <3>5. QED
      BY <1>15, <2>1, <3>2, <3>3, <3>4
  <2>2. CASE t \in samples
    <3>1. s \notin r.new
      <4>1. t.by.nth < r.nth /\ t.by.nth \in Nat
        BY <1>13, <1>16, <2>2
      <4>2. QED
        BY <1>3, <1>12, <4>1
    <3>2. s \in samples
      BY <1>1, <3>1
    <3>3. QED
      BY <1>1, <2>2, <3>2 DEF CollectSound, SpacedUnlessOverlapped
  <2>3. QED
    BY <1>1, <2>1, <2>2
<1>20. QED
  BY <1>8, <1>9, <1>11, <1>14, <1>17, <1>18, <1>19 DEF CollectSound, SampledBefore, Singly

\* At first nothing is configured and nothing collected.
LEMMA CollectSoundInit == CollectInit => CollectSound
<1> SUFFICES ASSUME CollectInit PROVE CollectSound
  OBVIOUS
<1>1. Running = {} /\ \A i \in Watched : ~Configured(i)
  BY DEF CollectInit, Running, Configured
<1>2. CollectTypeOK
  <2>1. config \in [Watched -> {Unset} \cup Config]
    BY DEF CollectInit
  <2>2. 1 \in 1..LastTime /\ 0 \in 0..MaxBeats /\ 0 \in 0..MaxConfigs
    OBVIOUS
  <2>3. QED
    BY <1>1, <2>1, <2>2, CollectTypes DEF CollectInit
<1>3. beat \in [Beats -> {Asleep} \cup Round]
  BY DEF CollectInit
<1>4. Dated /\ SpacedUnlessOverlapped
  BY <1>1 DEF CollectInit, Dated, SpacedUnlessOverlapped
<1>5. QED
  BY <1>1, <1>2, <1>3, <1>4 DEF CollectSound, CollectInit

\* Every step of monitor collection keeps the invariant.
LEMMA CollectStep == CollectSound /\ [CollectNext]_collectVars => CollectSound'
<1> SUFFICES ASSUME CollectSound, [CollectNext]_collectVars PROVE CollectSound'
  OBVIOUS
<1>1. ASSUME NEW b \in Beats, StartBeat(b) \/ PassBy(b) \/ LoseBeat(b) \/ CommitBeat(b) \/ CrashBeat(b)
      PROVE  CollectSound'
  BY <1>1, StartKeeps, PassKeeps, EndKeeps, CommitBeatKeeps
<1>2. ASSUME NEW b \in Beats, NEW answer \in Answers, CollectOne(b, answer) PROVE CollectSound'
  BY <1>2, CollectKeeps
<1>3. ASSUME NEW i \in Watched, NEW answer \in Answers, CollectByHand(i, answer) PROVE CollectSound'
  BY <1>3, HandKeeps
<1>4. ASSUME NEW i \in Watched, NEW on \in BOOLEAN, NEW keep \in Retentions, Configure(i, on, keep)
      PROVE  CollectSound'
  BY <1>4, ConfigureKeeps
<1>5. ASSUME NEW i \in Watched, DeleteConfig(i) PROVE CollectSound'
  BY <1>5, DeleteKeeps
<1>6. CASE Elapse \/ (\E i \in Watched : StopWatching(i)) \/ UNCHANGED collectVars
  <2>1. time \in 1..LastTime /\ alive \subseteq Watched
    BY DEF CollectSound, CollectTypeOK
  <2>2. /\ UNCHANGED <<config, samples, sizes, beat, beats, configEdits, overlapped>>
        /\ time' \in {time, time + 1} /\ time' <= LastTime /\ alive' \subseteq Watched
    BY <1>6, <2>1 DEF Elapse, StopWatching, collectVars
  <2>3. QED
    BY <2>2, ElapseKeeps
<1>7. QED
  BY <1>1, <1>2, <1>3, <1>4, <1>5, <1>6 DEF CollectNext

\* Rows, locks and what beats have read agree in every reachable state, for
\* any instances, workers, intervals and bounds (monitor.py 642-700).
THEOREM CollectCorrect == CollectSpec => []CollectSound
BY CollectSoundInit, CollectStep, PTL DEF CollectSpec

\* A beat that commits has sampled what was due when it began, and unless
\* collections overlapped two good samples of one configuration are at
\* least the interval apart (monitor.py 642-700).
THEOREM CollectedCorrect == CollectSpec => CollectedOnTime
<1> DEFINE Covered ==
        \A b \in Beats : CommitBeat(b) =>
          \A i \in DOMAIN beat[b].seen :
            Due(beat[b].seen[i], beat[b].now) =>
                \/ \E s \in samples' : s.inst = i /\ s.at = beat[b].now
                \/ \E s \in sizes' : s.inst = i /\ s.at = beat[b].now
<1>1. CollectSound /\ [CollectNext]_collectVars => [Covered]_collectVars
  <2> SUFFICES ASSUME CollectSound, NEW b \in Beats, CommitBeat(b),
                      NEW i \in DOMAIN beat[b].seen, Due(beat[b].seen[i], beat[b].now)
               PROVE  \/ \E s \in samples' : s.inst = i /\ s.at = beat[b].now
                      \/ \E s \in sizes' : s.inst = i /\ s.at = beat[b].now
    BY DEF Covered
  <2>1. Collects(beat[b]) /\ beat[b].todo = {} /\ beat[b].new \subseteq samples' /\ beat[b].measured \subseteq sizes'
    BY Goes DEF CommitBeat
  <2>2. CASE \E s \in beat[b].new : s.inst = i /\ s.at = beat[b].now
    BY <2>1, <2>2
  <2>3. CASE [inst |-> i, at |-> beat[b].now] \in beat[b].measured
    BY <2>1, <2>3
  <2>4. QED
    BY <2>1, <2>2, <2>3 DEF Collects
<1>2. CollectSound => CollectTypeOK /\ SpacedUnlessOverlapped
  BY DEF CollectSound
<1>3. QED
  BY <1>1, <1>2, CollectCorrect, PTL DEF CollectSpec, CollectedOnTime, DueIsSampled
----------------------------------------------------------------------------
\* g adds up f over the subsets of S, taking out one element after the other.
AnyOf(s) == CHOOSE x \in s : TRUE
Adds(g, f, S) ==
    g = [s \in SUBSET S |-> IF s = {} THEN 0 ELSE f[CHOOSE x \in s : TRUE] + g[s \ {CHOOSE x \in s : TRUE}]]

LEMMA SumIsAdded ==
    ASSUME NEW f, NEW S
    PROVE  Numbers!SumFunctionOnSet(f, S) = (CHOOSE g : Adds(g, f, S))[S]
BY DEF Numbers!SumFunctionOnSet, Numbers!FoldFunctionOnSet, Numbers!MapThenFoldSet, Adds

\* Numbers of which one has a property have a least with it.
LEMMA LeastOf ==
    ASSUME NEW N \in SUBSET Nat, N # {}
    PROVE  \E m \in N : \A n \in N : m <= n
<1>1. IsWellFoundedOn(OpToRel(<, Nat), Nat)
  BY NatLessThanWellFounded, Zenon
<1>2. PICK m \in N : \A n \in N : ~(<<n, m>> \in OpToRel(<, Nat))
  BY <1>1, WFMin, Zenon
<1>3. \A n \in N : ~(n < m)
  BY <1>2, Zenon DEF OpToRel
<1> QED BY <1>3

\* Finite sets have it: g is found size by size.
LEMMA AdderExists ==
    ASSUME NEW S, IsFiniteSet(S), NEW f \in [S -> Int]
    PROVE  \E g : Adds(g, f, S) /\ g \in [SUBSET S -> Int]
<1> DEFINE Up(n, g) == \A s \in SUBSET S : Cardinality(s) <= n =>
                          g[s] = IF s = {} THEN 0 ELSE f[AnyOf(s)] + g[s \ {AnyOf(s)}]
           Fails == {n \in Nat : ~\E g \in [SUBSET S -> Int] : Up(n, g)}
<1>0. \A s \in SUBSET S : /\ IsFiniteSet(s) /\ Cardinality(s) \in Nat /\ Cardinality(s) <= Cardinality(S)
                          /\ s # {} => /\ AnyOf(s) \in s /\ s \ {AnyOf(s)} \in SUBSET S
                                       /\ Cardinality(s \ {AnyOf(s)}) = Cardinality(s) - 1
                          /\ Cardinality(s) = 0 <=> s = {}
  BY FS_Subset, FS_CardinalityType, FS_RemoveElement, FS_EmptySet DEF AnyOf
<1>1. 0 \notin Fails
  <2> DEFINE g == [s \in SUBSET S |-> 0]
  <2>1. \A s \in SUBSET S : Cardinality(s) <= 0 => s = {}
    <3> SUFFICES ASSUME NEW s \in SUBSET S, Cardinality(s) <= 0 PROVE s = {}
      OBVIOUS
    <3>1. Cardinality(s) \in Nat /\ (Cardinality(s) = 0 <=> s = {})
      BY <1>0
    <3> QED BY <3>1
  <2>2. g \in [SUBSET S -> Int] /\ Up(0, g)
    BY <2>1
  <2> QED BY <2>2
<1>2. \A n \in Nat : n \notin Fails => n + 1 \notin Fails
  <2> SUFFICES ASSUME NEW n \in Nat, NEW g \in [SUBSET S -> Int], Up(n, g) PROVE n + 1 \notin Fails
    OBVIOUS
  <2> DEFINE h == [s \in SUBSET S |-> IF Cardinality(s) <= n THEN g[s] ELSE
                                     IF s = {} THEN 0 ELSE f[AnyOf(s)] + g[s \ {AnyOf(s)}]]
  <2>1. h \in [SUBSET S -> Int]
    BY <1>0
  <2>2. Up(n + 1, h)
    <3> SUFFICES ASSUME NEW s \in SUBSET S, Cardinality(s) <= n + 1
                 PROVE  h[s] = IF s = {} THEN 0 ELSE f[AnyOf(s)] + h[s \ {AnyOf(s)}]
      OBVIOUS
    <3>1. CASE s = {}
      BY <1>0, <3>1
    <3>2. CASE s # {}
      <4>1. Cardinality(s \ {AnyOf(s)}) <= n
        <5> DEFINE c == Cardinality(s)
        <5>1. c \in Nat /\ c <= n + 1 /\ Cardinality(s \ {AnyOf(s)}) = c - 1
          BY <1>0, <3>2
        <5> HIDE DEF c
        <5> QED BY <5>1
      <4>2. h[s \ {AnyOf(s)}] = g[s \ {AnyOf(s)}]
        BY <1>0, <3>2, <4>1
      <4>3. h[s] = f[AnyOf(s)] + g[s \ {AnyOf(s)}]
        BY <1>0, <3>2
      <4> QED BY <3>2, <4>2, <4>3
    <3> QED BY <3>1, <3>2
  <2> QED BY <2>1, <2>2
<1>3. Fails = {}
  <2> SUFFICES ASSUME Fails # {} PROVE FALSE
    OBVIOUS
  <2>1. PICK m \in Fails : \A n \in Fails : m <= n
    BY LeastOf
  <2>2. m \in Nat /\ m # 0
    BY <1>1
  <2>3. m - 1 \in Nat /\ m - 1 \notin Fails /\ (m - 1) + 1 = m
    <3> HIDE DEF Fails
    <3> QED BY <2>1, <2>2
  <2> HIDE DEF Fails
  <2> QED BY <1>2, <2>1, <2>3
<1>4. PICK g \in [SUBSET S -> Int] : Up(Cardinality(S), g)
  BY <1>0, <1>3
<1>5. \A s \in SUBSET S : g[s] = IF s = {} THEN 0 ELSE f[AnyOf(s)] + g[s \ {AnyOf(s)}]
  BY <1>0, <1>4
<1> QED BY <1>5 DEF Adds, AnyOf

\* What holds of no elements, and of some when it does of all but any one, holds of all.
LEMMA BuiltUp ==
    ASSUME NEW S, IsFiniteSet(S), NEW Good, {} \in Good,
           \A T \in SUBSET S : T # {} /\ (\A x \in T : T \ {x} \in Good) => T \in Good
    PROVE  \A T \in SUBSET S : T \in Good
<1> DEFINE Bad == {T \in SUBSET S : T \notin Good}
           Sizes == {Cardinality(T) : T \in Bad}
<1> SUFFICES ASSUME Bad # {} PROVE FALSE
  OBVIOUS
<1>0. \A T \in SUBSET S : IsFiniteSet(T) /\ Cardinality(T) \in Nat
  BY FS_Subset, FS_CardinalityType
<1>1. Sizes \in SUBSET Nat /\ Sizes # {}
  BY <1>0
<1>2. PICK m \in Sizes : \A n \in Sizes : m <= n
  BY <1>1, LeastOf
<1>3. PICK T \in Bad : m = Cardinality(T)
  OBVIOUS
<1>4. PICK x \in T : T \ {x} \notin Good
  OBVIOUS
<1>5. T \ {x} \in Bad
  <2>1. T \ {x} \in SUBSET S
    BY <1>3
  <2> QED BY <1>4, <2>1
<1>6. Cardinality(T \ {x}) = m - 1 /\ Cardinality(T \ {x}) \in Sizes
  <2>1. IsFiniteSet(T) /\ x \in T
    BY <1>0, <1>3
  <2>2. Cardinality(T \ {x}) = Cardinality(T) - 1
    <3> HIDE DEF Bad
    <3> QED BY <2>1, FS_RemoveElement
  <2> QED BY <1>3, <1>5, <2>2
<1>7. m <= m - 1 /\ m \in Nat
  <2> HIDE DEF Sizes, Bad
  <2> QED BY <1>1, <1>2, <1>6
<1> HIDE DEF Sizes
<1> QED BY <1>7

Sum(f) == Numbers!SumFunction(f)
\* The sum is what such a g makes of the whole.
SumsUp(g, f, S) ==
    /\ g \in [SUBSET S -> Int] /\ g[S] = Sum(f) /\ g[{}] = 0
    /\ \A T \in SUBSET S : T # {} => AnyOf(T) \in T /\ g[T] = f[AnyOf(T)] + g[T \ {AnyOf(T)}]
LEMMA SumUnfolds ==
    ASSUME NEW S, IsFiniteSet(S), NEW f \in [S -> Int]
    PROVE  \E g : SumsUp(g, f, S)
<1> DEFINE g == CHOOSE g : Adds(g, f, S)
<1>1. \E h : Adds(h, f, S)
  BY AdderExists
<1>2. Adds(g, f, S)
  BY <1>1
<1>3. g[S] = Sum(f)
  BY SumIsAdded DEF Sum, Numbers!SumFunction
<1> HIDE DEF g
<1>4. /\ g[{}] = 0 /\ DOMAIN g = SUBSET S /\ g = [s \in SUBSET S |-> g[s]]
      /\ \A T \in SUBSET S : T # {} => g[T] = f[AnyOf(T)] + g[T \ {AnyOf(T)}]
  BY <1>2 DEF Adds, AnyOf
<1>5. \A T \in SUBSET S : T # {} => AnyOf(T) \in T
  BY DEF AnyOf
<1>6. \A T \in SUBSET S : g[T] \in Int
  <2> DEFINE Good == {T \in SUBSET S : g[T] \in Int}
  <2>1. {} \in Good
    BY <1>4
  <2>2. ASSUME NEW T \in SUBSET S, T # {}, \A x \in T : T \ {x} \in Good PROVE T \in Good
    <3>1. AnyOf(T) \in T /\ f[AnyOf(T)] \in Int /\ g[T \ {AnyOf(T)}] \in Int
      BY <1>5, <2>2
    <3>2. g[T] = f[AnyOf(T)] + g[T \ {AnyOf(T)}]
      BY <1>4, <2>2
    <3> QED BY <3>1, <3>2
  <2>3. \A T \in SUBSET S : T \in Good
    <3> HIDE DEF Good
    <3> QED BY <2>1, <2>2, BuiltUp
  <2> QED BY <2>3
<1>7. g \in [SUBSET S -> Int]
  BY <1>4, <1>6
<1>8. SumsUp(g, f, S)
  BY <1>3, <1>4, <1>5, <1>7 DEF SumsUp
<1> QED BY <1>8

\* Classes: what the elements of S with a key in T are, counted key by key, adds up.
Of(S, key, T) == {x \in S : key[x] \in T}
LEMMA ClassesAddUp ==
    ASSUME NEW S, IsFiniteSet(S), NEW K, IsFiniteSet(K), NEW key \in [S -> K]
    PROVE  Sum([k \in K |-> Cardinality({x \in S : key[x] = k})]) = Cardinality(S)
<1> DEFINE f == [k \in K |-> Cardinality({x \in S : key[x] = k})]
<1>0. \A T : IsFiniteSet(Of(S, key, T)) /\ Cardinality(Of(S, key, T)) \in Nat
  BY FS_Subset, FS_CardinalityType DEF Of
<1>1. f \in [K -> Int]
  <2>1. \A k \in K : Cardinality({x \in S : key[x] = k}) \in Nat
    BY FS_Subset, FS_CardinalityType
  <2> QED BY <2>1
<1>2. PICK g : SumsUp(g, f, K)
  <2> HIDE DEF f
  <2> QED BY <1>1, SumUnfolds
<1> DEFINE Good == {T \in SUBSET K : g[T] = Cardinality(Of(S, key, T))}
<1>3. {} \in Good
  BY <1>2, FS_EmptySet DEF Of, SumsUp
<1>4. ASSUME NEW T \in SUBSET K, T # {}, \A k \in T : T \ {k} \in Good PROVE T \in Good
  <2>1. PICK k \in T : g[T] = f[k] + g[T \ {k}]
    BY <1>2, <1>4 DEF SumsUp
  <2> DEFINE A == {x \in S : key[x] = k}
             B == Of(S, key, T \ {k})
  <2>2. IsFiniteSet(A) /\ IsFiniteSet(B) /\ A \cap B = {} /\ Of(S, key, T) = A \cup B
    <3>1. IsFiniteSet(A) /\ IsFiniteSet(B)
      BY <1>0, FS_Subset
    <3>2. A \cap B = {} /\ Of(S, key, T) = A \cup B
      BY DEF Of
    <3> QED BY <3>1, <3>2
  <2>3. Cardinality(A \cup B) = Cardinality(A) + Cardinality(B)
    <3>1. Cardinality(A \cup B) = Cardinality(A) + Cardinality(B) - Cardinality({})
      <4> HIDE DEF A, B
      <4> QED BY <2>2, FS_Union
    <3>2. Cardinality(A) \in Nat /\ Cardinality(B) \in Nat
      BY <2>2, FS_CardinalityType
    <3>3. Cardinality({}) = 0
      BY FS_EmptySet
    <3> DEFINE a == Cardinality(A)
               b == Cardinality(B)
               all == Cardinality(A \cup B)
    <3>4. all = a + b - 0 /\ a \in Nat /\ b \in Nat
      BY <3>1, <3>2, <3>3
    <3> HIDE DEF a, b, all
    <3>5. all = a + b
      BY <3>4
    <3> QED BY <3>5 DEF a, b, all
  <2>4. f[k] = Cardinality(A) /\ g[T \ {k}] = Cardinality(B)
    BY <1>4
  <2> HIDE DEF A, B, f
  <2> QED BY <2>1, <2>2, <2>3, <2>4
<1>5. \A T \in SUBSET K : T \in Good
  <2> HIDE DEF Good
  <2> QED BY <1>3, <1>4, BuiltUp
<1>6. g[K] = Cardinality(Of(S, key, K)) /\ Of(S, key, K) = S
  BY <1>5 DEF Of
<1> QED BY <1>2, <1>6 DEF SumsUp

\* A sum of numbers up to m is at most as many times m.
LEMMA SumAtMost ==
    ASSUME NEW S, IsFiniteSet(S), NEW f \in [S -> Nat], NEW m \in Nat, \A x \in S : f[x] <= m
    PROVE  Sum(f) \in Nat /\ Sum(f) <= Cardinality(S) * m
<1>1. PICK g : SumsUp(g, f, S)
  BY SumUnfolds
<1> DEFINE Good == {T \in SUBSET S : g[T] \in Nat /\ g[T] <= Cardinality(T) * m}
<1>2. {} \in Good
  BY <1>1, FS_EmptySet DEF SumsUp
<1>3. ASSUME NEW T \in SUBSET S, T # {}, \A x \in T : T \ {x} \in Good PROVE T \in Good
  <2>1. PICK x \in T : g[T] = f[x] + g[T \ {x}]
    BY <1>1, <1>3 DEF SumsUp
  <2> DEFINE n == Cardinality(T \ {x})
             less == g[T \ {x}]
             v == f[x]
  <2>2. less \in Nat /\ less <= n * m
    BY <1>3
  <2>3. n \in Nat /\ Cardinality(T) = n + 1
    BY FS_Subset, FS_CardinalityType, FS_RemoveElement
  <2>4. v \in Nat /\ v <= m /\ g[T] = v + less
    BY <2>1
  <2> HIDE DEF n, less, v
  <2>5. n * m \in Nat /\ (n + 1) * m = n * m + m
    BY <2>3
  <2>6. v + less \in Nat /\ v + less <= n * m + m
    BY <2>2, <2>4, <2>5
  <2> QED BY <2>3, <2>4, <2>5, <2>6
<1>4. \A T \in SUBSET S : T \in Good
  <2> HIDE DEF Good
  <2> QED BY <1>2, <1>3, BuiltUp
<1>5. S \in Good
  BY <1>4
<1> QED BY <1>1, <1>5 DEF SumsUp

\* An average is at most the greatest.
LEMMA AverageAtMost ==
    ASSUME NEW total \in Nat, NEW n \in Nat, n # 0, NEW m \in Nat, total <= n * m
    PROVE  (total \div n) <= m
<1> DEFINE q == total \div n
<1>1. q \in Nat /\ n * q <= total
  OBVIOUS
<1>2. n * q <= n * m
  <2>1. n * q \in Int /\ n * m \in Int
    BY <1>1
  <2> HIDE DEF q
  <2> QED BY <1>1, <2>1
<1> HIDE DEF q
<1>3. q <= m
  <2> SUFFICES ASSUME q >= m + 1 PROVE FALSE
    BY <1>1
  <2>1. n * q = n * m + n * (q - m)
    BY <1>1
  <2>2. q - m >= 1 /\ q - m \in Nat
    BY <1>1
  <2>3. n * (q - m) >= n
    BY <2>2
  <2> QED BY <1>1, <1>2, <2>1, <2>3
<1> QED BY <1>3 DEF q

\* Finitely many numbers have a greatest.
LEMMA GreatestOf ==
    ASSUME NEW N \in SUBSET Nat, N # {}, IsFiniteSet(N)
    PROVE  Numbers!Max(N) \in N /\ \A n \in N : Numbers!Max(N) >= n
<1> DEFINE Good == {T \in SUBSET N : T # {} => \E m \in T : \A n \in T : m >= n}
<1>1. {} \in Good
  OBVIOUS
<1>2. ASSUME NEW T \in SUBSET N, T # {}, \A x \in T : T \ {x} \in Good PROVE T \in Good
  <2>1. PICK x \in T : TRUE
    BY <1>2
  <2>2. CASE T \ {x} = {}
    <3>1. x \in Nat /\ \A n \in T : n = x
      BY <2>1, <2>2
    <3>2. \A n \in T : x >= n
      BY <3>1
    <3> QED BY <2>1, <3>2
  <2>3. CASE T \ {x} # {}
    <3>1. PICK m \in T \ {x} : \A n \in T \ {x} : m >= n
      BY <1>2, <2>3
    <3>2. m \in Nat /\ x \in Nat /\ \A n \in T : n \in Nat
      BY <2>1, <3>1
    <3>3. CASE x >= m
      <4>1. \A n \in T : x >= n
        BY <3>1, <3>2, <3>3
      <4> QED BY <2>1, <4>1
    <3>4. CASE ~(x >= m)
      <4>1. \A n \in T : m >= n
        BY <3>1, <3>2, <3>4
      <4> QED BY <3>1, <4>1
    <3> QED BY <3>3, <3>4
  <2> QED BY <2>2, <2>3
<1>3. N \in Good
  <2> HIDE DEF Good
  <2> QED BY <1>1, <1>2, BuiltUp
<1>4. \E m \in N : \A n \in N : m >= n
  BY <1>3
<1> QED BY <1>4 DEF Numbers!Max

\* What a function makes of a finite set is finite.
LEMMA ImageIsFinite ==
    ASSUME NEW S, IsFiniteSet(S), NEW f, DOMAIN f = S
    PROVE  IsFiniteSet({f[x] : x \in S}) /\ Cardinality({f[x] : x \in S}) <= Cardinality(S)
<1> DEFINE T == {f[x] : x \in S}
           g == [x \in S |-> f[x]]
<1>1. g \in Surjection(S, T)
  BY DEF Surjection
<1> HIDE DEF g, T
<1>2. IsFiniteSet(T) /\ Cardinality(T) <= Cardinality(S)
  BY <1>1, FS_Surjection
<1> QED BY <1>2 DEF T

\* The entry at an index is one that more than so many are at most, and not more are below.
Least(shown, d) == {r \in shown : r.took <= d}
LEMMA RankedIsThere ==
    ASSUME NEW shown, IsFiniteSet(shown), \A r \in shown : r.took \in Nat, NEW index \in Nat,
           index < Cardinality(shown)
    PROVE  /\ AtIndex(shown, index) \in {r.took : r \in shown}
           /\ Cardinality(Least(shown, AtIndex(shown, index))) > index
<1> DEFINE D == {r.took : r \in shown}
           Enough == {d \in D : Cardinality(Least(shown, d)) > index}
<1>0. /\ \A T \in SUBSET shown : IsFiniteSet(T) /\ Cardinality(T) \in Nat
      /\ D \in SUBSET Nat
  BY FS_Subset, FS_CardinalityType
<1>1. shown # {} /\ D # {} /\ IsFiniteSet(D)
  <2>1. shown # {}
    BY FS_EmptySet
  <2>2. IsFiniteSet({[x \in shown |-> x.took][r] : r \in shown})
    <3> DEFINE f == [x \in shown |-> x.took]
    <3>1. DOMAIN f = shown
      OBVIOUS
    <3> HIDE DEF f
    <3> QED BY <3>1, ImageIsFinite DEF f
  <2>3. D = {[x \in shown |-> x.took][r] : r \in shown}
    OBVIOUS
  <2> QED BY <2>1, <2>2, <2>3
<1>2. Enough # {}
  <2>1. Numbers!Max(D) \in D /\ \A d \in D : Numbers!Max(D) >= d
    <3> HIDE DEF D
    <3> QED BY <1>0, <1>1, GreatestOf
  <2>2. PICK m \in D : \A d \in D : m >= d
    BY <2>1
  <2>3. Least(shown, m) = shown
    BY <2>2 DEF Least
  <2>4. m \in Enough
    <3>1. Cardinality(Least(shown, m)) > index
      <4> DEFINE n == Cardinality(shown)
      <4>1. n > index
        <5>1. index < n /\ n \in Nat
          BY <1>0
        <5> HIDE DEF n
        <5> QED BY <5>1
      <4> HIDE DEF D
      <4> QED BY <2>3, <4>1
    <3>2. m \in D
      BY <2>2, Zenon
    <3> HIDE DEF D
    <3> QED BY <3>1, <3>2, Zenon
  <2> HIDE DEF Enough
  <2> QED BY <2>4
<1>3. PICK d \in Enough : \A e \in Enough : d <= e
  BY <1>0, <1>2, LeastOf
<1> DEFINE Below == {r \in shown : r.took < d}
<1>4. Cardinality(Below) <= index
  <2>1. CASE Below = {}
    <3>1. Cardinality(Below) = 0
      <4> HIDE DEF Below
      <4> QED BY <2>1, FS_EmptySet
    <3> HIDE DEF Below
    <3> QED BY <3>1
  <2>2. CASE Below # {}
    <3> DEFINE E == {r.took : r \in Below}
    <3>1. E \in SUBSET D /\ E # {} /\ E \in SUBSET Nat
      BY <1>0, <2>2
    <3>2. IsFiniteSet(E)
      <4> HIDE DEF D, E
      <4> QED BY <1>1, <3>1, FS_Subset
    <3>3. PICK e \in E : \A x \in E : e >= x
      <4> HIDE DEF E
      <4> QED BY <3>1, <3>2, GreatestOf
    <3>4. e \in D /\ e \in Nat /\ d \in Nat /\ e < d
      BY <1>0, <3>1, <3>3
    <3>5. Least(shown, e) = Below
      BY <3>3, <3>4 DEF Least
    <3>6. e \notin Enough
      <4> HIDE DEF Enough
      <4> QED BY <1>3, <3>4
    <3>7. ~(Cardinality(Below) > index) /\ Cardinality(Below) \in Nat
      BY <1>0, <3>4, <3>5, <3>6
    <3> DEFINE n == Cardinality(Below)
    <3> HIDE DEF n, Below
    <3> QED BY <3>7 DEF n
  <2> QED BY <2>1, <2>2
<1>5. \E x \in D : /\ Cardinality({r \in shown : r.took <= x}) > index
                   /\ Cardinality({r \in shown : r.took < x}) <= index
  BY <1>3, <1>4 DEF Least
<1> QED BY <1>5 DEF AtIndex, Least

\* As many elements as each key has, added up.
LEMMA KeysAddUp ==
    ASSUME NEW S, IsFiniteSet(S), NEW key, DOMAIN key = S
    PROVE  Sum([k \in {key[x] : x \in S} |-> Cardinality({x \in S : key[x] = k})]) = Cardinality(S)
<1> DEFINE K == {key[x] : x \in S}
           h == [x \in S |-> key[x]]
<1>1. IsFiniteSet(K)
  BY ImageIsFinite
<1>2. h \in [S -> K] /\ \A k : {x \in S : key[x] = k} = {x \in S : h[x] = k}
  OBVIOUS
<1>3. [k \in K |-> Cardinality({x \in S : key[x] = k})] = [k \in K |-> Cardinality({x \in S : h[x] = k})]
  BY <1>2
<1>4. Sum([k \in K |-> Cardinality({x \in S : h[x] = k})]) = Cardinality(S)
  <2> HIDE DEF h, K
  <2> QED BY <1>1, <1>2, ClassesAddUp
<1> QED BY <1>3, <1>4

\* Rows grouped by a key: as many as there are.
LEMMA TotalsAddUp ==
    ASSUME NEW all, IsFiniteSet(all), NEW key, DOMAIN key = all,
           NEW stats, DOMAIN stats = {key[r] : r \in all},
           \A k \in DOMAIN stats : stats[k].total = Cardinality({r \in all : key[r] = k})
    PROVE  Totals(stats) = Cardinality(all)
<1> DEFINE f == [k \in {key[r] : r \in all} |-> Cardinality({r \in all : key[r] = k})]
<1>1. Sum(f) = Cardinality(all)
  BY KeysAddUp
<1>2. [k \in DOMAIN stats |-> stats[k].total] = f
  OBVIOUS
<1> QED BY <1>1, <1>2 DEF Totals, Sum

LEMMA P95Holds ==
    ASSUME NEW shown, IsFiniteSet(shown), \A r \in shown : r.took \in Nat, shown # {}
    PROVE  /\ P95(shown) \in {r.took : r \in shown}
           /\ Cardinality({r \in shown : r.took > P95(shown)}) * 20 <= Cardinality(shown)
<1> DEFINE n == Cardinality(shown)
           guess == (n * 95) \div 100
           index == IF guess < n - 1 THEN guess ELSE n - 1
           d == AtIndex(shown, index)
<1>1. n \in Nat /\ n # 0
  BY FS_CardinalityType, FS_EmptySet
<1>2. index \in Nat /\ index < n /\ 100 * (n - index - 1) <= 5 * n
  <2> HIDE DEF n
  <2>1. guess \in Nat /\ 100 * guess <= n * 95 /\ n * 95 <= 100 * guess + 99
    BY <1>1
  <2> HIDE DEF guess
  <2> QED BY <1>1, <2>1
<1>3. P95(shown) = d
  BY DEF P95
<1>4. d \in {r.took : r \in shown} /\ Cardinality(Least(shown, d)) > index
  <2> HIDE DEF index, d
  <2>1. index < Cardinality(shown)
    BY <1>2
  <2> QED BY <1>2, <2>1, RankedIsThere DEF d
<1> DEFINE Over == {r \in shown : r.took > d}
           m == Cardinality(Least(shown, d))
           o == Cardinality(Over)
<1>5. o = n - m /\ m \in Nat /\ o \in Nat
  <2> HIDE DEF d
  <2>1. Over = shown \ Least(shown, d) /\ shown \cap Least(shown, d) = Least(shown, d)
    BY <1>4 DEF Least
  <2>2. Cardinality(shown \ Least(shown, d)) = Cardinality(shown) - Cardinality(shown \cap Least(shown, d))
    BY FS_Difference
  <2>3. m \in Nat /\ o \in Nat
    BY FS_Subset, FS_CardinalityType DEF Least
  <2> QED BY <2>1, <2>2, <2>3
<1>6. o * 20 <= n
  <2> HIDE DEF n, m, o, index
  <2>1. m > index
    BY <1>4 DEF m
  <2> QED BY <1>1, <1>2, <1>5, <2>1
<1> QED BY <1>3, <1>4, <1>6

\* The pages add up, whatever rows they are of.
LEMMA StatsAddUp ==
    ASSUME NEW all, IsFiniteSet(all), \A r \in all : r.took \in Nat
    PROVE  AddsUp(all)
<1>1. Totals(InstanceStats(all)) = Cardinality(all)
  <2> DEFINE key == [r \in all |-> r.inst]
             stats == InstanceStats(all)
  <2>1. /\ DOMAIN key = all /\ DOMAIN stats = {key[r] : r \in all}
        /\ \A k \in DOMAIN stats : stats[k].total = Cardinality({r \in all : key[r] = k})
    BY DEF InstanceStats, Grouped, OfInstance, GroupStat
  <2> HIDE DEF key, stats
  <2> QED BY <2>1, TotalsAddUp DEF stats
<1>2. Totals(DatabaseStats(all)) = Cardinality(all)
  <2> DEFINE key == [r \in all |-> <<r.inst, r.db>>]
             stats == DatabaseStats(all)
  <2>1. /\ DOMAIN key = all /\ DOMAIN stats = {key[r] : r \in all}
        /\ \A k \in DOMAIN stats : stats[k].total = Cardinality({r \in all : key[r] = k})
    BY DEF DatabaseStats, Grouped, OfDatabase, GroupStat
  <2> HIDE DEF key, stats
  <2> QED BY <2>1, TotalsAddUp DEF stats
<1>3. Totals(PrintStats(all)) = Cardinality(all)
  <2> DEFINE key == [r \in all |-> r.print]
             stats == PrintStats(all)
  <2>1. /\ DOMAIN key = all /\ DOMAIN stats = {key[r] : r \in all}
        /\ \A k \in DOMAIN stats : stats[k].total = Cardinality({r \in all : key[r] = k})
    BY DEF PrintStats, Grouped, OfPrint, GroupStat
  <2> HIDE DEF key, stats
  <2> QED BY <2>1, TotalsAddUp DEF stats
<1>4. \A d \in DOMAIN DatabaseStats(all) :
         DatabaseStats(all)[d].total <= InstanceStats(all)[d[1]].total
  <2> SUFFICES ASSUME NEW d \in DOMAIN DatabaseStats(all)
               PROVE  DatabaseStats(all)[d].total <= InstanceStats(all)[d[1]].total
    OBVIOUS
  <2> DEFINE inner == {r \in all : <<r.inst, r.db>> = d}
             outer == {r \in all : r.inst = d[1]}
  <2>1. PICK x \in all : d = <<x.inst, x.db>>
    BY DEF DatabaseStats, Grouped, OfDatabase
  <2>2. DatabaseStats(all)[d].total = Cardinality(inner)
    BY <2>1 DEF DatabaseStats, Grouped, OfDatabase, GroupStat
  <2>3. InstanceStats(all)[d[1]].total = Cardinality(outer)
    BY <2>1 DEF InstanceStats, Grouped, OfInstance, GroupStat
  <2>4. inner \in SUBSET outer /\ IsFiniteSet(outer)
    BY <2>1, FS_Subset
  <2> HIDE DEF inner, outer
  <2> QED BY <2>2, <2>3, <2>4, FS_Subset
<1>5. ASSUME all # {}
      PROVE  /\ Average(all) <= Slowest(all) /\ P95(all) <= Slowest(all)
             /\ \A i \in DOMAIN InstanceStats(all) : InstanceStats(all)[i].slowest <= Slowest(all)
             /\ Cardinality({r \in all : r.took > P95(all)}) * 20 <= Cardinality(all)
  <2> DEFINE D == {r.took : r \in all}
             f == [r \in all |-> r.took]
             n == Cardinality(all)
             most == Slowest(all)
  <2>1. IsFiniteSet(D) /\ D \in SUBSET Nat /\ D # {}
    <3>1. D = {f[r] : r \in all} /\ DOMAIN f = all
      OBVIOUS
    <3>2. IsFiniteSet({f[r] : r \in all})
      <4> HIDE DEF f
      <4> QED BY <3>1, ImageIsFinite
    <3> QED BY <1>5, <3>1, <3>2
  <2>2. most \in D /\ \A d \in D : most >= d
    <3> HIDE DEF D
    <3>1. Numbers!Max(D) \in D /\ \A d \in D : Numbers!Max(D) >= d
      BY <2>1, GreatestOf
    <3> QED BY <3>1 DEF Slowest, D
  <2>3. n \in Nat /\ n # 0
    BY <1>5, FS_CardinalityType, FS_EmptySet
  <2>4. Average(all) <= most
    <3>1. f \in [all -> Nat] /\ most \in Nat /\ \A r \in all : f[r] <= most
      BY <2>1, <2>2
    <3>2. Sum(f) \in Nat /\ Sum(f) <= n * most
      <4> HIDE DEF f, most, n
      <4> QED BY <3>1, SumAtMost DEF n
    <3>3. Average(all) = Sum(f) \div n
      BY DEF Average, Sum
    <3> HIDE DEF f, most, n
    <3> QED BY <2>3, <3>1, <3>2, <3>3, AverageAtMost
  <2>5. P95(all) <= most
    BY <1>5, <2>1, <2>2, P95Holds
  <2>6. \A i \in DOMAIN InstanceStats(all) : InstanceStats(all)[i].slowest <= most
    <3> SUFFICES ASSUME NEW i \in DOMAIN InstanceStats(all) PROVE InstanceStats(all)[i].slowest <= most
      OBVIOUS
    <3> DEFINE E == {r.took : r \in {x \in all : x.inst = i}}
    <3>1. InstanceStats(all)[i].slowest = Numbers!Max(E)
      BY DEF InstanceStats, Grouped, OfInstance, GroupStat, Slowest
    <3>2. E \in SUBSET D /\ E # {}
      BY DEF InstanceStats, Grouped, OfInstance
    <3>3. Numbers!Max(E) \in E
      <4> HIDE DEF E, D
      <4>1. IsFiniteSet(E) /\ E \in SUBSET Nat
        BY <2>1, <3>2, FS_Subset
      <4> QED BY <3>2, <4>1, GreatestOf
    <3> QED BY <2>1, <2>2, <3>1, <3>2, <3>3
  <2> QED BY <1>5, <2>4, <2>5, <2>6, P95Holds
<1>6. \A s \in Overview(all).of :
        all # {} /\ s.average = Average(all) /\ s.slowest = Slowest(all) /\ s.p95 = P95(all)
  BY DEF Overview, GroupStat
<1> QED BY <1>1, <1>2, <1>3, <1>4, <1>5, <1>6 DEF AddsUp
----------------------------------------------------------------------------
\* Rows of what was run or listed, one per id unless the key holds the time.
SlowRows == {Row(e, at) : e \in Entries, at \in Nat}
OnePerId(S) == \A r, s \in S : r.id = s.id => r = s
Policies == {NoPolicy} \cup [on : BOOLEAN, keep : Nat]
Copying(k) ==
    \/ k = Idle
    \/ /\ k.at = "next" /\ DOMAIN k = {"at", "task", "new", "todo"} /\ k.todo \subseteq Sources
    \/ /\ k.at \in {"sync", "native"} /\ DOMAIN k = {"at", "task", "new", "todo"} /\ k.todo \subseteq Sources
       /\ k.new \subseteq SlowRows /\ IsFiniteSet(k.new) /\ OnePerId(k.new)
SlowInv ==
    /\ ran \in [Ids -> Nat] /\ hour \in Nat /\ policy \in [Sources -> Policies]
    /\ slow \subseteq SlowRows /\ IsFiniteSet(slow)
    /\ \A r, s \in slow : r.id = s.id /\ ~r.minute => r = s
    /\ DOMAIN copier = Copiers /\ \A c \in Copiers : Copying(copier[c])

LEMMA RowFields ==
    /\ \A e, at : /\ Row(e, at).id = e.id /\ Row(e, at).inst = e.inst /\ Row(e, at).took = e.took
                  /\ Row(e, at).minute = e.minute /\ Row(e, at).at = at
    /\ \A r \in SlowRows : r.inst \in Sources /\ r.took \in Nat /\ r.at \in Nat
    /\ \A r, s \in SlowRows : r.id = s.id => r.minute = s.minute
BY EntryAssumption DEF Row, SlowRows

\* Rows of different entries at one time each.
LEMMA RowsOfEntries ==
    ASSUME NEW E \in SUBSET Entries, NEW at, \A e \in E : at[e.id] \in Nat, NEW S,
           S \subseteq {Row(e, at[e.id]) : e \in E}
    PROVE  S \subseteq SlowRows /\ IsFiniteSet(S) /\ OnePerId(S)
<1> DEFINE f == [e \in E |-> Row(e, at[e.id])]
           T == {f[e] : e \in E}
<1>1. S \subseteq SlowRows
  BY DEF SlowRows
<1>2. IsFiniteSet(T)
  <2>1. IsFiniteSet(E) /\ DOMAIN f = E
    BY EntryAssumption, FS_Subset
  <2> HIDE DEF f
  <2> QED BY <2>1, ImageIsFinite
<1>3. S \in SUBSET T
  OBVIOUS
<1>4. IsFiniteSet(S)
  <2> HIDE DEF T
  <2> QED BY <1>2, <1>3, FS_Subset
<1>5. OnePerId(S)
  <2> SUFFICES ASSUME NEW r \in S, NEW s \in S, r.id = s.id PROVE r = s
    BY DEF OnePerId
  <2>1. PICK d \in E : r = Row(d, at[d.id])
    OBVIOUS
  <2>2. PICK e \in E : s = Row(e, at[e.id])
    OBVIOUS
  <2>3. d = e
    BY <2>1, <2>2, RowFields, EntryAssumption
  <2> QED BY <2>1, <2>2, <2>3
<1> QED BY <1>1, <1>4, <1>5

\* One copier takes a step.
LEMMA CopierSteps ==
    ASSUME SlowInv, NEW c \in Copiers, NEW k, Copying(k), copier' = [copier EXCEPT ![c] = k],
           ran' \in [Ids -> Nat], hour' \in Nat, policy' \in [Sources -> Policies],
           slow' \subseteq SlowRows, IsFiniteSet(slow'),
           \A r, s \in slow' : r.id = s.id /\ ~r.minute => r = s
    PROVE  SlowInv'
<1>1. DOMAIN copier' = Copiers /\ \A d \in Copiers : Copying(copier'[d])
  BY DEF SlowInv
<1>2. \A k2 : Copying(k2)' <=> Copying(k2)
  BY DEF Copying, SlowRows, OnePerId, Idle, Row
<1> QED BY <1>1, <1>2 DEF SlowInv

LEMMA BeginCopyKeeps ==
    ASSUME SlowInv, NEW c \in Copiers, NEW task, NEW back, BeginCopy(c, task, back)
    PROVE  SlowInv'
<1> DEFINE new == ToCopy(back)
           k == [at |-> "sync", task |-> task, new |-> new, todo |-> IF task = "page" THEN {} ELSE Sources]
<1>1. new \subseteq SlowRows /\ IsFiniteSet(new) /\ OnePerId(new)
  <2> DEFINE E == Latest(back)
  <2>1. E \in SUBSET Entries /\ \A e \in E : ran[e.id] \in Nat
    BY DEF Latest, Recent, Entries, Ids, SlowInv
  <2>2. new \subseteq {Row(e, ran[e.id]) : e \in E}
    BY DEF ToCopy
  <2> HIDE DEF E, new
  <2> QED BY <2>1, <2>2, RowsOfEntries
<1>2. Copying(k)
  <2> HIDE DEF new
  <2> QED BY <1>1 DEF Copying
<1>3. copier' = [copier EXCEPT ![c] = k] /\ UNCHANGED <<ran, slow, policy, hour>>
  BY DEF BeginCopy
<1> HIDE DEF k
<1> QED BY <1>2, <1>3, CopierSteps DEF SlowInv

LEMMA CommitCopyKeeps == ASSUME SlowInv, NEW c \in Copiers, CommitCopy(c) PROVE SlowInv'
<1> DEFINE new == copier[c].new
           k == [copier[c] EXCEPT !.at = "next", !.new = {}]
<1>1. /\ copier' = [copier EXCEPT ![c] = k] /\ UNCHANGED <<ran, policy, hour>>
      /\ slow' = slow \cup new /\ \A r \in new : ~Copied(r)
  BY DEF CommitCopy, Refused, SlowInv
<1>2. /\ DOMAIN copier[c] = {"at", "task", "new", "todo"} /\ copier[c].todo \subseteq Sources
      /\ new \subseteq SlowRows /\ IsFiniteSet(new) /\ OnePerId(new)
  BY DEF CommitCopy, SlowInv, Copying, Idle
<1>3. Copying(k)
  BY <1>2 DEF Copying
<1>4. slow' \subseteq SlowRows /\ IsFiniteSet(slow')
  BY <1>1, <1>2, FS_Union DEF SlowInv
<1>5. \A r, s \in slow' : r.id = s.id /\ ~r.minute => r = s
  <2> SUFFICES ASSUME NEW r \in slow \cup new, NEW s \in slow \cup new, r.id = s.id, ~r.minute
               PROVE  r = s
    BY <1>1
  <2>1. ~s.minute
    BY <1>2, RowFields DEF SlowInv
  <2>2. CASE r \in slow /\ s \in slow
    BY <2>2 DEF SlowInv
  <2>3. CASE r \in new /\ s \in new
    BY <1>2, <2>3 DEF OnePerId
  <2>4. CASE r \in new /\ s \in slow
    BY <1>1, <2>4 DEF Copied
  <2>5. CASE s \in new /\ r \in slow
    BY <1>1, <2>1, <2>5 DEF Copied
  <2> QED BY <2>2, <2>3, <2>4, <2>5
<1> HIDE DEF k, new
<1> QED BY <1>1, <1>3, <1>4, <1>5, CopierSteps DEF SlowInv

LEMMA CollectSlowKeeps ==
    ASSUME SlowInv, NEW c \in Copiers, NEW i \in Sources, NEW listed \in SUBSET Natives, Collect(c, i, listed)
    PROVE  SlowInv'
<1> DEFINE a == copier[c]
           new == {r \in {Row(e, hour) : e \in listed} : ~Copied(r)}
           k == [a EXCEPT !.todo = a.todo \ {i}, !.at = IF listed = {} THEN a.at ELSE "native", !.new = new]
<1>1. copier' = [copier EXCEPT ![c] = k] /\ UNCHANGED <<ran, slow, hour>>
  BY DEF Collect, SlowInv
<1>2. DOMAIN a = {"at", "task", "new", "todo"} /\ a.at = "next" /\ a.todo \subseteq Sources
  <2>1. a.at = "next"
    BY DEF Collect
  <2>2. Copying(a)
    BY DEF SlowInv
  <2> HIDE DEF a
  <2> QED BY <2>1, <2>2 DEF Copying, Idle
<1>3. new \subseteq SlowRows /\ IsFiniteSet(new) /\ OnePerId(new)
  <2> DEFINE at == [id \in {e.id : e \in listed} |-> hour]
  <2>1. listed \in SUBSET Entries /\ \A e \in listed : at[e.id] = hour /\ at[e.id] \in Nat
    BY DEF Entries, SlowInv
  <2>2. new \subseteq {Row(e, at[e.id]) : e \in listed}
    BY <2>1
  <2> HIDE DEF at, new
  <2> QED BY <2>1, <2>2, RowsOfEntries
<1>4. Copying(k)
  <2> HIDE DEF new
  <2> QED BY <1>2, <1>3 DEF Copying
<1>5. policy' \in [Sources -> Policies]
  <2>1. [on |-> TRUE, keep |-> DefaultKeep] \in Policies
    BY SlowAssumption DEF Policies
  <2> QED BY <2>1 DEF Collect, SlowInv
<1> HIDE DEF k
<1> QED BY <1>1, <1>4, <1>5, CopierSteps DEF SlowInv

LEMMA CleanUpSlowKeeps == ASSUME SlowInv, NEW c \in Copiers, CleanUp(c) PROVE SlowInv'
<1>1. slow' \in SUBSET slow /\ UNCHANGED <<ran, policy, hour>> /\ copier' = [copier EXCEPT ![c] = Idle]
  BY DEF CleanUp
<1>2. IsFiniteSet(slow') /\ slow' \subseteq SlowRows /\ Copying(Idle)
  BY <1>1, FS_Subset DEF SlowInv, Copying
<1> QED BY <1>1, <1>2, CopierSteps DEF SlowInv

LEMMA SlowStep == ASSUME SlowInv, [SlowNext]_slowVars PROVE SlowInv'
<1>1. ASSUME NEW id \in Ids, RunStatement(id) PROVE SlowInv'
  BY <1>1 DEF RunStatement, SlowInv, Copying, OnePerId, SlowRows, Row, Idle
<1>2. ASSUME NEW i \in Sources, NEW on \in BOOLEAN, NEW keep \in Keeps, SetPolicy(i, on, keep) PROVE SlowInv'
  <2>1. [on |-> on, keep |-> keep] \in Policies
    BY SlowAssumption DEF Policies
  <2>2. policy' \in [Sources -> Policies]
    BY <1>2, <2>1 DEF SetPolicy, SlowInv
  <2> QED BY <1>2, <2>2 DEF SetPolicy, SlowInv, Copying, OnePerId, SlowRows, Row, Idle
<1>3. ASSUME NEW c \in Copiers, NEW task, NEW back, BeginCopy(c, task, back) PROVE SlowInv'
  BY <1>3, BeginCopyKeeps
<1>4. ASSUME NEW c \in Copiers, CommitCopy(c) \/ CleanUp(c) PROVE SlowInv'
  BY <1>4, CommitCopyKeeps, CleanUpSlowKeeps
<1>5. ASSUME NEW c \in Copiers, RefuseCopy(c) \/ Answer(c) \/ CrashCopy(c) PROVE SlowInv'
  <2>1. copier' = [copier EXCEPT ![c] = Idle] /\ UNCHANGED <<ran, slow, policy, hour>> /\ Copying(Idle)
    BY <1>5 DEF RefuseCopy, Answer, CrashCopy, Copying
  <2> QED BY <2>1, CopierSteps DEF SlowInv
<1>6. ASSUME NEW c \in Copiers, NEW i \in Sources, NEW listed \in SUBSET Natives, Collect(c, i, listed)
      PROVE  SlowInv'
  BY <1>6, CollectSlowKeeps
<1>7. ASSUME PassHour \/ UNCHANGED slowVars PROVE SlowInv'
  BY <1>7 DEF PassHour, slowVars, SlowInv, Copying, OnePerId, SlowRows, Row, Idle
<1> QED BY <1>1, <1>2, <1>3, <1>4, <1>5, <1>6, <1>7 DEF SlowNext

LEMMA SlowStarts == ASSUME SlowInit PROVE SlowInv
<1>1. policy \in [Sources -> Policies]
  <2> DEFINE Given == {NoPolicy} \cup {[on |-> TRUE, keep |-> k] : k \in Keeps}
  <2>1. Given \subseteq Policies
    <3>1. \A k \in Keeps : k \in Nat
      BY SlowAssumption
    <3>2. \A k \in Keeps : [on |-> TRUE, keep |-> k] \in [on : BOOLEAN, keep : Nat]
      BY <3>1
    <3> QED BY <3>2 DEF Policies
  <2>2. policy \in [Sources -> Given]
    BY DEF SlowInit
  <2> HIDE DEF Given
  <2> QED BY <2>1, <2>2
<1> QED BY <1>1, FS_EmptySet DEF SlowInit, SlowInv, Copying

\* Rows that are there have their entry, once unless the key holds the time.
THEOREM SlowInvariant == SlowSpec => []SlowInv
<1> QED BY SlowStarts, SlowStep, PTL DEF SlowSpec

\* What the pages of the slow log tell agrees with itself for every scope: the
\* totals by instance, database and fingerprint are those of the rows shown, a
\* database has no more than its instance, neither the average nor the 95th
\* percentile passes the slowest, at most a twentieth lies above the percentile,
\* and a row whose key holds no time is there once (services/slowlog.py:369-433, 481-736).  A clean-up leaves no row
\* older than what the policy of its instance keeps (tasks/monitor.py:176-182).
THEOREM SlowLogCorrect == SlowSpec => SlowLogAgrees
<1>1. SlowInv => ShownAddsUp
  <2> SUFFICES ASSUME SlowInv, NEW scope \in SUBSET Sources PROVE AddsUp(ShownTo(scope))
    BY DEF ShownAddsUp, SlowInv
  <2>1. /\ IsFiniteSet(ShownTo(scope))
        /\ \A r \in ShownTo(scope) : r.took \in Nat
    BY RowFields, FS_Subset DEF ShownTo, SlowInv
  <2> QED BY <2>1, StatsAddUp
<1>2. SlowInv /\ [SlowNext]_slowVars =>
        [\A c \in Copiers : CleanUp(c) =>
            \A r \in slow' : LET p == policy[r.inst] IN p # NoPolicy /\ p.on => r.at >= hour - p.keep]_slowVars
  <2> SUFFICES ASSUME SlowInv, NEW c \in Copiers, CleanUp(c), NEW r \in slow',
                      policy[r.inst] # NoPolicy, policy[r.inst].on
               PROVE  r.at >= hour - policy[r.inst].keep
    OBVIOUS
  <2> DEFINE S == {j \in Sources : policy[j] # NoPolicy /\ policy[j].on}
             keeps == {policy[i].keep : i \in S}
             least == Shortest(keeps)
             mine == policy[r.inst].keep
  <2>1. r \in slow /\ r.at >= hour - Retained
    BY DEF CleanUp
  <2>2. r.inst \in Sources /\ r.at \in Nat /\ hour \in Nat
    BY <2>1, RowFields DEF SlowInv
  <2>3. keeps \in SUBSET Nat /\ mine \in keeps
    BY <2>2 DEF SlowInv, Policies
  <2>4. least \in keeps /\ \A n \in keeps : least <= n
    <3> HIDE DEF keeps, mine
    <3>1. \E m \in keeps : \A n \in keeps : m <= n
      BY <2>3, LeastOf
    <3> QED BY <3>1 DEF Shortest
  <2>5. Retained = least
    BY <2>3 DEF Retained
  <2>6. least <= mine /\ least \in Nat /\ mine \in Nat
    BY <2>3, <2>4
  <2> HIDE DEF least, mine
  <2>7. r.at >= hour - least
    BY <2>1, <2>5
  <2>8. r.at >= hour - mine
    BY <2>2, <2>6, <2>7
  <2> QED BY <2>8 DEF mine
<1> QED BY <1>1, <1>2, SlowInvariant, PTL DEF SlowLogAgrees, CleanedInTime, SlowSpec
----------------------------------------------------------------------------
\* The overviews: what they read.  A day is past when it is not after today; a
\* row and a record are of the past; a row that waited at the end of a day waits
\* still or has been written since; and of the tickets, what is decided is
\* decided once, as its log says.
Past(day) == day \in Nat /\ day <= date
RowsSound ==
    /\ kind \in {"sql", "query", "job"} /\ date \in 0..LastDate
    /\ rows \in [Rows -> RowRecords \cup {NoRow}]
    /\ \A r \in Filed : Past(rows[r].created) /\ Past(rows[r].updated) /\ Past(rows[r].finished)
LogsSound ==
    /\ IsFiniteSet(wlogs) /\ \A l \in wlogs : l.row \in Filed /\ Past(l.day)
    /\ IsFiniteSet(asks) /\ \A q \in asks : Past(q.day)
    /\ IsFiniteSet(withdrawn) /\ \A w \in withdrawn : Past(w.day)
WaitedSince ==
    /\ DOMAIN waiting = 0..LastDate
    /\ \A d \in 0..(date - 1) : \A r \in waiting[d] :
          r \in Filed /\ rows[r].created <= d /\ (rows[r].status = "pending" \/ rows[r].updated > d)
Final(l) == l.op \in {"reject", "cancel"} \/ (l.op = "pass" /\ l.final)
DecidedOnce ==
    kind = "sql" =>
      /\ \A r \in Filed : rows[r].ticket = "pending" <=> rows[r].status = "pending"
      /\ \A l \in wlogs :
            /\ Final(l) => rows[l.row].ticket # "pending"
            /\ l.op = "reject" => rows[l.row].ticket = "reject" /\ rows[l.row].status = "rejected"
            /\ l.op = "cancel" => rows[l.row].ticket = "cancel" /\ rows[l.row].status = "canceled"
      /\ \A k, l \in wlogs : k.row = l.row /\ k.op = l.op /\ Final(k) /\ Final(l) => k = l
DashInv == RowsSound /\ LogsSound /\ WaitedSince /\ DecidedOnce

LEMMA TodayIsPast == ASSUME RowsSound PROVE date \in Nat /\ date \in 0..LastDate /\ Past(date)
BY DashboardAssumption DEF Past, RowsSound

LEMMA FiledRows == ASSUME RowsSound, NEW r \in Filed PROVE r \in Rows /\ rows[r] \in RowRecords /\ rows[r] # NoRow
BY DEF RowsSound, Filed

\* A row takes a new record of today: the others are as they were.
LEMMA RowTakes ==
    ASSUME RowsSound, NEW r \in Rows, NEW f \in RowRecords, rows' = [rows EXCEPT ![r] = f],
           Past(f.created), Past(f.updated), Past(f.finished), UNCHANGED <<kind, date>>
    PROVE  /\ RowsSound' /\ Filed' = Filed \cup {r} /\ rows'[r] = f
           /\ \A s \in Rows \ {r} : rows'[s] = rows[s]
<1>1. /\ rows' \in [Rows -> RowRecords \cup {NoRow}] /\ rows'[r] = f
      /\ \A s \in Rows \ {r} : rows'[s] = rows[s]
  BY DEF RowsSound
<1>2. Filed' = Filed \cup {r}
  BY <1>1, NoRowAssumption DEF Filed
<1>3. \A s \in Filed' : Past(rows'[s].created) /\ Past(rows'[s].updated) /\ Past(rows'[s].finished)
  <2> SUFFICES ASSUME NEW s \in Filed' PROVE Past(rows'[s].created) /\ Past(rows'[s].updated) /\ Past(rows'[s].finished)
    OBVIOUS
  <2>1. CASE s = r
    BY <1>1, <2>1
  <2>2. CASE s # r
    BY <1>1, <1>2, <2>2 DEF RowsSound, Filed
  <2> QED BY <2>1, <2>2
<1> QED BY <1>1, <1>2, <1>3 DEF RowsSound, Past

\* A row that is stamped today.
Restamped(r, to, ticket) ==
    [rows[r] EXCEPT !.status = to, !.ticket = ticket, !.updated = date,
                    !.finished = IF to \in EndStates THEN date ELSE rows[r].finished]
States == {"pending", "passed", "rejected", "canceled", "queuing", "executing", "finish", "exception",
           "approved", "queued", "running", "paused", "success", "failed"}
LEMMA StampKeeps ==
    ASSUME DashInv, NEW r \in Filed, NEW to \in States, NEW ticket \in {"pending", "passed", "reject", "cancel"},
           StampRow(r, to, ticket), UNCHANGED <<kind, date, waiting>>
    PROVE  /\ RowsSound' /\ WaitedSince' /\ Filed' = Filed
           /\ rows'[r].status = to /\ rows'[r].ticket = ticket
           /\ \A s \in Filed \ {r} : rows'[s] = rows[s]
<1> DEFINE f == Restamped(r, to, ticket)
<1>1. r \in Rows /\ rows[r] \in RowRecords /\ Filed \subseteq Rows
  BY FiledRows DEF DashInv, Filed
<1>2. rows' = [rows EXCEPT ![r] = f]
  <2>1. rows[r] = [rows[r] EXCEPT !.finished = rows[r].finished]
    BY <1>1 DEF RowRecords
  <2> QED BY <1>1 DEF StampRow, Restamped, DashInv, RowsSound
<1>3. /\ f.status = to /\ f.ticket = ticket /\ f.by = rows[r].by /\ f.on = rows[r].on /\ f.type = rows[r].type
      /\ f.created = rows[r].created /\ f.updated = date /\ f.finished \in {date, rows[r].finished}
      /\ DOMAIN f = {"by", "on", "type", "status", "ticket", "created", "updated", "finished"}
      /\ f = [x \in DOMAIN f |-> f[x]]
  BY <1>1 DEF Restamped, RowRecords
<1> HIDE DEF f
<1>4. f \in RowRecords
  <2>1. f.finished \in 0..LastDate /\ f.updated \in 0..LastDate
    BY <1>1, <1>3, TodayIsPast DEF RowRecords, DashInv
  <2> QED BY <1>1, <1>3, <2>1 DEF RowRecords, States
<1>5. Past(f.created) /\ Past(f.updated) /\ Past(f.finished)
  BY <1>3, TodayIsPast DEF DashInv, RowsSound
<1>6. /\ RowsSound' /\ Filed' = Filed \cup {r} /\ rows'[r] = f
      /\ \A s \in Rows \ {r} : rows'[s] = rows[s]
  BY <1>1, <1>2, <1>4, <1>5, RowTakes DEF DashInv
<1>7. Filed' = Filed
  BY <1>6
<1>8. WaitedSince'
  <2> SUFFICES ASSUME NEW d \in 0..(date - 1), NEW s \in waiting[d]
               PROVE  s \in Filed' /\ rows'[s].created <= d /\ (rows'[s].status = "pending" \/ rows'[s].updated > d)
    BY DEF DashInv, WaitedSince
  <2>1. s \in Filed /\ rows[s].created <= d /\ (rows[s].status = "pending" \/ rows[s].updated > d)
    BY DEF DashInv, WaitedSince
  <2>2. CASE s = r
    <3>1. f.updated > d
      BY <1>3, TodayIsPast DEF DashInv
    <3> QED BY <1>3, <1>6, <1>7, <2>1, <2>2, <3>1
  <2>3. CASE s # r
    BY <1>1, <1>6, <1>7, <2>1, <2>3
  <2> QED BY <2>2, <2>3
<1> QED BY <1>1, <1>3, <1>6, <1>7, <1>8

\* The steps of the overviews' rows.
LEMMA DashStarts == ASSUME DashInit PROVE DashInv
<1>1. Filed = {}
  BY DEF DashInit, Filed
<1>2. RowsSound /\ WaitedSince /\ DecidedOnce
  BY <1>1, DashboardAssumption DEF DashInit, RowsSound, WaitedSince, DecidedOnce
<1>3. LogsSound
  BY FS_EmptySet DEF DashInit, LogsSound
<1> QED BY <1>2, <1>3 DEF DashInv

LEMMA OpenKeeps ==
    ASSUME DashInv, NEW r \in Rows, NEW by \in Owners, NEW on \in Machines, NEW type \in {"sql", "archive"},
           OpenRow(r, by, on, type)
    PROVE  DashInv'
<1> DEFINE f == [by |-> by, on |-> on, type |-> type, status |-> "pending",
                 ticket |-> "pending", created |-> date, updated |-> date, finished |-> date]
<1>1. /\ rows' = [rows EXCEPT ![r] = f] /\ rows[r] = NoRow
      /\ UNCHANGED <<kind, date, wlogs, asks, withdrawn, waiting>>
  BY DEF OpenRow
<1>2. f \in RowRecords /\ Past(f.created) /\ Past(f.updated) /\ Past(f.finished)
  BY TodayIsPast DEF DashInv, RowRecords
<1>3. f.status = "pending" /\ f.ticket = "pending"
  OBVIOUS
<1>0. r \notin Filed
  BY <1>1 DEF Filed
<1> HIDE DEF f
<1>4. RowsSound' /\ Filed' = Filed \cup {r} /\ rows'[r] = f /\ \A s \in Rows \ {r} : rows'[s] = rows[s]
  BY <1>1, <1>2, RowTakes DEF DashInv
<1>5. \A s \in Filed : rows'[s] = rows[s]
  BY <1>0, <1>4 DEF Filed
<1>6. WaitedSince'
  BY <1>1, <1>4, <1>5 DEF DashInv, WaitedSince
<1>7. LogsSound'
  BY <1>1, <1>4 DEF DashInv, LogsSound, Past
<1>8. DecidedOnce'
  BY <1>1, <1>3, <1>4, <1>5 DEF DashInv, LogsSound, DecidedOnce, Final
<1> QED BY <1>4, <1>6, <1>7, <1>8 DEF DashInv

\* A row of the log is written today.
LEMMA LogTakes ==
    ASSUME DashInv, NEW n, n.row \in Filed, n.day = date, NEW N \in SUBSET {n}, wlogs' = wlogs \cup N,
           Filed' = Filed, UNCHANGED <<date, asks, withdrawn>>
    PROVE  LogsSound'
<1>1. IsFiniteSet(N) /\ IsFiniteSet(wlogs)
  BY FS_Singleton, FS_Subset DEF DashInv, LogsSound
<1>2. IsFiniteSet(wlogs')
  BY <1>1, FS_Union
<1>3. Past(date)
  BY TodayIsPast DEF DashInv
<1> QED BY <1>2, <1>3 DEF DashInv, LogsSound, Past

LEMMA SignKeeps == ASSUME DashInv, NEW r \in Rows, NEW who, SignNode(r, who) PROVE DashInv'
<1> DEFINE n == LogRow(r, "pass", FALSE, who)
<1>1. /\ wlogs' = wlogs \cup {n} /\ r \in Filed
      /\ UNCHANGED <<kind, date, rows, asks, withdrawn, up, switched, waiting>>
  BY DEF SignNode, Have
<1>2. n.row = r /\ n.op = "pass" /\ n.final = FALSE /\ n.day = date
  BY DEF LogRow
<1> HIDE DEF n
<1>3. Filed' = Filed /\ RowsSound' /\ WaitedSince'
  BY <1>1 DEF DashInv, RowsSound, WaitedSince, Filed, Past
<1>4. LogsSound'
  BY <1>1, <1>2, <1>3, LogTakes
<1>5. DecidedOnce'
  BY <1>1, <1>2, <1>3 DEF DashInv, DecidedOnce, Final
<1> QED BY <1>3, <1>4, <1>5 DEF DashInv

LEMMA DecideKeeps ==
    ASSUME DashInv, NEW r \in Rows, NEW op \in {"pass", "reject", "cancel"}, NEW who, NEW ownRemark \in BOOLEAN,
           Decide(r, op, who, ownRemark)
    PROVE  DashInv'
<1> DEFINE n == LogRow(r, op, op = "pass" /\ ~ownRemark, who)
           to == Verdict(r, op)
           ticket == IF op = "pass" THEN "passed" ELSE op
           N == {l \in {n} : kind # "query"}
<1>1. /\ r \in Filed /\ StampRow(r, to, ticket) /\ wlogs' = wlogs \cup N /\ N \in SUBSET {n}
      /\ UNCHANGED <<kind, date, asks, withdrawn, up, switched, waiting>>
  BY DEF Decide
<1>2. n.row = r /\ n.op = op /\ n.day = date
  BY DEF LogRow
<1>3. to \in States /\ ticket \in {"pending", "passed", "reject", "cancel"} /\ ticket # "pending"
  BY <1>1, FiledRows DEF Verdict, States, DashInv, RowRecords
<1>4. kind = "sql" =>
        /\ op = "pass" => to = "passed"
        /\ op = "reject" => to = "rejected"
        /\ op = "cancel" => to = "canceled"
  BY DEF Verdict
<1>5. /\ op = "reject" => ticket = "reject"
      /\ op = "cancel" => ticket = "cancel"
  OBVIOUS
<1>6. \/ rows[r].ticket = "pending"
      \/ op = "reject" /\ rows[r].ticket = "passed" /\ rows[r].status \in {"passed", "approved"}
  BY DEF Decide, MayDecide
<1> HIDE DEF n, to, ticket, N
<1>7. /\ RowsSound' /\ WaitedSince' /\ Filed' = Filed
      /\ rows'[r].status = to /\ rows'[r].ticket = ticket
      /\ \A s \in Filed \ {r} : rows'[s] = rows[s]
  BY <1>1, <1>3, StampKeeps
<1>8. LogsSound'
  BY <1>1, <1>2, <1>7, LogTakes
<1>9. DecidedOnce'
  <2> SUFFICES ASSUME kind = "sql" PROVE DecidedOnce'
    BY <1>1 DEF DecidedOnce
  <2>1. \A s \in Filed' : rows'[s].ticket = "pending" <=> rows'[s].status = "pending"
    BY <1>3, <1>4, <1>7 DEF DashInv, DecidedOnce
  <2>2. ASSUME NEW l \in wlogs'
        PROVE  /\ Final(l) => rows'[l.row].ticket # "pending"
               /\ l.op = "reject" => rows'[l.row].ticket = "reject" /\ rows'[l.row].status = "rejected"
               /\ l.op = "cancel" => rows'[l.row].ticket = "cancel" /\ rows'[l.row].status = "canceled"
    <3>1. CASE l = n
      BY <1>2, <1>3, <1>4, <1>5, <1>7, <3>1
    <3>2. CASE l \in wlogs /\ l.row # r
      BY <1>7, <3>2 DEF DashInv, DecidedOnce, LogsSound
    <3>3. CASE l \in wlogs /\ l.row = r
      <4>1. l.op # "reject" /\ l.op # "cancel"
        BY <1>6, <3>3 DEF DashInv, DecidedOnce
      <4> QED BY <1>3, <1>7, <3>3, <4>1
    <3> QED BY <1>1, <3>1, <3>2, <3>3
  <2>3. ASSUME NEW l \in wlogs, l.row = r, l.op = op, Final(l) PROVE FALSE
    BY <1>6, <2>3 DEF DashInv, DecidedOnce
  <2>4. ASSUME NEW k \in wlogs', NEW l \in wlogs', k.row = l.row, k.op = l.op, Final(k), Final(l)
        PROVE  k = l
    BY <1>1, <1>2, <2>3, <2>4 DEF DashInv, DecidedOnce
  <2> QED BY <1>1, <2>1, <2>2, <2>4 DEF DecidedOnce, Final
<1> QED BY <1>7, <1>8, <1>9 DEF DashInv

LEMMA MoveKeeps == ASSUME DashInv, NEW r \in Rows, NEW to, MoveRow(r, to) PROVE DashInv'
<1> DEFINE ticket == rows[r].ticket
<1>1. /\ r \in Filed /\ StampRow(r, to, ticket) /\ <<rows[r].status, to>> \in Moves[kind]
      /\ UNCHANGED <<kind, date, wlogs, asks, withdrawn, up, switched, waiting>>
  BY DEF MoveRow
<1>2. /\ to \in States /\ to # "pending" /\ rows[r].status # "pending"
      /\ kind = "sql" => rows[r].status \notin {"rejected", "canceled"}
  <2>1. kind \in {"sql", "query", "job"}
    BY DEF DashInv, RowsSound
  <2> QED BY <1>1, <2>1 DEF Moves, States
<1>3. ticket \in {"pending", "passed", "reject", "cancel"}
  BY <1>1, FiledRows DEF DashInv, RowRecords
<1> HIDE DEF ticket
<1>4. /\ RowsSound' /\ WaitedSince' /\ Filed' = Filed
      /\ rows'[r].status = to /\ rows'[r].ticket = ticket
      /\ \A s \in Filed \ {r} : rows'[s] = rows[s]
  BY <1>1, <1>2, <1>3, StampKeeps
<1>5. LogsSound'
  BY <1>1, <1>4 DEF DashInv, LogsSound, Past
<1>6. DecidedOnce'
  BY <1>1, <1>2, <1>4 DEF DashInv, DecidedOnce, LogsSound, Final, ticket
<1> QED BY <1>4, <1>5, <1>6 DEF DashInv

\* A record of today joins a finite set of records of the past.
LEMMA JoinsToday ==
    ASSUME RowsSound, NEW S, IsFiniteSet(S), \A x \in S : Past(x.day), NEW n, n.day = date
    PROVE  IsFiniteSet(S \cup {n}) /\ \A x \in S \cup {n} : Past(x.day)
BY TodayIsPast, FS_AddElement

LEMMA WithdrawKeeps == ASSUME DashInv, NEW r \in Rows, Withdraw(r) PROVE DashInv'
<1> DEFINE n == [row |-> r, day |-> date]
<1>1. withdrawn' = withdrawn \cup {n} /\ n.day = date /\ UNCHANGED <<kind, date, rows, wlogs, asks, waiting>>
  BY DEF Withdraw
<1> HIDE DEF n
<1>2. IsFiniteSet(withdrawn') /\ \A w \in withdrawn' : Past(w.day)
  BY <1>1, JoinsToday DEF DashInv, LogsSound
<1> QED BY <1>1, <1>2 DEF DashInv, RowsSound, LogsSound, WaitedSince, DecidedOnce, Filed, Past, Final

LEMMA AskKeeps ==
    ASSUME DashInv, NEW by, NEW on, NEW privCheck, AskQuery(by, on, privCheck) PROVE DashInv'
<1> DEFINE n == [n |-> Cardinality(asks), by |-> by, on |-> on, ok |-> privCheck, day |-> date]
<1>1. asks' = asks \cup {n} /\ n.day = date /\ UNCHANGED <<kind, date, rows, wlogs, withdrawn, waiting>>
  BY DEF AskQuery
<1> HIDE DEF n
<1>2. IsFiniteSet(asks') /\ \A q \in asks' : Past(q.day)
  BY <1>1, JoinsToday DEF DashInv, LogsSound
<1> QED BY <1>1, <1>2 DEF DashInv, RowsSound, LogsSound, WaitedSince, DecidedOnce, Filed, Past, Final

LEMMA NextDateKeeps == ASSUME DashInv, NextDate PROVE DashInv'
<1>1. /\ date \in Nat /\ date < LastDate /\ LastDate \in Nat /\ date' = date + 1
      /\ waiting' = [waiting EXCEPT ![date] = Have({"pending"})]
      /\ UNCHANGED <<kind, rows, wlogs, asks, withdrawn, up, switched>>
  BY TodayIsPast, DashboardAssumption DEF NextDate, DashInv
<1>2. \A day : Past(day) => Past(day)'
  BY <1>1 DEF Past
<1>3. Filed' = Filed
  BY <1>1 DEF Filed
<1>4. RowsSound'
  BY <1>1, <1>2, <1>3 DEF DashInv, RowsSound
<1>5. LogsSound'
  BY <1>1, <1>2, <1>3 DEF DashInv, LogsSound
<1>6. WaitedSince'
  <2> SUFFICES ASSUME NEW d \in 0..date, NEW r \in waiting'[d]
               PROVE  r \in Filed /\ rows[r].created <= d /\ (rows[r].status = "pending" \/ rows[r].updated > d)
    BY <1>1, <1>3 DEF DashInv, WaitedSince
  <2>1. CASE d = date
    <3>1. r \in Filed /\ rows[r].status = "pending"
      BY <1>1, <2>1 DEF DashInv, WaitedSince, Have
    <3>2. rows[r].created <= date
      BY <3>1 DEF DashInv, RowsSound, Past
    <3> QED BY <2>1, <3>1, <3>2
  <2>2. CASE d # date
    <3>1. d \in 0..(date - 1) /\ r \in waiting[d]
      BY <1>1, <2>2 DEF DashInv, WaitedSince
    <3> QED BY <3>1 DEF DashInv, WaitedSince
  <2> QED BY <2>1, <2>2
<1>7. DecidedOnce'
  BY <1>1, <1>3 DEF DashInv, DecidedOnce, Final
<1> QED BY <1>4, <1>5, <1>6, <1>7 DEF DashInv

LEMMA DashStep == ASSUME DashInv, [DashNext]_dash_vars PROVE DashInv'
<1>1. ASSUME \/ \E h \in Machines : SwitchMachine(h)
             \/ UNCHANGED dash_vars
      PROVE DashInv'
  <2>1. UNCHANGED <<kind, date, rows, wlogs, asks, withdrawn, waiting>>
    BY <1>1 DEF SwitchMachine, dash_vars
  <2> QED BY <2>1 DEF DashInv, RowsSound, LogsSound, WaitedSince, DecidedOnce, Filed, Past, Final
<1> QED
  BY <1>1, OpenKeeps, SignKeeps, DecideKeeps, MoveKeeps, WithdrawKeeps, AskKeeps, NextDateKeeps DEF DashNext
----------------------------------------------------------------------------
\* Sums over the days of a period and over whom or what something is of.
LEMMA TotalIsSum == \A f : Total(f) = Sum(f)
BY SumIsAdded DEF Total, Sum, Sums!SumFunction, Numbers!SumFunction, Sums!SumFunctionOnSet,
   Sums!FoldFunctionOnSet, Sums!MapThenFoldSet, Adds

\* A sum of sums is the sum of both.
LEMMA SumOfTwo ==
    ASSUME NEW K, IsFiniteSet(K), NEW f \in [K -> Int], NEW h \in [K -> Int]
    PROVE  Sum([k \in K |-> f[k] + h[k]]) = Sum(f) + Sum(h)
<1> DEFINE b == [k \in K |-> f[k] + h[k]]
<1>1. b \in [K -> Int] /\ \A k \in K : b[k] = f[k] + h[k]
  OBVIOUS
<1>2. PICK p : SumsUp(p, f, K)
  BY SumUnfolds
<1>3. PICK q : SumsUp(q, h, K)
  BY SumUnfolds
<1>4. PICK g : SumsUp(g, b, K)
  <2> HIDE DEF b
  <2> QED BY <1>1, SumUnfolds
<1> HIDE DEF b
<1> DEFINE Good == {T \in SUBSET K : g[T] = p[T] + q[T]}
<1>5. {} \in Good
  BY <1>2, <1>3, <1>4 DEF SumsUp
<1>6. ASSUME NEW T \in SUBSET K, T # {}, \A k \in T : T \ {k} \in Good PROVE T \in Good
  <2> DEFINE k == AnyOf(T)
             R == T \ {k}
  <2>1. k \in K /\ R \in SUBSET K /\ R \in Good
    BY <1>2, <1>6 DEF SumsUp
  <2>2. g[T] = b[k] + g[R] /\ p[T] = f[k] + p[R] /\ q[T] = h[k] + q[R]
    BY <1>2, <1>3, <1>4, <1>6 DEF SumsUp
  <2>3. g[R] = p[R] + q[R] /\ b[k] = f[k] + h[k]
    BY <1>1, <2>1
  <2>4. f[k] \in Int /\ h[k] \in Int /\ p[R] \in Int /\ q[R] \in Int
    BY <1>2, <1>3, <2>1 DEF SumsUp
  <2> HIDE DEF k, R
  <2>5. g[T] = p[T] + q[T]
    BY <2>2, <2>3, <2>4
  <2> QED BY <2>5
<1>7. \A T \in SUBSET K : T \in Good
  <2> HIDE DEF Good
  <2> QED BY <1>5, <1>6, BuiltUp
<1>8. g[K] = p[K] + q[K]
  BY <1>7
<1> QED BY <1>2, <1>3, <1>4, <1>8 DEF SumsUp, b

LEMMA PeriodDays ==
    ASSUME RowsSound
    PROVE  /\ PeriodStart \in Int /\ date \in Nat /\ date \in TrendDays /\ IsFiniteSet(TrendDays)
           /\ \A d \in Int : d \in TrendDays <=> PeriodStart <= d /\ d <= date
           /\ TrendDays \in SUBSET Int
<1>1. date \in Nat /\ Days \in Nat \ {0}
  BY TodayIsPast, DashboardAssumption
<1>2. PeriodStart \in Int /\ date = PeriodStart + (Days - 1)
  BY <1>1 DEF PeriodStart
<1>3. TrendDays = PeriodStart..date
  <2>1. ASSUME NEW d \in PeriodStart..date PROVE d \in TrendDays
    <3>1. d - PeriodStart \in 0..(Days - 1) /\ d = PeriodStart + (d - PeriodStart)
      BY <1>1, <1>2
    <3> QED BY <3>1 DEF TrendDays
  <2>2. ASSUME NEW n \in 0..(Days - 1) PROVE PeriodStart + n \in PeriodStart..date
    BY <1>1, <1>2
  <2> QED BY <2>1, <2>2 DEF TrendDays
<1>4. IsFiniteSet(PeriodStart..date)
  BY <1>1, <1>2, FS_Interval
<1> QED BY <1>1, <1>2, <1>3, <1>4

\* What happened since the start of the period, day by day.
Since(S, day) == {x \in S : day[x] >= PeriodStart}
Daily(S, day) == [d \in TrendDays |-> Cardinality({x \in S : day[x] = d})]
LEMMA DaysAddUp ==
    ASSUME RowsSound, NEW S, IsFiniteSet(S), NEW day, \A x \in S : Past(day[x])
    PROVE  /\ Sum(Daily(S, day)) = Cardinality(Since(S, day))
           /\ Daily(S, day) \in [TrendDays -> Nat]
<1> DEFINE A == Since(S, day)
           key == [x \in A |-> day[x]]
<1>1. key \in [A -> TrendDays]
  <2>1. \A x \in A : day[x] \in Int /\ PeriodStart <= day[x] /\ day[x] <= date
    BY PeriodDays DEF Past, Since
  <2> QED BY <2>1, PeriodDays
<1>2. IsFiniteSet(A)
  BY FS_Subset DEF Since
<1>3. ASSUME NEW d \in TrendDays PROVE {x \in S : day[x] = d} = {x \in A : key[x] = d}
  <2>1. d >= PeriodStart
    BY PeriodDays
  <2> QED BY <2>1 DEF Since
<1>4. Daily(S, day) = [d \in TrendDays |-> Cardinality({x \in A : key[x] = d})]
  BY <1>3 DEF Daily
<1>5. Sum([d \in TrendDays |-> Cardinality({x \in A : key[x] = d})]) = Cardinality(A)
  <2> HIDE DEF A, key
  <2> QED BY <1>1, <1>2, PeriodDays, ClassesAddUp
<1>6. Daily(S, day) \in [TrendDays -> Nat]
  <2>1. \A d \in TrendDays : Cardinality({x \in S : day[x] = d}) \in Nat
    BY FS_Subset, FS_CardinalityType
  <2> QED BY <2>1 DEF Daily
<1> QED BY <1>4, <1>5, <1>6

\* Elements that a function tells apart are as many as their images.
LEMMA ImageIsAsMany ==
    ASSUME NEW S, IsFiniteSet(S), NEW f, \A x, y \in S : f[x] = f[y] => x = y
    PROVE  IsFiniteSet({f[x] : x \in S}) /\ Cardinality({f[x] : x \in S}) = Cardinality(S)
<1> DEFINE T == {f[x] : x \in S}
           g == [x \in S |-> f[x]]
<1>1. g \in Surjection(S, T)
  BY DEF Surjection
<1>2. g \in Injection(S, T)
  BY DEF Injection, IsInjective
<1> HIDE DEF g, T
<1>3. IsFiniteSet(T) /\ Cardinality(T) = Cardinality(S)
  BY <1>1, <1>2, FS_Surjection
<1> QED BY <1>3 DEF T

\* Parts that share nothing are as many as both.
LEMMA PartsAddUp ==
    ASSUME NEW A, NEW B, IsFiniteSet(A), IsFiniteSet(B), A \cap B = {}
    PROVE  /\ Cardinality(A \cup B) = Cardinality(A) + Cardinality(B) /\ IsFiniteSet(A \cup B)
           /\ Cardinality(A) \in Nat /\ Cardinality(B) \in Nat
<1> DEFINE a == Cardinality(A)
           b == Cardinality(B)
           c == Cardinality(A \cup B)
<1>1. IsFiniteSet(A \cup B) /\ c = a + b - 0 /\ a \in Nat /\ b \in Nat
  BY FS_Union, FS_CardinalityType, FS_EmptySet
<1> HIDE DEF a, b, c
<1>2. c = a + b
  BY <1>1
<1> QED BY <1>1, <1>2 DEF a, b, c

\* What the cards and trends of rows, and of records with a day, show.
LEMMA FiledAreFinite == ASSUME RowsSound, NEW S \in SUBSET Filed PROVE IsFiniteSet(S) /\ Cardinality(S) \in Nat
BY FS_Subset, FS_CardinalityType, DashboardAssumption DEF Filed

LEMMA RowsByDay ==
    ASSUME DashInv, NEW S \in SUBSET Filed
    PROVE  /\ Card(S, CreatedOn) = Total(DailyTrend(S, CreatedOn))
           /\ Card(S, UpdatedOn) = Total(DailyTrend(S, UpdatedOn))
           /\ Card(S, FinishedOn) = Total(DailyTrend(S, FinishedOn))
           /\ DailyTrend(S, UpdatedOn) \in [TrendDays -> Nat]
<1> DEFINE c == [x \in Filed |-> rows[x].created]
           m == [x \in Filed |-> rows[x].updated]
           f == [x \in Filed |-> rows[x].finished]
<1>1. IsFiniteSet(S) /\ RowsSound
  BY FiledAreFinite DEF DashInv
<1>2. \A x \in S : Past(c[x]) /\ Past(m[x]) /\ Past(f[x])
  BY DEF DashInv, RowsSound
<1>3. /\ Card(S, CreatedOn) = Cardinality(Since(S, c)) /\ DailyTrend(S, CreatedOn) = Daily(S, c)
      /\ Card(S, UpdatedOn) = Cardinality(Since(S, m)) /\ DailyTrend(S, UpdatedOn) = Daily(S, m)
      /\ Card(S, FinishedOn) = Cardinality(Since(S, f)) /\ DailyTrend(S, FinishedOn) = Daily(S, f)
  <2>1. \A x \in S : c[x] = CreatedOn(x) /\ m[x] = UpdatedOn(x) /\ f[x] = FinishedOn(x)
    BY DEF CreatedOn, UpdatedOn, FinishedOn
  <2> HIDE DEF c, m, f
  <2> QED BY <2>1 DEF Card, DailyTrend, Since, Daily
<1> HIDE DEF c, m, f
<1> QED BY <1>1, <1>2, <1>3, DaysAddUp, TotalIsSum

LEMMA RecordsByDay ==
    ASSUME RowsSound, NEW S, IsFiniteSet(S), \A x \in S : Past(x.day)
    PROVE  LET trend == [d \in TrendDays |-> Cardinality({x \in S : x.day = d})]
           IN  /\ Cardinality({x \in S : x.day >= PeriodStart}) = Sum(trend)
               /\ trend \in [TrendDays -> Nat]
<1> DEFINE day == [x \in S |-> x.day]
<1>1. \A x \in S : Past(day[x])
  OBVIOUS
<1>2. {x \in S : x.day >= PeriodStart} = Since(S, day)
  BY DEF Since
<1>3. [d \in TrendDays |-> Cardinality({x \in S : x.day = d})] = Daily(S, day)
  BY DEF Daily
<1> HIDE DEF day
<1>4. Sum(Daily(S, day)) = Cardinality(Since(S, day)) /\ Daily(S, day) \in [TrendDays -> Nat]
  BY <1>1, DaysAddUp
<1> QED BY <1>2, <1>3, <1>4

\* The tickets that a kind of entry in the log marks, day by day, when an entry
\* of that kind is the only one of its ticket.
LEMMA MarksByDay ==
    ASSUME DashInv, kind = "sql", NEW u, NEW op, NEW final \in BOOLEAN,
           \A l \in wlogs : l.op = op /\ (final => l.final) => Final(l)
    PROVE  LET marks == {l \in TicketLogs(u, op, final) : l.day >= PeriodStart}
           IN  /\ Cardinality(Marked(u, op, final)) = Cardinality(marks)
               /\ Cardinality(Marked(u, op, final))
                    = Total([d \in TrendDays |->
                               Cardinality({l.row : l \in {k \in TicketLogs(u, op, final) : k.day = d}})])
<1> DEFINE L == TicketLogs(u, op, final)
           marks == {l \in L : l.day >= PeriodStart}
           of == [l \in wlogs |-> l.row]
           trend == [d \in TrendDays |-> Cardinality({l \in L : l.day = d})]
<1>1. L \in SUBSET wlogs /\ IsFiniteSet(L) /\ \A l \in L : Past(l.day)
  BY FS_Subset DEF TicketLogs, DashInv, LogsSound
<1>2. \A k, l \in L : of[k] = of[l] => k = l
  BY DEF TicketLogs, DashInv, DecidedOnce
<1>3. ASSUME NEW M \in SUBSET L PROVE Cardinality({l.row : l \in M}) = Cardinality(M)
  <2>1. {l.row : l \in M} = {of[l] : l \in M}
    BY <1>1
  <2>2. IsFiniteSet(M) /\ \A k, l \in M : of[k] = of[l] => k = l
    BY <1>1, <1>2, FS_Subset
  <2>3. Cardinality({of[l] : l \in M}) = Cardinality(M)
    <3> HIDE DEF of
    <3> QED BY <2>2, ImageIsAsMany
  <2> QED BY <2>1, <2>3
<1>4. Marked(u, op, final) = {l.row : l \in marks}
  BY DEF Marked
<1>5. [d \in TrendDays |-> Cardinality({l.row : l \in {k \in L : k.day = d}})] = trend
  <2>1. \A d \in TrendDays : Cardinality({l.row : l \in {k \in L : k.day = d}}) = Cardinality({l \in L : l.day = d})
    <3> TAKE d \in TrendDays
    <3>1. {k \in L : k.day = d} \in SUBSET L
      OBVIOUS
    <3> HIDE DEF L
    <3> QED BY <1>3, <3>1
  <2> QED BY <2>1
<1>6. Cardinality(marks) = Sum(trend)
  <2> HIDE DEF L
  <2> QED BY <1>1, RecordsByDay DEF DashInv
<1>7. Cardinality({l.row : l \in marks}) = Cardinality(marks)
  <2>1. marks \in SUBSET L
    OBVIOUS
  <2> HIDE DEF marks, L
  <2> QED BY <1>3, <2>1
<1> QED BY <1>4, <1>5, <1>6, <1>7, TotalIsSum

LEMMA RowTops ==
    ASSUME RowsSound, NEW S \in SUBSET Filed
    PROVE  /\ Total(TopTen(S, LAMBDA r : rows[r].by)) = Cardinality(S)
           /\ Total(TopTen(S, LAMBDA r : rows[r].on)) = Cardinality(S)
           /\ Total(TopTen(S, LAMBDA r : rows[r].status)) = Cardinality(S)
<1> DEFINE b == [x \in S |-> rows[x].by]
           o == [x \in S |-> rows[x].on]
           s == [x \in S |-> rows[x].status]
<1>1. /\ TopTen(S, LAMBDA r : rows[r].by) = [k \in {b[x] : x \in S} |-> Cardinality({x \in S : b[x] = k})]
      /\ TopTen(S, LAMBDA r : rows[r].on) = [k \in {o[x] : x \in S} |-> Cardinality({x \in S : o[x] = k})]
      /\ TopTen(S, LAMBDA r : rows[r].status) = [k \in {s[x] : x \in S} |-> Cardinality({x \in S : s[x] = k})]
  BY DEF TopTen
<1>2. IsFiniteSet(S) /\ DOMAIN b = S /\ DOMAIN o = S /\ DOMAIN s = S
  BY FiledAreFinite
<1> HIDE DEF b, o, s
<1> QED BY <1>1, <1>2, KeysAddUp, TotalIsSum

LEMMA RecordTops ==
    ASSUME NEW S, IsFiniteSet(S)
    PROVE  /\ Total(TopTen(S, LAMBDA l : l.who)) = Cardinality(S)
           /\ Total(TopTen(S, LAMBDA q : q.by)) = Cardinality(S)
<1> DEFINE w == [x \in S |-> x.who]
           b == [x \in S |-> x.by]
<1>1. /\ TopTen(S, LAMBDA l : l.who) = [k \in {w[x] : x \in S} |-> Cardinality({x \in S : w[x] = k})]
      /\ TopTen(S, LAMBDA q : q.by) = [k \in {b[x] : x \in S} |-> Cardinality({x \in S : b[x] = k})]
  BY DEF TopTen
<1>2. DOMAIN w = S /\ DOMAIN b = S
  OBVIOUS
<1> HIDE DEF w, b
<1> QED BY <1>1, <1>2, KeysAddUp, TotalIsSum

LEMMA JobsAddUp == ASSUME DashInv, kind = "job", NEW u PROVE ArchiveAddsUp(u)
<1> DEFINE J == Jobs(u)
           c == ArchiveCards(u)
           t == ArchiveTrends(u)
           In(S) == {r \in J : rows[r].status \in S}
<1>0. /\ RowsSound /\ J \in SUBSET Filed /\ \A S : In(S) \in SUBSET Filed /\ J \cap Have(S) = In(S)
      /\ \A r \in Filed : Past(rows[r].created)
  BY DEF DashInv, RowsSound, Jobs, Have
<1>1. /\ c.submit = Card(J, CreatedOn) /\ c.success = Card(In({"success"}), FinishedOn)
      /\ c.failed = Card(In({"failed"}), FinishedOn) /\ c.canceled = Card(In({"canceled"}), FinishedOn)
      /\ c.pending = Cardinality(In({"pending"})) /\ c.approved = Cardinality(In({"approved"}))
      /\ c.running = Cardinality(In({"queued", "running"})) /\ c.paused = Cardinality(In({"paused"}))
  <2> HIDE DEF J, In
  <2> QED BY <1>0 DEF ArchiveCards, J
<1>2. /\ t.submit = DailyTrend(J, CreatedOn) /\ t.success = DailyTrend(In({"success"}), FinishedOn)
      /\ t.failed = DailyTrend(In({"failed"}), FinishedOn) /\ t.canceled = DailyTrend(In({"canceled"}), FinishedOn)
      /\ t.active = [d \in TrendDays |-> Cardinality(ActiveJobs(u, d))]
  <2> HIDE DEF J, In
  <2> QED BY <1>0 DEF ArchiveTrends, Stock, J
<1>3. c.submit = Total(t.submit) /\ c.success = Total(t.success) /\ c.failed = Total(t.failed) /\ c.canceled = Total(t.canceled)
  <2> HIDE DEF c, t, J, In
  <2> QED BY <1>0, <1>1, <1>2, RowsByDay
<1>4. t.active[date] = c.pending + c.approved + c.running + c.paused
  <2>1. t.active[date] = Cardinality(ActiveJobs(u, date))
    BY <1>0, <1>2, PeriodDays
  <2>2. ActiveJobs(u, date) = In({"pending"}) \cup (In({"approved"}) \cup (In({"queued", "running"}) \cup In({"paused"})))
    BY <1>0 DEF ActiveJobs, ActiveStates, Past
  <2> DEFINE p == In({"pending"})
             a == In({"approved"})
             q == In({"queued", "running"})
             z == In({"paused"})
  <2>3. /\ IsFiniteSet(p) /\ IsFiniteSet(a) /\ IsFiniteSet(q) /\ IsFiniteSet(z)
    BY <1>0, FiledAreFinite
  <2>4. q \cap z = {} /\ a \cap (q \cup z) = {} /\ p \cap (a \cup (q \cup z)) = {}
    OBVIOUS
  <2>5. /\ t.active[date] = Cardinality(p \cup (a \cup (q \cup z)))
        /\ c.pending = Cardinality(p) /\ c.approved = Cardinality(a) /\ c.running = Cardinality(q) /\ c.paused = Cardinality(z)
    BY <1>1, <2>1, <2>2
  <2> HIDE DEF p, a, q, z, c, t
  <2>6. /\ Cardinality(q \cup z) = Cardinality(q) + Cardinality(z)
        /\ Cardinality(a \cup (q \cup z)) = Cardinality(a) + Cardinality(q \cup z)
        /\ Cardinality(p \cup (a \cup (q \cup z))) = Cardinality(p) + Cardinality(a \cup (q \cup z))
        /\ Cardinality(q) \in Nat /\ Cardinality(z) \in Nat /\ Cardinality(a) \in Nat /\ Cardinality(p) \in Nat
    <3>1. /\ Cardinality(q \cup z) = Cardinality(q) + Cardinality(z) /\ IsFiniteSet(q \cup z)
          /\ Cardinality(q) \in Nat /\ Cardinality(z) \in Nat
      BY <2>3, <2>4, PartsAddUp
    <3>2. /\ Cardinality(a \cup (q \cup z)) = Cardinality(a) + Cardinality(q \cup z)
          /\ IsFiniteSet(a \cup (q \cup z)) /\ Cardinality(a) \in Nat
      BY <2>3, <2>4, <3>1, PartsAddUp
    <3>3. /\ Cardinality(p \cup (a \cup (q \cup z))) = Cardinality(p) + Cardinality(a \cup (q \cup z))
          /\ Cardinality(p) \in Nat
      BY <2>3, <2>4, <3>2, PartsAddUp
    <3> QED BY <3>1, <3>2, <3>3
  <2> QED BY <2>5, <2>6
<1>5. c.submit = Total(ArchiveTops(u).submitters)
  <2> DEFINE N == {r \in Jobs(u) : rows[r].created >= PeriodStart}
  <2>1. N \in SUBSET Filed /\ c.submit = Cardinality(N)
    BY <1>0, <1>1 DEF Card, CreatedOn
  <2>2. ArchiveTops(u).submitters = TopTen(N, LAMBDA r : rows[r].by)
    BY DEF ArchiveTops
  <2> HIDE DEF N, c
  <2> QED BY <1>0, <2>1, <2>2, RowTops
<1>6. ArchiveOverview(u).cards = c /\ ArchiveOverview(u).trends = t /\ ArchiveOverview(u).tops = ArchiveTops(u)
  BY DEF ArchiveOverview
<1> HIDE DEF c, t, J, In
<1> QED BY <1>3, <1>4, <1>5, <1>6 DEF ArchiveAddsUp, SumsOf

LEMMA QueriesAddUp == ASSUME DashInv, kind = "query", NEW u PROVE QueryAddsUp(u)
<1> DEFINE P == ApplicationsOf(u)
           A == AsksOf(u)
           N == {q \in A : q.day >= PeriodStart}
           V == Revoked(u)
           bad == {q \in A : ~q.ok}
           passed == P \cap Have({"passed"})
           denied == P \cap Have({"rejected"})
           refused == [d \in TrendDays |-> Cardinality({x \in bad : x.day = d})]
           rejected == DailyTrend(denied, UpdatedOn)
           c == QueryCards(u)
           t == QueryTrends(u)
<1>0. /\ RowsSound /\ P \in SUBSET Filed /\ passed \in SUBSET Filed /\ denied \in SUBSET Filed
      /\ IsFiniteSet(A) /\ IsFiniteSet(V) /\ IsFiniteSet(bad) /\ IsFiniteSet(N)
      /\ \A q \in A : Past(q.day)
      /\ \A w \in V : Past(w.day)
  <2>1. /\ P \in SUBSET Filed /\ A \in SUBSET asks /\ V \in SUBSET withdrawn
        /\ bad \in SUBSET asks /\ N \in SUBSET asks
    BY DEF ApplicationsOf, AsksOf, Revoked
  <2>2. IsFiniteSet(A) /\ IsFiniteSet(V) /\ IsFiniteSet(bad) /\ IsFiniteSet(N)
    BY <2>1, FS_Subset DEF DashInv, LogsSound
  <2> QED BY <2>1, <2>2 DEF DashInv, LogsSound
<1>1. /\ c.queries = Cardinality(N) /\ c.users = Cardinality({q.by : q \in N})
      /\ c.failures = Cardinality({q \in bad : q.day >= PeriodStart}) + Card(denied, UpdatedOn)
      /\ c.pending = Cardinality(P \cap Have({"pending"}))
      /\ c.approved = Card(passed, UpdatedOn) /\ c.rejected = Card(denied, UpdatedOn)
      /\ c.revoked = Cardinality({w \in V : w.day >= PeriodStart})
  <2>1. {q \in N : ~q.ok} = {q \in bad : q.day >= PeriodStart}
    OBVIOUS
  <2>2. c.failures = Cardinality({q \in N : ~q.ok}) + Card(denied, UpdatedOn)
    BY DEF QueryCards
  <2> QED BY <2>1, <2>2 DEF QueryCards, Card
<1>2. /\ t.queries = [d \in TrendDays |-> Cardinality({x \in A : x.day = d})]
      /\ t.users = [d \in TrendDays |-> Cardinality({q.by : q \in {x \in A : x.day = d}})]
      /\ t.failures = [d \in TrendDays |-> refused[d] + rejected[d]]
      /\ t.approved = DailyTrend(passed, UpdatedOn) /\ t.rejected = rejected
      /\ t.revoked = [d \in TrendDays |-> Cardinality({w \in V : w.day = d})]
      /\ t.pending = [d \in TrendDays |-> Cardinality(PendingApplications(u, d))]
  BY DEF QueryTrends, DailyTrend, Stock, AskedOn
<1>3. QueryOverview(u).cards = c /\ QueryOverview(u).trends = t /\ QueryOverview(u).tops = TopTen(N, LAMBDA q : q.by)
  BY DEF QueryOverview, QueryTop
<1> HIDE DEF c, t
<1>4. c.queries = Total(t.queries) /\ c.queries = Total(QueryOverview(u).tops)
  <2> HIDE DEF A
  <2>1. Cardinality(N) = Sum([d \in TrendDays |-> Cardinality({x \in A : x.day = d})])
    BY <1>0, RecordsByDay
  <2>2. Total(TopTen(N, LAMBDA q : q.by)) = Cardinality(N)
    <3> HIDE DEF N
    <3> QED BY <1>0, RecordTops
  <2> QED BY <1>1, <1>2, <1>3, <2>1, <2>2, TotalIsSum
<1>5. c.revoked = Total(t.revoked)
  <2> HIDE DEF V
  <2> QED BY <1>0, <1>1, <1>2, RecordsByDay, TotalIsSum
<1>6. c.approved = Total(t.approved) /\ c.rejected = Total(t.rejected)
  <2> HIDE DEF passed, denied
  <2> QED BY <1>0, <1>1, <1>2, RowsByDay DEF rejected
<1>7. c.failures = Total(t.failures)
  <2> DEFINE b == Cardinality({q \in bad : q.day >= PeriodStart})
             n == Card(denied, UpdatedOn)
  <2>1. b = Sum(refused) /\ refused \in [TrendDays -> Nat]
    <3> HIDE DEF bad
    <3>1. \A q \in bad : Past(q.day)
      BY <1>0 DEF bad
    <3> QED BY <1>0, <3>1, RecordsByDay
  <2>2. n = Sum(rejected) /\ rejected \in [TrendDays -> Nat]
    <3> HIDE DEF denied
    <3> QED BY <1>0, RowsByDay, TotalIsSum DEF rejected
  <2>3. refused \in [TrendDays -> Int] /\ rejected \in [TrendDays -> Int] /\ IsFiniteSet(TrendDays)
    <3> HIDE DEF refused, rejected
    <3> QED BY <1>0, <2>1, <2>2, PeriodDays
  <2>4. Sum([d \in TrendDays |-> refused[d] + rejected[d]]) = Sum(refused) + Sum(rejected)
    <3> HIDE DEF refused, rejected
    <3> QED BY <2>3, SumOfTwo
  <2>5. c.failures = b + n
    BY <1>1
  <2> HIDE DEF b, n, refused, rejected
  <2> QED BY <1>2, <2>1, <2>2, <2>4, <2>5, TotalIsSum
<1>8. c.users <= Total(t.users)
  <2> DEFINE pair == [q \in N |-> <<q.by, q.day>>]
             pairs == {pair[q] : q \in N}
             day == [p \in pairs |-> p[2]]
             who == [p \in pairs |-> p[1]]
  <2>1. IsFiniteSet(pairs)
    <3>1. DOMAIN pair = N
      OBVIOUS
    <3> HIDE DEF pair, N
    <3> QED BY <1>0, <3>1, ImageIsFinite
  <2>0. ASSUME NEW p \in pairs
        PROVE  /\ \E q \in N : p = pair[q] /\ p = <<q.by, q.day>> /\ p[1] = q.by /\ p[2] = q.day
               /\ who[p] = p[1] /\ day[p] = p[2] /\ p = <<who[p], day[p]>>
    <3>1. PICK q \in N : p = pair[q]
      OBVIOUS
    <3>2. p = <<q.by, q.day>> /\ p[1] = q.by /\ p[2] = q.day /\ who[p] = p[1] /\ day[p] = p[2]
      BY <3>1
    <3> HIDE DEF pair, pairs, who, day, N
    <3> QED BY <3>1, <3>2
  <2>2. \A p \in pairs : Past(day[p]) /\ day[p] >= PeriodStart
    <3> SUFFICES ASSUME NEW p \in pairs PROVE Past(day[p]) /\ day[p] >= PeriodStart
      OBVIOUS
    <3>1. PICK q \in N : day[p] = q.day
      BY <2>0
    <3>2. Past(q.day) /\ q.day >= PeriodStart
      BY <1>0
    <3> HIDE DEF day
    <3> QED BY <3>1, <3>2
  <2>3. {who[p] : p \in pairs} = {q.by : q \in N}
    <3>1. \A q \in N : pair[q] \in pairs /\ who[pair[q]] = q.by
      OBVIOUS
    <3>2. \A p \in pairs : \E q \in N : p = pair[q] /\ who[p] = q.by
      <4> HIDE DEF who, pairs, pair, N, day
      <4> QED BY <2>0
    <3> HIDE DEF who, pairs, pair, N
    <3> QED BY <3>1, <3>2
  <2>4. Cardinality({who[p] : p \in pairs}) <= Cardinality(pairs)
    <3>1. DOMAIN who = pairs
      OBVIOUS
    <3> HIDE DEF who, pairs
    <3> QED BY <2>1, <3>1, ImageIsFinite
  <2>5. Sum(Daily(pairs, day)) = Cardinality(Since(pairs, day)) /\ Since(pairs, day) = pairs
    <3> HIDE DEF day, pairs
    <3> QED BY <1>0, <2>1, <2>2, DaysAddUp DEF Since
  <2>6. Daily(pairs, day) = [d \in TrendDays |-> Cardinality({q.by : q \in {x \in A : x.day = d}})]
    <3>1. ASSUME NEW d \in TrendDays
          PROVE  Cardinality({p \in pairs : day[p] = d}) = Cardinality({q.by : q \in {x \in A : x.day = d}})
      <4> DEFINE D == {p \in pairs : day[p] = d}
      <4>1. D \in SUBSET pairs /\ IsFiniteSet(D)
        <5>1. D \in SUBSET pairs
          OBVIOUS
        <5> HIDE DEF D, pairs
        <5> QED BY <2>1, <5>1, FS_Subset
      <4>2. \A p, q \in D : who[p] = who[q] => p = q
        <5> HIDE DEF who, pairs, pair, N, day
        <5>1. \A p \in D : p = <<who[p], d>>
          BY <2>0
        <5> HIDE DEF D
        <5> QED BY <5>1
      <4>3. Cardinality({who[p] : p \in D}) = Cardinality(D)
        <5> HIDE DEF D, who
        <5> QED BY <4>1, <4>2, ImageIsAsMany
      <4>4. {who[p] : p \in D} = {q.by : q \in {x \in A : x.day = d}}
        <5>1. d >= PeriodStart
          BY <1>0, PeriodDays
        <5>2. ASSUME NEW q \in A, q.day = d PROVE pair[q] \in D /\ who[pair[q]] = q.by
          BY <5>1, <5>2
        <5>3. ASSUME NEW p \in D PROVE \E q \in A : q.day = d /\ who[p] = q.by
          <6>1. p \in pairs /\ day[p] = d
            OBVIOUS
          <6>2. PICK q \in N : p[1] = q.by /\ p[2] = q.day /\ who[p] = p[1] /\ day[p] = p[2]
            <7> HIDE DEF who, pairs, pair, N, day, D
            <7> QED BY <2>0, <6>1
          <6>3. q \in A
            OBVIOUS
          <6> HIDE DEF who, pairs, pair, N, day, D
          <6> QED BY <6>1, <6>2, <6>3
        <5> HIDE DEF D, who, pair, A
        <5> QED BY <5>2, <5>3
      <4> QED BY <4>3, <4>4
    <3> QED BY <3>1 DEF Daily
  <2> HIDE DEF who, day, pairs, N
  <2> QED BY <1>1, <1>2, <2>3, <2>4, <2>5, <2>6, TotalIsSum
<1>9. c.pending = t.pending[date]
  <2>1. t.pending[date] = Cardinality(PendingApplications(u, date))
    BY <1>0, <1>2, PeriodDays
  <2>2. \A r \in P : Past(rows[r].created) /\ Past(rows[r].updated) /\ r \in Filed
    BY <1>0 DEF DashInv, RowsSound
  <2>3. PendingApplications(u, date) = P \cap Have({"pending"})
    BY <1>0, <2>2, TodayIsPast DEF PendingApplications, Have, Past
  <2> QED BY <1>1, <2>1, <2>3
<1> HIDE DEF P, A, N, V, bad, passed, denied, refused, rejected
<1> QED BY <1>3, <1>4, <1>5, <1>6, <1>7, <1>8, <1>9 DEF QueryAddsUp, SumsOf

LEMMA TicketsAddUp == ASSUME DashInv, kind = "sql", NEW u PROVE WorkflowAddsUp(u)
<1> DEFINE T == Tickets(u)
           In(S) == {r \in T : rows[r].status \in S}
           Done(S) == {r \in In(S) : rows[r].finished >= PeriodStart}
           N == {r \in T : rows[r].created >= PeriodStart}
           PerDay(op, final) ==
              [d \in TrendDays |-> Cardinality({l.row : l \in {k \in TicketLogs(u, op, final) : k.day = d}})]
           gone == Marked(u, "cancel", FALSE)
           denied == Marked(u, "reject", FALSE)
           ended == Done({"finish"}) \cup Done({"exception"})
           c == WorkflowCards(u)
           t == WorkflowTrends(u)
<1>0. /\ RowsSound /\ T \in SUBSET Filed /\ N \in SUBSET Filed
      /\ \A S : In(S) \in SUBSET Filed /\ Done(S) \in SUBSET Filed /\ T \cap Have(S) = In(S)
      /\ \A r \in Filed : Past(rows[r].created) /\ Past(rows[r].updated) /\ Past(rows[r].finished)
      /\ gone \in SUBSET Filed /\ denied \in SUBSET Filed
  <2>1. T \in SUBSET Filed
    BY DEF Tickets
  <2>2. gone \in SUBSET Filed /\ denied \in SUBSET Filed
    BY DEF Marked, TicketLogs, Tickets
  <2> QED BY <2>1, <2>2 DEF DashInv, RowsSound, Have
<1>1. /\ c.submit = Card(T, CreatedOn) /\ c.submit = Cardinality(N)
      /\ c.approved = Cardinality(Marked(u, "pass", TRUE))
      /\ c.rejected = Cardinality(denied) /\ c.canceled = Cardinality(gone)
      /\ c.pending = Cardinality(In({"pending"})) /\ c.queued = Cardinality(In({"queuing"}))
      /\ c.running = Cardinality(In({"executing"}))
      /\ c.success = Cardinality(Done({"finish"})) /\ c.failed = Cardinality(Done({"exception"}))
      /\ c.finished = Cardinality(ended \cup gone \cup denied)
  <2>1. \A S : {r \in T \cap Have(S) : rows[r].finished >= PeriodStart} = Done(S)
    BY <1>0
  <2> HIDE DEF T, In, Done
  <2> QED BY <1>0, <2>1 DEF WorkflowCards, T, Card, CreatedOn
<1>2. /\ t.submit = DailyTrend(T, CreatedOn)
      /\ t.approved = PerDay("pass", TRUE) /\ t.rejected = PerDay("reject", FALSE)
      /\ t.canceled = PerDay("cancel", FALSE)
      /\ t.success = DailyTrend(In({"finish"}), FinishedOn)
      /\ t.failed = DailyTrend(In({"exception"}), FinishedOn)
      /\ t.pending = [d \in TrendDays |-> Cardinality(PendingTickets(u, d))]
      /\ t.queued = [d \in TrendDays |-> Cardinality({r \in In({"queuing"}) : rows[r].created <= d})]
      /\ t.running = [d \in TrendDays |-> Cardinality({r \in In({"executing"}) : rows[r].created <= d})]
  BY DEF WorkflowTrends, Stock
<1>3. /\ WorkflowOverview(u).cards = c /\ WorkflowOverview(u).trends = t
      /\ WorkflowOverview(u).tops = WorkflowTops(u)
  BY DEF WorkflowOverview
<1> HIDE DEF c, t
<1>4. c.submit = Total(t.submit) /\ c.success = Total(t.success) /\ c.failed = Total(t.failed)
  <2>1. Card(In({"finish"}), FinishedOn) = c.success /\ Card(In({"exception"}), FinishedOn) = c.failed
    BY <1>1 DEF Card, FinishedOn
  <2> DEFINE f == In({"finish"})
             e == In({"exception"})
  <2>2. T \in SUBSET Filed /\ f \in SUBSET Filed /\ e \in SUBSET Filed
    BY <1>0
  <2>3. /\ c.submit = Card(T, CreatedOn) /\ t.submit = DailyTrend(T, CreatedOn)
        /\ c.success = Card(f, FinishedOn) /\ t.success = DailyTrend(f, FinishedOn)
        /\ c.failed = Card(e, FinishedOn) /\ t.failed = DailyTrend(e, FinishedOn)
    BY <1>1, <1>2, <2>1
  <2> HIDE DEF T, f, e
  <2> QED BY <2>2, <2>3, RowsByDay
<1>5. /\ c.approved = Total(t.approved) /\ c.rejected = Total(t.rejected) /\ c.canceled = Total(t.canceled)
      /\ c.approved = Cardinality({l \in TicketLogs(u, "pass", TRUE) : l.day >= PeriodStart})
      /\ c.rejected = Cardinality({l \in TicketLogs(u, "reject", FALSE) : l.day >= PeriodStart})
  <2>1. \A l \in wlogs : /\ l.op = "pass" /\ (TRUE => l.final) => Final(l)
                         /\ l.op = "reject" /\ (FALSE => l.final) => Final(l)
                         /\ l.op = "cancel" /\ (FALSE => l.final) => Final(l)
    BY DEF Final
  <2>2. /\ Cardinality(Marked(u, "pass", TRUE)) = Total(PerDay("pass", TRUE))
        /\ Cardinality(Marked(u, "pass", TRUE))
             = Cardinality({l \in TicketLogs(u, "pass", TRUE) : l.day >= PeriodStart})
    BY <2>1, MarksByDay
  <2>3. /\ Cardinality(denied) = Total(PerDay("reject", FALSE))
        /\ Cardinality(denied) = Cardinality({l \in TicketLogs(u, "reject", FALSE) : l.day >= PeriodStart})
    BY <2>1, MarksByDay
  <2>4. Cardinality(gone) = Total(PerDay("cancel", FALSE))
    BY <2>1, MarksByDay
  <2> HIDE DEF PerDay, gone, denied
  <2> QED BY <1>1, <1>2, <2>2, <2>3, <2>4
<1>6. c.finished = c.rejected + c.canceled + c.success + c.failed
  <2> DEFINE f == Done({"finish"})
             e == Done({"exception"})
  <2>1. IsFiniteSet(f) /\ IsFiniteSet(e) /\ IsFiniteSet(gone) /\ IsFiniteSet(denied)
    BY <1>0, FiledAreFinite
  <2>2. /\ \A r \in gone : rows[r].status = "canceled"
        /\ \A r \in denied : rows[r].status = "rejected"
        /\ \A r \in f : rows[r].status = "finish"
        /\ \A r \in e : rows[r].status = "exception"
    <3>1. \A r \in gone : rows[r].status = "canceled"
      BY DEF Marked, TicketLogs, DashInv, DecidedOnce
    <3>2. \A r \in denied : rows[r].status = "rejected"
      BY DEF Marked, TicketLogs, DashInv, DecidedOnce
    <3> QED BY <3>1, <3>2
  <2>3. /\ c.finished = Cardinality(f \cup e \cup gone \cup denied)
        /\ c.success = Cardinality(f) /\ c.failed = Cardinality(e)
        /\ c.canceled = Cardinality(gone) /\ c.rejected = Cardinality(denied)
    BY <1>1
  <2> HIDE DEF f, e, gone, denied
  <2>4. f \cap e = {} /\ (f \cup e) \cap gone = {} /\ (f \cup e \cup gone) \cap denied = {}
    BY <2>2
  <2>5. /\ Cardinality(f \cup e) = Cardinality(f) + Cardinality(e) /\ IsFiniteSet(f \cup e)
        /\ Cardinality(f) \in Nat /\ Cardinality(e) \in Nat
    BY <2>1, <2>4, PartsAddUp
  <2>6. /\ Cardinality(f \cup e \cup gone) = Cardinality(f \cup e) + Cardinality(gone)
        /\ IsFiniteSet(f \cup e \cup gone) /\ Cardinality(gone) \in Nat
    BY <2>1, <2>4, <2>5, PartsAddUp
  <2>7. /\ Cardinality(f \cup e \cup gone \cup denied) = Cardinality(f \cup e \cup gone) + Cardinality(denied)
        /\ Cardinality(denied) \in Nat
    BY <2>1, <2>4, <2>6, PartsAddUp
  <2> QED BY <2>3, <2>5, <2>6, <2>7
<1>7. c.pending = t.pending[date] /\ c.queued = t.queued[date] /\ c.running = t.running[date]
  <2>1. date \in TrendDays
    BY <1>0, PeriodDays
  <2>2. PendingTickets(u, date) = In({"pending"})
    BY <1>0, TodayIsPast DEF PendingTickets, Past
  <2>3. \A S : {r \in In(S) : rows[r].created <= date} = In(S)
    BY <1>0 DEF Past
  <2>4. /\ t.pending[date] = Cardinality(In({"pending"})) /\ t.queued[date] = Cardinality(In({"queuing"}))
        /\ t.running[date] = Cardinality(In({"executing"}))
    <3>1. \A S : Cardinality({r \in In(S) : rows[r].created <= date}) = Cardinality(In(S))
      <4> HIDE DEF In
      <4> QED BY <2>3
    <3>2. /\ t.pending[date] = Cardinality(PendingTickets(u, date))
          /\ t.queued[date] = Cardinality({r \in In({"queuing"}) : rows[r].created <= date})
          /\ t.running[date] = Cardinality({r \in In({"executing"}) : rows[r].created <= date})
      <4> HIDE DEF In
      <4>1. t.pending[date] = Cardinality(PendingTickets(u, date))
        BY <1>2, <2>1
      <4>2. t.queued[date] = Cardinality({r \in In({"queuing"}) : rows[r].created <= date})
        BY <1>2, <2>1
      <4>3. t.running[date] = Cardinality({r \in In({"executing"}) : rows[r].created <= date})
        BY <1>2, <2>1
      <4> QED BY <4>1, <4>2, <4>3
    <3> HIDE DEF In
    <3> QED BY <2>2, <3>1, <3>2
  <2> HIDE DEF In
  <2> QED BY <1>1, <2>4
<1>8. ASSUME NEW d \in TrendDays \cap 0..(date - 1) PROVE waiting[d] \cap Tickets(u) \subseteq PendingTickets(u, d)
  BY DEF DashInv, WaitedSince, PendingTickets
<1>9. c.submit = Total(WorkflowTops(u).submitters) /\ c.submit = Total(WorkflowTops(u).instances)
  <2>1. /\ WorkflowTops(u).submitters = TopTen(N, LAMBDA r : rows[r].by)
        /\ WorkflowTops(u).instances = TopTen(N, LAMBDA r : rows[r].on)
    BY DEF WorkflowTops
  <2> HIDE DEF N
  <2> QED BY <1>0, <1>1, <2>1, RowTops
<1>10. c.success + c.failed = Total(WorkflowTops(u).executed)
  <2> DEFINE f == Done({"finish"})
             e == Done({"exception"})
  <2>1. WorkflowTops(u).executed = TopTen(f \cup e, LAMBDA r : rows[r].on)
    <3>1. {r \in T \cap Have({"finish", "exception"}) : rows[r].finished >= PeriodStart} = f \cup e
      BY <1>0 DEF Have
    <3> HIDE DEF f, e
    <3> QED BY <3>1 DEF WorkflowTops, T
  <2>2. /\ f \cap e = {} /\ IsFiniteSet(f) /\ IsFiniteSet(e) /\ f \cup e \in SUBSET Filed
    BY <1>0, FiledAreFinite
  <2>3. c.success = Cardinality(f) /\ c.failed = Cardinality(e)
    BY <1>1
  <2> HIDE DEF f, e
  <2>4. Total(TopTen(f \cup e, LAMBDA r : rows[r].on)) = Cardinality(f \cup e)
    BY <1>0, <2>2, RowTops
  <2>5. Cardinality(f \cup e) = Cardinality(f) + Cardinality(e)
    BY <2>2, PartsAddUp
  <2> QED BY <2>1, <2>3, <2>4, <2>5
<1>11. c.approved + c.rejected <= Total(WorkflowTops(u).approvers)
  <2> DEFINE a == {l \in TicketLogs(u, "pass", TRUE) : l.day >= PeriodStart}
             b == {l \in TicketLogs(u, "reject", FALSE) : l.day >= PeriodStart}
             all == {l \in TicketLogs(u, "pass", FALSE) \cup TicketLogs(u, "reject", FALSE) : l.day >= PeriodStart}
  <2>1. WorkflowTops(u).approvers = TopTen(all, LAMBDA l : l.who)
    BY DEF WorkflowTops
  <2>2. a \cup b \in SUBSET all /\ a \cap b = {} /\ all \in SUBSET wlogs /\ a \in SUBSET wlogs /\ b \in SUBSET wlogs
    BY DEF TicketLogs
  <2>3. c.approved = Cardinality(a) /\ c.rejected = Cardinality(b)
    BY <1>5
  <2> HIDE DEF a, b, all
  <2>4. IsFiniteSet(a) /\ IsFiniteSet(b) /\ IsFiniteSet(all)
    BY <2>2, FS_Subset DEF DashInv, LogsSound
  <2>5. Cardinality(a \cup b) = Cardinality(a) + Cardinality(b)
    BY <2>2, <2>4, PartsAddUp
  <2>6. Cardinality(a \cup b) <= Cardinality(all)
    BY <2>2, <2>4, FS_Subset
  <2>7. Total(TopTen(all, LAMBDA l : l.who)) = Cardinality(all)
    BY <2>4, RecordTops
  <2> QED BY <2>1, <2>3, <2>5, <2>6, <2>7
<1>12. ASSUME NEW d \in TrendDays PROVE t.submit[d] <= WorkflowTrend[d].submit
  <2> DEFINE mine == {r \in T : rows[r].created = d}
             all == {r \in Filed : rows[r].created = d}
  <2>1. t.submit[d] = Cardinality(mine) /\ WorkflowTrend[d].submit = Cardinality(all)
    BY <1>2 DEF DailyTrend, CreatedOn, WorkflowTrend
  <2>2. mine \in SUBSET all /\ all \in SUBSET Filed
    BY <1>0
  <2> HIDE DEF mine, all
  <2> QED BY <1>0, <2>1, <2>2, FiledAreFinite, FS_Subset
<1>13. c.submit <= Stats.total /\ Stats.total = Total(Stats.byStatus)
  <2> DEFINE all == {r \in Filed : rows[r].created >= date - Days}
  <2>1. Stats.total = Cardinality(all) /\ Stats.byStatus = TopTen(all, LAMBDA r : rows[r].status)
    BY DEF Stats
  <2>2. N \in SUBSET all /\ all \in SUBSET Filed
    <3>1. ASSUME NEW r \in N PROVE rows[r].created >= date - Days
      <4>1. /\ rows[r].created \in Nat /\ rows[r].created >= date - (Days - 1)
            /\ date \in Nat /\ Days \in Nat
        BY <1>0, TodayIsPast, DashboardAssumption DEF Past, PeriodStart
      <4> DEFINE m == rows[r].created
      <4>2. m \in Nat /\ m >= date - (Days - 1)
        BY <4>1
      <4> HIDE DEF m, N
      <4>3. m >= date - Days
        BY <4>1, <4>2
      <4> QED BY <4>3 DEF m
    <3> QED BY <1>0, <3>1
  <2> HIDE DEF N, all
  <2>3. Cardinality(N) <= Cardinality(all)
    BY <1>0, <2>2, FiledAreFinite, FS_Subset
  <2>4. Total(TopTen(all, LAMBDA r : rows[r].status)) = Cardinality(all)
    BY <1>0, <2>2, RowTops
  <2>5. c.submit = Cardinality(N)
    BY <1>1
  <2> QED BY <2>1, <2>3, <2>4, <2>5
<1> HIDE DEF T, In, Done, N, PerDay, gone, denied, ended
<1> DEFINE of == WorkflowTops(u)
<1>14. of = WorkflowTops(u)
  OBVIOUS
<1> HIDE DEF of
<1>15. SumsOf(c, t, {"submit", "approved", "rejected", "canceled", "success", "failed"})
  BY <1>4, <1>5 DEF SumsOf
<1>16. \A f \in {"pending", "queued", "running"} : c[f] = t[f][date]
  BY <1>7
<1> QED BY <1>3, <1>6, <1>8, <1>9, <1>10, <1>11, <1>12, <1>13, <1>15, <1>16 DEF WorkflowAddsUp

\* Rows, logs and days agree, and a ticket is decided once.
THEOREM DashInvariant == DashSpec => []DashInv
<1> QED BY DashStarts, DashStep, PTL DEF DashSpec

\* The numbers of an overview agree with each other for every reader, period and
\* history (services/monitor.py:1049-1250, 1445-1633, 1753-2019): a card is the
\* sum of its trend over the days, the heads of a list are all there are, the
\* ends of tickets are counted once, and the last day of a stock is its card.
THEOREM TrendsCorrect == DashSpec => []TrendsAddUp
<1>1. DashInv => TrendsAddUp
  <2> SUFFICES ASSUME DashInv, NEW u \in Readers
               PROVE  /\ kind = "sql" /\ Filed # {} => WorkflowAddsUp(u)
                      /\ kind = "query" => QueryAddsUp(u)
                      /\ kind = "job" => ArchiveAddsUp(u)
                      /\ InstanceOverview(u).disabled > 0 => u.superuser \/ u.role \in {"dba", "superadmin"}
    BY DEF TrendsAddUp
  <2>1. ASSUME ~(u.superuser \/ u.role \in {"dba", "superadmin"}) PROVE ~(InstanceOverview(u).disabled > 0)
    <3>1. InstanceScope(u) \ up = {}
      BY <2>1 DEF InstanceScope, SharedInstances
    <3>2. InstanceOverview(u).disabled = 0
      BY <3>1, FS_EmptySet DEF InstanceOverview
    <3> QED BY <3>2
  <2> QED BY <2>1, TicketsAddUp, QueriesAddUp, JobsAddUp
<1> QED BY <1>1, DashInvariant, PTL
=============================================================================
