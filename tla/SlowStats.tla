------------------------------ MODULE SlowStats ------------------------------
(***************************************************************************)
(* What the slow SQL pages compute from the rows they read: totals and     *)
(* percentiles, per instance, database and fingerprint, and per hour.  A   *)
(* row is a record with inst, db, print, took and at.                      *)
(***************************************************************************)
EXTENDS Naturals, FiniteSets
Numbers == INSTANCE FiniteSetsExt

CONSTANTS
    TopGroups,    \* groups whose trend is drawn: 6
    LastBuckets   \* buckets of a trend: 48

ASSUME StatsAssumption == TopGroups \in Nat /\ LastBuckets \in Nat

\* The entry of the sorted durations at a 0-based index.
AtIndex(rows, index) ==
    CHOOSE d \in {r.took : r \in rows} :
        /\ Cardinality({r \in rows : r.took <= d}) > index
        /\ Cardinality({r \in rows : r.took < d}) <= index
\* Mutant of P95: counted from the wrong end.
P95Fast(rows) == AtIndex(rows, (Cardinality(rows) * 5) \div 100)
P95(rows) ==
    LET n == Cardinality(rows) index == (n * 95) \div 100
    IN  AtIndex(rows, IF index < n - 1 THEN index ELSE n - 1)
Average(rows) == Numbers!SumFunction([r \in rows |-> r.took]) \div Cardinality(rows)
Slowest(rows) == Numbers!Max({r.took : r \in rows})
\* _group_stat, and the same fields of a fingerprint.
GroupStat(rows) ==
    [total |-> Cardinality(rows), average |-> Average(rows), p95 |-> P95(rows), slowest |-> Slowest(rows),
     prints |-> Cardinality({r.print : r \in rows}), last |-> Numbers!Max({r.at : r \in rows})]
Grouped(rows, Key(_)) == [k \in {Key(r) : r \in rows} |-> GroupStat({r \in rows : Key(r) = k})]

OfInstance(r) == r.inst
OfDatabase(r) == <<r.inst, r.db>>
OfPrint(r) == r.print
InstanceStats(rows) == Grouped(rows, OfInstance)
DatabaseStats(rows) == Grouped(rows, OfDatabase)
PrintStats(rows) == Grouped(rows, OfPrint)
\* Rows per hour, of the last hours that have any.
Trend(rows) ==
    LET hours == {r.at : r \in rows}
    IN  [h \in {h \in hours : Cardinality({g \in hours : g > h}) < LastBuckets} |->
            Cardinality({r \in rows : r.at = h})]
\* The trends of the groups with the most rows.
GroupTrends(rows, stats, Key(_)) ==
    LET ahead(k) == {g \in DOMAIN stats : stats[g].total > stats[k].total}
    IN  [k \in {k \in DOMAIN stats : Cardinality(ahead(k)) < TopGroups} |-> Trend({r \in rows : Key(r) = k})]
Overview(rows) ==
    [of |-> IF rows = {} THEN {} ELSE {GroupStat(rows)}, trend |-> Trend(rows),
     instances |-> InstanceStats(rows), trends |-> GroupTrends(rows, InstanceStats(rows), OfInstance)]

Totals(stats) == Numbers!SumFunction([k \in DOMAIN stats |-> stats[k].total])
(***************************************************************************)
(* However rows are grouped, the groups add up to the overview, no group   *)
(* is slower than the slowest, a database is within its instance and a     *)
(* percentile within the range (slowlog.py 481-736).                       *)
(***************************************************************************)
AddsUp(rows) ==
    /\ Totals(InstanceStats(rows)) = Cardinality(rows)
    /\ Totals(DatabaseStats(rows)) = Cardinality(rows)
    /\ Totals(PrintStats(rows)) = Cardinality(rows)
    /\ \A d \in DOMAIN DatabaseStats(rows) :
          DatabaseStats(rows)[d].total <= InstanceStats(rows)[d[1]].total
    /\ \A s \in Overview(rows).of :
          /\ s.average <= s.slowest /\ s.p95 <= s.slowest
          /\ \A i \in DOMAIN InstanceStats(rows) : InstanceStats(rows)[i].slowest <= s.slowest
          /\ Cardinality({r \in rows : r.took > s.p95}) * 20 <= Cardinality(rows)
=============================================================================
