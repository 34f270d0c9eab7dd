---------------------------- MODULE MonitorGrants ----------------------------
(***************************************************************************)
(* The right to see the monitoring of an instance: applied for, decided by *)
(* a reviewer who reads the application and commits the decision later,    *)
(* and asked for by every view.  Beside a grant the resource groups and    *)
(* the permission monitor_all_instances give the right.                    *)
(***************************************************************************)
EXTENDS Naturals, FiniteSets

CONSTANTS
    Viewers,         \* users
    Hosts,           \* instances
    Applications,    \* rows of monitor_privilege_apply
    Reviewers,       \* requests that decide
    LastGrantDay          \* bound: the day

ASSUME DayAssumption == LastGrantDay \in Nat

VARIABLES
    applied,     \* monitor_privilege_apply: NotApplied, or viewer, host, until, status
    granted,     \* monitor_privilege: one row per decision to pass
    review,      \* what each reviewer has read
    grouped,     \* pairs of viewer and host that share a resource group
    day,
    raced        \* history: applications two reviewers decided at the same time

grantVars == <<applied, granted, review, grouped, day, raced>>

NotApplied == [status |-> "none"]
NotReviewing == [of |-> {}]

GrantsInit ==
    /\ applied = [a \in Applications |-> NotApplied]
    /\ granted = {}
    /\ review = [r \in Reviewers |-> NotReviewing]
    /\ grouped \in SUBSET (Viewers \X Hosts)
    /\ day = 1 /\ raced = {}
----------------------------------------------------------------------------
\* apply_privilege: valid_date is not before today; other applications are not looked at.
ApplyToView(a, v, h, until) ==
    /\ applied[a] = NotApplied /\ until >= day
    /\ applied' = [applied EXCEPT ![a] = [viewer |-> v, host |-> h, until |-> until, status |-> "pending"]]
    /\ UNCHANGED <<granted, review, grouped, day, raced>>

\* Mutant of Undecided: any application can be decided.
UndecidedOrNot(a) == applied[a] # NotApplied
Undecided(a) == applied[a].status = "pending"
\* audit_privilege: reads without a lock, refuses what is decided.
BeginReview(r, a) ==
    /\ review[r] = NotReviewing /\ Undecided(a)
    /\ review' = [review EXCEPT ![r] = [of |-> {a}]]
    /\ raced' = raced \cup {b \in {a} : \E q \in Reviewers : review[q].of = {b}}
    /\ UNCHANGED <<applied, granted, grouped, day>>
\* The status and the grant are committed together.
EndReview(r, a, pass) ==
    /\ review[r].of = {a}
    /\ applied' = [applied EXCEPT ![a].status = IF pass THEN "passed" ELSE "rejected"]
    /\ granted' = IF pass
                  THEN granted \cup {[of |-> a, by |-> r, nth |-> Cardinality(granted), viewer |-> applied[a].viewer,
                                      host |-> applied[a].host, until |-> applied[a].until]}
                  ELSE granted
    /\ review' = [review EXCEPT ![r] = NotReviewing]
    /\ UNCHANGED <<grouped, day, raced>>
AbandonReview(r) ==
    /\ review[r] # NotReviewing /\ review' = [review EXCEPT ![r] = NotReviewing]
    /\ UNCHANGED <<applied, granted, grouped, day, raced>>
\* The resource groups of the viewer or of the host change.
Regroup(v, h) ==
    /\ grouped' = IF <<v, h>> \in grouped THEN grouped \ {<<v, h>>} ELSE grouped \cup {<<v, h>>}
    /\ UNCHANGED <<applied, granted, review, day, raced>>
PassDay ==
    /\ day < LastGrantDay /\ day' = day + 1
    /\ UNCHANGED <<applied, granted, review, grouped, raced>>

GrantsNext ==
    \/ \E a \in Applications, v \in Viewers, h \in Hosts, until \in 1 .. LastGrantDay : ApplyToView(a, v, h, until)
    \/ \E r \in Reviewers : \/ AbandonReview(r)
                            \/ \E a \in Applications : BeginReview(r, a) \/ \E pass \in BOOLEAN : EndReview(r, a, pass)
    \/ \E v \in Viewers, h \in Hosts : Regroup(v, h)
    \/ PassDay

GrantsSpec == GrantsInit /\ [][GrantsNext]_grantVars
----------------------------------------------------------------------------
\* Grants in force today.
GrantInForce(v, h) == {g \in granted : g.viewer = v /\ g.host = h /\ g.until >= day}
\* list_native_instances.
Listed(v) == {h \in Hosts : <<v, h>> \in grouped \/ GrantInForce(v, h) # {}}
\* check_privilege, asked by the detail, the trend, the capacities and the metrics:
\* it reads at most one grant and fails when it finds two.
Viewed(v, h) ==
    IF <<v, h>> \in grouped THEN "seen"
    ELSE CASE Cardinality(GrantInForce(v, h)) = 0 -> "refused"
           [] Cardinality(GrantInForce(v, h)) = 1 -> "seen"
           [] OTHER -> "error"

(***************************************************************************)
(* An application that no two reviewers decided at the same time is passed *)
(* exactly if it has a grant, and has at most one (monitor.py 240-266);    *)
(* the views refuse an instance exactly if the list leaves it out.         *)
(***************************************************************************)
PassedIsGranted ==
    /\ \A v \in Viewers, h \in Hosts : h \in Listed(v) <=> Viewed(v, h) # "refused"
    /\ \A a \in Applications \ raced :
        /\ applied[a].status = "passed" <=> \E g \in granted : g.of = a
        /\ \A g, f \in granted : g.of = a /\ f.of = a => g = f
=============================================================================
