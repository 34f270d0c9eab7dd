-------------------------- MODULE Operations_proofs --------------------------
(***************************************************************************)
(* Operating the databases, for any databases, requests and turns.  Syncs  *)
(* that overlap with edits by hand keep what was disabled by hand and end  *)
(* with what they listed.  An application to see the monitoring of an      *)
(* instance that no two reviewers decided at the same time is passed       *)
(* exactly if it has one grant.  Lists of tickets and their buttons are    *)
(* true to what the operations behind them let a person do.  A query is    *)
(* answered within a privilege, masked and logged, whatever is granted,    *)
(* revoked or ruled while it runs.                                         *)
(***************************************************************************)
EXTENDS InstanceRegistry, MonitorGrants, TicketLists, QueryAccess, FiniteSetTheorems, WellFoundedInduction,
        TLAPS

RegistryInv == RegistryTypeOK /\ DisabledIsKept
----------------------------------------------------------------------------
\* A row is never taken for none.
LEMMA RowIsRegistered ==
    /\ \A r \in DatabaseRow : r # Unregistered /\ r.number # 0
    /\ Unregistered \notin DatabaseRow /\ Unregistered.number = 0
BY DEF DatabaseRow, Unregistered

\* What a sync reads of a row is a row, or none.
LEMMA SeenIsRow ==
    ASSUME RegistryTypeOK, NEW s \in Syncs, sync[s].at = "read"
    PROVE  sync[s].names \in SUBSET Databases /\ sync[s].seen \in Registry
BY DEF RegistryTypeOK, Dormant

\* The update of a row leaves a row.
LEMMA MergeIsRow ==
    ASSUME NEW now \in DatabaseRow, NEW seen \in DatabaseRow
    PROVE  Merge(now, seen, Renewal(seen)) \in DatabaseRow
<1> DEFINE new == Renewal(seen)
<1>1. new \in DatabaseRow
  BY DEF Renewal, DatabaseRow
<1>2. Merge(now, seen, new) \in DatabaseRow
  <2> HIDE DEF new
  <2> QED BY <1>1 DEF Merge, DatabaseRow
<1> QED BY <1>2

\* The update of a row that no old version had disabled leaves it as it is.
LEMMA MergeKeepsActive ==
    ASSUME NEW now \in DatabaseRow, NEW seen \in DatabaseRow, ~seen.legacy
    PROVE  Merge(now, seen, Renewal(seen)).active = now.active
BY DEF Merge, Renewal, DatabaseRow

\* What the commit of a sync makes of each name.
Synced(s, n) ==
    LET seen == sync[s].seen
    IN  IF n \in Vanished(s) /\ registered[n].number = seen[n].number THEN Unregistered
        ELSE IF n \in New(s) THEN Entry(turns)
        ELSE IF n \in Kept(s) THEN Merge(registered[n], seen[n], Renewal(seen[n]))
        ELSE registered[n]

LEMMA CommitMakesSynced ==
    ASSUME NEW s \in Syncs, CommitSync(s)
    PROVE  registered' = [n \in Databases |-> Synced(s, n)]
BY DEF CommitSync, Synced, Vanished

\* A row that a sync updates is there.
LEMMA KeptIsRow ==
    ASSUME RegistryTypeOK, NEW s \in Syncs, CommitSync(s), NEW n \in Kept(s)
    PROVE  n \in Databases /\ registered[n] \in DatabaseRow /\ sync[s].seen[n] \in DatabaseRow
<1>1. sync[s].names \in SUBSET Databases /\ sync[s].seen \in Registry /\ registered \in Registry
  BY SeenIsRow DEF CommitSync, RegistryTypeOK
<1>2. n \in Databases /\ sync[s].seen[n] \in DatabaseRow
  BY <1>1 DEF Kept, Registry
<1>3. registered[n].number = sync[s].seen[n].number /\ sync[s].seen[n].number # 0
  BY <1>2, RowIsRegistered DEF CommitSync, Committable
<1> QED BY <1>1, <1>2, <1>3, RowIsRegistered DEF Registry

\* The commit of a sync leaves rows.
LEMMA SyncedIsRow ==
    ASSUME RegistryTypeOK, NEW s \in Syncs, CommitSync(s), NEW n \in Databases
    PROVE  Synced(s, n) \in DatabaseRow \cup {Unregistered}
<1>1. Entry(turns) \in DatabaseRow
  BY DEF RegistryTypeOK, Entry, DatabaseRow
<1>2. n \in Kept(s) => Merge(registered[n], sync[s].seen[n], Renewal(sync[s].seen[n])) \in DatabaseRow
  BY KeptIsRow, MergeIsRow
<1>3. registered[n] \in DatabaseRow \cup {Unregistered}
  BY DEF RegistryTypeOK, Registry
<1> QED BY <1>1, <1>2, <1>3 DEF Synced
----------------------------------------------------------------------------
\* The state stays well-formed.
LEMMA TypeStep ==
    ASSUME RegistryTypeOK, [RegistryNext]_registryVars
    PROVE  RegistryTypeOK'
<1> USE DEF RegistryTypeOK
<1>1. ASSUME NEW n \in Databases, AddDatabase(n) PROVE RegistryTypeOK'
  BY <1>1 DEF AddDatabase, Turn, Entry, Registry, DatabaseRow
<1>2. ASSUME NEW n \in Databases, SwitchDatabase(n) PROVE RegistryTypeOK'
  <2>1. registered[n] \in DatabaseRow
    BY <1>2 DEF SwitchDatabase, Registered, Registry
  <2>2. [registered[n] EXCEPT !.active = ~@] \in DatabaseRow
    BY <2>1 DEF DatabaseRow
  <2>3. registered' \in Registry
    BY <1>2, <2>2 DEF SwitchDatabase, Registry
  <2> QED BY <1>2, <2>3 DEF SwitchDatabase, Turn
<1>3. ASSUME NEW n \in Databases, RemoveDatabase(n) PROVE RegistryTypeOK'
  BY <1>3 DEF RemoveDatabase, Turn, Registry
<1>4. ASSUME NEW n \in Databases, EngineChanges(n) PROVE RegistryTypeOK'
  BY <1>4 DEF EngineChanges, Turn
<1>5. ASSUME NEW s \in Syncs, ListEngine(s) PROVE RegistryTypeOK'
  BY <1>5 DEF ListEngine, Turn
<1>6. ASSUME NEW s \in Syncs, ReadRegistered(s) PROVE RegistryTypeOK'
  <2>1. sync[s].names \in SUBSET Databases
    BY <1>6 DEF ReadRegistered, Dormant
  <2> QED BY <1>6, <2>1 DEF ReadRegistered
<1>7. ASSUME NEW s \in Syncs, CommitSync(s) PROVE RegistryTypeOK'
  <2>1. registered' \in Registry
    BY <1>7, CommitMakesSynced, SyncedIsRow DEF Registry
  <2>2. off' \in SUBSET Databases
    BY <1>7 DEF CommitSync
  <2>3. UNCHANGED <<turns, visible>> /\ sync' = [sync EXCEPT ![s] = Dormant]
    BY <1>7 DEF CommitSync
  <2> QED BY <2>1, <2>2, <2>3
<1>8. ASSUME NEW s \in Syncs, RefuseSync(s) PROVE RegistryTypeOK'
  BY <1>8 DEF RefuseSync
<1>9. CASE StopRegistry
  BY <1>9 DEF StopRegistry
<1>10. CASE UNCHANGED registryVars
  BY <1>10 DEF registryVars
<1> QED BY <1>1, <1>2, <1>3, <1>4, <1>5, <1>6, <1>7, <1>8, <1>9, <1>10 DEF RegistryNext

\* What was disabled by hand stays so.
LEMMA DisabledStep ==
    ASSUME RegistryInv, [RegistryNext]_registryVars
    PROVE  DisabledIsKept'
<1> USE DEF RegistryInv
<1>1. ASSUME NEW n \in Databases, AddDatabase(n) PROVE DisabledIsKept'
  <2>1. n \notin off
    BY <1>1 DEF AddDatabase, DisabledIsKept
  <2> QED BY <1>1, <2>1 DEF AddDatabase, DisabledIsKept, Registered, RegistryTypeOK, Registry
<1>2. ASSUME NEW n \in Databases, SwitchDatabase(n) PROVE DisabledIsKept'
  <2>1. registered[n] \in DatabaseRow
    BY <1>2 DEF SwitchDatabase, Registered, RegistryTypeOK, Registry
  <2>2. registered'[n] \in DatabaseRow /\ registered'[n].active = ~registered[n].active
    BY <1>2, <2>1 DEF SwitchDatabase, RegistryTypeOK, Registry, DatabaseRow
  <2>3. \A m \in Databases \ {n} : registered'[m] = registered[m]
    BY <1>2 DEF SwitchDatabase, RegistryTypeOK, Registry
  <2>4. off' = IF registered[n].active THEN off \cup {n} ELSE off \ {n}
    BY <1>2 DEF SwitchDatabase
  <2> QED BY <2>2, <2>3, <2>4, RowIsRegistered DEF DisabledIsKept, Registered, RegistryTypeOK
<1>3. ASSUME NEW n \in Databases, RemoveDatabase(n) PROVE DisabledIsKept'
  BY <1>3 DEF RemoveDatabase, DisabledIsKept, Registered, RegistryTypeOK, Registry
<1>4. ASSUME NEW s \in Syncs, CommitSync(s) PROVE DisabledIsKept'
  <2> SUFFICES ASSUME NEW n \in off' PROVE registered'[n] # Unregistered /\ ~registered'[n].active
    BY DEF DisabledIsKept, Registered
  <2>1. /\ n \in off /\ n \in Databases
        /\ ~(n \in Vanished(s) /\ registered[n].number = sync[s].seen[n].number)
        /\ ~(n \in Kept(s) /\ sync[s].seen[n].legacy)
    BY <1>4 DEF CommitSync, RegistryTypeOK
  <2>2. registered[n] \in DatabaseRow /\ ~registered[n].active
    BY <2>1 DEF DisabledIsKept, Registered, RegistryTypeOK, Registry
  <2>3. n \notin New(s)
    BY <1>4, <2>2, RowIsRegistered DEF CommitSync, Committable, Registered
  <2>4. registered'[n] = Synced(s, n)
    BY <1>4, <2>1, CommitMakesSynced
  <2>5. CASE n \in Kept(s)
    <3>1. registered'[n] = Merge(registered[n], sync[s].seen[n], Renewal(sync[s].seen[n]))
      BY <2>1, <2>3, <2>4, <2>5 DEF Synced
    <3>2. sync[s].seen[n] \in DatabaseRow /\ ~sync[s].seen[n].legacy
      BY <1>4, <2>1, <2>5, KeptIsRow
    <3> QED BY <2>2, <3>1, <3>2, MergeIsRow, MergeKeepsActive, RowIsRegistered
  <2>6. CASE n \notin Kept(s)
    BY <2>1, <2>2, <2>3, <2>4, <2>6, RowIsRegistered DEF Synced
  <2> QED BY <2>5, <2>6
<1>5. CASE UNCHANGED <<registered, off>>
  BY <1>5 DEF DisabledIsKept, Registered
<1>6. ASSUME NEW n \in Databases, EngineChanges(n) PROVE UNCHANGED <<registered, off>>
  BY <1>6 DEF EngineChanges
<1>7. ASSUME NEW s \in Syncs, ListEngine(s) \/ ReadRegistered(s) \/ RefuseSync(s)
      PROVE  UNCHANGED <<registered, off>>
  BY <1>7 DEF ListEngine, ReadRegistered, RefuseSync
<1>8. StopRegistry \/ UNCHANGED registryVars => UNCHANGED <<registered, off>>
  BY DEF StopRegistry, registryVars
<1> QED BY <1>1, <1>2, <1>3, <1>4, <1>5, <1>6, <1>7, <1>8 DEF RegistryNext

\* A sync that commits leaves what it listed.
LEMMA SyncedStep ==
    ASSUME RegistryTypeOK, NEW s \in Syncs, CommitSync(s)
    PROVE  LET after == {n \in Databases : registered'[n] # Unregistered}
           IN  /\ sync[s].names \subseteq after
               /\ \A n \in after \ sync[s].names : registered[n].number # sync[s].seen[n].number
<1>1. sync[s].names \in SUBSET Databases /\ sync[s].seen \in Registry /\ registered \in Registry
  BY SeenIsRow DEF CommitSync, RegistryTypeOK
<1>2. \A n \in Databases : registered'[n] = Synced(s, n)
  BY CommitMakesSynced
<1>3. ASSUME NEW n \in sync[s].names PROVE n \in Databases /\ registered'[n] # Unregistered
  <2>1. n \in Databases /\ n \notin Vanished(s)
    BY <1>1 DEF Vanished
  <2>2. CASE n \in New(s)
    BY <1>2, <2>1, <2>2 DEF Synced, Entry, Unregistered, RegistryTypeOK
  <2>3. CASE n \in Kept(s)
    <3>1. Synced(s, n) = Merge(registered[n], sync[s].seen[n], Renewal(sync[s].seen[n]))
      BY <2>1, <2>3 DEF Synced, New
    <3> QED BY <1>2, <2>1, <2>3, <3>1, KeptIsRow, MergeIsRow, RowIsRegistered
  <2> QED BY <2>2, <2>3 DEF New
<1>4. ASSUME NEW n \in Databases \ sync[s].names, registered'[n] # Unregistered
      PROVE  registered[n].number # sync[s].seen[n].number
  <2>1. n \notin New(s) /\ n \notin Kept(s)
    BY DEF New, Kept
  <2>2. CASE sync[s].seen[n] # Unregistered
    BY <1>2, <1>4, <2>2 DEF Synced, Vanished
  <2>3. CASE sync[s].seen[n] = Unregistered
    <3>1. registered'[n] = registered[n]
      BY <1>2, <2>1, <2>3 DEF Synced, Vanished
    <3> QED BY <1>1, <1>4, <2>3, <3>1, RowIsRegistered DEF Registry
  <2> QED BY <2>2, <2>3
<1> QED BY <1>3, <1>4
----------------------------------------------------------------------------
(***************************************************************************)
(* The rows, and what overlapping syncs have read of them, keep their      *)
(* types; a database disabled by hand stays disabled                       *)
(* (instance_database.py 136-237).                                         *)
(***************************************************************************)
THEOREM RegistryInvariant == RegistrySpec => []RegistryInv
<1>1. RegistryInit => RegistryInv
  <2> SUFFICES ASSUME RegistryInit PROVE RegistryInv
    OBVIOUS
  <2>1. [number |-> 1, active |-> FALSE, legacy |-> TRUE] \in DatabaseRow
    BY DEF DatabaseRow
  <2>2. registered \in Registry
    BY <2>1 DEF RegistryInit, Registry
  <2>3. sync \in [Syncs -> {Dormant}]
    BY DEF RegistryInit
  <2>4. turns \in Nat \ {0} /\ visible \in SUBSET Databases /\ off = {}
    BY DEF RegistryInit
  <2>5. RegistryTypeOK
    BY <2>2, <2>3, <2>4 DEF RegistryTypeOK
  <2> QED BY <2>4, <2>5 DEF RegistryInv, DisabledIsKept
<1>2. RegistryInv /\ [RegistryNext]_registryVars => RegistryInv'
  BY TypeStep, DisabledStep DEF RegistryInv
<1> QED BY <1>1, <1>2, PTL DEF RegistrySpec

(***************************************************************************)
(* Syncs that overlap with edits by hand keep both what was disabled and   *)
(* what was listed, for any databases and number of syncs.                 *)
(***************************************************************************)
THEOREM RegistryCorrect == RegistrySpec => RegistryAgrees
<1>1. RegistryInv => RegistryTypeOK /\ DisabledIsKept
  BY DEF RegistryInv
<1>2. RegistryInv =>
        [\A s \in Syncs : CommitSync(s) =>
            LET after == {n \in Databases : registered'[n] # Unregistered}
            IN  /\ sync[s].names \subseteq after
                /\ \A n \in after \ sync[s].names :
                       registered[n].number # sync[s].seen[n].number]_registryVars
  BY SyncedStep DEF RegistryInv
<1> QED BY <1>1, <1>2, RegistryInvariant, PTL DEF RegistryAgrees, SyncedIsListed

----------------------------------------------------------------------------
Application == [viewer : Viewers, host : Hosts, until : 1 .. LastGrantDay,
                status : {"pending", "passed", "rejected"}]

\* Applications, what reviewers have read, and grants keep their types.
GrantsTypeOK ==
    /\ applied \in [Applications -> {NotApplied} \cup Application]
    /\ review \in [Reviewers -> {NotReviewing} \cup [of : {{a} : a \in Applications}]]
    /\ IsFiniteSet(granted)

\* Until two reviewers meet, whoever reads an application is the only one and
\* finds it undecided.
ReviewedAlone ==
    \A a \in Applications \ raced, r \in Reviewers : review[r].of = {a} =>
        /\ applied[a].status = "pending"
        /\ \A q \in Reviewers : review[q].of = {a} => q = r

\* Whoever reads an application finds one.
ReviewedIsFiled ==
    \A a \in Applications, r \in Reviewers : review[r].of = {a} => applied[a] # NotApplied

\* The second part of PassedIsGranted.
PassedHasGrant ==
    \A a \in Applications \ raced :
        /\ applied[a].status = "passed" <=> \E g \in granted : g.of = a
        /\ \A g, f \in granted : g.of = a /\ f.of = a => g = f

GrantsInv == GrantsTypeOK /\ ReviewedAlone /\ ReviewedIsFiled /\ PassedHasGrant
----------------------------------------------------------------------------
\* Nobody reads an application that was not filed, or that is decided.
LEMMA NotReviewingNothing ==
    /\ NotReviewing.of = {} /\ NotApplied.status = "none"
    /\ \A a \in Applications : NotReviewing.of # {a}
BY DEF NotReviewing, NotApplied

\* An application is filed and then waits.
LEMMA ApplyStep ==
    ASSUME GrantsInv, NEW a \in Applications, NEW v \in Viewers, NEW h \in Hosts,
           NEW until \in 1 .. LastGrantDay, ApplyToView(a, v, h, until)
    PROVE  GrantsInv'
<1> DEFINE filed == [viewer |-> v, host |-> h, until |-> until, status |-> "pending"]
<1>1. /\ applied' = [applied EXCEPT ![a] = filed] /\ applied[a] = NotApplied
      /\ UNCHANGED <<granted, review, raced>>
  BY DEF ApplyToView
<1>2. filed \in Application /\ filed.status = "pending"
  BY DEF Application
<1> HIDE DEF filed
<1>3. applied'[a] = filed /\ \A b \in Applications \ {a} : applied'[b] = applied[b]
  BY <1>1 DEF GrantsInv, GrantsTypeOK
<1>4. GrantsTypeOK'
  BY <1>1, <1>2 DEF GrantsInv, GrantsTypeOK
<1>5. applied[a].status = "none"
  BY <1>1, NotReviewingNothing
<1>6. ReviewedAlone'
  BY <1>1, <1>2, <1>3 DEF GrantsInv, ReviewedAlone
<1>7. PassedHasGrant'
  BY <1>1, <1>2, <1>3, <1>5 DEF GrantsInv, PassedHasGrant
<1>8. ReviewedIsFiled'
  BY <1>1, <1>2, <1>3, NotReviewingNothing DEF GrantsInv, ReviewedIsFiled
<1> QED BY <1>4, <1>6, <1>7, <1>8 DEF GrantsInv

\* Who reads an application while another does marks it as raced for.
LEMMA BeginStep ==
    ASSUME GrantsInv, NEW r \in Reviewers, NEW a \in Applications, BeginReview(r, a)
    PROVE  GrantsInv'
<1>1. /\ review[r] = NotReviewing /\ applied[a].status = "pending"
      /\ review' = [review EXCEPT ![r] = [of |-> {a}]]
      /\ raced' = raced \cup {b \in {a} : \E q \in Reviewers : review[q].of = {b}}
      /\ UNCHANGED <<applied, granted>>
  BY DEF BeginReview, Undecided
<1>2. review'[r].of = {a} /\ \A q \in Reviewers \ {r} : review'[q] = review[q]
  BY <1>1 DEF GrantsInv, GrantsTypeOK
<1>3. GrantsTypeOK'
  <2>1. [of |-> {a}] \in [of : {{b} : b \in Applications}]
    OBVIOUS
  <2> QED BY <1>1, <2>1 DEF GrantsInv, GrantsTypeOK
<1>4. ReviewedAlone'
  <2> SUFFICES ASSUME NEW b \in Applications, b \notin raced', NEW p \in Reviewers, review'[p].of = {b}
               PROVE  /\ applied[b].status = "pending"
                      /\ \A q \in Reviewers : review'[q].of = {b} => q = p
    BY <1>1 DEF ReviewedAlone
  <2>1. b \notin raced
    BY <1>1
  <2>2. CASE b = a
    <3>1. \A q \in Reviewers : review[q].of # {a}
      BY <1>1, <2>2
    <3> QED BY <1>1, <1>2, <2>2, <3>1
  <2>3. CASE b # a
    BY <1>1, <1>2, <2>1, <2>3 DEF GrantsInv, ReviewedAlone
  <2> QED BY <2>2, <2>3
<1>5. PassedHasGrant'
  BY <1>1 DEF GrantsInv, PassedHasGrant
<1>6. ReviewedIsFiled'
  BY <1>1, <1>2, NotReviewingNothing DEF GrantsInv, ReviewedIsFiled
<1> QED BY <1>3, <1>4, <1>5, <1>6 DEF GrantsInv

\* A decision that nobody raced is the only one.
LEMMA EndStep ==
    ASSUME GrantsInv, NEW r \in Reviewers, NEW a \in Applications, NEW pass \in BOOLEAN, EndReview(r, a, pass)
    PROVE  GrantsInv'
<1> DEFINE verdict == IF pass THEN "passed" ELSE "rejected"
           grant == [of |-> a, by |-> r, nth |-> Cardinality(granted), viewer |-> applied[a].viewer,
                     host |-> applied[a].host, until |-> applied[a].until]
<1>1. /\ review[r].of = {a}
      /\ applied' = [applied EXCEPT ![a].status = verdict]
      /\ granted' = IF pass THEN granted \cup {grant} ELSE granted
      /\ review' = [review EXCEPT ![r] = NotReviewing]
      /\ UNCHANGED raced
  BY DEF EndReview
<1>2. verdict \in {"passed", "rejected"} /\ (verdict = "passed" <=> pass) /\ grant.of = a
  OBVIOUS
<1> HIDE DEF verdict, grant
<1>3. applied[a] \in Application
  BY <1>1 DEF GrantsInv, GrantsTypeOK, ReviewedIsFiled
<1>4. \A b \in Applications \ {a} : applied'[b] = applied[b]
  BY <1>1 DEF GrantsInv, GrantsTypeOK
<1>5. applied'[a].status = verdict
  BY <1>1, <1>3 DEF GrantsInv, GrantsTypeOK, NotApplied, Application
<1>6. review'[r] = NotReviewing /\ \A q \in Reviewers \ {r} : review'[q] = review[q]
  BY <1>1 DEF GrantsInv, GrantsTypeOK
<1>7. GrantsTypeOK'
  <2>1. IsFiniteSet(granted')
    BY <1>1, FS_AddElement DEF GrantsInv, GrantsTypeOK
  <2>2. [applied[a] EXCEPT !.status = verdict] \in Application
    BY <1>2, <1>3 DEF Application
  <2> QED BY <1>1, <2>1, <2>2 DEF GrantsInv, GrantsTypeOK
<1>8. ReviewedAlone'
  BY <1>1, <1>4, <1>6, NotReviewingNothing DEF GrantsInv, ReviewedAlone
<1>9. PassedHasGrant'
  <2> SUFFICES ASSUME NEW b \in Applications, b \notin raced
               PROVE  /\ applied'[b].status = "passed" <=> \E g \in granted' : g.of = b
                      /\ \A g, f \in granted' : g.of = b /\ f.of = b => g = f
    BY <1>1 DEF PassedHasGrant
  <2>1. CASE b # a
    BY <1>1, <1>2, <1>4, <2>1 DEF GrantsInv, PassedHasGrant
  <2>2. CASE b = a
    <3>1. \A g \in granted : g.of # a
      BY <1>1, <2>2 DEF GrantsInv, PassedHasGrant, ReviewedAlone
    <3> QED BY <1>1, <1>2, <1>5, <2>2, <3>1
  <2> QED BY <2>1, <2>2
<1>10. ReviewedIsFiled'
  <2>1. applied'[a] # NotApplied
    BY <1>2, <1>5, NotReviewingNothing
  <2>2. \A b \in Applications, q \in Reviewers : review'[q].of = {b} => review[q].of = {b}
    BY <1>6, NotReviewingNothing
  <2> QED BY <1>4, <2>1, <2>2 DEF GrantsInv, ReviewedIsFiled
<1> QED BY <1>7, <1>8, <1>9, <1>10 DEF GrantsInv

(***************************************************************************)
(* Until two reviewers read an application at the same time whoever reads  *)
(* it is alone and finds it undecided, so that it is passed exactly if it  *)
(* has a grant, and has one (monitor.py 240-266).                          *)
(***************************************************************************)
THEOREM GrantsInvariant == GrantsSpec => []GrantsInv
<1>1. GrantsInit => GrantsInv
  <2> SUFFICES ASSUME GrantsInit PROVE GrantsInv
    OBVIOUS
  <2>1. GrantsTypeOK
    BY FS_EmptySet DEF GrantsInit, GrantsTypeOK
  <2>2. ReviewedAlone
    BY NotReviewingNothing DEF GrantsInit, ReviewedAlone
  <2>3. PassedHasGrant
    BY NotReviewingNothing DEF GrantsInit, PassedHasGrant
  <2>4. ReviewedIsFiled
    BY NotReviewingNothing DEF GrantsInit, ReviewedIsFiled
  <2> QED BY <2>1, <2>2, <2>3, <2>4 DEF GrantsInv
<1>2. ASSUME GrantsInv, [GrantsNext]_grantVars PROVE GrantsInv'
  <2>1. ASSUME NEW r \in Reviewers, AbandonReview(r) PROVE GrantsInv'
    <3>1. /\ review' = [review EXCEPT ![r] = NotReviewing]
          /\ UNCHANGED <<applied, granted, raced>>
      BY <2>1 DEF AbandonReview
    <3>2. review'[r] = NotReviewing /\ \A q \in Reviewers \ {r} : review'[q] = review[q]
      BY <1>2, <3>1 DEF GrantsInv, GrantsTypeOK
    <3>3. GrantsTypeOK'
      BY <1>2, <3>1 DEF GrantsInv, GrantsTypeOK
    <3>4. ReviewedAlone' /\ ReviewedIsFiled'
      BY <1>2, <3>1, <3>2, NotReviewingNothing DEF GrantsInv, ReviewedAlone, ReviewedIsFiled
    <3>5. PassedHasGrant'
      BY <1>2, <3>1 DEF GrantsInv, PassedHasGrant
    <3> QED BY <3>3, <3>4, <3>5 DEF GrantsInv
  <2>2. CASE UNCHANGED <<applied, granted, review, raced>>
    BY <1>2, <2>2 DEF GrantsInv, GrantsTypeOK, ReviewedAlone, ReviewedIsFiled, PassedHasGrant
  <2>3. ASSUME NEW v \in Viewers, NEW h \in Hosts, Regroup(v, h)
        PROVE  UNCHANGED <<applied, granted, review, raced>>
    BY <2>3 DEF Regroup
  <2>4. PassDay \/ UNCHANGED grantVars => UNCHANGED <<applied, granted, review, raced>>
    BY DEF PassDay, grantVars
  <2> QED BY <1>2, <2>1, <2>2, <2>3, <2>4, ApplyStep, BeginStep, EndStep DEF GrantsNext
<1> QED BY <1>1, <1>2, PTL DEF GrantsSpec

(***************************************************************************)
(* Decisions that nobody raced are granted once, and a view refuses an     *)
(* instance exactly if the list leaves it out (monitor.py 179-266).        *)
(***************************************************************************)
THEOREM GrantsCorrect == GrantsSpec => []PassedIsGranted
<1>1. ASSUME GrantsInv PROVE PassedIsGranted
  <2>1. ASSUME NEW v \in Viewers, NEW h \in Hosts
        PROVE  h \in Listed(v) <=> Viewed(v, h) # "refused"
    <3>1. GrantInForce(v, h) \subseteq granted
      BY DEF GrantInForce
    <3>2. IsFiniteSet(GrantInForce(v, h))
      BY <1>1, <3>1, FS_Subset DEF GrantsInv, GrantsTypeOK
    <3>3. Cardinality(GrantInForce(v, h)) = 0 <=> GrantInForce(v, h) = {}
      BY <3>2, FS_EmptySet
    <3>4. Viewed(v, h) # "refused" <=> <<v, h>> \in grouped \/ Cardinality(GrantInForce(v, h)) # 0
      BY DEF Viewed
    <3> QED BY <3>3, <3>4 DEF Listed
  <2> QED BY <1>1, <2>1 DEF GrantsInv, PassedHasGrant, PassedIsGranted
<1> QED BY <1>1, GrantsInvariant, PTL
----------------------------------------------------------------------------
\* No ticket is passed while a node waits; a node that waits has no operator.
PassedIsSigned == \A t \in Lodged : papers[t].status = "passed" => Unsigned(t) = {}
WaitingIsUnmarked ==
    \A t \in Lodged : \A n \in Unsigned(t) : papers[t].nodes[n].operator = {}
\* What was noted is of tickets there are; who decided on an application is on a node.
NotedIsLodged == \A l \in register : l.paper \in Lodged
DecidedIsMarked == \A l \in register :
    l.op \in {"pass", "reject"} /\ papers[l.paper].kind = "query" => ActedByMe(l.who, l.paper)

ListsInv ==
    /\ ListsTypeOK /\ PassedIsSigned /\ WaitingIsUnmarked /\ NotedIsLodged /\ DecidedIsMarked
----------------------------------------------------------------------------
NodeRecords == [type : STRING, status : NodeStatuses, operator : SUBSET Staff]
\* Of a paper: the nodes that wait, and who is on one.
Waits(m) == {n \in DOMAIN m.nodes : m.nodes[n].status = "pending"}
Marked(m, q) == \E n \in DOMAIN m.nodes : q \in m.nodes[n].operator

\* Nodes are a sequence, and stay one when they are replaced one by one.
LEMMA NodesAreSequence ==
    ASSUME NEW nodes \in Seq(NodeRecords), NEW f \in [DOMAIN nodes -> NodeRecords]
    PROVE  f \in Seq(NodeRecords)
<1> HIDE DEF NodeRecords
<1>1. DOMAIN nodes = 1..Len(nodes) /\ Len(nodes) \in Nat
  OBVIOUS
<1> QED BY <1>1

LEMMA PaperTypes ==
    ASSUME ListsTypeOK, NEW t \in Lodged
    PROVE  /\ papers[t] \in PaperRecords /\ t \in Papers /\ papers[t].nodes \in Seq(NodeRecords)
           /\ DOMAIN papers[t].nodes \subseteq Nat
           /\ \A n \in DOMAIN papers[t].nodes : papers[t].nodes[n] \in NodeRecords
           /\ Unsigned(t) = Waits(papers[t])
<1>1. papers[t] \in PaperRecords /\ t \in Papers
  BY DEF ListsTypeOK, Lodged
<1>2. papers[t].nodes \in Seq(NodeRecords)
  BY <1>1 DEF PaperRecords, NodeRecords
<1>3. \A nodes \in Seq(NodeRecords) : DOMAIN nodes \subseteq Nat /\ \A n \in DOMAIN nodes : nodes[n] \in NodeRecords
  <2> HIDE DEF NodeRecords
  <2> QED OBVIOUS
<1>4. Unsigned(t) = Waits(papers[t])
  BY DEF Unsigned, Waits
<1> QED BY <1>1, <1>2, <1>3, <1>4

\* The first node that waits is one of them.
LEMMA OneWaits ==
    ASSUME ListsTypeOK, NEW t \in Lodged, Unsigned(t) # {}
    PROVE  NodeWaiting(t) \in Unsigned(t)
<1> DEFINE S == Unsigned(t)
<1>1. S \subseteq Nat /\ S # {}
  BY PaperTypes DEF Unsigned
<1> HIDE DEF S
<1>2. IsWellFoundedOn(OpToRel(<, Nat), Nat)
  BY NatLessThanWellFounded, Zenon
<1>3. PICK m \in S : \A n \in S : ~(<<n, m>> \in OpToRel(<, Nat))
  BY <1>1, <1>2, WFMin, Zenon
<1>4. \A n \in S : n < m => <<n, m>> \in OpToRel(<, Nat)
  BY <1>1, Zenon DEF OpToRel
<1>5. \A n \in S : m <= n
  <2> SUFFICES ASSUME NEW n \in S PROVE m <= n
    OBVIOUS
  <2>1. ~(n < m)
    BY <1>3, <1>4, Zenon
  <2>2. n \in Nat /\ m \in Nat
    BY <1>1
  <2> QED BY <2>1, <2>2, SMT
<1>6. \E n \in S : \A k \in S : n <= k
  BY <1>5
<1> QED BY <1>6 DEF S, NodeWaiting

\* A step that changes one paper and notes what was done with it.
LEMMA OnePaper ==
    ASSUME ListsInv, NEW t \in Papers, NEW m \in PaperRecords, papers' = [papers EXCEPT ![t] = m],
           UNCHANGED <<powers, promotions>>, NEW p \in Staff,
           NEW op \in {"pass", "reject", "cancel", "execute"},
           register' = register \/ Noted(t, p, op),
           m.status = "passed" => Waits(m) = {},
           \A n \in Waits(m) : m.nodes[n].operator = {},
           t \in Lodged => m.kind = papers[t].kind /\ \A q \in Staff : ActedByMe(q, t) => Marked(m, q),
           Noted(t, p, op) /\ op \in {"pass", "reject"} /\ m.kind = "query" => Marked(m, p)
    PROVE  ListsInv'
<1> DEFINE note == [paper |-> t, who |-> p, op |-> op]
<1>1. register' = register \/ register' = register \cup {note}
  BY DEF Noted
<1>2. m # NoPaper /\ papers'[t] = m /\ \A u \in Papers \ {t} : papers'[u] = papers[u]
  BY NoPaperAssumption DEF ListsInv, ListsTypeOK
<1>3. Lodged' = Lodged \cup {t}
  BY <1>2 DEF Lodged
<1>4. /\ note.paper = t /\ note.who = p /\ note.op = op
      /\ note \in [paper : Papers, who : Staff, op : {"pass", "reject", "cancel", "execute"}]
  OBVIOUS
<1> HIDE DEF note
<1>5. ListsTypeOK'
  BY <1>1, <1>4 DEF ListsInv, ListsTypeOK
<1>6. NotedIsLodged'
  BY <1>1, <1>3, <1>4 DEF ListsInv, NotedIsLodged
<1>7. PassedIsSigned'
  <2> SUFFICES ASSUME NEW u \in Lodged', papers'[u].status = "passed" PROVE Unsigned(u)' = {}
    BY DEF PassedIsSigned
  <2>1. CASE u = t
    BY <1>2, <2>1 DEF Unsigned, Waits
  <2>2. CASE u # t
    BY <1>2, <1>3, <2>2 DEF ListsInv, PassedIsSigned, Unsigned, Lodged
  <2> QED BY <2>1, <2>2
<1>8. WaitingIsUnmarked'
  <2> SUFFICES ASSUME NEW u \in Lodged', NEW n \in Unsigned(u)' PROVE papers'[u].nodes[n].operator = {}
    BY DEF WaitingIsUnmarked
  <2>1. CASE u = t
    BY <1>2, <2>1 DEF Unsigned, Waits
  <2>2. CASE u # t
    BY <1>2, <1>3, <2>2 DEF ListsInv, WaitingIsUnmarked, Unsigned, Lodged
  <2> QED BY <2>1, <2>2
<1>9. DecidedIsMarked'
  <2> SUFFICES ASSUME NEW l \in register', l.op \in {"pass", "reject"}, papers'[l.paper].kind = "query"
               PROVE  \E n \in DOMAIN papers'[l.paper].nodes : l.who \in papers'[l.paper].nodes[n].operator
    BY DEF DecidedIsMarked, ActedByMe
  <2>1. CASE l \in register
    <3>1. l.paper \in Lodged /\ l.who \in Staff
      BY <2>1 DEF ListsInv, NotedIsLodged, ListsTypeOK
    <3>2. CASE l.paper = t
      <4>1. ActedByMe(l.who, t)
        BY <1>2, <2>1, <3>1, <3>2 DEF ListsInv, DecidedIsMarked
      <4> QED BY <1>2, <3>1, <3>2, <4>1 DEF Marked
    <3>3. CASE l.paper # t
      <4>1. papers'[l.paper] = papers[l.paper]
        BY <1>2, <3>1, <3>3 DEF Lodged
      <4> QED BY <2>1, <4>1 DEF ListsInv, DecidedIsMarked, ActedByMe
    <3> QED BY <3>2, <3>3
  <2>2. CASE l = note /\ register' = register \cup {note} /\ l \notin register
    <3>1. Noted(t, p, op)
      BY <2>2 DEF Noted, note
    <3> QED BY <1>2, <1>4, <2>2, <3>1 DEF Marked
  <2> QED BY <1>1, <2>1, <2>2
<1> QED BY <1>5, <1>6, <1>7, <1>8, <1>9 DEF ListsInv
LEMMA FileKeeps ==
    ASSUME ListsInv, NEW t \in Papers, NEW by \in Staff, NEW k \in {"sql", "archive", "query"},
           NEW c \in Chains, File(t, by, k, c)
    PROVE  ListsInv'
<1> DEFINE nodes == [n \in DOMAIN c |-> [type |-> c[n], status |-> "pending", operator |-> {}]]
           m == [by |-> by, kind |-> k, status |-> "pending", nodes |-> nodes,
                 job |-> IF k = "archive" THEN "pending" ELSE "none"]
<1>1. papers' = [papers EXCEPT ![t] = m] /\ UNCHANGED <<powers, register, promotions>> /\ t \notin Lodged
  BY DEF File, Lodged
<1>2. nodes \in Seq(NodeRecords)
  <2>1. c \in Seq(STRING)
    BY ListsAssumption
  <2>2. DOMAIN c = 1..Len(c) /\ Len(c) \in Nat /\ \A n \in DOMAIN c : c[n] \in STRING
    BY <2>1
  <2>3. \A n \in DOMAIN c : nodes[n] \in NodeRecords
    BY <2>2 DEF NodeRecords, NodeStatuses
  <2>4. nodes \in [1..Len(c) -> NodeRecords]
    BY <2>2, <2>3
  <2> HIDE DEF nodes, NodeRecords
  <2> QED BY <2>2, <2>4
<1>3. \A n \in Waits(m) : m.nodes[n].operator = {}
  BY DEF Waits
<1>4. m.nodes = nodes /\ m.status = "pending" /\ m.kind = k
  OBVIOUS
<1>5. m \in PaperRecords
  <2> HIDE DEF nodes
  <2> QED BY <1>2 DEF PaperRecords, NodeRecords
<1> HIDE DEF nodes, m
<1> QED BY <1>1, <1>3, <1>4, <1>5, OnePaper DEF Noted

\* Marking a node changes its status and who is on it.
LEMMA MarkMarks ==
    ASSUME NEW nodes \in Seq(NodeRecords), NEW n \in DOMAIN nodes, NEW status \in NodeStatuses,
           NEW p \in Staff
    PROVE  /\ Mark(nodes, n, status, p) \in Seq(NodeRecords)
           /\ DOMAIN Mark(nodes, n, status, p) = DOMAIN nodes
           /\ Mark(nodes, n, status, p)[n].status = status
           /\ Mark(nodes, n, status, p)[n].operator = {p}
           /\ \A k \in DOMAIN nodes \ {n} : Mark(nodes, n, status, p)[k] = nodes[k]
<1> DEFINE r == [nodes[n] EXCEPT !.status = status, !.operator = {p}]
           marked == [nodes EXCEPT ![n] = r]
<1>1. nodes[n] \in NodeRecords
  <2> HIDE DEF NodeRecords
  <2> QED OBVIOUS
<1>2. r \in NodeRecords /\ r.status = status /\ r.operator = {p}
  BY <1>1 DEF NodeRecords
<1> HIDE DEF r
<1>3. marked \in Seq(NodeRecords)
  <2> HIDE DEF NodeRecords
  <2> QED BY <1>2
<1>4. DOMAIN marked = DOMAIN nodes /\ marked[n] = r /\ \A k \in DOMAIN nodes \ {n} : marked[k] = nodes[k]
  OBVIOUS
<1>5. Mark(nodes, n, status, p) = marked
  BY DEF Mark, r
<1> QED BY <1>2, <1>3, <1>4, <1>5

LEMMA SignPaperKeeps ==
    ASSUME ListsInv, NEW p \in Staff, NEW t \in Papers, SignPaper(p, t)
    PROVE  ListsInv'
<1>1. t \in Lodged /\ Unsigned(t) # {} /\ ListsTypeOK
  BY DEF SignPaper, MaySign, ListsInv
<1> DEFINE n == NodeWaiting(t)
           old == papers[t]
           complete == Unsigned(t) = {n}
           nodes == Mark(old.nodes, n, "passed", p)
           status == IF complete THEN "passed" ELSE "pending"
           job == IF complete /\ old.job = "pending" THEN "approved" ELSE old.job
           m == [old EXCEPT !.nodes = nodes, !.status = status, !.job = job]
<1>2. n \in Waits(old) /\ Unsigned(t) = Waits(old) /\ old \in PaperRecords /\ old.nodes \in Seq(NodeRecords)
  BY <1>1, OneWaits, PaperTypes
<1>3. papers' = [papers EXCEPT ![t] = m] /\ UNCHANGED <<powers, promotions>> /\ Noted(t, p, "pass")
  BY <1>1 DEF SignPaper, Lodged
<1>4. n \in DOMAIN old.nodes /\ old.nodes[n].operator = {} /\ \A k \in Waits(old) : old.nodes[k].operator = {}
  BY <1>1, <1>2 DEF Waits, ListsInv, WaitingIsUnmarked
<1>5. /\ nodes \in Seq(NodeRecords) /\ DOMAIN nodes = DOMAIN old.nodes
      /\ nodes[n].status = "passed" /\ nodes[n].operator = {p}
      /\ \A k \in DOMAIN nodes \ {n} : nodes[k] = old.nodes[k]
  <2>1. "passed" \in NodeStatuses
    BY DEF NodeStatuses
  <2> HIDE DEF n, old
  <2> QED BY <1>2, <1>4, <2>1, MarkMarks
<1>6. m \in PaperRecords /\ m.nodes = nodes /\ m.status = status /\ m.kind = old.kind
  <2>1. status \in {"pending", "passed"} /\ job \in {"approved", old.job}
    OBVIOUS
  <2> HIDE DEF nodes, status, job, old
  <2> QED BY <1>2, <1>5, <2>1 DEF PaperRecords, NodeRecords
<1>7. status = "passed" => Waits(old) = {n}
  BY <1>2
<1> HIDE DEF m, nodes, n, status, complete, job
<1>8. m.status = "passed" => Waits(m) = {}
  BY <1>5, <1>6, <1>7 DEF Waits
<1>9. \A k \in Waits(m) : m.nodes[k].operator = {}
  BY <1>4, <1>5, <1>6 DEF Waits
<1>10. m.kind = old.kind /\ \A q \in Staff : ActedByMe(q, t) => Marked(m, q)
  BY <1>4, <1>5, <1>6 DEF Marked, ActedByMe
<1>11. Marked(m, p)
  BY <1>4, <1>5, <1>6 DEF Marked
<1> QED BY <1>3, <1>6, <1>8, <1>9, <1>10, <1>11, OnePaper

LEMMA RejectPaperKeeps ==
    ASSUME ListsInv, NEW p \in Staff, NEW t \in Papers, RejectPaper(p, t)
    PROVE  ListsInv'
<1>1. t \in Lodged /\ ListsTypeOK /\ (papers[t].kind = "query" => Unsigned(t) # {})
  BY DEF RejectPaper, MayReject, MaySign, ListsInv
<1> DEFINE n == NodeWaiting(t)
           old == papers[t]
           nodes == Mark(old.nodes, n, "rejected", p)
           after == IF old.kind = "query" THEN nodes ELSE old.nodes
           m == [old EXCEPT !.status = "rejected", !.nodes = after]
<1>2. Unsigned(t) = Waits(old) /\ old \in PaperRecords /\ old.nodes \in Seq(NodeRecords)
  BY <1>1, PaperTypes
<1>3. papers' = [papers EXCEPT ![t] = m] /\ UNCHANGED <<powers, promotions>> /\ Noted(t, p, "reject")
  BY <1>1 DEF RejectPaper, Lodged
<1>4. \A k \in Waits(old) : old.nodes[k].operator = {}
  BY <1>1, <1>2 DEF ListsInv, WaitingIsUnmarked
<1>5. ASSUME old.kind = "query"
      PROVE  /\ n \in DOMAIN old.nodes /\ old.nodes[n].operator = {}
             /\ nodes \in Seq(NodeRecords) /\ DOMAIN nodes = DOMAIN old.nodes
             /\ nodes[n].status = "rejected" /\ nodes[n].operator = {p}
             /\ \A k \in DOMAIN nodes \ {n} : nodes[k] = old.nodes[k]
  <2>1. "rejected" \in NodeStatuses
    BY DEF NodeStatuses
  <2>2. n \in Waits(old)
    BY <1>1, <1>2, <1>5, OneWaits
  <2>3. n \in DOMAIN old.nodes /\ old.nodes[n].operator = {}
    BY <2>2, <1>4 DEF Waits
  <2> HIDE DEF n, old
  <2> QED BY <1>2, <2>1, <2>3, MarkMarks
<1>6. m \in PaperRecords /\ m.nodes = after /\ m.status = "rejected" /\ m.kind = old.kind
  <2>1. after \in Seq(NodeRecords)
    BY <1>2, <1>5
  <2> HIDE DEF after, old
  <2> QED BY <1>2, <2>1 DEF PaperRecords, NodeRecords
<1>7. after = IF old.kind = "query" THEN nodes ELSE old.nodes
  OBVIOUS
<1> HIDE DEF m, nodes, n, after
<1>8. \A k \in Waits(m) : m.nodes[k].operator = {}
  BY <1>4, <1>5, <1>6, <1>7 DEF Waits
<1>9. \A q \in Staff : ActedByMe(q, t) => Marked(m, q)
  BY <1>5, <1>6, <1>7 DEF Marked, ActedByMe
<1>10. m.kind = "query" => Marked(m, p)
  BY <1>5, <1>6, <1>7 DEF Marked
<1> QED BY <1>3, <1>6, <1>8, <1>9, <1>10, OnePaper

LEMMA CancelPaperKeeps ==
    ASSUME ListsInv, NEW p \in Staff, NEW t \in Papers, CancelPaper(p, t)
    PROVE  ListsInv'
<1>1. t \in Lodged /\ ListsTypeOK /\ ~Operated(t)
  BY DEF CancelPaper, CanCancel, ListsInv
<1> DEFINE old == papers[t]
           nodes == [n \in DOMAIN old.nodes |-> [old.nodes[n] EXCEPT !.status = "canceled", !.operator = {p}]]
           job == IF old.kind = "archive" THEN "canceled" ELSE old.job
           m == [old EXCEPT !.status = "canceled", !.nodes = nodes, !.job = job]
<1>2. /\ old \in PaperRecords /\ old.nodes \in Seq(NodeRecords)
      /\ \A n \in DOMAIN old.nodes : old.nodes[n] \in NodeRecords
  BY <1>1, PaperTypes
<1>3. papers' = [papers EXCEPT ![t] = m] /\ UNCHANGED <<powers, promotions>> /\ Noted(t, p, "cancel")
  BY <1>1 DEF CancelPaper, Lodged
<1>4. \A n \in DOMAIN old.nodes : old.nodes[n].operator = {}
  BY <1>1 DEF ListsInv, WaitingIsUnmarked, Operated, Unsigned
<1>5. /\ nodes \in Seq(NodeRecords) /\ DOMAIN nodes = DOMAIN old.nodes
      /\ \A n \in DOMAIN nodes : nodes[n].status = "canceled"
  <2>1. \A n \in DOMAIN old.nodes : nodes[n] \in NodeRecords /\ nodes[n].status = "canceled"
    BY <1>2 DEF NodeRecords, NodeStatuses
  <2>2. nodes \in [DOMAIN old.nodes -> NodeRecords]
    BY <2>1
  <2> HIDE DEF nodes, old
  <2> QED BY <1>2, <2>1, <2>2, NodesAreSequence
<1>6. m \in PaperRecords /\ m.nodes = nodes /\ m.status = "canceled" /\ m.kind = old.kind
  <2>1. job \in {"canceled", old.job}
    OBVIOUS
  <2> HIDE DEF nodes, job, old
  <2> QED BY <1>2, <1>5, <2>1 DEF PaperRecords, NodeRecords
<1> HIDE DEF m, nodes, job
<1>7. Waits(m) = {}
  BY <1>5, <1>6 DEF Waits
<1>8. \A q \in Staff : ~ActedByMe(q, t)
  BY <1>4 DEF ActedByMe
<1> QED BY <1>3, <1>6, <1>7, <1>8, OnePaper

\* A step that leaves the nodes of a paper alone.
LEMMA NodesStand ==
    ASSUME ListsInv, NEW t \in Lodged, NEW p \in Staff, UNCHANGED <<powers, promotions>>,
           NEW status \in {papers[t].status, "executed", "canceled"},
           NEW job \in {"none", "pending", "approved", "queued", "paused", "canceled", "success", "failed"},
           papers' = [papers EXCEPT ![t].status = status, ![t].job = job],
           register' = register \/ Noted(t, p, "execute")
    PROVE  ListsInv'
<1> DEFINE old == papers[t]
           m == [old EXCEPT !.status = status, !.job = job]
<1>1. /\ old \in PaperRecords /\ t \in Papers /\ Unsigned(t) = Waits(old)
      /\ \A n \in Waits(old) : old.nodes[n].operator = {}
      /\ old.status = "passed" => Waits(old) = {}
  BY PaperTypes DEF ListsInv, WaitingIsUnmarked, PassedIsSigned
<1>2. papers' = [papers EXCEPT ![t] = m]
  BY <1>1 DEF ListsInv, ListsTypeOK
<1>3. m \in PaperRecords /\ m.nodes = old.nodes /\ m.status = status /\ m.kind = old.kind
  <2> HIDE DEF old
  <2>1. status \in {old.status, "executed", "canceled"}
    BY DEF old
  <2> QED BY <1>1, <2>1 DEF PaperRecords
<1> HIDE DEF m
<1>4. Waits(m) = Waits(old) /\ \A q \in Staff : ActedByMe(q, t) => Marked(m, q)
  BY <1>3 DEF Waits, Marked, ActedByMe
<1>5. m.status = "passed" => Waits(m) = {}
  BY <1>1, <1>3, <1>4
<1>6. \A n \in Waits(m) : m.nodes[n].operator = {}
  BY <1>1, <1>3, <1>4
<1> QED BY <1>1, <1>2, <1>3, <1>4, <1>5, <1>6, OnePaper

LEMMA RunPaperKeeps ==
    ASSUME ListsInv, NEW p \in Staff, NEW t \in Papers, RunPaper(p, t)
    PROVE  ListsInv'
<1>1. t \in Lodged /\ papers[t] \in PaperRecords
  BY PaperTypes DEF RunPaper, ListsInv
<1>2. papers' = [papers EXCEPT ![t].status = "executed", ![t].job = papers[t].job]
  BY <1>1 DEF RunPaper, PaperRecords, ListsInv, ListsTypeOK
<1>3. UNCHANGED <<powers, promotions>> /\ Noted(t, p, "execute")
  BY DEF RunPaper
<1>4. papers[t].job \in {"none", "pending", "approved", "queued", "paused", "canceled", "success", "failed"}
  BY <1>1 DEF PaperRecords
<1> QED BY <1>1, <1>2, <1>3, <1>4, NodesStand

LEMMA MoveJobKeeps ==
    ASSUME ListsInv, NEW p \in Staff, NEW t \in Papers,
           NEW to \in {"queued", "paused", "canceled", "success", "failed"}, MoveJob(p, t, to)
    PROVE  ListsInv'
<1>1. t \in Lodged /\ papers[t] \in PaperRecords
  BY PaperTypes DEF MoveJob, OfKind, ListsInv
<1>2. PICK status \in TicketsAfter(to, papers[t].status) :
         papers' = [papers EXCEPT ![t].job = to, ![t].status = status]
  BY DEF MoveJob
<1>3. status \in {papers[t].status, "executed", "canceled"}
  BY <1>2 DEF TicketsAfter
<1>4. papers' = [papers EXCEPT ![t].status = status, ![t].job = to]
  BY <1>1, <1>2 DEF PaperRecords, ListsInv, ListsTypeOK
<1>5. UNCHANGED <<powers, register, promotions>>
  BY DEF MoveJob
<1> QED BY <1>1, <1>3, <1>4, <1>5, NodesStand

LEMMA PapersStand ==
    ASSUME ListsInv, UNCHANGED <<papers, register>>, ListsTypeOK'
    PROVE  ListsInv'
BY DEF ListsInv, PassedIsSigned, WaitingIsUnmarked, NotedIsLodged, DecidedIsMarked, Lodged, Unsigned,
       ActedByMe

\* What is noted of tickets is marked on them, for any people, powers and chains.
THEOREM ListsInvariant == ListsSpec => []ListsInv
<1>1. ListsInit => ListsInv
  BY ListsAssumption DEF ListsInit, ListsInv, ListsTypeOK, PassedIsSigned, WaitingIsUnmarked, NotedIsLodged,
     DecidedIsMarked, Lodged
<1>2. ListsInv /\ [ListsNext]_lists_vars => ListsInv'
  <2> SUFFICES ASSUME ListsInv, [ListsNext]_lists_vars PROVE ListsInv'
    OBVIOUS
  <2>1. ASSUME NEW p \in Staff, NEW rank \in Ranks, Promote(p, rank) PROVE ListsInv'
    <3>1. ListsTypeOK'
      BY <2>1, ListsAssumption DEF Promote, ListsInv, ListsTypeOK
    <3> QED BY <2>1, <3>1, PapersStand DEF Promote
  <2>2. CASE UNCHANGED lists_vars
    <3>1. ListsTypeOK'
      BY <2>2 DEF lists_vars, ListsInv, ListsTypeOK
    <3> QED BY <2>2, <3>1, PapersStand DEF lists_vars
  <2> QED BY <2>1, <2>2, FileKeeps, SignPaperKeeps, RejectPaperKeeps, CancelPaperKeeps, RunPaperKeeps,
             MoveJobKeeps DEF ListsNext
<1> QED BY <1>1, <1>2, PTL DEF ListsSpec

LEMMA SqlListsHold == ASSUME ListsInv PROVE SqlListsAgree
<1> SUFFICES ASSUME NEW p \in Staff, NEW t \in OfKind("sql")
             PROVE  /\ MaySign(p, t) <=> t \in PendingIds(p)
                    /\ Detail(p, t).can_audit <=> MaySign(p, t)
                    /\ t \in Decided(p) => t \in ListView(p, "audit")
                    /\ Detail(p, t).can_execute => t \in ListView(p, "execute")
                    /\ Detail(p, t).can_cancel => t \in ListView(p, "mine") \/ Super(p)
  BY DEF SqlListsAgree
<1>1. t \in Lodged /\ papers[t].kind = "sql" /\ (papers[t].status = "passed" => Unsigned(t) = {})
  BY DEF OfKind, ListsInv, PassedIsSigned
<1>2. MaySign(p, t) <=> t \in PendingIds(p)
  BY <1>1 DEF MaySign, PendingIds, OfKind
<1>3. Detail(p, t).can_audit <=> MaySign(p, t)
  BY <1>1 DEF Detail, AuditButton, MaySign, PermissionHandedOn, RequiredPermission
<1>4. t \in Decided(p) => t \in ListView(p, "audit")
  BY <1>1 DEF Decided, ListView, AuditView, AuditedIds
<1>5. Detail(p, t).can_execute => t \in ListView(p, "execute")
  BY <1>1 DEF Detail, ListView, ExecuteView, RecordStatuses
<1>6. Detail(p, t).can_cancel => t \in ListView(p, "mine") \/ Super(p)
  BY <1>1 DEF Detail, CanCancel, ListView, MineView
<1> QED BY <1>2, <1>3, <1>4, <1>5, <1>6

LEMMA ArchiveListsHold == ASSUME ListsInv PROVE ArchiveListsAgree
<1> SUFFICES ASSUME NEW p \in Staff, NEW t \in OfKind("archive")
             PROVE  /\ MaySign(p, t) <=> t \in PendingIds(p)
                    /\ t \in ListedJobs(p) <=> CanViewJob(p, t)
                    /\ MaySign(p, t) \/ t \in Decided(p) => CanViewJob(p, t)
                    /\ LET b == JobButtons(p, t)
                       IN  b.can_execute \/ b.can_control \/ b.can_cancel => CanViewJob(p, t)
  BY DEF ArchiveListsAgree
<1>1. t \in Lodged /\ papers[t].kind = "archive" /\ (papers[t].status = "passed" => Unsigned(t) = {})
  BY DEF OfKind, ListsInv, PassedIsSigned
<1>2. MaySign(p, t) <=> t \in PendingIds(p)
  BY <1>1 DEF MaySign, PendingIds, OfKind
<1>3. t \in ListedJobs(p) <=> CanViewJob(p, t)
  BY DEF ListedJobs, CanViewJob
<1>4. t \in Decided(p) => t \in AuditedIds(p)
  BY <1>1 DEF Decided, AuditedIds
<1>5. MaySign(p, t) \/ t \in Decided(p) => CanViewJob(p, t)
  BY <1>2, <1>4 DEF CanViewJob, AuditView
<1>6. CanCancel(p, t) \/ InExecuteScope(p) => CanViewJob(p, t)
  BY DEF CanCancel, InExecuteScope, CanViewJob, SeesEveryJob, Holds
<1>7. LET b == JobButtons(p, t)
      IN  b.can_execute \/ b.can_control \/ b.can_cancel => CanCancel(p, t) \/ InExecuteScope(p)
  BY DEF JobButtons, CanExecuteJob, CanControlJob
<1> QED BY <1>2, <1>3, <1>5, <1>6, <1>7

LEMMA ApplicationListsHold == ASSUME ListsInv PROVE ApplicationListsAgree
<1> SUFFICES ASSUME NEW p \in Staff, NEW t \in OfKind("query")
             PROVE  /\ MaySign(p, t) => t \in AuditRecords(p)
                    /\ MaySign(p, t) <=> ApplicationItem(p, t, CanAuditIds(p)).can_audit
                    /\ ApplicationItem(p, t, {}).can_cancel => t \in MyApplications(p) \/ Super(p)
                    /\ t \in Decided(p) => t \in AuditRecords(p)
  BY DEF ApplicationListsAgree
<1>1. papers[t].kind = "query"
  BY DEF OfKind
<1>2. MaySign(p, t) <=> t \in CanAuditIds(p)
  BY <1>1 DEF MaySign, CanAuditIds
<1>3. t \in Decided(p) => ActedByMe(p, t)
  BY <1>1 DEF Decided, ListsInv, DecidedIsMarked
<1>4. ApplicationItem(p, t, {}).can_cancel => t \in MyApplications(p) \/ Super(p)
  BY DEF ApplicationItem, CanCancel, MyApplications
<1> QED BY <1>2, <1>3, <1>4 DEF AuditRecords, ApplicationItem

\* Lists and buttons are true to the operations behind them (audit.py 163-286, 402-456,
\* archive.py 609-809, query_priv.py 905-1110), for any people, powers, chains and tickets.
THEOREM ListsCorrect == ListsSpec => []ListsAgree
<1>1. ListsInv => ListsAgree
  BY SqlListsHold, ArchiveListsHold, ApplicationListsHold DEF ListsAgree, ListsInv
<1> QED BY <1>1, ListsInvariant, PTL
----------------------------------------------------------------------------
\* Columns that rules may hide, the steps of a request, what it may hold.
AllHidden == {Sets!Min(Matches(x)) : x \in Rules}
Steps == {"new", "check", "database", "limit", "ask", "mask", "log", "refuse", "done"}
AskingRecords ==
    [step : Steps, refs : SUBSET Refs, want : Nat, slice : Nat, linked : BOOLEAN, limit : Nat, rows : Nat,
     affected : Nat, masked : SUBSET AllHidden, answer : {"none", "rows", "refusal"},
     found : [QueryTables -> SUBSET Schemas], backed : SUBSET Nat, steady : BOOLEAN, kept : SUBSET Rules,
     unlogged : BOOLEAN]
AccessTypeOK ==
    /\ dialect \in {"mysql", "pgsql"} /\ places \in [QueryTables -> SUBSET Schemas]
    /\ shared \in BOOLEAN /\ grants \in Seq(Privileges)
    /\ rules \in [Rules -> BOOLEAN]
    /\ asking \in [Askers -> AskingRecords]
    /\ log \in [Askers -> Seq([ok : BOOLEAN, rows : Nat, masking : BOOLEAN])]
    /\ \A r \in Askers : asking[r].backed \subseteq DOMAIN grants

\* The privilege g limits what a statement about these tables is answered.
LimitsRef(g, x, found) ==
    LET d == IF dialect = "pgsql" THEN Chosen ELSE x.schema
        names == IF dialect = "pgsql" THEN Candidates(Only(Where(x, found)), x.table) ELSE {Bare(x.table)}
    IN  \/ g.scope = "instance"
        \/ g.scope = "database" /\ g.db = d
        \/ g.scope = "table" /\ g.db = d /\ g.name \in names
LimitsStatement(g, refs, found) ==
    IF refs = {} THEN g.scope = "instance" \/ (g.scope = "database" /\ g.db = Chosen)
    ELSE \E x \in refs : LimitsRef(g, x, found)
Limited(r) == LimitKnown(r) /\ ~Bypasses(standing, asking[r].linked)

\* Who was let pass has a privilege that limits the answer; the limit and the rows keep to one.
PassesByPrivilege(r) ==
    /\ asking[r].step \in {"database", "limit"} /\ Limited(r) =>
         \E g \in asking[r].backed : LimitsStatement(grants[g], asking[r].refs, asking[r].found)
    /\ asking[r].step \in {"check", "database", "limit"} => asking[r].want > 0
KeepsToPrivilege(r) ==
    /\ asking[r].step = "ask" /\ asking[r].steady /\ Limited(r) =>
         asking[r].limit > 0 /\ \E g \in asking[r].backed : asking[r].limit <= grants[g].limit
    /\ asking[r].step \in {"mask", "log"} /\ asking[r].steady /\ Limited(r) =>
         \E g \in asking[r].backed : asking[r].rows <= grants[g].limit
\* Rules in force throughout are in force, and then applied.
KeepsRules(r) ==
    /\ asking[r].step \in {"check", "database", "limit", "ask", "mask"} => \A x \in asking[r].kept : rules[x]
    /\ asking[r].step = "log" =>
         /\ asking[r].rows > 0 => Hidden(asking[r].kept) \subseteq asking[r].masked
         /\ asking[r].affected = asking[r].rows
LoggedOnce(r) ==
    /\ asking[r].step # "done" => log[r] = <<>>
    /\ asking[r].step \notin {"mask", "log", "done"} => asking[r].rows = 0
    /\ asking[r].step = "done" =>
        /\ asking[r].answer = "rows" /\ asking[r].rows > 0 => Hidden(asking[r].kept) \subseteq asking[r].masked
        /\ Len(log[r]) = IF asking[r].unlogged THEN 0 ELSE 1
        /\ \A l \in DOMAIN log[r] :
             log[r][l].ok = (asking[r].answer = "rows") /\ log[r][l].rows = asking[r].rows
AccessInv ==
    /\ AccessTypeOK
    /\ \A r \in Askers : PassesByPrivilege(r) /\ KeepsToPrivilege(r) /\ KeepsRules(r) /\ LoggedOnce(r)
----------------------------------------------------------------------------
\* Numbers have a smallest one, bounded ones a greatest.
LEMMA MinIsLeast ==
    ASSUME NEW S \in SUBSET Nat, S # {}
    PROVE  Sets!Min(S) \in S /\ \A n \in S : Sets!Min(S) <= n
<1>1. IsWellFoundedOn(OpToRel(<, Nat), Nat)
  BY NatLessThanWellFounded, Zenon
<1>2. PICK m \in S : \A n \in S : ~(<<n, m>> \in OpToRel(<, Nat))
  BY <1>1, WFMin, Zenon
<1>3. \A n \in S : ~(n < m)
  BY <1>2, Zenon DEF OpToRel
<1>4. \E x \in S : \A y \in S : x <= y
  BY <1>3
<1> QED BY <1>4 DEF Sets!Min

LEMMA MaxIsIn ==
    ASSUME NEW b \in Nat, NEW S \in SUBSET (1..b), S # {}
    PROVE  Sets!Max(S) \in S
<1> DEFINE T == {b - n : n \in S}
<1>0. \A n \in S : n \in Int /\ b - n \in Nat
  OBVIOUS
<1>1. T \in SUBSET Nat /\ T # {}
  BY <1>0
<1>2. PICK m \in T : \A n \in T : m <= n
  BY <1>1, MinIsLeast, Zenon
<1>3. PICK x \in S : m = b - x
  OBVIOUS
<1>4. \A y \in S : x >= y
  <2> SUFFICES ASSUME NEW y \in S PROVE x >= y
    OBVIOUS
  <2>1. b - x <= b - y
    BY <1>2, <1>3, Zenon
  <2>2. x \in Int /\ y \in Int /\ b \in Int
    BY <1>0
  <2> HIDE DEF T
  <2> QED BY <2>1, <2>2
<1>5. \E z \in S : \A y \in S : z >= y
  BY <1>4
<1> QED BY <1>5 DEF Sets!Max

LEMMA InForceIn ==
    ASSUME AccessTypeOK
    PROVE  /\ InForce \subseteq 1..Len(grants) /\ Len(grants) \in Nat /\ DOMAIN grants = 1..Len(grants)
           /\ \A g \in InForce : grants[g] \in Privileges /\ grants[g].limit \in Nat \ {0}
<1> DEFINE P == Privileges
<1>1. grants \in Seq(P)
  BY DEF AccessTypeOK
<1>2. \A g \in DOMAIN grants : grants[g] \in P
  <2> HIDE DEF P
  <2> QED BY <1>1
<1>3. \A p \in P : p.limit \in Nat \ {0}
  BY DEF Privileges
<1>4. DOMAIN grants = 1..Len(grants) /\ Len(grants) \in Nat
  <2> HIDE DEF P
  <2> QED BY <1>1
<1>5. InForce \subseteq DOMAIN grants
  BY DEF InForce
<1> HIDE DEF P
<1> QED BY <1>2, <1>3, <1>4, <1>5 DEF P

\* The newest of some privileges in force is one of them.
LEMMA NewestIsOne ==
    ASSUME AccessTypeOK, NEW G \in SUBSET InForce
    PROVE  /\ Newest(G) = {} <=> G = {}
           /\ \A n \in Newest(G) : \E g \in InForce : n = grants[g].limit
<1>1. CASE G = {}
  BY <1>1 DEF Newest
<1>2. CASE G # {}
  <2>1. Sets!Max(G) \in G
    BY <1>2, InForceIn, MaxIsIn
  <2> QED BY <1>2, <2>1 DEF Newest
<1> QED BY <1>1, <1>2

\* Limits are those of privileges in force, and one that limits leaves some.
LEMMA LimitsAreOfPrivileges ==
    ASSUME AccessTypeOK, NEW x, NEW found
    PROVE  /\ \A n \in LimitsOf(x, found) : \E g \in InForce : n = grants[g].limit
           /\ ~(dialect = "pgsql" /\ Ambiguous(Where(x, found))) =>
                \A g \in InForce : LimitsRef(grants[g], x, found) => LimitsOf(x, found) # {}
<1> DEFINE d == IF dialect = "pgsql" THEN Chosen ELSE x.schema
           names == IF dialect = "pgsql" THEN Candidates(Only(Where(x, found)), x.table) ELSE {Bare(x.table)}
           A == OfTable(d, names)
           B == OfDatabaseScope(d)
           C == OfScope("instance")
<1>1. A \subseteq InForce /\ B \subseteq InForce /\ C \subseteq InForce
  BY DEF OfTable, OfDatabaseScope, OfScope
<1>2. /\ \A n \in Newest(A) \cup Newest(B) \cup Newest(C) : \E g \in InForce : n = grants[g].limit
      /\ (Newest(A) = {} <=> A = {}) /\ (Newest(B) = {} <=> B = {}) /\ (Newest(C) = {} <=> C = {})
  BY <1>1, NewestIsOne
<1>3. LimitsOf(x, found) = IF dialect = "pgsql" /\ Ambiguous(Where(x, found)) THEN {}
                           ELSE Or(Newest(A), Or(Newest(B), Newest(C)))
  BY DEF LimitsOf
<1>4. \A g \in InForce : LimitsRef(grants[g], x, found) => g \in A \cup B \cup C
  BY DEF LimitsRef, OfTable, OfDatabaseScope, OfScope
<1> HIDE DEF A, B, C
<1> QED BY <1>2, <1>3, <1>4 DEF Or

\* The limit of a statement keeps to a privilege that limits it.
LEMMA LimitKeeps ==
    ASSUME AccessTypeOK, NEW linked, NEW refs, NEW found, NEW want \in Nat \ {0},
           ~Bypasses(standing, linked), NEW g \in InForce, LimitsStatement(grants[g], refs, found),
           \A x \in refs : ~(dialect = "pgsql" /\ Ambiguous(Where(x, found)))
    PROVE  /\ Limit(standing, linked, refs, found, want) > 0
           /\ \E h \in InForce : Limit(standing, linked, refs, found, want) <= grants[h].limit
<1> DEFINE L == IF refs = {} THEN Newest(OfDatabaseScope(Chosen)) \cup Newest(OfScope("instance"))
                ELSE UNION {LimitsOf(x, found) : x \in refs}
           least == Sets!Min({want} \cup L)
<1>1. Limit(standing, linked, refs, found, want) = least
  BY DEF Limit
<1>2. \A n \in L : \E h \in InForce : n = grants[h].limit
  <2>1. CASE refs = {}
    BY <2>1, NewestIsOne DEF OfDatabaseScope, OfScope
  <2>2. CASE refs # {}
    BY <2>2, LimitsAreOfPrivileges
  <2> QED BY <2>1, <2>2
<1>3. L # {}
  <2>1. CASE refs = {}
    <3>1. g \in OfDatabaseScope(Chosen) \/ g \in OfScope("instance")
      BY <2>1 DEF LimitsStatement, OfDatabaseScope, OfScope
    <3>2. Newest(OfDatabaseScope(Chosen)) # {} \/ Newest(OfScope("instance")) # {}
      BY <3>1, NewestIsOne DEF OfDatabaseScope, OfScope
    <3> QED BY <2>1, <3>2
  <2>2. CASE refs # {}
    <3>1. PICK x \in refs : LimitsRef(grants[g], x, found)
      BY <2>2 DEF LimitsStatement
    <3>2. LimitsOf(x, found) # {}
      BY <3>1, LimitsAreOfPrivileges
    <3> QED BY <2>2, <3>2
  <2> QED BY <2>1, <2>2
<1>4. L \subseteq Nat \ {0}
  BY <1>2, InForceIn
<1> HIDE DEF L
<1>5. least \in {want} \cup L /\ \A n \in {want} \cup L : least <= n
  BY <1>4, MinIsLeast
<1>6. least \in Nat \ {0}
  BY <1>4, <1>5
<1> HIDE DEF least
<1>7. PICK n \in L : least <= n
  BY <1>3, <1>5
<1>8. PICK h \in InForce : n = grants[h].limit
  BY <1>2
<1> QED BY <1>1, <1>6, <1>7, <1>8

\* Who is admitted by privileges has one that limits the statement, if its tables
\* are of the chosen database and found once.
LEMMA AdmittedIsLimited ==
    ASSUME NEW linked, NEW refs, NEW found, Admitted(standing, linked, refs, found),
           ~Bypasses(standing, linked),
           \A x \in refs : IF dialect = "pgsql" THEN ~Ambiguous(Where(x, found)) ELSE x.schema = Chosen
    PROVE  \E g \in InForce : LimitsStatement(grants[g], refs, found)
<1>1. CASE refs = {}
  <2>1. HasDatabase(Chosen)
    BY <1>1 DEF Admitted
  <2> QED BY <1>1, <2>1 DEF HasDatabase, HasInstance, LimitsStatement
<1>2. CASE refs # {}
  <2>1. PICK x \in refs : Covered(x, found)
    BY <1>2 DEF Admitted
  <2>2. \E g \in InForce : LimitsRef(grants[g], x, found)
    <3>1. CASE HasDatabase(Chosen)
      BY <3>1, <2>1 DEF HasDatabase, HasInstance, LimitsRef
    <3>2. CASE ~HasDatabase(Chosen) /\ dialect = "pgsql"
      BY <2>1, <3>2 DEF Covered, HasTable, HasInstance, LimitsRef
    <3>3. CASE ~HasDatabase(Chosen) /\ dialect # "pgsql"
      BY <2>1, <3>3 DEF Covered, HasTable, HasInstance, LimitsRef
    <3> QED BY <3>1, <3>2, <3>3
  <2> QED BY <1>2, <2>2 DEF LimitsStatement
<1> QED BY <1>1, <1>2

\* What the dictionary lists can be queried.
LEMMA ListedHolds == ASSUME AccessTypeOK PROVE ListedIsQueryable
<1> SUFFICES ASSUME standing = "nobody", shared, NEW name \in Dictionary,
                    name.schema = Unqualified \/ dialect = "pgsql"
             PROVE  /\ DictionaryShows(name)
                    /\ ~Ambiguous(Where(name, places)) => Admitted(standing, shared, {Resolve(name)}, places)
  BY DEF ListedIsQueryable
<1>1. Reaches(standing, shared)
  BY DEF Reaches
<1>2. CASE HasDatabase(Chosen)
  BY <1>1, <1>2 DEF DictionaryShows, Admitted, Covered
<1>3. CASE ~HasDatabase(Chosen)
  <2>1. PICK g \in InForce : grants[g].scope = "table" /\ grants[g].db = Chosen /\ name = grants[g].name
    BY <1>3 DEF Dictionary, OfScope
  <2>2. name \in Refs /\ name = [schema |-> name.schema, table |-> name.table]
    BY <2>1, InForceIn DEF Privileges, Refs
  <2>3. \A names : name \in names => HasTable(Chosen, names)
    BY <2>1 DEF HasTable
  <2>4. CASE dialect = "pgsql"
    <3>1. name \in Candidates(name.schema, name.table)
      BY <2>2 DEF Candidates, Bare, Refs
    <3>2. DictionaryShows(name)
      BY <2>3, <2>4, <3>1 DEF DictionaryShows
    <3>3. name \in Candidates(Only(Where(name, places)), name.table)
      <4>1. CASE name.schema = Unqualified
        BY <2>2, <4>1 DEF Candidates, Bare
      <4>2. CASE name.schema # Unqualified
        <5>1. Only({name.schema}) = name.schema
          BY DEF Only
        <5> QED BY <3>1, <4>2, <5>1 DEF Where
      <4> QED BY <4>1, <4>2
    <3>4. Resolve(name) = name
      BY <2>4 DEF Resolve
    <3> QED BY <1>1, <2>3, <2>4, <3>2, <3>3, <3>4 DEF Admitted, Covered
  <2>5. CASE dialect # "pgsql"
    <3>1. name.schema = Unqualified /\ name = Bare(name.table)
      BY <2>2, <2>5 DEF Bare
    <3>2. Resolve(name) = [name EXCEPT !.schema = Chosen]
      BY <2>5, <3>1 DEF Resolve
    <3>3. Resolve(name).schema = Chosen /\ Resolve(name).table = name.table
      BY <2>2, <3>2 DEF Refs
    <3>4. HasTable(Chosen, {Bare(Resolve(name).table)})
      BY <2>3, <3>1, <3>3
    <3>5. HasTable(Resolve(name).schema, {Bare(Resolve(name).table)})
      BY <3>3, <3>4
    <3>6. Covered(Resolve(name), places)
      BY <2>5, <3>5 DEF Covered
    <3> QED BY <1>1, <2>3, <2>5, <3>6 DEF Admitted, DictionaryShows
  <2> QED BY <2>4, <2>5
<1> QED BY <1>2, <1>3
----------------------------------------------------------------------------
\* A request keeps what the invariant asks of it.
Sound(r) == PassesByPrivilege(r) /\ KeepsToPrivilege(r) /\ KeepsRules(r) /\ LoggedOnce(r)
Fields == DOMAIN Fresh

LEMMA RequestFields ==
    /\ Fields = {"step", "refs", "want", "slice", "linked", "limit", "rows", "affected", "masked", "answer",
                 "found", "backed", "steady", "kept", "unlogged"}
    /\ Fresh \in AskingRecords
    /\ \A a \in AskingRecords : DOMAIN a = Fields
BY DEF Fields, Fresh, AskingRecords, Steps

LEMMA RecordIsAsking ==
    ASSUME NEW a, a = [f \in Fields |-> a[f]],
           a.step \in Steps, a.refs \subseteq Refs, a.want \in Nat, a.slice \in Nat, a.linked \in BOOLEAN,
           a.limit \in Nat, a.rows \in Nat, a.affected \in Nat, a.masked \subseteq AllHidden,
           a.answer \in {"none", "rows", "refusal"}, a.found \in [QueryTables -> SUBSET Schemas],
           a.backed \subseteq Nat, a.steady \in BOOLEAN, a.kept \subseteq Rules, a.unlogged \in BOOLEAN
    PROVE  a \in AskingRecords
BY RequestFields DEF AskingRecords

\* A move changes one request, in the fields named.
LEMMA Moved ==
    ASSUME AccessTypeOK, NEW r \in Askers, NEW step, NEW changed, Move(r, step, changed),
           step \in Steps, DOMAIN changed \subseteq Fields \ {"step"}
    PROVE  /\ asking' = [asking EXCEPT ![r] = asking'[r]]
           /\ asking'[r] = [f \in Fields |-> asking'[r][f]]
           /\ asking'[r].step = step
           /\ \A f \in Fields \ {"step"} :
                asking'[r][f] = IF f \in DOMAIN changed THEN changed[f] ELSE asking[r][f]
BY RequestFields DEF Move, Fields, AccessTypeOK

\* What limits a statement stays the same.
LEMMA LimitsStay ==
    ASSUME dialect' = dialect, NEW p, NEW refs, NEW found
    PROVE  LimitsStatement(p, refs, found)' <=> LimitsStatement(p, refs, found)
<1>1. \A x : LimitsRef(p, x, found)' <=> LimitsRef(p, x, found)
  BY DEF LimitsRef, Where, Only, Candidates, Bare
<1> QED BY <1>1 DEF LimitsStatement

\* The other requests stay as they are.
LEMMA OthersStay ==
    ASSUME AccessInv, NEW r \in Askers, asking' = [asking EXCEPT ![r] = asking'[r]],
           log' = [log EXCEPT ![r] = log'[r]],
           asking'[r] \in AskingRecords, log'[r] \in Seq([ok : BOOLEAN, rows : Nat, masking : BOOLEAN]),
           asking'[r].backed \subseteq DOMAIN grants,
           UNCHANGED <<target, platform>>, Sound(r)'
    PROVE  AccessInv'
<1>1. UNCHANGED <<dialect, places, standing, shared, grants, rules>>
  BY DEF target, platform
<1>2. AccessTypeOK'
  BY <1>1 DEF AccessInv, AccessTypeOK
<1>3. \A q \in Askers \ {r} : Sound(q)'
  <2> SUFFICES ASSUME NEW q \in Askers \ {r} PROVE Sound(q)'
    OBVIOUS
  <2>1. asking'[q] = asking[q] /\ log'[q] = log[q]
    BY DEF AccessInv, AccessTypeOK
  <2>2. Sound(q)
    BY DEF AccessInv, Sound
  <2>3. (Limited(q) <=> Limited(q)') /\ Hidden(asking[q].kept) = Hidden(asking[q].kept)'
    BY <1>1, <2>1 DEF Limited, LimitKnown, Bypasses, Everything, Where, Ambiguous, Hidden
  <2>4. PassesByPrivilege(q)'
    <3>1. \A g : LimitsStatement(grants[g], asking[q].refs, asking[q].found) =>
                  LimitsStatement(grants[g], asking[q].refs, asking[q].found)'
      <4> TAKE g
      <4>1. PICK p, refs, found : p = grants[g] /\ refs = asking[q].refs /\ found = asking[q].found
        OBVIOUS
      <4>2. p = grants'[g] /\ refs = asking'[q].refs /\ found = asking'[q].found
        BY <1>1, <2>1, <4>1
      <4>3. LimitsStatement(p, refs, found) <=> LimitsStatement(p, refs, found)'
        BY <1>1, LimitsStay
      <4> QED BY <4>1, <4>2, <4>3
    <3> QED BY <1>1, <2>1, <2>2, <2>3, <3>1 DEF Sound, PassesByPrivilege
  <2>5. KeepsToPrivilege(q)'
    BY <1>1, <2>1, <2>2, <2>3 DEF Sound, KeepsToPrivilege
  <2>6. KeepsRules(q)' /\ LoggedOnce(q)'
    BY <1>1, <2>1, <2>2, <2>3 DEF Sound, KeepsRules, LoggedOnce
  <2> QED BY <2>4, <2>5, <2>6 DEF Sound
<1> QED BY <1>2, <1>3 DEF AccessInv, Sound

LEMMA RefuseKeeps ==
    ASSUME AccessInv, NEW r \in Askers, asking[r].step \notin {"mask", "log", "done"}, Refuse(r)
    PROVE  AccessInv'
<1> DEFINE a == asking[r]
           b == asking'[r]
<1>1. Move(r, "refuse", Unchanged) /\ DOMAIN Unchanged = {} /\ AccessTypeOK /\ a \in AskingRecords
  BY DEF Refuse, Unchanged, AccessInv, AccessTypeOK
<1>2. /\ asking' = [asking EXCEPT ![r] = b] /\ b = [f \in Fields |-> b[f]] /\ b.step = "refuse"
      /\ \A f \in Fields \ {"step"} : b[f] = a[f]
  BY <1>1, Moved DEF Steps
<1>3. b \in AskingRecords /\ b.backed \subseteq DOMAIN grants
  <2>1. a.backed \subseteq DOMAIN grants
    BY DEF AccessInv, AccessTypeOK
  <2> HIDE DEF b
  <2>2. /\ b.refs = a.refs /\ b.want = a.want /\ b.slice = a.slice /\ b.linked = a.linked /\ b.limit = a.limit
        /\ b.rows = a.rows /\ b.affected = a.affected /\ b.masked = a.masked /\ b.answer = a.answer /\ b.found = a.found
        /\ b.backed = a.backed /\ b.steady = a.steady /\ b.kept = a.kept /\ b.unlogged = a.unlogged
    BY <1>2, RequestFields
  <2>3. b.step \in Steps
    BY <1>2 DEF Steps
  <2> QED BY <1>1, <1>2, <2>1, <2>2, <2>3, RecordIsAsking DEF AskingRecords
<1>4. Sound(r)'
  <2>1. log'[r] = <<>>
    BY DEF Refuse, Move, AccessInv, LoggedOnce, At
  <2>2. b.rows = 0
    BY <1>2, RequestFields DEF AccessInv, LoggedOnce
  <2> QED BY <1>2, <2>1, <2>2 DEF Sound, PassesByPrivilege, KeepsToPrivilege, KeepsRules, LoggedOnce
<1>5. UNCHANGED <<target, platform, log>> /\ log[r] \in Seq([ok : BOOLEAN, rows : Nat, masking : BOOLEAN])
  BY DEF Refuse, Move, AccessInv, AccessTypeOK
<1> QED BY <1>2, <1>3, <1>4, <1>5, OthersStay DEF AccessInv, AccessTypeOK

LEMMA AskKeeps ==
    ASSUME AccessInv, NEW r \in Askers, NEW s \in Questions, NEW slice \in 0..1, Ask(r, s, MostRows, slice)
    PROVE  AccessInv'
<1>1. CASE ~(enabled /\ Allowed(s.kind))
  BY <1>1, RefuseKeeps DEF Ask, At
<1>2. CASE enabled /\ Allowed(s.kind)
  <2> DEFINE a == asking[r]
             b == asking'[r]
             named == {Resolve(x) : x \in s.refs}
             changed == [refs |-> named, want |-> MostRows, slice |-> slice, linked |-> shared,
                         kept |-> {x \in Rules : rules[x]}]
  <2>1. Move(r, "check", changed) /\ AccessTypeOK /\ a \in AskingRecords /\ a.step = "new"
    BY <1>2 DEF Ask, At, AccessInv, AccessTypeOK
  <2>2. DOMAIN changed = {"refs", "want", "slice", "linked", "kept"}
    OBVIOUS
  <2>3. /\ asking' = [asking EXCEPT ![r] = b] /\ b = [f \in Fields |-> b[f]] /\ b.step = "check"
        /\ \A f \in Fields \ {"step"} : b[f] = IF f \in DOMAIN changed THEN changed[f] ELSE a[f]
    <3> "check" \in Steps
      BY DEF Steps
    <3> HIDE DEF changed
    <3> QED BY <2>1, <2>2, Moved, RequestFields
  <2>4. /\ b.refs = named /\ b.want = MostRows /\ b.slice = slice /\ b.linked = shared
        /\ b.kept = {x \in Rules : rules[x]}
        /\ \A f \in {"limit", "rows", "affected", "masked", "answer", "found", "backed", "steady", "unlogged"} :
             b[f] = a[f]
    <3> HIDE DEF b
    <3> QED BY <2>2, <2>3, RequestFields
  <2>5. named \subseteq Refs
    BY StatementAssumption, ChosenIsSchema DEF Resolve, Refs
  <2>6. b \in AskingRecords /\ b.backed \subseteq DOMAIN grants
    <3>1. a.backed \subseteq DOMAIN grants /\ shared \in BOOLEAN /\ MostRows \in Nat /\ slice \in Nat
      BY AccessBounds DEF AccessInv, AccessTypeOK
    <3> HIDE DEF b, named
    <3> QED BY <2>1, <2>3, <2>4, <2>5, <3>1, RecordIsAsking DEF AskingRecords, Steps
  <2>7. Sound(r)'
    <3>1. log'[r] = <<>> /\ rules' = rules /\ MostRows > 0
      BY <2>1, AccessBounds DEF Move, platform, AccessInv, LoggedOnce
    <3>2. b.rows = 0
      BY <2>1, <2>4 DEF AccessInv, LoggedOnce
    <3> QED BY <2>3, <2>4, <3>1, <3>2
        DEF Sound, PassesByPrivilege, KeepsToPrivilege, KeepsRules, LoggedOnce
  <2>8. UNCHANGED <<target, platform, log>> /\ log[r] \in Seq([ok : BOOLEAN, rows : Nat, masking : BOOLEAN])
    BY <2>1 DEF Move, AccessTypeOK
  <2> QED BY <2>3, <2>6, <2>7, <2>8, OthersStay DEF AccessInv, AccessTypeOK
<1> QED BY <1>1, <1>2

LEMMA MoveKeeps ==
    ASSUME AccessInv, NEW r \in Askers, NEW step \in Steps, NEW changed, Move(r, step, changed),
           DOMAIN changed \subseteq Fields \ {"step"},
           asking'[r] \in AskingRecords, asking'[r].backed \subseteq DOMAIN grants, Sound(r)'
    PROVE  AccessInv'
<1>1. asking' = [asking EXCEPT ![r] = asking'[r]]
  BY Moved DEF AccessInv
<1>2. UNCHANGED <<target, platform, log>> /\ log[r] \in Seq([ok : BOOLEAN, rows : Nat, masking : BOOLEAN])
  BY DEF Move, AccessInv, AccessTypeOK
<1> QED BY <1>1, <1>2, OthersStay DEF AccessInv, AccessTypeOK

\* The check lets pass who has a privilege that limits.
LEMMA CheckKeeps == ASSUME AccessInv, NEW r \in Askers, Check(r) PROVE AccessInv'
<1> PICK found \in Resolutions :
      IF Admitted(standing, asking[r].linked, asking[r].refs, found)
      THEN Move(r, "database", [found |-> found, backed |-> InForce]) ELSE Refuse(r)
  BY DEF Check
<1>1. CASE Refuse(r)
  BY <1>1, RefuseKeeps DEF Check, At
<1>2. CASE /\ Admitted(standing, asking[r].linked, asking[r].refs, found)
           /\ Move(r, "database", [found |-> found, backed |-> InForce])
  <2> DEFINE a == asking[r]
             b == asking'[r]
             force == InForce
             changed == [found |-> found, backed |-> force]
  <2>1. Move(r, "database", changed) /\ AccessTypeOK /\ a \in AskingRecords /\ a.step = "check" /\ Sound(r)
    BY <1>2 DEF Check, At, AccessInv, AccessTypeOK, Sound
  <2>2. DOMAIN changed = {"found", "backed"} /\ changed.found = found /\ changed.backed = force
    OBVIOUS
  <2>3. /\ b = [f \in Fields |-> b[f]] /\ b.step = "database"
        /\ \A f \in Fields \ {"step"} : b[f] = IF f \in DOMAIN changed THEN changed[f] ELSE a[f]
    <3> "database" \in Steps
      BY DEF Steps
    <3> HIDE DEF changed
    <3> QED BY <2>1, <2>2, Moved, RequestFields
  <2>4. /\ b.found = found /\ b.backed = force
        /\ \A f \in Fields \ {"step", "found", "backed"} : b[f] = a[f]
    <3> HIDE DEF b, changed
    <3> QED BY <2>2, <2>3, RequestFields
  <2>5. found \in [QueryTables -> SUBSET Schemas] /\ force \subseteq DOMAIN grants /\ force \subseteq Nat
    BY <2>1, InForceIn DEF Resolutions, AccessTypeOK
  <2>6. b \in AskingRecords /\ b.backed \subseteq DOMAIN grants
    <3> HIDE DEF b, force, changed
    <3>1. /\ b.refs = a.refs /\ b.want = a.want /\ b.slice = a.slice /\ b.linked = a.linked /\ b.limit = a.limit
          /\ b.rows = a.rows /\ b.affected = a.affected /\ b.masked = a.masked /\ b.answer = a.answer /\ b.steady = a.steady
          /\ b.kept = a.kept /\ b.unlogged = a.unlogged
      BY <2>4, RequestFields
    <3>2. b.step \in Steps
      BY <2>3 DEF Steps
    <3> QED BY <2>1, <2>3, <2>4, <2>5, <3>1, <3>2, RecordIsAsking DEF AskingRecords
  <2>7. UNCHANGED <<dialect, standing, grants, rules, log>>
    BY <2>1 DEF Move, target, platform
  <2>8. PassesByPrivilege(r)'
    <3> SUFFICES ASSUME Limited(r)'
                 PROVE  (\E g \in asking[r].backed :
                            LimitsStatement(grants[g], asking[r].refs, asking[r].found))'
      BY <2>1, <2>3, <2>4, <2>7, RequestFields DEF Sound, PassesByPrivilege
    <3>1. ~Bypasses(standing, a.linked) /\ b.linked = a.linked /\ b.refs = a.refs
      BY <2>4, <2>7, RequestFields DEF Limited, Bypasses, Everything
    <3>2. \A x \in a.refs : IF dialect = "pgsql" THEN ~Ambiguous(Where(x, found)) ELSE x.schema = Chosen
      BY <2>4, <2>7, <3>1 DEF Limited, LimitKnown, Ambiguous, Where
    <3>3. PICK g \in InForce : LimitsStatement(grants[g], a.refs, found)
      BY <1>2, <3>1, <3>2, AdmittedIsLimited
    <3>4. PICK p, refs : p = grants[g] /\ refs = a.refs
      OBVIOUS
    <3>5. LimitsStatement(p, refs, found)'
      BY <2>7, <3>3, <3>4, LimitsStay
    <3>6. g \in b.backed /\ p = grants'[g] /\ refs = b.refs /\ found = b.found
      BY <2>4, <2>7, <3>1, <3>4
    <3> QED BY <3>5, <3>6
  <2>9. Sound(r)'
    BY <2>1, <2>3, <2>4, <2>7, <2>8, RequestFields
    DEF Sound, KeepsToPrivilege, KeepsRules, LoggedOnce
  <2> HIDE DEF changed
  <2> QED BY <2>1, <2>2, <2>6, <2>9, MoveKeeps, RequestFields DEF Steps
<1> QED BY <1>1, <1>2

LEMMA CheckDatabaseKeeps == ASSUME AccessInv, NEW r \in Askers, CheckDatabase(r) PROVE AccessInv'
<1>1. CASE Refuse(r)
  BY <1>1, RefuseKeeps DEF CheckDatabase, At
<1>2. CASE Move(r, "limit", Unchanged)
  <2> DEFINE a == asking[r]
             b == asking'[r]
  <2>1. AccessTypeOK /\ a \in AskingRecords /\ a.step = "database" /\ Sound(r) /\ DOMAIN Unchanged = {}
    BY DEF CheckDatabase, At, AccessInv, AccessTypeOK, Sound, Unchanged
  <2>2. /\ b = [f \in Fields |-> b[f]] /\ b.step = "limit"
        /\ \A f \in Fields \ {"step"} : b[f] = a[f]
    <3> "limit" \in Steps
      BY DEF Steps
    <3> QED BY <1>2, <2>1, Moved
  <2>3. b \in AskingRecords /\ b.backed \subseteq DOMAIN grants
    <3>1. a.backed \subseteq DOMAIN grants
      BY DEF AccessInv, AccessTypeOK
    <3> HIDE DEF b
    <3>2. /\ b.refs = a.refs /\ b.want = a.want /\ b.slice = a.slice /\ b.linked = a.linked /\ b.limit = a.limit
          /\ b.rows = a.rows /\ b.affected = a.affected /\ b.masked = a.masked /\ b.answer = a.answer /\ b.found = a.found
          /\ b.backed = a.backed /\ b.steady = a.steady /\ b.kept = a.kept /\ b.unlogged = a.unlogged
      BY <2>2, RequestFields
    <3>3. b.step \in Steps
      BY <2>2 DEF Steps
    <3> QED BY <2>1, <2>2, <3>1, <3>2, <3>3, RecordIsAsking DEF AskingRecords
  <2>4. UNCHANGED <<dialect, standing, grants, rules, log>>
    BY <1>2 DEF Move, target, platform
  <2>5. PassesByPrivilege(r)'
    <3> SUFFICES ASSUME Limited(r)'
                 PROVE  (\E g \in asking[r].backed :
                            LimitsStatement(grants[g], asking[r].refs, asking[r].found))'
      BY <2>1, <2>2, <2>4, RequestFields DEF Sound, PassesByPrivilege
    <3>1. b.linked = a.linked /\ b.refs = a.refs /\ b.found = a.found /\ b.backed = a.backed
      BY <2>2, RequestFields
    <3>2. Limited(r)
      BY <2>4, <3>1 DEF Limited, LimitKnown, Ambiguous, Where, Bypasses, Everything
    <3>3. PICK g \in a.backed : LimitsStatement(grants[g], a.refs, a.found)
      BY <2>1, <3>2 DEF Sound, PassesByPrivilege
    <3>4. PICK p, refs, found : p = grants[g] /\ refs = a.refs /\ found = a.found
      OBVIOUS
    <3>5. LimitsStatement(p, refs, found)'
      BY <2>4, <3>3, <3>4, LimitsStay
    <3>6. g \in b.backed /\ p = grants'[g] /\ refs = b.refs /\ found = b.found
      BY <2>4, <3>1, <3>4
    <3> QED BY <3>5, <3>6
  <2>6. Sound(r)'
    BY <2>1, <2>2, <2>4, <2>5, RequestFields
    DEF Sound, KeepsToPrivilege, KeepsRules, LoggedOnce
  <2> QED BY <1>2, <2>1, <2>3, <2>6, MoveKeeps, RequestFields DEF Steps
<1> QED BY <1>1, <1>2 DEF CheckDatabase

\* The limit keeps to a privilege that let the request pass.
LEMMA SetLimitKeeps == ASSUME AccessInv, NEW r \in Askers, SetLimit(r) PROVE AccessInv'
<1> DEFINE a == asking[r]
           b == asking'[r]
<1>1. PICK found \in Resolutions :
        Move(r, "ask", [limit |-> Limit(standing, a.linked, a.refs, found, a.want),
                        steady |-> found = a.found /\ InForce = a.backed])
  BY DEF SetLimit
<1> DEFINE limit == Limit(standing, a.linked, a.refs, found, a.want)
           steady == found = a.found /\ InForce = a.backed
           changed == [limit |-> limit, steady |-> steady]
<1>2. Move(r, "ask", changed) /\ AccessTypeOK /\ a \in AskingRecords /\ a.step = "limit" /\ Sound(r)
  BY <1>1 DEF SetLimit, At, AccessInv, AccessTypeOK, Sound
<1>3. DOMAIN changed = {"limit", "steady"} /\ changed.limit = limit /\ changed.steady = steady
  OBVIOUS
<1>4. /\ b = [f \in Fields |-> b[f]] /\ b.step = "ask"
      /\ \A f \in Fields \ {"step"} : b[f] = IF f \in DOMAIN changed THEN changed[f] ELSE a[f]
  <2> "ask" \in Steps
    BY DEF Steps
  <2> HIDE DEF changed
  <2> QED BY <1>2, <1>3, Moved, RequestFields
<1>5. /\ b.limit = limit /\ b.steady = steady
      /\ \A f \in Fields \ {"step", "limit", "steady"} : b[f] = a[f]
  <2> HIDE DEF b, changed, limit, steady
  <2> QED BY <1>3, <1>4, RequestFields
<1>6. a.want \in Nat \ {0}
  BY <1>2 DEF Sound, PassesByPrivilege, AskingRecords
<1>7. limit \in Nat
  <2>1. CASE Bypasses(standing, a.linked)
    BY <1>6, <2>1 DEF Limit
  <2>2. CASE ~Bypasses(standing, a.linked)
    <3> DEFINE L == IF a.refs = {} THEN Newest(OfDatabaseScope(Chosen)) \cup Newest(OfScope("instance"))
                    ELSE UNION {LimitsOf(x, found) : x \in a.refs}
    <3>1. \A n \in L : \E h \in InForce : n = grants[h].limit
      <4>1. CASE a.refs = {}
        BY <1>2, <4>1, NewestIsOne DEF OfDatabaseScope, OfScope
      <4>2. CASE a.refs # {}
        BY <1>2, <4>2, LimitsAreOfPrivileges
      <4> QED BY <4>1, <4>2
    <3>2. {a.want} \cup L \in SUBSET Nat
      <4>1. \A h \in InForce : grants[h].limit \in Nat
        BY <1>2, InForceIn
      <4> HIDE DEF L
      <4> QED BY <1>6, <3>1, <4>1
    <3>3. limit = Sets!Min({a.want} \cup L)
      BY <2>2 DEF Limit
    <3> HIDE DEF L, limit
    <3> QED BY <3>2, <3>3, MinIsLeast
  <2> QED BY <2>1, <2>2
<1>8. b \in AskingRecords /\ b.backed \subseteq DOMAIN grants
  <2>1. a.backed \subseteq DOMAIN grants /\ steady \in BOOLEAN
    BY DEF AccessInv, AccessTypeOK
  <2> HIDE DEF b, limit, steady, changed
  <2>2. /\ b.refs = a.refs /\ b.want = a.want /\ b.slice = a.slice /\ b.linked = a.linked /\ b.rows = a.rows
        /\ b.affected = a.affected /\ b.masked = a.masked /\ b.answer = a.answer /\ b.found = a.found
        /\ b.backed = a.backed /\ b.kept = a.kept /\ b.unlogged = a.unlogged
    BY <1>5, RequestFields
  <2>3. b.step \in Steps /\ b.limit \in Nat /\ b.steady \in BOOLEAN /\ b = [f \in Fields |-> b[f]]
    BY <1>4, <1>5, <1>7, <2>1 DEF Steps
  <2> QED BY <1>2, <2>1, <2>2, <2>3, RecordIsAsking DEF AskingRecords
<1>9. UNCHANGED <<dialect, standing, grants, rules, log>>
  BY <1>2 DEF Move, target, platform
<1>10. KeepsToPrivilege(r)'
  <2> SUFFICES ASSUME steady, Limited(r)'
               PROVE  limit > 0 /\ \E g \in b.backed : limit <= grants[g].limit
    BY <1>4, <1>5, <1>9 DEF KeepsToPrivilege
  <2>1. b.linked = a.linked /\ b.refs = a.refs /\ b.found = a.found /\ b.backed = InForce
    BY <1>5, RequestFields
  <2>2. Limited(r)
    BY <1>9, <2>1 DEF Limited, LimitKnown, Ambiguous, Where, Bypasses, Everything
  <2>3. PICK g \in InForce : LimitsStatement(grants[g], a.refs, found)
    BY <1>2, <2>2 DEF Sound, PassesByPrivilege
  <2>4. /\ ~Bypasses(standing, a.linked)
        /\ \A x \in a.refs : ~(dialect = "pgsql" /\ Ambiguous(Where(x, found)))
    BY <2>2 DEF Limited, LimitKnown
  <2> QED BY <1>2, <1>6, <2>1, <2>3, <2>4, LimitKeeps
<1>11. Sound(r)'
  BY <1>2, <1>4, <1>5, <1>9, <1>10, RequestFields DEF Sound, PassesByPrivilege, KeepsRules, LoggedOnce
<1> HIDE DEF changed
<1> QED BY <1>2, <1>3, <1>8, <1>11, MoveKeeps, RequestFields DEF Steps

LEMMA QueryKeeps == ASSUME AccessInv, NEW r \in Askers, Query(r) PROVE AccessInv'
<1>1. CASE Refuse(r)
  BY <1>1, RefuseKeeps DEF Query, At
<1>2. ASSUME NEW n \in 0..MostRows,
             Move(r, "mask", [rows |-> IF asking[r].limit > 0 THEN Sets!Min({n, asking[r].limit}) ELSE n])
      PROVE  AccessInv'
  <2> DEFINE a == asking[r]
             b == asking'[r]
             rows == IF a.limit > 0 THEN Sets!Min({n, a.limit}) ELSE n
             changed == [rows |-> rows]
  <2>1. Move(r, "mask", changed) /\ AccessTypeOK /\ a \in AskingRecords /\ a.step = "ask" /\ Sound(r)
    BY <1>2 DEF Query, At, AccessInv, AccessTypeOK, Sound
  <2>2. DOMAIN changed = {"rows"} /\ changed.rows = rows
    OBVIOUS
  <2>3. /\ b = [f \in Fields |-> b[f]] /\ b.step = "mask"
        /\ \A f \in Fields \ {"step"} : b[f] = IF f \in DOMAIN changed THEN changed[f] ELSE a[f]
    <3> "mask" \in Steps
      BY DEF Steps
    <3> HIDE DEF changed
    <3> QED BY <2>1, <2>2, Moved, RequestFields
  <2>4. b.rows = rows /\ \A f \in Fields \ {"step", "rows"} : b[f] = a[f]
    <3> HIDE DEF b, changed, rows
    <3> QED BY <2>2, <2>3, RequestFields
  <2>5. n \in Nat /\ a.limit \in Nat
    BY <2>1, AccessBounds DEF AskingRecords
  <2>6. rows \in Nat /\ (a.limit > 0 => rows <= a.limit)
    <3>1. CASE a.limit > 0
      <4>1. {n, a.limit} \in SUBSET Nat /\ {n, a.limit} # {}
        BY <2>5
      <4>2. Sets!Min({n, a.limit}) \in {n, a.limit} /\ \A m \in {n, a.limit} : Sets!Min({n, a.limit}) <= m
        BY <4>1, MinIsLeast
      <4> QED BY <2>5, <3>1, <4>2
    <3>2. CASE ~(a.limit > 0)
      BY <2>5, <3>2
    <3> QED BY <3>1, <3>2
  <2>7. b \in AskingRecords /\ b.backed \subseteq DOMAIN grants
    <3>1. a.backed \subseteq DOMAIN grants
      BY DEF AccessInv, AccessTypeOK
    <3> HIDE DEF b, rows, changed
    <3>2. /\ b.refs = a.refs /\ b.want = a.want /\ b.slice = a.slice /\ b.linked = a.linked
          /\ b.limit = a.limit /\ b.affected = a.affected /\ b.masked = a.masked /\ b.answer = a.answer
          /\ b.found = a.found /\ b.backed = a.backed /\ b.kept = a.kept /\ b.unlogged = a.unlogged
          /\ b.steady = a.steady
      BY <2>4, RequestFields
    <3>3. b.step \in Steps /\ b.rows \in Nat /\ b = [f \in Fields |-> b[f]]
      BY <2>3, <2>4, <2>6 DEF Steps
    <3> QED BY <2>1, <3>1, <3>2, <3>3, RecordIsAsking DEF AskingRecords
  <2>8. UNCHANGED <<dialect, standing, grants, rules, log>>
    BY <2>1 DEF Move, target, platform
  <2>9. KeepsToPrivilege(r)'
    <3> SUFFICES ASSUME b.steady, Limited(r)'
                 PROVE  \E g \in b.backed : b.rows <= grants[g].limit
      BY <2>3, <2>8 DEF KeepsToPrivilege
    <3>1. b.linked = a.linked /\ b.refs = a.refs /\ b.found = a.found /\ b.backed = a.backed /\ b.steady = a.steady
      BY <2>4, RequestFields
    <3>2. Limited(r)
      BY <2>8, <3>1 DEF Limited, LimitKnown, Ambiguous, Where, Bypasses, Everything
    <3>3. a.limit > 0
      BY <2>1, <3>1, <3>2 DEF Sound, KeepsToPrivilege
    <3>4. PICK g \in a.backed : a.limit <= grants[g].limit
      BY <2>1, <3>1, <3>2 DEF Sound, KeepsToPrivilege
    <3>5. grants[g].limit \in Nat
      <4> DEFINE P == Privileges
      <4>1. grants \in Seq(P) /\ g \in DOMAIN grants /\ \A p \in P : p.limit \in Nat
        BY <2>1, <3>4 DEF AccessTypeOK, AccessInv, Privileges
      <4> HIDE DEF P
      <4> QED BY <4>1
    <3>6. b.rows <= a.limit /\ b.rows \in Nat
      BY <2>4, <2>6, <3>3
    <3>7. b.rows <= grants[g].limit
      <4> DEFINE most == grants[g].limit
      <4> HIDE DEF most, a, b
      <4> QED BY <2>5, <3>4, <3>5, <3>6 DEF most
    <3> QED BY <3>1, <3>4, <3>7
  <2>10. Sound(r)'
    BY <2>1, <2>3, <2>4, <2>8, <2>9, RequestFields DEF Sound, PassesByPrivilege, KeepsRules, LoggedOnce
  <2> HIDE DEF changed
  <2> QED BY <2>1, <2>2, <2>7, <2>10, MoveKeeps, RequestFields DEF Steps
<1> QED BY <1>1, <1>2 DEF Query

\* Rules that were in force throughout are among those that are applied.
LEMMA MaskRowsKeeps == ASSUME AccessInv, NEW r \in Askers, MaskRows(r) PROVE AccessInv'
<1> DEFINE a == asking[r]
           b == asking'[r]
           on == {x \in Rules : rules[x]}
           rows == Slice(r)
           masked == IF a.rows = 0 THEN {} ELSE Hidden(on)
           changed == [rows |-> rows, affected |-> rows, masked |-> masked]
<1>1. Move(r, "log", changed) /\ AccessTypeOK /\ a \in AskingRecords /\ a.step = "mask" /\ Sound(r)
  BY DEF MaskRows, Affected, At, AccessInv, AccessTypeOK, Sound
<1>2. /\ DOMAIN changed = {"rows", "affected", "masked"}
      /\ changed.rows = rows /\ changed.affected = rows /\ changed.masked = masked
  OBVIOUS
<1>3. /\ b = [f \in Fields |-> b[f]] /\ b.step = "log"
      /\ \A f \in Fields \ {"step"} : b[f] = IF f \in DOMAIN changed THEN changed[f] ELSE a[f]
  <2> "log" \in Steps
    BY DEF Steps
  <2> HIDE DEF changed
  <2> QED BY <1>1, <1>2, Moved, RequestFields
<1>4. /\ b.rows = rows /\ b.affected = rows /\ b.masked = masked
      /\ \A f \in Fields \ {"step", "rows", "affected", "masked"} : b[f] = a[f]
  <2> HIDE DEF b, changed, rows, masked
  <2> QED BY <1>2, <1>3, RequestFields
<1>5. a.rows \in Nat /\ a.slice \in Nat /\ rows \in Nat /\ rows <= a.rows
  <2>1. a.rows \in Nat /\ a.slice \in Nat
    BY <1>1 DEF AskingRecords
  <2>2. {a.rows, a.slice} \in SUBSET Nat /\ {a.rows, a.slice} # {}
    BY <2>1
  <2>3. Sets!Min({a.rows, a.slice}) \in Nat /\ Sets!Min({a.rows, a.slice}) <= a.rows
    BY <2>2, MinIsLeast
  <2>4. a.rows <= a.rows
    <3> DEFINE n == a.rows
    <3> HIDE DEF n
    <3> QED BY <2>1 DEF n
  <2> QED BY <2>1, <2>3, <2>4 DEF Slice
<1>6. masked \subseteq AllHidden
  BY DEF Hidden, AllHidden
<1>7. b \in AskingRecords /\ b.backed \subseteq DOMAIN grants
  <2>1. a.backed \subseteq DOMAIN grants
    BY DEF AccessInv, AccessTypeOK
  <2> HIDE DEF b, rows, masked, changed
  <2>2. /\ b.refs = a.refs /\ b.want = a.want /\ b.slice = a.slice /\ b.linked = a.linked
        /\ b.limit = a.limit /\ b.answer = a.answer
        /\ b.found = a.found /\ b.backed = a.backed /\ b.kept = a.kept /\ b.unlogged = a.unlogged
        /\ b.steady = a.steady
    BY <1>4, RequestFields
  <2>3. /\ b.step \in Steps /\ b.rows \in Nat /\ b.affected \in Nat /\ b.masked \subseteq AllHidden
        /\ b = [f \in Fields |-> b[f]]
    BY <1>3, <1>4, <1>5, <1>6 DEF Steps
  <2> QED BY <1>1, <2>1, <2>2, <2>3, RecordIsAsking DEF AskingRecords
<1>8. UNCHANGED <<dialect, standing, grants, rules, log>>
  BY <1>1 DEF Move, target, platform
<1>9. KeepsToPrivilege(r)'
  <2> SUFFICES ASSUME b.steady, Limited(r)'
               PROVE  \E g \in b.backed : b.rows <= grants[g].limit
    BY <1>3, <1>8 DEF KeepsToPrivilege
  <2>1. b.linked = a.linked /\ b.refs = a.refs /\ b.found = a.found /\ b.backed = a.backed /\ b.steady = a.steady
    BY <1>4, RequestFields
  <2>2. Limited(r)
    BY <1>8, <2>1 DEF Limited, LimitKnown, Ambiguous, Where, Bypasses, Everything
  <2>3. PICK g \in a.backed : a.rows <= grants[g].limit
    BY <1>1, <2>1, <2>2 DEF Sound, KeepsToPrivilege
  <2>4. grants[g].limit \in Nat
    <3> DEFINE P == Privileges
    <3>1. grants \in Seq(P) /\ g \in DOMAIN grants /\ \A p \in P : p.limit \in Nat
      BY <1>1, <2>3 DEF AccessTypeOK, AccessInv, Privileges
    <3> HIDE DEF P
    <3> QED BY <3>1
  <2>5. rows <= grants[g].limit
    <3> DEFINE most == grants[g].limit
               all == a.rows
    <3> HIDE DEF most, all, rows
    <3> QED BY <1>5, <2>3, <2>4 DEF most, all
  <2> QED BY <1>4, <2>1, <2>3, <2>5
<1>10. KeepsRules(r)'
  <2>1. b.kept \subseteq on
    BY <1>1, <1>4, RequestFields DEF Sound, KeepsRules, AskingRecords
  <2>2. Hidden(b.kept) \subseteq Hidden(on)
    BY <2>1 DEF Hidden
  <2>3. rows > 0 => a.rows # 0
    <3> DEFINE all == a.rows
    <3> HIDE DEF all, rows
    <3> QED BY <1>5 DEF all
  <2>4. Hidden(asking[r].kept)' = Hidden(b.kept)
    BY DEF Hidden
  <2> QED BY <1>3, <1>4, <2>2, <2>3, <2>4 DEF KeepsRules
<1>11. Sound(r)'
  BY <1>1, <1>3, <1>4, <1>8, <1>9, <1>10, RequestFields DEF Sound, PassesByPrivilege, LoggedOnce
<1> HIDE DEF changed
<1> QED BY <1>1, <1>2, <1>7, <1>11, MoveKeeps, RequestFields DEF Steps

\* An answer or a refusal leaves its row, or is marked as not logged.
LEMMA FinishKeeps ==
    ASSUME AccessInv, NEW r \in Askers, NEW answer \in {"rows", "refusal"}, NEW unlogged \in BOOLEAN,
           At(r, IF answer = "rows" THEN "log" ELSE "refuse"),
           Finish(r, answer, unlogged), UNCHANGED <<target, platform>>,
           NEW masking \in BOOLEAN,
           log' = IF unlogged THEN log
                  ELSE [log EXCEPT ![r] = Append(@, [ok |-> (answer = "rows"),
                          rows |-> IF answer = "rows" THEN asking[r].affected ELSE 0, masking |-> masking])]
    PROVE  AccessInv'
<1> DEFINE a == asking[r]
           b == asking'[r]
           Row == [ok : BOOLEAN, rows : Nat, masking : BOOLEAN]
           row == [ok |-> (answer = "rows"), rows |-> IF answer = "rows" THEN a.affected ELSE 0,
                   masking |-> masking]
<1>1. a \in AskingRecords /\ Sound(r) /\ AccessTypeOK
  BY DEF AccessInv, AccessTypeOK, Sound
<1>2. asking' = [asking EXCEPT ![r] = b]
  BY DEF Finish
<1>3. /\ b.step = "done" /\ b.answer = answer /\ b.rows = a.rows /\ b.masked = a.masked /\ b.kept = a.kept
      /\ b.unlogged = unlogged /\ b \in AskingRecords /\ b.backed = {}
  <2>1. b = [Fresh EXCEPT !.step = "done", !.answer = answer, !.rows = a.rows, !.masked = a.masked,
                          !.kept = a.kept, !.unlogged = unlogged]
    BY DEF Finish, AccessInv, AccessTypeOK
  <2> HIDE DEF b
  <2> QED BY <1>1, <2>1 DEF Fresh, AskingRecords, Steps
<1>4. log[r] = <<>> /\ (answer = "rows" => a.affected = a.rows) /\ (answer = "refusal" => a.rows = 0)
  BY <1>1 DEF At, Sound, LoggedOnce, KeepsRules
<1>5. row \in Row /\ row.ok = (answer = "rows") /\ row.rows = a.rows
  BY <1>1, <1>4 DEF AskingRecords
<1>6. log' = [log EXCEPT ![r] = log'[r]] /\ log'[r] = IF unlogged THEN <<>> ELSE <<row>>
  <2>1. log \in [Askers -> Seq(Row)]
    BY DEF AccessInv, AccessTypeOK
  <2>2. log' = IF unlogged THEN log ELSE [log EXCEPT ![r] = Append(log[r], row)]
    OBVIOUS
  <2>3. Append(<<>>, row) = <<row>>
    <3> HIDE DEF row
    <3> QED BY <1>5
  <2> HIDE DEF row, Row
  <2> QED BY <1>4, <2>1, <2>2, <2>3
<1>7. log'[r] \in Seq(Row)
  <2>1. <<row>> \in Seq(Row) /\ <<>> \in Seq(Row)
    <3> HIDE DEF row, Row
    <3> QED BY <1>5
  <2> QED BY <1>6, <2>1
<1>8. Sound(r)'
  <2>1. LoggedOnce(r)'
    <3>1. b.answer = "rows" /\ b.rows > 0 => Hidden(b.kept) \subseteq b.masked
      BY <1>1, <1>3 DEF At, Sound, KeepsRules
    <3>2. Hidden(asking[r].kept)' = Hidden(b.kept)
      BY DEF Hidden
    <3>3. /\ Len(log'[r]) = IF b.unlogged THEN 0 ELSE 1
          /\ \A l \in DOMAIN log'[r] : log'[r][l].ok = (b.answer = "rows") /\ log'[r][l].rows = b.rows
      <4>1. CASE unlogged
        BY <1>3, <1>6, <4>1
      <4>2. CASE ~unlogged
        <5>1. log'[r] = <<row>> /\ b.unlogged = FALSE /\ b.answer = answer /\ b.rows = a.rows
          BY <1>3, <1>6, <4>2
        <5>2. Len(<<row>>) = 1 /\ DOMAIN <<row>> = {1} /\ <<row>>[1] = row
          <6> HIDE DEF row
          <6> QED OBVIOUS
        <5> HIDE DEF row, b
        <5>3. log'[r][1] = row
          BY <5>1, <5>2
        <5> QED BY <1>5, <5>1, <5>2, <5>3
      <4> QED BY <4>1, <4>2
    <3> QED BY <1>3, <3>1, <3>2, <3>3 DEF LoggedOnce
  <2> QED BY <1>3, <2>1 DEF Sound, PassesByPrivilege, KeepsToPrivilege, KeepsRules
<1> QED BY <1>2, <1>3, <1>6, <1>7, <1>8, OthersStay DEF AccessInv, AccessTypeOK

\* Privileges are granted, revoked and expire: what a request noted of them stands.
LEMMA PlatformKeeps ==
    ASSUME AccessInv, AccessTypeOK', UNCHANGED <<dialect, standing, rules, asking, log>>,
           \A g \in DOMAIN grants :
             /\ grants'[g].scope = grants[g].scope /\ grants'[g].db = grants[g].db
             /\ grants'[g].name = grants[g].name /\ grants'[g].limit = grants[g].limit
    PROVE  AccessInv'
<1> SUFFICES ASSUME NEW r \in Askers PROVE Sound(r)'
  BY DEF AccessInv, Sound
<1>1. Sound(r) /\ asking[r].backed \subseteq DOMAIN grants
  BY DEF AccessInv, AccessTypeOK, Sound
<1>2. (Limited(r) <=> Limited(r)') /\ Hidden(asking[r].kept) = Hidden(asking[r].kept)'
  BY DEF Limited, LimitKnown, Bypasses, Everything, Where, Ambiguous, Hidden
<1>3. PassesByPrivilege(r)'
  <2>1. \A g \in DOMAIN grants : LimitsStatement(grants[g], asking[r].refs, asking[r].found) =>
                                 LimitsStatement(grants[g], asking[r].refs, asking[r].found)'
    <3> TAKE g \in DOMAIN grants
    <3>1. PICK p, q, refs, found : p = grants[g] /\ q = grants'[g] /\ refs = asking[r].refs
                                   /\ found = asking[r].found
      OBVIOUS
    <3>2. p.scope = q.scope /\ p.db = q.db /\ p.name = q.name
      BY <3>1
    <3>3. \A x : LimitsRef(p, x, found) => LimitsRef(q, x, found)
      BY <3>2 DEF LimitsRef
    <3>4. LimitsStatement(p, refs, found) => LimitsStatement(q, refs, found)
      BY <3>2, <3>3 DEF LimitsStatement
    <3>5. LimitsStatement(q, refs, found) <=> LimitsStatement(q, refs, found)'
      BY LimitsStay
    <3>6. asking'[r] = asking[r]
      OBVIOUS
    <3> QED BY <3>1, <3>4, <3>5, <3>6
  <2> QED BY <1>1, <1>2, <2>1 DEF Sound, PassesByPrivilege
<1>4. KeepsToPrivilege(r)'
  BY <1>1, <1>2 DEF Sound, KeepsToPrivilege
<1>5. KeepsRules(r)' /\ LoggedOnce(r)'
  BY <1>1, <1>2 DEF Sound, KeepsRules, LoggedOnce
<1> QED BY <1>3, <1>4, <1>5 DEF Sound

\* The records differ in .kept alone.
KeptFields(b, a) ==
    /\ b.step = a.step /\ b.refs = a.refs /\ b.want = a.want /\ b.linked = a.linked /\ b.limit = a.limit
    /\ b.rows = a.rows /\ b.affected = a.affected /\ b.masked = a.masked /\ b.answer = a.answer
    /\ b.found = a.found /\ b.backed = a.backed /\ b.steady = a.steady /\ b.unlogged = a.unlogged

LEMMA ChangeRuleKeeps == ASSUME AccessInv, NEW x \in Rules, ChangeRule(x) PROVE AccessInv'
<1>1. UNCHANGED <<dialect, places, standing, shared, grants, log>> /\ rules' = [rules EXCEPT ![x] = ~@]
  BY DEF ChangeRule, target
<1>2. \A r \in Askers :
        /\ asking[r] \in AskingRecords /\ asking'[r] = [asking[r] EXCEPT !.kept = @ \ {x}]
        /\ asking'[r] \in AskingRecords /\ asking'[r].kept = asking[r].kept \ {x}
        /\ KeptFields(asking'[r], asking[r])
  <2> SUFFICES ASSUME NEW r \in Askers
               PROVE  /\ asking[r] \in AskingRecords /\ asking'[r] = [asking[r] EXCEPT !.kept = @ \ {x}]
                      /\ asking'[r] \in AskingRecords /\ asking'[r].kept = asking[r].kept \ {x}
                      /\ KeptFields(asking'[r], asking[r])
    OBVIOUS
  <2>1. PICK a \in AskingRecords : a = asking[r]
    BY DEF AccessInv, AccessTypeOK
  <2>2. asking'[r] = [a EXCEPT !.kept = @ \ {x}]
    BY <2>1 DEF ChangeRule
  <2>3. a.kept \ {x} \in SUBSET Rules
    BY DEF AskingRecords
  <2>4. [a EXCEPT !.kept = @ \ {x}] \in AskingRecords
    BY <2>3 DEF AskingRecords
  <2>5. KeptFields([a EXCEPT !.kept = @ \ {x}], a)
    BY DEF KeptFields, AskingRecords
  <2> QED BY <2>1, <2>2, <2>4, <2>5
<1>3. AccessTypeOK'
  <2>1. asking' \in [Askers -> AskingRecords]
    BY <1>2 DEF ChangeRule
  <2>2. \A r \in Askers : asking'[r].backed \subseteq DOMAIN grants
    BY <1>2 DEF AccessInv, AccessTypeOK, KeptFields
  <2> QED BY <1>1, <2>1, <2>2 DEF AccessInv, AccessTypeOK
<1>4. \A r \in Askers : Sound(r)'
  <2> SUFFICES ASSUME NEW r \in Askers PROVE Sound(r)'
    OBVIOUS
  <2> DEFINE a == asking[r]
             b == asking'[r]
  <2>1. Sound(r)
    BY DEF AccessInv, Sound
  <2>2. /\ b.step = a.step /\ b.refs = a.refs /\ b.want = a.want /\ b.linked = a.linked /\ b.limit = a.limit
        /\ b.rows = a.rows /\ b.affected = a.affected /\ b.masked = a.masked /\ b.answer = a.answer
        /\ b.found = a.found /\ b.backed = a.backed /\ b.steady = a.steady /\ b.unlogged = a.unlogged
        /\ b.kept = a.kept \ {x}
    BY <1>2 DEF KeptFields
  <2>3. Limited(r)' => Limited(r)
    BY <1>1, <2>2 DEF Limited, LimitKnown, Bypasses, Everything, Where, Ambiguous
  <2>4. PassesByPrivilege(r)'
    <3>1. \A g : LimitsStatement(grants[g], a.refs, a.found) =>
                 LimitsStatement(grants[g], asking[r].refs, asking[r].found)'
      <4> TAKE g
      <4>1. PICK p, refs, found : p = grants[g] /\ refs = a.refs /\ found = a.found
        OBVIOUS
      <4>2. p = grants'[g] /\ refs = b.refs /\ found = b.found
        BY <1>1, <2>2, <4>1
      <4>3. LimitsStatement(p, refs, found) <=> LimitsStatement(p, refs, found)'
        BY <1>1, LimitsStay
      <4> QED BY <4>1, <4>2, <4>3
    <3> QED BY <2>1, <2>2, <2>3, <3>1 DEF Sound, PassesByPrivilege
  <2>5. KeepsToPrivilege(r)'
    BY <1>1, <2>1, <2>2, <2>3 DEF Sound, KeepsToPrivilege
  <2>6. KeepsRules(r)' /\ LoggedOnce(r)'
    <3>1. a.kept \subseteq Rules /\ \A y \in Rules \ {x} : rules'[y] = rules[y]
      BY <1>1, <1>2 DEF AskingRecords, AccessInv, AccessTypeOK
    <3>2. Hidden(asking[r].kept)' \subseteq Hidden(a.kept)
      BY <2>2 DEF Hidden
    <3> QED BY <1>1, <2>1, <2>2, <3>1, <3>2 DEF Sound, KeepsRules, LoggedOnce
  <2> QED BY <2>4, <2>5, <2>6 DEF Sound
<1> QED BY <1>3, <1>4 DEF AccessInv, Sound

LEMMA GrantsKeep ==
    ASSUME AccessInv
    PROVE  /\ \A g \in Offers : GrantAccess(g) => AccessInv'
           /\ \A g \in DOMAIN grants : RevokeAccess(g) => AccessInv'
<1> DEFINE P == Privileges
<1>1. grants \in Seq(P) /\ DOMAIN grants = 1..Len(grants) /\ Len(grants) \in Nat
  <2>1. grants \in Seq(P)
    BY DEF AccessInv, AccessTypeOK
  <2> HIDE DEF P
  <2> QED BY <2>1
<1>2. ASSUME NEW g \in Offers, GrantAccess(g) PROVE AccessInv'
  <2>1. g \in P
    BY PrivilegeAssumption
  <2>2. /\ grants' \in Seq(P) /\ DOMAIN grants \subseteq DOMAIN grants'
        /\ \A h \in DOMAIN grants : grants'[h] = grants[h]
    <3>1. grants' = Append(grants, g)
      BY <1>2 DEF GrantAccess
    <3> HIDE DEF P
    <3> QED BY <1>1, <2>1, <3>1
  <2>3. UNCHANGED <<dialect, places, standing, shared, rules, asking, log>>
    BY <1>2 DEF GrantAccess, target
  <2>4. AccessTypeOK'
    BY <2>2, <2>3 DEF AccessInv, AccessTypeOK
  <2> QED BY <2>2, <2>3, <2>4, PlatformKeeps
<1>3. ASSUME NEW g \in DOMAIN grants, RevokeAccess(g) PROVE AccessInv'
  <2>1. PICK p \in P : p = grants[g]
    <3> HIDE DEF P
    <3> QED BY <1>1
  <2> DEFINE new == [p EXCEPT !.revoked = TRUE]
  <2>2. new \in P /\ new.scope = p.scope /\ new.db = p.db /\ new.name = p.name /\ new.limit = p.limit
    BY DEF Privileges
  <2>3. grants' = [grants EXCEPT ![g] = new]
    BY <1>3, <2>1 DEF RevokeAccess
  <2>4. /\ grants' \in Seq(P) /\ DOMAIN grants' = DOMAIN grants /\ grants'[g] = new
        /\ \A h \in DOMAIN grants \ {g} : grants'[h] = grants[h]
    <3> HIDE DEF P, new
    <3> QED BY <1>1, <2>2, <2>3
  <2>5. UNCHANGED <<dialect, places, standing, shared, rules, asking, log>>
    BY <1>3 DEF RevokeAccess, target
  <2>6. AccessTypeOK'
    BY <2>4, <2>5 DEF AccessInv, AccessTypeOK
  <2>7. \A h \in DOMAIN grants :
          /\ grants'[h].scope = grants[h].scope /\ grants'[h].db = grants[h].db
          /\ grants'[h].name = grants[h].name /\ grants'[h].limit = grants[h].limit
    <3> HIDE DEF new
    <3> QED BY <2>1, <2>2, <2>4
  <2> QED BY <2>5, <2>6, <2>7, PlatformKeeps
<1> QED BY <1>2, <1>3

\* The first privileges, the first requests.
LEMMA AccessStarts == ASSUME AccessInit PROVE AccessInv
<1>1. AccessTypeOK
  <2>1. grants \in Seq(Privileges)
    BY PrivilegeAssumption DEF AccessInit
  <2>2. asking \in [Askers -> AskingRecords] /\ \A r \in Askers : asking[r].backed = {}
    BY RequestFields DEF AccessInit, Fresh
  <2>3. places \in [QueryTables -> SUBSET Schemas]
    BY DEF AccessInit
  <2> QED BY <2>1, <2>2, <2>3 DEF AccessInit, AccessTypeOK
<1>2. \A r \in Askers : Sound(r)
  BY DEF AccessInit, Fresh, Sound, PassesByPrivilege, KeepsToPrivilege, KeepsRules, LoggedOnce
<1> QED BY <1>1, <1>2 DEF AccessInv, Sound

LEMMA AccessStep == ASSUME AccessInv, [AccessNext]_accessVars PROVE AccessInv'
<1>1. ASSUME NEW r \in Askers, NEW s \in Questions, NEW slice \in 0..1, Ask(r, s, MostRows, slice)
      PROVE  AccessInv'
  BY <1>1, AskKeeps
<1>2. ASSUME NEW r \in Askers,
             Check(r) \/ CheckDatabase(r) \/ SetLimit(r) \/ Query(r) \/ MaskRows(r)
      PROVE  AccessInv'
  BY <1>2, CheckKeeps, CheckDatabaseKeeps, SetLimitKeeps, QueryKeeps, MaskRowsKeeps
<1>3. ASSUME NEW r \in Askers, Log(r) PROVE AccessInv'
  BY <1>3, FinishKeeps DEF Log, Reported, At
<1>4. ASSUME NEW r \in Askers, LogFails(r) PROVE AccessInv'
  BY <1>4, FinishKeeps DEF LogFails, At
<1>5. ASSUME NEW r \in Askers, LogRefusal(r) PROVE AccessInv'
  BY <1>5, FinishKeeps DEF LogRefusal, At
<1>6. ASSUME NEW r \in Askers, LogRefusalFails(r) PROVE AccessInv'
  BY <1>6, FinishKeeps DEF LogRefusalFails, At
<1>7. ASSUME \/ \E g \in Offers : GrantAccess(g)
             \/ \E g \in DOMAIN grants : RevokeAccess(g)
             \/ \E x \in Rules : ChangeRule(x)
      PROVE  AccessInv'
  BY <1>7, GrantsKeep, ChangeRuleKeeps
<1>8. ASSUME NextDay \/ ChangeInstance \/ UNCHANGED accessVars PROVE AccessInv'
  <2>1. UNCHANGED <<dialect, places, standing, rules, grants, asking, log>>
    BY <1>8 DEF NextDay, ChangeInstance, target, accessVars
  <2>2. shared' \in BOOLEAN
    BY <1>8 DEF NextDay, ChangeInstance, accessVars, AccessInv, AccessTypeOK
  <2>3. AccessTypeOK'
    BY <2>1, <2>2 DEF AccessInv, AccessTypeOK
  <2> QED BY <2>1, <2>3, PlatformKeeps
<1> QED BY <1>1, <1>2, <1>3, <1>4, <1>5, <1>6, <1>7, <1>8 DEF AccessNext

\* Whoever was let pass has a privilege that limits the answer, the limit and the rows keep to
\* one, rules in force throughout are applied, and an answer leaves its row (query.py 45-219).
THEOREM AccessInvariant == AccessSpec => []AccessInv
<1>1. AccessInit => AccessInv
  BY AccessStarts
<1>2. AccessInv /\ [AccessNext]_accessVars => AccessInv'
  BY AccessStep
<1> QED BY <1>1, <1>2, PTL DEF AccessSpec

(***************************************************************************)
(* A query is answered within one of the privileges that let it pass,      *)
(* masked and logged, and what the dictionary lists can be queried         *)
(* (query_priv.py 386-686, query.py 45-219), for any privileges, tables,   *)
(* rules and requests.                                                     *)
(***************************************************************************)
THEOREM AccessCorrect == AccessSpec => []AnswersAreAllowed
<1>1. AccessInv => AnswersAreAllowed
  <2> SUFFICES ASSUME AccessInv PROVE AnswersAreAllowed
    OBVIOUS
  <2>1. LimitedByPrivilege
    BY DEF LimitedByPrivilege, AccessInv, KeepsToPrivilege, Limited, At
  <2>2. AnsweredAsLogged
    BY DEF AnsweredAsLogged, AccessInv, LoggedOnce, At
  <2>3. ListedIsQueryable
    BY ListedHolds DEF AccessInv
  <2> QED BY <2>1, <2>2, <2>3 DEF AnswersAreAllowed
<1> QED BY <1>1, AccessInvariant, PTL
==============================================================================
