----------------------- MODULE QueryPrivilege_proofs -----------------------
(***************************************************************************)
(* For every set of users, templates and overlapping requests: the tables  *)
(* are well-typed, a privilege is granted only when the whole chain that   *)
(* was applied for is signed, in order, and never beyond the day that was  *)
(* applied for.                                                            *)
(***************************************************************************)
EXTENDS QueryPrivilegeProps, SequenceTheorems, TLAPS

USE UserAssumption, TemplateAssumption, BoundAssumption

\* A request, and a row of query_privilege.
Ops == {"idle", "pass", "reject", "cancel"}
Requests == [op : Ops, user : Users, override : 0..LastDay, chain : Seq(Nodes), day : 1..LastDay]
Privileges == [day : 1..LastDay, chain : Seq(Nodes), revoked : BOOLEAN]

\* A node that is decided is still a node.
LEMMA DecidedType ==
    ASSUME NEW node \in Nodes, NEW verdict \in {"passed", "rejected", "canceled"},
           NEW override \in 0..LastDay
    PROVE  Decided(node, verdict, override) \in Nodes
BY DEF Decided, Nodes

\* A family over the positions of a sequence is a sequence.
LEMMA SameLength ==
    ASSUME NEW S, NEW T, NEW s \in Seq(T), NEW f, f \in [DOMAIN s -> S]
    PROVE  f \in Seq(S)
<1>1. DOMAIN s = 1..Len(s) /\ Len(s) \in Nat
  BY LenProperties
<1>2. f \in [1..Len(s) -> S]
  BY <1>1
<1>3. QED
  BY <1>1, <1>2, SeqDef

\* One chain is another with the verdict on one node.
Decision(before, after, n, verdict) ==
    /\ DOMAIN after = DOMAIN before
    /\ \A m \in DOMAIN before : after[m].approvers = before[m].approvers
    /\ after[n].status = verdict
    /\ \A m \in DOMAIN before : m # n => after[m].status = before[m].status

\* Deciding one node of a chain leaves a chain, and the other nodes alone.
LEMMA DecideOne ==
    ASSUME NEW nodes \in Seq(Nodes), NEW n \in DOMAIN nodes,
           NEW verdict \in {"passed", "rejected", "canceled"}, NEW override \in 0..LastDay
    PROVE  /\ Decide(nodes, n, verdict, override) \in Seq(Nodes)
           /\ Decision(nodes, Decide(nodes, n, verdict, override), n, verdict)
<1> DEFINE node == Decided(nodes[n], verdict, override)
           nodes2 == Decide(nodes, n, verdict, override)
<1>1. nodes[n] \in Nodes
  OBVIOUS
<1>2. node \in Nodes
  BY <1>1, DecidedType
<1>3. node.approvers = nodes[n].approvers /\ node.status = verdict
  BY <1>1 DEF Decided, Nodes
<1>4. nodes2 = [nodes EXCEPT ![n] = node]
  BY DEF Decide
<1> HIDE DEF node, nodes2
<1>5. nodes2 \in [DOMAIN nodes -> Nodes]
  BY <1>2, <1>4
<1>6. nodes2 \in Seq(Nodes)
  BY <1>5, SameLength
<1>7. \A m \in DOMAIN nodes : nodes2[m] = IF m = n THEN node ELSE nodes[m]
  BY <1>4
<1>8. QED
  BY <1>3, <1>5, <1>6, <1>7 DEF nodes2, Decision

\* Setting a handler to a request leaves a family of requests.
LEMMA BecomeType ==
    ASSUME request \in [Handlers -> Requests], NEW h \in Handlers, NEW r \in Requests,
           request' = [request EXCEPT ![h] = r]
    PROVE  request' \in [Handlers -> Requests]
OBVIOUS

\* So does answering one.
LEMMA AnswerType ==
    ASSUME request \in [Handlers -> Requests], NEW h \in Handlers, Answer(h)
    PROVE  request' \in [Handlers -> Requests]
<1>1. Idle \in Requests
  BY DEF Idle, Requests, Ops, NoOverride
<1>2. QED
  BY <1>1, BecomeType DEF Answer

\* The day a pass grants lies within the horizon, and writes back a day.
LEMMA LastingType ==
    ASSUME NEW r \in Requests
    PROVE  /\ Lasting(r) \in 1..LastDay
           /\ r.override <= r.day => Lasting(r) <= r.day
BY DEF Lasting, NoOverride, Requests

\* Granting appends a privilege.
LEMMA GrantType ==
    ASSUME granted \in Seq(Privileges), NEW nodes \in Seq(Nodes), NEW until \in 1..LastDay,
           Grant(nodes, until)
    PROVE  /\ granted' \in Seq(Privileges)
           /\ DOMAIN granted' = 1..Len(granted) + 1
           /\ \A i \in DOMAIN granted' :
                granted'[i].day = IF i = Len(granted) + 1 THEN until ELSE granted[i].day
<1> DEFINE p == [day |-> until, chain |-> nodes, revoked |-> FALSE]
<1>1. p \in Privileges /\ p.day = until
  BY DEF Privileges
<1>2. granted' = Append(granted, p)
  BY DEF Grant
<1> HIDE DEF p
<1>3. QED
  BY <1>1, <1>2
----------------------------------------------------------------------------
(***************************************************************************)
(* TypeOK is inductive on its own.                                         *)
(***************************************************************************)
\* The tables of an application nobody has made are well-typed.
LEMMA TypeInit == Init => TypeOK
<1> SUFFICES ASSUME Init PROVE TypeOK
  OBVIOUS
<1>1. Idle \in Requests
  BY DEF Idle, Requests, Ops, NoOverride
<1>2. request \in [Handlers -> Requests]
  BY <1>1 DEF Init
<1>3. QED
  BY <1>2 DEF Init, TypeOK, Requests, Ops

\* No request, configuration, revocation or crash breaks it.
LEMMA TypeStep == TypeOK /\ [Next]_vars => TypeOK'
<1> SUFFICES ASSUME TypeOK, [Next]_vars PROVE TypeOK'
  OBVIOUS
<1> USE DEF TypeOK, flow, application
<1>req. request \in [Handlers -> Requests] /\ granted \in Seq(Privileges)
  BY DEF Requests, Ops, Privileges
<1>back. ASSUME request' \in [Handlers -> Requests]
         PROVE  request' \in [Handlers -> [op : {"idle", "pass", "reject", "cancel"}, user : Users,
                                override : 0..LastDay, chain : Seq(Nodes), day : 1..LastDay]]
  BY <1>back DEF Requests, Ops
<1>1. CASE UpdateFlow
  BY <1>1 DEF UpdateFlow
<1>2. CASE DeactivateFlow
  BY <1>2 DEF DeactivateFlow
<1>3. CASE Apply
  <2>1. template \in Seq(SUBSET Users)
    OBVIOUS
  <2>2. \A n \in DOMAIN template : Pending(template[n]) \in Nodes
    BY <2>1 DEF Pending, Nodes, NoOverride
  <2>3. chain' \in [DOMAIN template -> Nodes]
    BY <1>3, <2>2 DEF Apply
  <2>6. chain' \in Seq(Nodes)
    BY <2>1, <2>3, SameLength
  <2>4. applied' \in [chain : Seq(SUBSET Users), day : 1..LastDay]
    BY <1>3, <2>1 DEF Apply
  <2>5. QED
    BY <1>3, <2>6, <2>4 DEF Apply
<1>4. ASSUME NEW h \in Handlers,
             NEW op \in {"pass", "reject", "cancel"}, NEW u \in Users, NEW o \in 0..LastDay,
             Read(h, op, u, o)
      PROVE  TypeOK'
  <2> DEFINE r == [op |-> op, user |-> u, override |-> o, chain |-> chain, day |-> day]
  <2>1. r \in Requests /\ request' = [request EXCEPT ![h] = r]
    BY <1>4 DEF Read, Requests, Ops
  <2>2. request' \in [Handlers -> Requests]
    BY <1>req, <2>1, BecomeType
  <2>3. requests' \in 0..MaxRequests
    BY <1>4 DEF Read
  <2>4. QED
    BY <1>4, <1>back, <2>2, <2>3 DEF Read
<1>5. ASSUME NEW h \in Handlers, ReadToPass(h) PROVE TypeOK'
  <2>1. PICK u \in Users, o \in Overrides(day) : Read(h, "pass", u, o)
    BY <1>5 DEF ReadToPass
  <2>2. o \in 0..LastDay
    BY DEF Overrides
  <2>3. QED
    BY <1>4, <2>1, <2>2
<1>none. NoOverride \in 0..LastDay
  BY DEF NoOverride
<1>6. ASSUME NEW h \in Handlers, ReadToReject(h) PROVE TypeOK'
  <2>1. PICK u \in Users : Read(h, "reject", u, NoOverride)
    BY <1>6 DEF ReadToReject
  <2>2. QED
    BY <1>4, <1>none, <2>1
<1>7. ASSUME NEW h \in Handlers, ReadToCancel(h) PROVE TypeOK'
  <2>1. PICK u \in Users : Read(h, "cancel", u, NoOverride)
    BY <1>7 DEF ReadToCancel
  <2>2. QED
    BY <1>4, <1>none, <2>1
<1>8. ASSUME NEW h \in Handlers, CommitPass(h) PROVE TypeOK'
  <2> DEFINE r == request[h]
  <2>1. r \in Requests
    BY <1>req
  <2>2. r.chain \in Seq(Nodes) /\ r.override \in 0..LastDay /\ r.user \in Users
    BY <2>1 DEF Requests
  <2>3. PICK n \in DOMAIN r.chain :
          LET nodes == Decide(r.chain, n, "passed", r.override)
          IN  /\ chain' = nodes
              /\ IF Complete(nodes)
                 THEN status' = "passed" /\ Grant(nodes, Lasting(r))
                 ELSE UNCHANGED <<status, granted>>
              /\ signed' = signed \cup {<<n, r.user>>}
    BY <1>8 DEF CommitPass
  <2> DEFINE nodes == Decide(r.chain, n, "passed", r.override)
  <2>4. nodes \in Seq(Nodes)
    BY <2>2, DecideOne
  <2>5. Lasting(r) \in 1..LastDay
    BY <2>1, LastingType
  <2>6. granted' \in Seq(Privileges)
    BY <1>req, <2>3, <2>4, <2>5, GrantType
  <2>7. signed' \in SUBSET (Nat \X Users)
    BY <2>2, <2>3
  <2>8. request' \in [Handlers -> Requests]
    BY <1>8, <1>req, AnswerType DEF CommitPass
  <2>9. day' \in 1..LastDay
    BY <1>8, <2>5 DEF CommitPass
  <2>10. chain' \in Seq(Nodes) /\ status' \in {"absent", "pending", "passed", "rejected", "canceled"}
    BY <2>3, <2>4
  <2>11. UNCHANGED <<flow, applied, requests>>
    BY <1>8 DEF CommitPass
  <2> HIDE DEF r, nodes
  <2>12. QED
    BY <1>back, <2>6, <2>7, <2>8, <2>9, <2>10, <2>11 DEF Privileges
<1>9. ASSUME NEW h \in Handlers, CommitReject(h) PROVE TypeOK'
  <2>1. request[h].chain \in Seq(Nodes)
    BY <1>req DEF Requests
  <2>2. chain' \in Seq(Nodes)
    BY <1>9, <1>none, <2>1, DecideOne DEF CommitReject
  <2>3. request' \in [Handlers -> Requests]
    BY <1>9, <1>req, AnswerType DEF CommitReject
  <2>4. QED
    BY <1>9, <1>back, <2>2, <2>3 DEF CommitReject
<1>10. ASSUME NEW h \in Handlers, CommitCancel(h) PROVE TypeOK'
  <2>1. request[h].chain \in Seq(Nodes)
    BY <1>req DEF Requests
  <2>2. \A n \in DOMAIN request[h].chain :
          Decided(request[h].chain[n], "canceled", NoOverride) \in Nodes
    <3> TAKE n \in DOMAIN request[h].chain
    <3>1. request[h].chain[n] \in Nodes
      BY <2>1
    <3>2. QED
      BY <1>none, <3>1, DecidedType
  <2>6. chain' \in [DOMAIN request[h].chain -> Nodes]
    BY <1>10, <2>2 DEF CommitCancel
  <2>3. chain' \in Seq(Nodes)
    BY <2>1, <2>6, SameLength
  <2>4. request' \in [Handlers -> Requests]
    BY <1>10, <1>req, AnswerType DEF CommitCancel
  <2>5. QED
    BY <1>10, <1>back, <2>3, <2>4 DEF CommitCancel
<1>11. ASSUME NEW h \in Handlers, Crash(h) PROVE TypeOK'
  <2>1. request' \in [Handlers -> Requests]
    BY <1>11, <1>req, AnswerType DEF Crash
  <2>2. QED
    BY <1>11, <1>back, <2>1 DEF Crash
<1>12. ASSUME NEW i \in DOMAIN granted, Revoke(i) PROVE TypeOK'
  <2>1. granted[i] \in Privileges
    BY <1>req
  <2>2. [granted[i] EXCEPT !.revoked = TRUE] \in Privileges
    BY <2>1 DEF Privileges
  <2>3. granted' \in Seq(Privileges)
    BY <1>12, <1>req, <2>2, ExceptSeq DEF Revoke
  <2>4. UNCHANGED <<flow, application, request, applied, signed, requests>>
    BY <1>12 DEF Revoke
  <2>5. QED
    BY <2>3, <2>4 DEF Privileges
<1>13. CASE UNCHANGED vars
  BY <1>13 DEF vars
<1>14. QED
  BY <1>1, <1>2, <1>3, <1>5, <1>6, <1>7, <1>8, <1>9, <1>10, <1>11, <1>12, <1>13 DEF Next, Commit

(***************************************************************************)
(* The application, its copies in requests and the privileges keep types.  *)
(***************************************************************************)
THEOREM TypeCorrect == Spec => []TypeOK
BY TypeInit, TypeStep, PTL DEF Spec
----------------------------------------------------------------------------
(***************************************************************************)
(* Signatures are never withdrawn, so what they back stays backed.         *)
(***************************************************************************)
\* More signatures back at least what fewer did.
LEMMA BackingGrows ==
    ASSUME NEW by, NEW more, by \subseteq more, NEW target, NEW a
    PROVE  /\ \A n : SignedBy(n, target, by) => SignedBy(n, target, more)
           /\ \A nodes : Faithful(nodes, target, by) => Faithful(nodes, target, more)
           /\ \A nodes : Undecided(nodes, target, by) => Undecided(nodes, target, more)
           /\ \A r : Backed(r, a, by) => Backed(r, a, more)
<1>1. \A t, n : SignedBy(n, t, by) => SignedBy(n, t, more)
  BY DEF SignedBy
<1>2. \A t, nodes : Faithful(nodes, t, by) => Faithful(nodes, t, more)
  BY <1>1 DEF Faithful
<1>3. \A t, nodes : Undecided(nodes, t, by) => Undecided(nodes, t, more)
  BY <1>2 DEF Undecided
<1>4. QED
  BY <1>1, <1>2, <1>3 DEF Backed

\* A request that is answered leaves every handler backed.
LEMMA AnswerBacked ==
    ASSUME TypeOK, GrantInv, signed \subseteq signed', applied' = applied,
           NEW h \in Handlers, Answer(h)
    PROVE  \A g \in Handlers : Backed(request'[g], applied, signed')
<1> SUFFICES ASSUME NEW g \in Handlers PROVE Backed(request'[g], applied, signed')
  OBVIOUS
<1>1. request'[g] = IF g = h THEN Idle ELSE request[g]
  BY DEF Answer, TypeOK
<1>2. Backed(request[g], applied, signed')
  BY BackingGrows DEF GrantInv
<1>3. Backed(Idle, applied, signed')
  BY DEF Backed, Idle
<1>4. QED
  BY <1>1, <1>2, <1>3

(***************************************************************************)
(* The pass of the current node by one of its approvers keeps a chain in   *)
(* shape, follows signatures of every earlier node, and completes the      *)
(* chain only when every node is signed.                                   *)
(***************************************************************************)
LEMMA PassNode ==
    ASSUME NEW nodes \in Seq(Nodes), NEW target \in Seq(SUBSET Users), NEW by,
           Undecided(nodes, target, by),
           NEW n \in DOMAIN nodes, Current(n, nodes), NEW u, MaySign(u, nodes[n]),
           NEW override \in 0..LastDay,
           NEW nodes2, nodes2 = Decide(nodes, n, "passed", override),
           NEW by2, by2 = by \cup {<<n, u>>}
    PROVE  /\ Undecided(nodes2, target, by2)
           /\ Complete(nodes2) => \A m \in DOMAIN target : SignedBy(m, target, by2)
           /\ \A m \in DOMAIN target : m < n => SignedBy(m, target, by2)
<1>1. Decision(nodes, nodes2, n, "passed")
  BY DecideOne
<1>2. DOMAIN target = DOMAIN nodes /\ \A m \in DOMAIN nodes : nodes[m].approvers = target[m]
  BY DEF Undecided, Faithful
<1>3. \A m : SignedBy(m, target, by) => SignedBy(m, target, by2)
  BY BackingGrows
<1>4. SignedBy(n, target, by2)
  BY <1>2 DEF MaySign, SignedBy
<1>5. \A m \in DOMAIN nodes : m < n => nodes[m].status = "passed"
  BY DEF Current, Undecided
<1>6. \A m \in DOMAIN nodes : nodes[m].status = "passed" => SignedBy(m, target, by2)
  BY <1>3 DEF Undecided, Faithful
<1>7. Faithful(nodes2, target, by2)
  BY <1>1, <1>2, <1>4, <1>6 DEF Faithful, Decision
<1>8. \A m \in DOMAIN nodes2 : nodes2[m].status \in {"pending", "passed"}
  BY <1>1 DEF Undecided, Decision
<1>9. ASSUME NEW k \in DOMAIN nodes2, NEW m \in DOMAIN nodes2, m < k, nodes2[k].status = "passed"
      PROVE  nodes2[m].status = "passed"
  <2>1. CASE k = n
    BY <1>1, <1>5, <1>9, <2>1 DEF Decision
  <2>2. CASE k # n
    BY <1>1, <1>9, <2>2 DEF Undecided, Decision
  <2>3. QED
    BY <2>1, <2>2
<1>10. Undecided(nodes2, target, by2)
  BY <1>7, <1>8, <1>9 DEF Undecided
<1>11. Complete(nodes2) => \A m \in DOMAIN target : SignedBy(m, target, by2)
  BY <1>1, <1>2, <1>7, <1>8 DEF Complete, Faithful, Decision
<1>12. \A m \in DOMAIN target : m < n => SignedBy(m, target, by2)
  BY <1>2, <1>5, <1>6
<1>13. QED
  BY <1>10, <1>11, <1>12

----------------------------------------------------------------------------
(***************************************************************************)
(* GrantInv is inductive relative to TypeOK.                               *)
(***************************************************************************)
\* Nothing is applied for, read, signed or granted.
LEMMA GrantInit == Init => GrantInv
BY DEF Init, GrantInv, Backed, Idle, GrantedByAll, SignedInOrder, WithinApplied

\* No request, configuration, revocation or crash breaks it.
LEMMA GrantStep == TypeOK /\ GrantInv /\ [Next]_vars => GrantInv'
<1> SUFFICES ASSUME TypeOK, GrantInv, [Next]_vars PROVE GrantInv'
  OBVIOUS
<1> USE DEF flow, application
<1> DEFINE BackedAll == \A h \in Handlers : Backed(request[h], applied, signed)
<1>req. request \in [Handlers -> Requests] /\ granted \in Seq(Privileges)
  BY DEF Requests, Ops, Privileges, TypeOK
\* Requests come and go, the application stays as it is.
<1>frame. ASSUME UNCHANGED <<application, granted, applied, signed>>, BackedAll',
                 status = "absent" => \A h \in Handlers : request'[h].op = "idle"
          PROVE  GrantInv'
  BY <1>frame DEF GrantInv, GrantedByAll, SignedInOrder, WithinApplied
<1>1. CASE UpdateFlow \/ DeactivateFlow
  <2>1. UNCHANGED <<application, granted, request, applied, signed>>
    BY <1>1 DEF UpdateFlow, DeactivateFlow
  <2>2. QED
    BY <2>1, <1>frame DEF GrantInv
<1>2. CASE Apply
  <2>1. /\ granted' = <<>> /\ signed' = {} /\ status' = "pending"
        /\ \A h \in Handlers : request'[h].op = "idle"
    BY <1>2 DEF Apply, GrantInv
  <2>2. chain' = [n \in DOMAIN template |-> Pending(template[n])] /\ applied'.chain = template
        /\ day' = applied'.day /\ day' \in Nat
    BY <1>2 DEF Apply
  <2>3. \A n \in DOMAIN chain' : chain'[n].approvers = applied'.chain[n] /\ chain'[n].status = "pending"
    BY <2>2 DEF Pending
  <2>4. Undecided(chain', applied'.chain, signed')
    BY <2>2, <2>3 DEF Undecided, Faithful
  <2>5. BackedAll'
    BY <2>1 DEF Backed
  <2>6. GrantedByAll' /\ SignedInOrder' /\ WithinApplied'
    BY <2>1 DEF GrantedByAll, SignedInOrder, WithinApplied
  <2>7. QED
    BY <2>1, <2>2, <2>4, <2>5, <2>6 DEF GrantInv, Undecided
<1>3. ASSUME NEW h \in Handlers, NEW op \in Ops, NEW u \in Users, NEW o \in 0..day,
             op = "pass" => \A n \in DOMAIN chain : Current(n, chain) => MaySign(u, chain[n]),
             Read(h, op, u, o)
      PROVE  GrantInv'
  <2> DEFINE r == [op |-> op, user |-> u, override |-> o, chain |-> chain, day |-> day]
  <2>1. request' = [request EXCEPT ![h] = r] /\ status = "pending"
        /\ UNCHANGED <<application, granted, applied, signed>>
    BY <1>3 DEF Read
  <2>2. Backed(r, applied, signed)
    BY <1>3, <2>1 DEF Backed, GrantInv
  <2> HIDE DEF r
  <2>3. BackedAll'
    BY <1>req, <2>1, <2>2 DEF GrantInv
  <2>4. QED
    BY <2>1, <2>3, <1>frame
<1>one. ASSUME NEW m \in DOMAIN chain, NEW n \in DOMAIN chain, Current(m, chain), Current(n, chain)
        PROVE  m = n
  BY <1>one DEF Current, TypeOK
<1>none. NoOverride \in 0..day
  BY DEF NoOverride, TypeOK
<1>4. ASSUME NEW h \in Handlers, ReadToPass(h) PROVE GrantInv'
  <2>1. PICK n \in DOMAIN chain, u \in Users, o \in Overrides(day) :
          Current(n, chain) /\ MaySign(u, chain[n]) /\ Read(h, "pass", u, o)
    BY <1>4 DEF ReadToPass
  <2>2. \A m \in DOMAIN chain : Current(m, chain) => MaySign(u, chain[m])
    BY <2>1, <1>one
  <2>3. QED
    BY <2>1, <2>2, <1>3 DEF Overrides, Ops
<1>5. ASSUME NEW h \in Handlers, ReadToReject(h) PROVE GrantInv'
  <2>1. PICK u \in Users : Read(h, "reject", u, NoOverride)
    BY <1>5 DEF ReadToReject
  <2>2. QED
    BY <2>1, <1>none, <1>3 DEF Ops
<1>6. ASSUME NEW h \in Handlers, ReadToCancel(h) PROVE GrantInv'
  <2>1. PICK u \in {Applicant} \cup Superusers : Read(h, "cancel", u, NoOverride)
    BY <1>6 DEF ReadToCancel
  <2>2. QED
    BY <2>1, <1>none, <1>3 DEF Ops
<1>idle. ASSUME NEW h \in Handlers, request[h].op # "idle" PROVE status # "absent"
  BY <1>idle DEF GrantInv
<1>7. ASSUME NEW h \in Handlers, CommitPass(h) PROVE GrantInv'
  <2> DEFINE r == request[h]
  <2>1. /\ r.chain \in Seq(Nodes) /\ r.override \in 0..LastDay /\ r.user \in Users
        /\ r.day \in Nat /\ r \in Requests
    BY <1>req DEF Requests
  <2>2. PICK n \in DOMAIN r.chain :
          LET nodes == Decide(r.chain, n, "passed", r.override)
          IN  /\ Current(n, r.chain)
              /\ chain' = nodes
              /\ IF Complete(nodes)
                 THEN status' = "passed" /\ Grant(nodes, Lasting(r))
                 ELSE UNCHANGED <<status, granted>>
              /\ signed' = signed \cup {<<n, r.user>>}
    BY <1>7 DEF CommitPass
  <2> DEFINE nodes == Decide(r.chain, n, "passed", r.override)
             target == applied.chain
  <2>3. /\ r.op = "pass" /\ Answer(h) /\ applied' = applied
        /\ day' = IF Lasting(r) = r.day THEN day ELSE Lasting(r)
    BY <1>7 DEF CommitPass
  <2>4. /\ Undecided(r.chain, target, signed) /\ r.override <= r.day /\ r.day <= applied.day
        /\ MaySign(r.user, r.chain[n])
    BY <2>2, <2>3 DEF GrantInv, Backed
  <2>5. target \in Seq(SUBSET Users) /\ applied.day \in Nat /\ day \in Nat
    BY DEF TypeOK
  <2>6. nodes \in Seq(Nodes)
    BY <2>1, DecideOne
  <2>7. Lasting(r) \in 1..LastDay /\ Lasting(r) <= applied.day
    BY <2>1, <2>4, <2>5, LastingType
  <2> HIDE DEF r, nodes, target
  <2>8. /\ Undecided(nodes, target, signed')
        /\ Complete(nodes) => \A m \in DOMAIN target : SignedBy(m, target, signed')
        /\ \A m \in DOMAIN target : m < n => SignedBy(m, target, signed')
    BY <2>1, <2>2, <2>4, <2>5, PassNode DEF nodes
  <2>9. signed \subseteq signed' /\ signed' = signed \cup {<<n, r.user>>}
    BY <2>2
  <2>10. BackedAll'
    BY <2>3, <2>9, AnswerBacked
  <2>11. day' <= applied'.day
    BY <2>3, <2>5, <2>7 DEF GrantInv
  <2>12. chain' = nodes /\ status # "absent" /\ status' # "absent"
    BY <2>2, <2>3, <1>idle DEF nodes, r
  <2>13. GrantedByAll'
    <3>1. CASE Complete(nodes)
      BY <2>3, <2>8, <3>1 DEF GrantedByAll, target
    <3>2. CASE ~Complete(nodes)
      <4>1. granted' = granted
        BY <2>2, <3>2 DEF nodes
      <4>2. \A m : SignedBy(m, target, signed) => SignedBy(m, target, signed')
        BY <2>9, BackingGrows
      <4>3. QED
        BY <2>3, <4>1, <4>2 DEF GrantedByAll, GrantInv, target
    <3>3. QED
      BY <3>1, <3>2
  <2>14. SignedInOrder'
    <3>1. \A m : SignedBy(m, target, signed) => SignedBy(m, target, signed')
      BY <2>9, BackingGrows
    <3>2. \A k, m \in DOMAIN target :
            m < k /\ (\E u \in Users : <<k, u>> \in signed') => SignedBy(m, target, signed')
      BY <2>8, <2>9, <3>1 DEF SignedInOrder, GrantInv, target
    <3>3. QED
      BY <2>3, <3>2 DEF SignedInOrder, target
  <2>15. WithinApplied'
    <3>1. CASE Complete(nodes)
      <4>1. Grant(nodes, Lasting(r))
        BY <2>2, <3>1 DEF nodes
      <4>2. /\ DOMAIN granted' = 1..Len(granted) + 1
            /\ \A i \in DOMAIN granted' :
                 granted'[i].day = IF i = Len(granted) + 1 THEN Lasting(r) ELSE granted[i].day
        BY <1>req, <2>6, <2>7, <4>1, GrantType
      <4>3. DOMAIN granted = 1..Len(granted) /\ Len(granted) \in Nat
        BY <1>req
      <4>4. \A i \in DOMAIN granted' : granted'[i].day <= applied.day
        BY <2>7, <4>2, <4>3 DEF GrantInv, WithinApplied
      <4>5. QED
        BY <2>3, <4>4 DEF WithinApplied
    <3>2. CASE ~Complete(nodes)
      BY <2>2, <2>3, <3>2 DEF WithinApplied, GrantInv, nodes
    <3>3. QED
      BY <3>1, <3>2
  <2>16. Undecided(chain', applied'.chain, signed')
    BY <2>3, <2>8, <2>12 DEF target
  <2>17. QED
    BY <2>10, <2>11, <2>12, <2>13, <2>14, <2>15, <2>16 DEF GrantInv, Undecided
\* A decision other than a pass leaves a faithful chain and grants nothing.
<1>decided. ASSUME NEW h \in Handlers, request[h].op # "idle", Answer(h),
                   UNCHANGED <<day, granted, applied, signed>>, status' \in {"rejected", "canceled"},
                   Faithful(chain', applied.chain, signed)
            PROVE  GrantInv'
  <2>1. BackedAll'
    BY <1>decided, AnswerBacked
  <2>2. QED
    BY <1>decided, <2>1 DEF GrantInv, GrantedByAll, SignedInOrder, WithinApplied
<1>8. ASSUME NEW h \in Handlers, CommitReject(h) PROVE GrantInv'
  <2>1. PICK n \in DOMAIN request[h].chain :
          chain' = Decide(request[h].chain, n, "rejected", NoOverride)
    BY <1>8 DEF CommitReject
  <2>2. request[h].chain \in Seq(Nodes) /\ NoOverride \in 0..LastDay
    BY <1>req DEF Requests, NoOverride
  <2>3. Decision(request[h].chain, chain', n, "rejected")
    BY <2>1, <2>2, DecideOne
  <2>4. Faithful(request[h].chain, applied.chain, signed)
    BY <1>8 DEF CommitReject, GrantInv, Backed, Undecided
  <2>5. Faithful(chain', applied.chain, signed)
    BY <2>3, <2>4 DEF Faithful, Decision
  <2>6. QED
    BY <1>8, <1>decided, <2>5 DEF CommitReject
<1>9. ASSUME NEW h \in Handlers, CommitCancel(h) PROVE GrantInv'
  <2>1. chain' = [n \in DOMAIN request[h].chain |-> Decided(request[h].chain[n], "canceled", NoOverride)]
    BY <1>9 DEF CommitCancel
  <2>2. \A m \in DOMAIN request[h].chain :
          /\ chain'[m].approvers = request[h].chain[m].approvers
          /\ chain'[m].status = "canceled"
    <3> TAKE m \in DOMAIN request[h].chain
    <3>1. request[h].chain[m] \in Nodes
      BY <1>req DEF Requests
    <3>2. QED
      BY <2>1, <3>1 DEF Decided, Nodes
  <2>3. Faithful(request[h].chain, applied.chain, signed)
    BY <1>9 DEF CommitCancel, GrantInv, Backed, Undecided
  <2>4. Faithful(chain', applied.chain, signed)
    BY <2>1, <2>2, <2>3 DEF Faithful
  <2>5. QED
    BY <1>9, <1>decided, <2>4 DEF CommitCancel
<1>10. ASSUME NEW h \in Handlers, Crash(h) PROVE GrantInv'
  <2>1. BackedAll' /\ status # "absent"
    BY <1>10, <1>idle, AnswerBacked DEF Crash
  <2>2. QED
    BY <1>10, <1>frame, <2>1 DEF Crash
<1>11. ASSUME NEW i \in DOMAIN granted, Revoke(i) PROVE GrantInv'
  <2>1. UNCHANGED <<application, request, applied, signed>> /\ granted # <<>>
        /\ granted' = [granted EXCEPT ![i] = [@ EXCEPT !.revoked = TRUE]]
    BY <1>11, <1>req DEF Revoke
  <2>2. granted[i] \in Privileges
    BY <1>11, <1>req
  <2>3. DOMAIN granted' = DOMAIN granted /\ \A k \in DOMAIN granted : granted'[k].day = granted[k].day
    BY <1>req, <2>1, <2>2 DEF Privileges
  <2>4. WithinApplied' /\ GrantedByAll' /\ SignedInOrder'
    BY <2>1, <2>3 DEF WithinApplied, GrantedByAll, SignedInOrder, GrantInv
  <2>5. QED
    BY <2>1, <2>4 DEF GrantInv
<1>12. CASE UNCHANGED vars
  BY <1>12, <1>frame DEF vars, GrantInv
<1>13. QED
  BY <1>1, <1>2, <1>4, <1>5, <1>6, <1>7, <1>8, <1>9, <1>10, <1>11, <1>12 DEF Next, Commit

(***************************************************************************)
(* For any chain and any number of overlapping requests, the application   *)
(* and what requests read of it stay backed by signatures                  *)
(* (query_priv.py 997-1109).                                               *)
(***************************************************************************)
THEOREM GrantCorrect == Spec => []GrantInv
BY TypeCorrect, GrantInit, GrantStep, PTL DEF Spec

(***************************************************************************)
(* However requests overlap and whatever becomes of the template: nothing  *)
(* is granted that the whole chain at submission has not passed.           *)
(***************************************************************************)
THEOREM GrantSound == Spec => []GrantedByAll
<1>1. GrantInv => GrantedByAll
  BY DEF GrantInv
<1>2. QED
  BY <1>1, GrantCorrect, PTL

(***************************************************************************)
(* No stale read of the day lets a privilege outlast the application.      *)
(***************************************************************************)
THEOREM GrantBounded == Spec => []WithinApplied
<1>1. GrantInv => WithinApplied
  BY DEF GrantInv
<1>2. QED
  BY <1>1, GrantCorrect, PTL

(***************************************************************************)
(* No stale chain lets a node be passed ahead of its turn.                 *)
(***************************************************************************)
THEOREM GrantInOrder == Spec => []SignedInOrder
<1>1. GrantInv => SignedInOrder
  BY DEF GrantInv
<1>2. QED
  BY <1>1, GrantCorrect, PTL

\* The strengthening as one invariant, as TLC checks it.
THEOREM InductiveCorrect == Spec => []Inductive
BY TypeCorrect, GrantCorrect, PTL DEF Inductive
=============================================================================
