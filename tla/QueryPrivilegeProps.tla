------------------------- MODULE QueryPrivilegeProps -------------------------
(***************************************************************************)
(* What the approval of a query privilege guarantees, and what it does     *)
(* not.                                                                    *)
(***************************************************************************)
EXTENDS QueryPrivilege

Nodes == [approvers : SUBSET Users, status : {"pending", "passed", "rejected", "canceled"},
          adjusted : 0..LastDay]

\* The state is well-formed.
TypeOK ==
    /\ template \in Templates /\ active \in BOOLEAN
    /\ status \in {"absent", "pending", "passed", "rejected", "canceled"}
    /\ chain \in Seq(Nodes)
    /\ day \in 1..LastDay
    /\ granted \in Seq([day : 1..LastDay, chain : Seq(Nodes), revoked : BOOLEAN])
    /\ request \in [Handlers -> [op : {"idle", "pass", "reject", "cancel"}, user : Users,
                                 override : 0..LastDay, chain : Seq(Nodes), day : 1..LastDay]]
    /\ applied \in [chain : Seq(SUBSET Users), day : 1..LastDay]
    /\ signed \in SUBSET (Nat \X Users)
    /\ requests \in 0..MaxRequests

\* Somebody entitled to it passed node n of the chain to be signed.
SignedBy(n, target, by) == \E u \in Superusers \cup target[n] : <<n, u>> \in by

(***************************************************************************)
(* A privilege is granted only after every node of the chain that was      *)
(* configured at submission was passed by one of its approvers, whatever   *)
(* requests overlap and however the template changed since                 *)
(* (query_priv.py 1014-1065, approval_flow.py 109-155, 168-213).           *)
(***************************************************************************)
GrantedByAll ==
    granted # <<>> => \A n \in DOMAIN applied.chain : SignedBy(n, applied.chain, signed)

(***************************************************************************)
(* Nodes are passed in the order of the chain: a pass of one was preceded  *)
(* by a pass of those before it (query_priv.py 1031-1046).                 *)
(***************************************************************************)
SignedInOrder ==
    \A n, m \in DOMAIN applied.chain :
        m < n /\ (\E u \in Users : <<n, u>> \in signed) => SignedBy(m, applied.chain, signed)

(***************************************************************************)
(* However stale the day a request has read, no privilege outlasts what    *)
(* was applied for (query_priv.py 1023-1028, 1060).                        *)
(***************************************************************************)
WithinApplied == \A i \in DOMAIN granted : granted[i].day <= applied.day

\* A chain is the one applied for, and what it shows as passed was signed.
Faithful(nodes, target, by) ==
    /\ DOMAIN nodes = DOMAIN target
    /\ \A n \in DOMAIN nodes :
         /\ nodes[n].approvers = target[n]
         /\ nodes[n].status = "passed" => SignedBy(n, target, by)

\* A chain whose application may still be decided: passed up to some node.
Undecided(nodes, target, by) ==
    /\ Faithful(nodes, target, by)
    /\ \A n \in DOMAIN nodes : nodes[n].status \in {"pending", "passed"}
    /\ \A n, m \in DOMAIN nodes : m < n /\ nodes[n].status = "passed" => nodes[m].status = "passed"

\* What a request has read: it held when it was read, and stays backed.
Backed(r, a, by) ==
    r.op # "idle" =>
        /\ Undecided(r.chain, a.chain, by)
        /\ r.override <= r.day /\ r.day <= a.day
        /\ r.op = "pass" => \A n \in DOMAIN r.chain : Current(n, r.chain) => MaySign(r.user, r.chain[n])

(***************************************************************************)
(* What makes the three inductive: the application and what each request   *)
(* has read of it stay backed by signatures, whatever was committed since. *)
(***************************************************************************)
GrantInv ==
    /\ status # "absent" => Faithful(chain, applied.chain, signed)
    /\ status = "pending" => Undecided(chain, applied.chain, signed)
    /\ \A h \in Handlers : Backed(request[h], applied, signed)
    /\ status = "absent" =>
         signed = {} /\ granted = <<>> /\ \A h \in Handlers : request[h].op = "idle"
    /\ day <= applied.day
    /\ GrantedByAll
    /\ SignedInOrder
    /\ WithinApplied

\* The inductive invariant: the types, and what backs every copy of the row.
Inductive == TypeOK /\ GrantInv
----------------------------------------------------------------------------
(***************************************************************************)
(* query_priv.py:1012: an application that was decided cannot be operated  *)
(* again; query_priv.py:1095: only one under review can be canceled.  A    *)
(* request that has read the application before the decision operates it   *)
(* after: it is granted twice, or canceled with its privilege granted.     *)
(***************************************************************************)
DecidedOnce ==
    [][status = "absent" \/ status = "pending"
         \/ (UNCHANGED application /\ Len(granted') = Len(granted))]_vars
=============================================================================
