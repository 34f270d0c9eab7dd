------------------------------ MODULE Accounts ------------------------------
(***************************************************************************)
(* The rows of sql_users: accounts made by an administrator, by an import  *)
(* of users, and by the first sign-in of a person a directory or an OAuth  *)
(* provider vouches for.  Such a sign-in looks for the person, then for    *)
(* the name, then inserts; sign-ins, imports and edits overlap.  The name  *)
(* is unique in the table, the pair auth_type, external_id is not.         *)
(***************************************************************************)
EXTENDS Naturals, Sequences, FiniteSets

CONSTANTS
    Names,        \* username
    Directory,    \* people of the LDAP directory: auth_type, external_id
    Provided,     \* people of OAuth providers
    Local,        \* an account without such a person
    Positions,    \* roles that may be deleted
    NoPosition,
    Sheets,       \* the rows of the files that may be imported: sequences of name, position
    Sessions,     \* overlapping requests
    MaxChanges    \* bound: requests begun, renamings and deletions

Identities == Directory \cup Provided
ASSUME LocalAssumption == Local \notin Identities
ASSUME PositionAssumption == NoPosition \notin Positions
ASSUME SheetAssumption ==
    Sheets \subseteq Seq([name : Names, position : Positions \cup {NoPosition}])
ASSUME ChangeAssumption == MaxChanges \in Nat

VARIABLES
    user,       \* sql_users by name: whose it is, its role, its number, the import that wrote it last
    offices,    \* roles that exist
    nameOf,     \* the name a directory or provider gives of a person
    session,    \* what each request has read
    moved,      \* history: people renamed in the midst of a sign-in of theirs
    kept,       \* history: imports that committed
    changes     \* history: requests begun, renamings and deletions

accountVars == <<user, offices, nameOf, session, moved, kept, changes>>

Nobody == [who |-> "nobody"]
Exists(n) == user[n] # Nobody
Account(who, position, number, import) ==
    [who |-> who, position |-> position, number |-> number, import |-> import]
AccountsOf(p) == {n \in Names : Exists(n) /\ user[n].who = p}
NumberOf(n) == IF Exists(n) THEN user[n].number ELSE 0

Change == changes < MaxChanges /\ changes' = changes + 1
Waiting == [at |-> "waiting"]
Proceed(s, state) == session' = [session EXCEPT ![s] = state]
Importing == {s \in Sessions : session[s].at \in {"row", "write"}}
\* Rows an import has flushed and not committed: their names and roles are locked.
Held(s, n) == \E d \in Importing \ {s} : n \in DOMAIN session[d].written
InUse(p) == \E d \in Importing : \E n \in DOMAIN session[d].written : session[d].written[n].position = p

AccountInit ==
    /\ user \in {[n \in Names |-> Nobody],
                 [n \in Names |-> Account(Local, NoPosition, 1, 0)]}
    /\ offices = Positions
    /\ nameOf \in [Identities -> Names]
    /\ session = [s \in Sessions |-> Waiting]
    /\ moved = {} /\ kept = {} /\ changes = 0
----------------------------------------------------------------------------
\* A sign-in the directory, or the provider, vouches for; others change nothing.
AskDirectory(s, p) ==
    /\ session[s] = Waiting /\ p \in Directory /\ Change
    /\ Proceed(s, [at |-> "person", who |-> p, name |-> nameOf[p]])
    /\ UNCHANGED <<user, offices, nameOf, moved, kept>>
AskProvider(s, p) ==
    /\ session[s] = Waiting /\ p \in Provided /\ Change
    /\ Proceed(s, [at |-> "person", who |-> p, name |-> nameOf[p]])
    /\ UNCHANGED <<user, offices, nameOf, moved, kept>>

Loaded(s, n) ==
    [at |-> "save", who |-> session[s].who, name |-> n, number |-> NumberOf(n),
     differs |-> Exists(n) => user[n].who # session[s].who]
\* Mutant of Recognised: accounts are looked for by name only.
RecognisedByName(p) == {}
Recognised(p) == AccountsOf(p)
\* Step one of _provision_user: the account of this person; scalar_one_or_none.
FindPerson(s) ==
    /\ session[s].at = "person"
    /\ LET found == Recognised(session[s].who)
       IN  \/ Cardinality(found) > 1 /\ Proceed(s, Waiting)
           \/ \E n \in found : found = {n} /\ Proceed(s, Loaded(s, n))
           \/ found = {} /\ Proceed(s, [session[s] EXCEPT !.at = "name"])
    /\ UNCHANGED <<user, offices, nameOf, moved, kept, changes>>
\* Step two: the account of this name becomes this person's.
FindName(s) ==
    /\ session[s].at = "name"
    /\ Proceed(s, Loaded(s, session[s].name))
    /\ UNCHANGED <<user, offices, nameOf, moved, kept, changes>>
\* The commit: an INSERT, refused when the name was taken, or an UPDATE of what
\* differs, refused when the row is gone.
SaveSignIn(s) ==
    /\ session[s].at = "save" /\ ~Held(s, session[s].name)
    /\ LET n == session[s].name
           who == session[s].who
           new == session[s].number = 0
       IN  user' = IF NumberOf(n) # session[s].number \/ ~session[s].differs THEN user
                   ELSE IF new THEN [user EXCEPT ![n] = Account(who, NoPosition, changes, 0)]
                   ELSE [user EXCEPT ![n].who = who]
    /\ Proceed(s, Waiting)
    /\ UNCHANGED <<offices, nameOf, moved, kept, changes>>

RenamePerson(p, n) ==
    /\ nameOf[p] # n /\ Change
    /\ nameOf' = [nameOf EXCEPT ![p] = n]
    /\ moved' = IF \E s \in Sessions : session[s].at \in {"person", "name", "save"} /\ session[s].who = p
                THEN moved \cup {p} ELSE moved
    /\ UNCHANGED <<user, offices, session, kept>>
----------------------------------------------------------------------------
\* create_user refuses a name that is taken, or the table does; update_user; delete_user.
CreateUser(n, p) ==
    /\ ~Exists(n) /\ (\A s \in Sessions : ~Held(s, n)) /\ p \in offices \cup {NoPosition} /\ Change
    /\ user' = [user EXCEPT ![n] = Account(Local, p, changes', 0)]
    /\ UNCHANGED <<offices, nameOf, session, moved, kept>>
UpdateUser(n, p) ==
    /\ Exists(n) /\ (\A s \in Sessions : ~Held(s, n)) /\ p \in offices \cup {NoPosition} /\ Change
    /\ user' = [user EXCEPT ![n].position = p]
    /\ UNCHANGED <<offices, nameOf, session, moved, kept>>
DeleteUser(n) ==
    /\ Exists(n) /\ (\A s \in Sessions : ~Held(s, n)) /\ Change
    /\ user' = [user EXCEPT ![n] = Nobody]
    /\ UNCHANGED <<offices, nameOf, session, moved, kept>>
\* delete_role takes the role from whoever has it.
DeleteRole(p) ==
    /\ p \in offices /\ ~InUse(p) /\ Change
    /\ offices' = offices \ {p}
    /\ user' = [n \in Names |-> IF Exists(n) /\ user[n].position = p
                                THEN [user[n] EXCEPT !.position = NoPosition] ELSE user[n]]
    /\ UNCHANGED <<nameOf, session, moved, kept>>
----------------------------------------------------------------------------
None == [n \in {} |-> 0]
\* The rows of f and those of g that f has none for.
Over(f, g) == [n \in DOMAIN f \cup DOMAIN g |-> IF n \in DOMAIN f THEN f[n] ELSE g[n]]
With(f, n, row) == Over([m \in {n} |-> row], f)
StartImport(s, sheet) ==
    /\ session[s] = Waiting /\ Change
    /\ Proceed(s, [at |-> "row", sheet |-> sheet, next |-> 1, number |-> MaxChanges + changes',
                   seen |-> 0, written |-> None, dirty |-> None, refused |-> {}, broken |-> FALSE])
    /\ UNCHANGED <<user, offices, nameOf, moved, kept>>

RowOf(s) == session[s].sheet[session[s].next]
RoleExists(p) == p \in offices \cup {NoPosition}
RowRefused(s) == [session[s] EXCEPT !.at = "row", !.next = @ + 1, !.refused = @ \cup {session[s].next}]
\* _upsert_imported_user looks up the role, refusing the row without one, and the
\* account; once the transaction is broken every row is refused.
ResolveUser(s) ==
    /\ session[s].at = "row" /\ session[s].next \in DOMAIN session[s].sheet
    /\ Proceed(s, IF session[s].broken \/ ~RoleExists(RowOf(s).position) THEN RowRefused(s)
                  ELSE [session[s] EXCEPT !.at = "write", !.seen = NumberOf(RowOf(s).name)])
    /\ UNCHANGED <<user, offices, nameOf, moved, kept, changes>>

\* An UPDATE finds its row, an INSERT its name free, and both their role.
Writable(rows) ==
    \A n \in DOMAIN rows : NumberOf(n) = rows[n].seen /\ RoleExists(rows[n].position)
\* A flush writes the rows changed before together with the new one.
Flushed(i, rows) == [i EXCEPT !.written = Over(rows, @), !.dirty = None]
WriteUser(s) ==
    /\ session[s].at = "write"
    /\ LET i == session[s]
           n == RowOf(s).name
           row == [position |-> RowOf(s).position,
                   seen |-> IF n \in DOMAIN i.written THEN i.written[n].seen ELSE i.seen]
           new == With(i.dirty, n, row)
           done == [i EXCEPT !.at = "row", !.next = @ + 1]
       IN  IF i.seen # 0 \/ n \in DOMAIN i.written
           THEN Proceed(s, [done EXCEPT !.dirty = new])
           ELSE /\ \A m \in DOMAIN new : ~Held(s, m)
                /\ Proceed(s, IF Writable(new) THEN Flushed(done, new)
                              ELSE [RowRefused(s) EXCEPT !.broken = TRUE])
    /\ UNCHANGED <<user, offices, nameOf, moved, kept, changes>>
\* Two imports that wait for each other: the database breaks one of them.
BreakDeadlock(s) ==
    /\ session[s].at = "write"
    /\ \E d \in Importing \ {s} :
         /\ session[d].at = "write"
         /\ RowOf(s).name \in DOMAIN session[d].written
         /\ RowOf(d).name \in DOMAIN session[s].written
    /\ Proceed(s, [RowRefused(s) EXCEPT !.broken = TRUE])
    /\ UNCHANGED <<user, offices, nameOf, moved, kept, changes>>

\* The one commit of the import: everything, or nothing when it cannot be written.
EndUserImport(s) ==
    /\ session[s].at = "row" /\ session[s].next \notin DOMAIN session[s].sheet
    /\ LET i == session[s]
           rows == Over(i.dirty, i.written)
           whole == ~i.broken /\ Writable(i.dirty)
           Saved(n) == IF Exists(n) THEN [user[n] EXCEPT !.position = rows[n].position, !.import = i.number]
                       ELSE Account(Local, rows[n].position, i.number, i.number)
       IN  /\ \A n \in DOMAIN rows : ~Held(s, n)
           /\ user' = [n \in Names |-> IF whole /\ n \in DOMAIN rows THEN Saved(n) ELSE user[n]]
           /\ kept' = IF whole THEN kept \cup {i.number} ELSE kept
    /\ Proceed(s, Waiting)
    /\ UNCHANGED <<offices, nameOf, moved, changes>>

AccountNext ==
    \/ \E s \in Sessions :
        \/ \E p \in Identities : AskDirectory(s, p) \/ AskProvider(s, p)
        \/ FindPerson(s) \/ FindName(s) \/ SaveSignIn(s)
        \/ \E sheet \in Sheets : StartImport(s, sheet)
        \/ ResolveUser(s) \/ WriteUser(s) \/ BreakDeadlock(s) \/ EndUserImport(s)
    \/ \E p \in Identities, n \in Names : RenamePerson(p, n)
    \/ \E n \in Names, p \in Positions \cup {NoPosition} : CreateUser(n, p) \/ UpdateUser(n, p)
    \/ \E n \in Names : DeleteUser(n)
    \/ \E p \in Positions : DeleteRole(p)

AccountSpec == AccountInit /\ [][AccountNext]_accountVars
----------------------------------------------------------------------------
\* The rows are well-formed.
AccountTypeOK ==
    /\ user \in [Names -> {Nobody} \cup [who : Identities \cup {Local}, position : Positions \cup {NoPosition},
                                        number : Nat, import : Nat]]
    /\ offices \subseteq Positions
    /\ nameOf \in [Identities -> Names]
    /\ moved \subseteq Identities
    /\ kept \subseteq Nat /\ changes \in 0..MaxChanges

(***************************************************************************)
(* Nobody has two accounts, though the table does not say so: overlapping  *)
(* first sign-ins of one person meet at the unique name, unless the person *)
(* is renamed in between (ldap_auth.py 178-229, oauth_auth.py 38-77).  A   *)
(* second account would close both ways in: scalar_one_or_none raises.     *)
(***************************************************************************)
OneAccountPerIdentity == \A p \in Identities \ moved : Cardinality(AccountsOf(p)) <= 1

(***************************************************************************)
(* When an import of users returns, the accounts of all rows it does not   *)
(* report as refused have the role of their last such row; or none of its  *)
(* rows was written, as it says by refusing one or by an error             *)
(* (user.py 727-755).                                                      *)
(***************************************************************************)
ImportDoesAsReported ==
    [][\A s \in Sessions : EndUserImport(s) =>
        LET i == session[s]
            good == DOMAIN i.sheet \ i.refused
            Last(j) == \A k \in good : i.sheet[k].name = i.sheet[j].name => k <= j
            Written(j) == user'[i.sheet[j].name] # Nobody
                          /\ user'[i.sheet[j].name].position = i.sheet[j].position
        IN  \/ \A j \in good : Last(j) => Written(j)
            \/ kept' = kept /\ user' = user]_accountVars

(***************************************************************************)
(* Sign-ins by directories and providers, imports, renamings and deletions *)
(* that overlap keep both.                                                 *)
(***************************************************************************)
AccountsAgree == [](AccountTypeOK /\ OneAccountPerIdentity) /\ ImportDoesAsReported
=============================================================================
