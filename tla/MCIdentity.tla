----------------------------- MODULE MCIdentity -----------------------------
(***************************************************************************)
(* Who may use the platform and read data: six parts, each on its own.     *)
(* They share no state: the first state chooses the part that runs, and of *)
(* the others one initial state is enough.                                 *)
(***************************************************************************)
EXTENDS AuthSessionProps, OneTimeCodes, Associations, Accounts, Settings, QueryPrivilegeProps, TLC

CONSTANTS
    Modelled, \* the parts that may run
    r1, r2,   \* two requests, editors, sessions, ...: the same names for all parts
    ann, bob, dba, dev, none, url, pwd, v1, empty

VARIABLE part

\* Accounts: one sheet that renames roles within an import, one that repeats a name.
SheetRow(name, position) == [name |-> name, position |-> position]
TwoSheets == {<<SheetRow(ann, none), SheetRow(bob, dev)>>, <<SheetRow(bob, dev), SheetRow(ann, dev), SheetRow(bob, none)>>}
\* Settings: a channel needs a plain setting, which has a default, and a sensitive one.
UrlByDefault(k) == IF k = url THEN v1 ELSE empty
BothKeys(channel) == {url, pwd}

\* QueryPrivilege: chains of up to two nodes.
ThreeTemplates == {<<>>, <<{ann}>>, <<{ann, bob}, {bob}>>}

IdentityInit ==
    /\ part \in Modelled
    /\ part # "sessions" => account = [p \in People |-> [active |-> TRUE, kind |-> "local", changed |-> 0,
                               pwd |-> CHOOSE w \in Passwords : TRUE, totp |-> FALSE, secret |-> NoSecret]]
    /\ SessionInit
    /\ CodeInit
    /\ part # "links" => present = UNION {Members, Groups, ResourceGroups, Instances, Builtin, Codes}
                         /\ link = [table \in {"member", "scope", "holds", "permits"} |-> {}]
    /\ LinkInit
    /\ part # "accounts" => user = [n \in Names |-> Nobody] /\ nameOf = [p \in Identities |-> ann]
    /\ AccountInit
    /\ part # "settings" => row = [k \in Keys |-> Absent]
    /\ SettingInit
    /\ part # "privileges" => template = <<>>
    /\ Init

\* Part p takes a step, the others do not.
Turns(p) ==
    /\ part = p /\ UNCHANGED part
    /\ p # "sessions" => UNCHANGED sessionVars
    /\ p # "codes" => UNCHANGED codeVars
    /\ p # "links" => UNCHANGED linkVars
    /\ p # "accounts" => UNCHANGED accountVars
    /\ p # "settings" => UNCHANGED settingVars
    /\ p # "privileges" => UNCHANGED vars

SessionsStep == Turns("sessions") /\ SessionNext
CodesStep == Turns("codes") /\ CodeNext
LinksStep == Turns("links") /\ LinkNext
AccountsStep == Turns("accounts") /\ AccountNext
SettingsStep == Turns("settings") /\ SettingNext
PrivilegesStep == Turns("privileges") /\ Next

IdentityNext ==
    \/ SessionsStep \/ CodesStep \/ LinksStep \/ AccountsStep \/ SettingsStep
    \/ PrivilegesStep

IdentityVars == <<part, sessionVars, codeVars, linkVars, accountVars, settingVars, vars>>
IdentitySpec == IdentityInit /\ [][IdentityNext]_IdentityVars

\* Requests are interchangeable.
Symmetry == Permutations({r1, r2})
=============================================================================
