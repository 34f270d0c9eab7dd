--------------------------- MODULE AuthSessionProps ---------------------------
(***************************************************************************)
(* What tokens, passwords and second factors guarantee.                    *)
(***************************************************************************)
EXTENDS AuthSession

TokenSet == [sub : People, type : {"access", "refresh", "password_change"}, exp : Nat,
             challenge : BOOLEAN, verified : BOOLEAN]

\* The state is well-formed.
SessionTypeOK ==
    /\ now \in 0..LastTick
    /\ account \in [People -> [active : BOOLEAN, kind : {"local", "external"}, pwd : Passwords,
                               changed : Nat, totp : BOOLEAN, secret : Secrets \cup {NoSecret}]]
    /\ tokens \subseteq TokenSet
    /\ revoked \subseteq [token : TokenSet, until : Nat]
    /\ redisUp \in BOOLEAN
    /\ twoFa \in [Requests -> [op : {"idle"}]
                         \cup [op : {"enable", "disable"}, user : People, totp : BOOLEAN]]
    /\ ended \subseteq tokens /\ proved \subseteq People
    /\ crossed \in BOOLEAN /\ edits \in 0..MaxEdits

(***************************************************************************)
(* A token that was logged out opens nothing until it expires, whether or  *)
(* not Redis answers at the time (deps.py 36-58, auth.py 163-172).  Before *)
(* its last second, in which the blacklist entry is gone and the token     *)
(* still decodes.                                                          *)
(***************************************************************************)
LoggedOutIsRefused == \A t \in ended : now < t.exp => ~Accepts(t)

(***************************************************************************)
(* A token says that the second factor was given only to who gave it,      *)
(* however often it was renewed (auth.py 146-160, 224-247).                *)
(***************************************************************************)
VerifiedByCode == \A t \in tokens : t.verified => t.sub \in proved

(***************************************************************************)
(* A second factor that is enabled can be given, so that the account can   *)
(* log in and disable it: enabled without a secret is reached only when    *)
(* requests about the factor overlap (auth.py 190-265).                    *)
(***************************************************************************)
EnabledHasSecret == crossed \/ \A u \in People : account[u].totp => account[u].secret # NoSecret

(***************************************************************************)
(* After a forced change the password is not an initial one, even for an   *)
(* account created this second: its owner is not asked again               *)
(* (auth.py 306-326, security.py 117-128).                                 *)
(***************************************************************************)
ForcedChangeSettles ==
    [][\A t \in tokens, p \in Passwords : ForceChange(t, p) => ~Initial(t.sub)']_sessionVars

(***************************************************************************)
(* The four together, over every order of sign-ins, renewals, log-outs and *)
(* changes of passwords, second factors and accounts.                      *)
(***************************************************************************)
SessionsAreSafe ==
    /\ [](SessionTypeOK /\ LoggedOutIsRefused /\ VerifiedByCode /\ EnabledHasSecret)
    /\ ForcedChangeSettles
=============================================================================
