---------------------------- MODULE Identity_proofs ----------------------------
(***************************************************************************)
(* Signing in, accounts and settings.  Tokens that were logged out open    *)
(* nothing, second factors are claimed only by who gave them and can be    *)
(* given where they are enabled, and a forced change of a password ends:   *)
(* for any accounts, any requests about the second factor, any lifetimes   *)
(* and any failures of Redis.  A code or a state that was used is never    *)
(* there again, and codes are sent at most as often as limits allow.  What *)
(* was saved last of a setting is what is read.  Nobody has two accounts   *)
(* and imports of users do as they report.  Links between users, groups,   *)
(* resource groups, instances and roles are what was asked for.  All of it *)
(* for any number of overlapping requests.                                 *)
(***************************************************************************)
EXTENDS OneTimeCodes, AuthSessionProps, Associations, Accounts, Settings, FiniteSetTheorems, TLAPS

AccountRows == [active : BOOLEAN, kind : {"local", "external"}, pwd : Passwords,
             changed : Nat, totp : BOOLEAN, secret : Secrets \cup {NoSecret}]

\* Redis still holds what was logged out, as long as it decodes.
EndedIsRevoked == \A t \in ended : now < t.exp => [token |-> t, until |-> t.exp] \in revoked

\* Unless requests overlapped, there is one at a time, and the account whose
\* second factor it enables has a secret.
OneIsOpen ==
    ~crossed => \A r, q \in Requests : twoFa[r].op # "idle" /\ twoFa[q].op # "idle" => r = q
EnabledWithSecret ==
    ~crossed => \A r \in Requests : twoFa[r].op = "enable" => account[twoFa[r].user].secret # NoSecret

SessionInv ==
    /\ SessionTypeOK /\ EndedIsRevoked /\ VerifiedByCode
    /\ OneIsOpen /\ EnabledWithSecret /\ EnabledHasSecret
----------------------------------------------------------------------------
LEMMA Times ==
    /\ AccessTTL \in Nat /\ RefreshTTL \in Nat /\ ChangeTTL \in Nat /\ PasswordTTL \in Nat
    /\ Grace \in Nat /\ LastTick \in Nat /\ MaxEdits \in Nat
BY TTLAssumption

\* What is issued is a token, and claims what it was told to claim.
LEMMA Issued ==
    ASSUME SessionTypeOK, NEW u \in People, NEW v \in BOOLEAN
    PROVE  /\ LoginTokens(u, v) \subseteq TokenSet
           /\ \A t \in LoginTokens(u, v) : t.sub = u /\ t.verified = v
           /\ FirstFactorTokens(u) \subseteq TokenSet
           /\ \A t \in FirstFactorTokens(u) : ~t.verified
           /\ Token(u, "password_change", ChangeTTL, FALSE, FALSE) \in TokenSet
           /\ ~Token(u, "password_change", ChangeTTL, FALSE, FALSE).verified
<1>1. now \in Nat
  BY Times DEF SessionTypeOK
<1>2. ASSUME NEW type \in {"access", "refresh", "password_change"}, NEW ttl \in Nat,
             NEW c \in BOOLEAN, NEW w \in BOOLEAN
      PROVE  /\ Token(u, type, ttl, c, w) \in TokenSet
             /\ Token(u, type, ttl, c, w).sub = u /\ Token(u, type, ttl, c, w).verified = w
  BY <1>1 DEF Token, TokenSet
<1>6. FALSE \in BOOLEAN /\ AccessTTL \in Nat /\ RefreshTTL \in Nat /\ ChangeTTL \in Nat
  BY Times
<1>3. ASSUME NEW w \in BOOLEAN
      PROVE  LoginTokens(u, w) \subseteq TokenSet /\ \A t \in LoginTokens(u, w) : t.sub = u /\ t.verified = w
  <2> DEFINE a == Token(u, "access", AccessTTL, FALSE, w)
             r == Token(u, "refresh", RefreshTTL, FALSE, w)
  <2>1. a \in TokenSet /\ a.sub = u /\ a.verified = w
    BY <1>2, <1>6
  <2>2. r \in TokenSet /\ r.sub = u /\ r.verified = w
    BY <1>2, <1>6
  <2>3. LoginTokens(u, w) = {a, r}
    BY DEF LoginTokens
  <2> HIDE DEF a, r
  <2> QED BY <2>1, <2>2, <2>3
<1>4. LoginTokens(u, FALSE) \subseteq TokenSet /\ \A t \in LoginTokens(u, FALSE) : ~t.verified
  BY <1>3, <1>6
<1>5. FirstFactorTokens(u) \subseteq TokenSet /\ \A t \in FirstFactorTokens(u) : ~t.verified
  <2> DEFINE c == Token(u, "access", AccessTTL, TRUE, FALSE)
  <2>1. c \in TokenSet /\ ~c.verified
    BY <1>2, <1>6
  <2>2. FirstFactorTokens(u) = IF account[u].totp THEN {c} ELSE LoginTokens(u, FALSE)
    BY DEF FirstFactorTokens
  <2> HIDE DEF c
  <2> QED BY <1>4, <2>1, <2>2
<1>7. /\ Token(u, "password_change", ChangeTTL, FALSE, FALSE) \in TokenSet
      /\ ~Token(u, "password_change", ChangeTTL, FALSE, FALSE).verified
  BY <1>2, <1>6
<1> QED BY <1>3, <1>5, <1>7

\* An account stays one when a column takes a value of its own.
LEMMA Column ==
    ASSUME SessionTypeOK, NEW u \in People
    PROVE  /\ account[u] \in AccountRows
           /\ \A k \in {"local", "external"} : [account EXCEPT ![u].kind = k] \in [People -> AccountRows]
           /\ \A s \in Secrets : [account EXCEPT ![u].secret = s] \in [People -> AccountRows]
           /\ \A b \in BOOLEAN : [account EXCEPT ![u].totp = b] \in [People -> AccountRows]
           /\ [account EXCEPT ![u].active = ~@] \in [People -> AccountRows]
           /\ [account EXCEPT ![u] = Cleared(@)] \in [People -> AccountRows]
           /\ \A p \in Passwords, at \in Nat :
                 [account EXCEPT ![u].pwd = p, ![u].changed = at] \in [People -> AccountRows]
<1>1. account \in [People -> AccountRows]
  BY DEF SessionTypeOK, AccountRows
<1>2. account[u] \in AccountRows
  BY <1>1
<1>3. ASSUME NEW r \in AccountRows PROVE [account EXCEPT ![u] = r] \in [People -> AccountRows]
  BY <1>1
<1>4. /\ \A k \in {"local", "external"} : [account[u] EXCEPT !.kind = k] \in AccountRows
      /\ \A s \in Secrets : [account[u] EXCEPT !.secret = s] \in AccountRows
      /\ \A b \in BOOLEAN : [account[u] EXCEPT !.totp = b] \in AccountRows
      /\ \A p \in Passwords, at \in Nat : [account[u] EXCEPT !.pwd = p, !.changed = at] \in AccountRows
  BY <1>2 DEF AccountRows
<1>5. [account[u] EXCEPT !.active = ~@] \in AccountRows
  BY <1>2 DEF AccountRows
<1>6. Cleared(account[u]) \in AccountRows
  BY <1>2 DEF AccountRows, Cleared
<1> QED BY <1>1, <1>2, <1>3, <1>4, <1>5, <1>6

\* What may be issued, and how far edits are counted.
LEMMA Issuing ==
    ASSUME SessionTypeOK, NEW new \in SUBSET TokenSet, Issue(new)
    PROVE  tokens' \subseteq TokenSet /\ tokens \subseteq tokens'
BY DEF SessionTypeOK, Issue

LEMMA Counted ==
    ASSUME SessionTypeOK, Edit
    PROVE  edits' \in 0..MaxEdits
BY Times DEF SessionTypeOK, Edit
----------------------------------------------------------------------------
\* Types, by action.
LEMMA SessionTypeStep ==
    ASSUME SessionTypeOK, [SessionNext]_sessionVars
    PROVE  SessionTypeOK'
<1> USE DEF SessionTypeOK
<1>1. CASE UNCHANGED sessionVars
  BY <1>1 DEF sessionVars
<1>2. ASSUME NEW u \in People, PasswordLogin(u) PROVE SessionTypeOK'
  <2>1. tokens' \subseteq TokenSet /\ tokens \subseteq tokens'
    <3>1. FirstFactorTokens(u) \in SUBSET TokenSet
      BY Issued, TRUE \in BOOLEAN
    <3>2. Token(u, "password_change", ChangeTTL, FALSE, FALSE) \in TokenSet
      BY Issued, TRUE \in BOOLEAN
    <3>3. \E new \in SUBSET TokenSet : Issue(new)
      BY <1>2, <3>1, <3>2 DEF PasswordLogin
    <3> QED BY <3>3, Issuing
  <2> QED BY <1>2, <2>1 DEF PasswordLogin, histories
<1>3. ASSUME NEW u \in People, NEW k \in {"local", "external"}, DirectoryLogin(u, k) PROVE SessionTypeOK'
  <2>1. tokens' \subseteq TokenSet /\ tokens \subseteq tokens'
    BY <1>3, Issued, Issuing DEF DirectoryLogin
  <2>2. account' \in [People -> AccountRows]
    BY <1>3, Column DEF DirectoryLogin
  <2> QED BY <1>3, <2>1, <2>2 DEF DirectoryLogin, histories, AccountRows
<1>4. ASSUME NEW u \in People, SmsLogin(u) PROVE SessionTypeOK'
  <2>1. account[u].kind \in {"local", "external"}
    BY Column DEF AccountRows
  <2> QED BY <1>3, <1>4, <2>1 DEF SmsLogin
<1>5. ASSUME NEW u \in People, OauthLogin(u) PROVE SessionTypeOK'
  <2>1. tokens' \subseteq TokenSet /\ tokens \subseteq tokens'
    BY <1>5, Issued, Issuing DEF OauthLogin
  <2>2. account' \in [People -> AccountRows]
    BY <1>5, Column DEF OauthLogin
  <2> QED BY <1>5, <2>1, <2>2 DEF OauthLogin, histories, AccountRows
<1>6. ASSUME NEW t \in tokens, SecondFactorLogin(t) PROVE SessionTypeOK'
  <2>1. t.sub \in People
    BY DEF TokenSet
  <2> QED BY <1>6, <2>1, Issued DEF SecondFactorLogin, Issue
<1>7. ASSUME NEW t \in tokens, Refresh(t) PROVE SessionTypeOK'
  <2>1. t.sub \in People /\ t.verified \in BOOLEAN
    BY DEF TokenSet
  <2> QED BY <1>7, <2>1, Issued DEF Refresh, Renewed, Issue, histories
<1>8. ASSUME NEW t \in tokens, Logout(t) PROVE SessionTypeOK'
  <2>1. t \in TokenSet /\ t.exp \in Nat
    BY DEF TokenSet
  <2> QED BY <1>8, <2>1 DEF Logout, Until
<1>9. ASSUME NEW u \in People, NEW s \in Secrets, Setup(u, s) PROVE SessionTypeOK'
  <2>1. account' \in [People -> AccountRows]
    BY <1>9, Column DEF Setup
  <2>2. edits' \in 0..MaxEdits
    BY <1>9, Counted DEF Setup
  <2> QED BY <1>9, <2>1, <2>2 DEF Setup, AccountRows
<1>10. ASSUME NEW r \in Requests, NEW u \in People, NEW op \in {"enable", "disable"}, ReadTwoFa(r, u, op)
       PROVE  SessionTypeOK'
  <2>1. account[u].totp \in BOOLEAN
    BY Column DEF AccountRows
  <2>2. crossed' \in BOOLEAN
    BY <1>10 DEF ReadTwoFa
  <2> QED BY <1>10, <2>1, <2>2 DEF ReadTwoFa
<1>11. ASSUME NEW r \in Requests, CommitEnable(r) PROVE SessionTypeOK'
  <2>1. twoFa[r].user \in People /\ twoFa[r].totp \in BOOLEAN
    BY <1>11 DEF CommitEnable
  <2>2. account[twoFa[r].user].totp \in BOOLEAN
    BY <2>1, Column DEF AccountRows
  <2>3. account' \in [People -> AccountRows]
    BY <1>11, <2>1, <2>2, Column DEF CommitEnable
  <2> QED BY <1>11, <2>3 DEF CommitEnable, histories, AccountRows
<1>12. ASSUME NEW r \in Requests, CommitDisable(r) PROVE SessionTypeOK'
  <2>1. twoFa[r].user \in People
    BY <1>12 DEF CommitDisable
  <2>2. account' \in [People -> AccountRows]
    BY <1>12, <2>1, Column DEF CommitDisable
  <2> QED BY <1>12, <2>2 DEF CommitDisable, histories, AccountRows
<1>13. ASSUME NEW u \in People, NEW p \in Passwords, NEW at \in Nat, SetPassword(u, p, at) PROVE SessionTypeOK'
  <2>1. account' \in [People -> AccountRows]
    BY <1>13, Column DEF SetPassword
  <2>2. edits' \in 0..MaxEdits
    BY <1>13, Counted DEF SetPassword
  <2> QED BY <1>13, <2>1, <2>2 DEF SetPassword, AccountRows
<1>14. ASSUME NEW u \in People, SetActive(u) PROVE SessionTypeOK'
  <2>1. account' \in [People -> AccountRows]
    BY <1>14, Column DEF SetActive
  <2>2. edits' \in 0..MaxEdits
    BY <1>14, Counted DEF SetActive
  <2> QED BY <1>14, <2>1, <2>2 DEF SetActive, AccountRows
<1>15. CASE Tick
  BY <1>15, Times DEF Tick
<1>16. CASE RedisFails \/ RedisReturns
  BY <1>16 DEF RedisFails, RedisReturns, histories
<1>17. \A u \in People, p \in Passwords : ChangePassword(u, p) \/ ResetPassword(u, p) => SessionTypeOK'
  BY <1>13, Times DEF ChangePassword, ResetPassword, Created
<1>18. ASSUME NEW t \in tokens, NEW p \in Passwords, ForceChange(t, p) PROVE SessionTypeOK'
  <2>1. t.sub \in People /\ AfterGrace \in Nat
    BY Times DEF TokenSet, AfterGrace
  <2> QED BY <1>13, <1>18, <2>1 DEF ForceChange
<1> QED BY <1>1, <1>2, <1>3, <1>4, <1>5, <1>6, <1>7, <1>8, <1>9, <1>10, <1>11, <1>12, <1>14, <1>15,
           <1>16, <1>17, <1>18 DEF SessionNext, LdapLogin
----------------------------------------------------------------------------
\* What Redis is told lasts as long as the token.
LEMMA EndedStep ==
    ASSUME SessionTypeOK, EndedIsRevoked, [SessionNext]_sessionVars
    PROVE  EndedIsRevoked'
<1>1. ASSUME UNCHANGED <<now, ended, revoked>> PROVE EndedIsRevoked'
  BY <1>1 DEF EndedIsRevoked
<1>2. ASSUME NEW t \in tokens, Logout(t) PROVE EndedIsRevoked'
  BY <1>2 DEF EndedIsRevoked, Logout, Until
<1>3. CASE Tick
  <2> SUFFICES ASSUME NEW e \in ended', now' < e.exp PROVE [token |-> e, until |-> e.exp] \in revoked'
    BY DEF EndedIsRevoked
  <2>1. now \in Nat /\ now' = now + 1 /\ e \in ended /\ e.exp \in Nat
    BY <1>3, Times DEF Tick, SessionTypeOK, TokenSet
  <2>2. [token |-> e, until |-> e.exp] \in revoked
    BY <2>1 DEF EndedIsRevoked
  <2> QED BY <1>3, <2>1, <2>2 DEF Tick
<1> QED BY <1>1, <1>2, <1>3 DEF SessionNext, sessionVars, histories, PasswordLogin, LdapLogin, SmsLogin,
           DirectoryLogin, OauthLogin, SecondFactorLogin, Refresh, Setup, ReadTwoFa, CommitEnable,
           CommitDisable, ChangePassword, ResetPassword, ForceChange, SetPassword, SetActive, RedisFails,
           RedisReturns
----------------------------------------------------------------------------
(* Who claims the second factor gave it: the tokens of an action claim no  *)
(* more than it proved.                                                    *)
LEMMA VerifiedStep ==
    ASSUME SessionTypeOK, VerifiedByCode, [SessionNext]_sessionVars
    PROVE  VerifiedByCode'
<1>1. ASSUME tokens' \subseteq tokens, proved' = proved PROVE VerifiedByCode'
  BY <1>1 DEF VerifiedByCode
<1>2. ASSUME NEW new, Issue(new), proved \subseteq proved',
             \A t \in new : t.verified => t.sub \in proved'
      PROVE  VerifiedByCode'
  BY <1>2 DEF VerifiedByCode, Issue
<1>3. ASSUME NEW u \in People
      PROVE  /\ \A t \in FirstFactorTokens(u) \cup LoginTokens(u, FALSE) : ~t.verified
             /\ \A t \in LoginTokens(u, TRUE) : t.sub = u
             /\ ~Token(u, "password_change", ChangeTTL, FALSE, FALSE).verified
  <2>1. TRUE \in BOOLEAN /\ FALSE \in BOOLEAN
    OBVIOUS
  <2> QED BY <2>1, Issued
<1>4. ASSUME NEW u \in People, PasswordLogin(u) PROVE VerifiedByCode'
  <2>1. proved' = proved
    BY <1>4 DEF PasswordLogin, histories
  <2>2. CASE MustChange(u)
    <3>1. Issue({Token(u, "password_change", ChangeTTL, FALSE, FALSE)})
      BY <1>4, <2>2 DEF PasswordLogin
    <3> QED BY <1>2, <1>3, <2>1, <3>1
  <2>3. CASE ~MustChange(u)
    <3>1. Issue(FirstFactorTokens(u))
      BY <1>4, <2>3 DEF PasswordLogin
    <3> QED BY <1>2, <1>3, <2>1, <3>1
  <2> QED BY <2>2, <2>3
<1>5. ASSUME NEW u \in People, NEW kind, DirectoryLogin(u, kind) PROVE VerifiedByCode'
  <2>1. proved' = proved
    BY <1>5 DEF DirectoryLogin, histories
  <2>2. CASE account[u].active
    <3>1. Issue(FirstFactorTokens(u))
      BY <1>5, <2>2 DEF DirectoryLogin
    <3> QED BY <1>2, <1>3, <2>1, <3>1
  <2>3. CASE ~account[u].active
    <3>1. tokens' = tokens
      BY <1>5, <2>3 DEF DirectoryLogin
    <3> QED BY <1>1, <2>1, <3>1
  <2> QED BY <2>2, <2>3
<1>6. ASSUME NEW u \in People, OauthLogin(u) PROVE VerifiedByCode'
  <2>1. proved' = proved
    BY <1>6 DEF OauthLogin, histories
  <2>2. CASE account[u].active
    <3>1. Issue(LoginTokens(u, FALSE))
      BY <1>6, <2>2 DEF OauthLogin
    <3> QED BY <1>2, <1>3, <2>1, <3>1
  <2>3. CASE ~account[u].active
    <3>1. tokens' = tokens
      BY <1>6, <2>3 DEF OauthLogin
    <3> QED BY <1>1, <2>1, <3>1
  <2> QED BY <2>2, <2>3
<1>7. ASSUME NEW t \in tokens, SecondFactorLogin(t) PROVE VerifiedByCode'
  <2>1. t.sub \in People
    BY DEF SessionTypeOK, TokenSet
  <2>2. Issue(LoginTokens(t.sub, TRUE)) /\ proved' = proved \cup {t.sub}
    BY <1>7 DEF SecondFactorLogin
  <2> QED BY <1>2, <1>3, <2>1, <2>2
<1>8. ASSUME NEW t \in tokens, Refresh(t) PROVE VerifiedByCode'
  <2>1. t.sub \in People /\ t.verified \in BOOLEAN
    <3>1. t \in TokenSet
      BY DEF SessionTypeOK
    <3> QED BY <3>1 DEF TokenSet
  <2>2. \A r \in LoginTokens(t.sub, t.verified) : r.sub = t.sub /\ r.verified = t.verified
    <3>1. ASSUME NEW u \in People, NEW v \in BOOLEAN
          PROVE  \A r \in LoginTokens(u, v) : r.sub = u /\ r.verified = v
      BY Issued
    <3> QED BY <2>1, <3>1
  <2>3. Issue(LoginTokens(t.sub, t.verified)) /\ proved' = proved
    BY <1>8 DEF Refresh, Renewed, histories
  <2>4. \A r \in LoginTokens(t.sub, t.verified) : r.verified => r.sub \in proved'
    BY <2>2, <2>3 DEF VerifiedByCode
  <2> QED BY <1>2, <2>3, <2>4
<1>9. CASE Tick
  BY <1>1, <1>9 DEF Tick
<1> QED BY <1>1, <1>4, <1>5, <1>6, <1>7, <1>8, <1>9 DEF SessionNext, sessionVars, histories, LdapLogin,
           SmsLogin, Logout, Setup, ReadTwoFa, CommitEnable, CommitDisable, ChangePassword,
           ResetPassword, ForceChange, SetPassword, SetActive, RedisFails, RedisReturns
----------------------------------------------------------------------------
TwoFaInv == OneIsOpen /\ EnabledWithSecret /\ EnabledHasSecret

\* Nobody loses a secret or has a second factor enabled.
LEMMA SecretsKept ==
    ASSUME SessionTypeOK, TwoFaInv, UNCHANGED <<twoFa, crossed>>,
           \A u \in People : /\ account'[u].totp => account[u].totp
                             /\ account[u].secret # NoSecret => account'[u].secret # NoSecret
    PROVE  TwoFaInv'
<1>1. \A r \in Requests : twoFa[r].op = "enable" => twoFa[r].user \in People
  BY DEF SessionTypeOK
<1> QED BY <1>1 DEF TwoFaInv, OneIsOpen, EnabledWithSecret, EnabledHasSecret

LEMMA TwoFaStep ==
    ASSUME SessionTypeOK, TwoFaInv, [SessionNext]_sessionVars
    PROVE  TwoFaInv'
<1>1. ASSUME UNCHANGED <<twoFa, crossed, account>> PROVE TwoFaInv'
  BY <1>1, SecretsKept
<1>2. ASSUME NEW u \in People, NEW kind, DirectoryLogin(u, kind) \/ OauthLogin(u) PROVE TwoFaInv'
  <2>1. account \in [People -> AccountRows]
    BY DEF SessionTypeOK, AccountRows
  <2>2. \E k : account' = [account EXCEPT ![u].kind = k]
    BY <1>2 DEF DirectoryLogin, OauthLogin
  <2>3. PICK k : account' = [account EXCEPT ![u].kind = k]
    BY <2>2
  <2>4. \A v \in People : account'[v].totp = account[v].totp /\ account'[v].secret = account[v].secret
    BY <2>1, <2>3 DEF AccountRows
  <2> QED BY <1>2, <2>4, SecretsKept DEF DirectoryLogin, OauthLogin, histories
<1>3. ASSUME NEW u \in People, NEW s \in Secrets, Setup(u, s) PROVE TwoFaInv'
  <2>1. \A v \in People : account'[v].totp = account[v].totp
                          /\ (account[v].secret # NoSecret => account'[v].secret # NoSecret)
    BY <1>3, SecretAssumption DEF Setup, SessionTypeOK
  <2> QED BY <1>3, <2>1, SecretsKept DEF Setup
<1>4. ASSUME NEW u \in People, NEW p, NEW at, SetPassword(u, p, at) PROVE TwoFaInv'
  <2>1. \A v \in People : account'[v].totp = account[v].totp /\ account'[v].secret = account[v].secret
    BY <1>4 DEF SetPassword, SessionTypeOK
  <2> QED BY <1>4, <2>1, SecretsKept DEF SetPassword
<1>5. ASSUME NEW u \in People, SetActive(u) PROVE TwoFaInv'
  <2>1. \A v \in People : account'[v].totp = account[v].totp /\ account'[v].secret = account[v].secret
    BY <1>5 DEF SetActive, SessionTypeOK
  <2> QED BY <1>5, <2>1, SecretsKept DEF SetActive
<1>6. ASSUME NEW r \in Requests, NEW u \in People, NEW op \in {"enable", "disable"}, ReadTwoFa(r, u, op)
      PROVE  TwoFaInv'
  <2> SUFFICES ASSUME ~crossed' PROVE TwoFaInv'
    BY DEF TwoFaInv, OneIsOpen, EnabledWithSecret, EnabledHasSecret
  <2>1. ~crossed /\ \A q \in Requests : twoFa[q].op = "idle"
    BY <1>6 DEF ReadTwoFa, Open, SessionTypeOK
  <2>2. /\ \A q \in Requests \ {r} : twoFa'[q].op = "idle"
        /\ twoFa'[r].user = u /\ account' = account /\ account[u].secret # NoSecret
    BY <1>6, <2>1 DEF ReadTwoFa, SessionTypeOK
  <2>3. OneIsOpen'
    BY <2>2 DEF OneIsOpen
  <2>4. EnabledWithSecret'
    BY <2>2 DEF EnabledWithSecret
  <2> QED BY <2>1, <2>2, <2>3, <2>4 DEF TwoFaInv, EnabledHasSecret
<1>7. ASSUME NEW r \in Requests, CommitEnable(r) PROVE TwoFaInv'
  <2> SUFFICES ASSUME ~crossed' PROVE TwoFaInv'
    BY DEF TwoFaInv, OneIsOpen, EnabledWithSecret, EnabledHasSecret
  <2> DEFINE u == twoFa[r].user
  <2>1. ~crossed /\ u \in People /\ account[u].secret # NoSecret
    BY <1>7 DEF CommitEnable, histories, TwoFaInv, EnabledWithSecret, SessionTypeOK
  <2>2. \A q \in Requests : twoFa'[q] = IF q = r THEN [op |-> "idle"] ELSE twoFa[q]
    <3>1. twoFa' = [twoFa EXCEPT ![r] = [op |-> "idle"]]
      BY <1>7 DEF CommitEnable
    <3> QED BY <3>1 DEF SessionTypeOK
  <2>3. \A v \in People : /\ account'[v].secret = account[v].secret
                          /\ v # u => account'[v] = account[v]
    <3>1. account' = [account EXCEPT ![u].totp = IF twoFa[r].totp THEN @ ELSE TRUE]
      BY <1>7 DEF CommitEnable
    <3>2. account \in [People -> AccountRows]
      BY DEF SessionTypeOK, AccountRows
    <3> HIDE DEF u
    <3> QED BY <3>1, <3>2 DEF AccountRows
  <2>4. OneIsOpen'
    BY <2>1, <2>2 DEF TwoFaInv, OneIsOpen
  <2>5. \A q \in Requests : twoFa[q].op = "enable" => twoFa[q].user \in People
    BY DEF SessionTypeOK
  <2>6. EnabledWithSecret'
    BY <2>1, <2>2, <2>3, <2>5 DEF TwoFaInv, EnabledWithSecret
  <2>7. EnabledHasSecret'
    BY <2>1, <2>3 DEF TwoFaInv, EnabledHasSecret
  <2> QED BY <2>4, <2>6, <2>7 DEF TwoFaInv
<1>8. ASSUME NEW r \in Requests, CommitDisable(r) PROVE TwoFaInv'
  <2> SUFFICES ASSUME ~crossed' PROVE TwoFaInv'
    BY DEF TwoFaInv, OneIsOpen, EnabledWithSecret, EnabledHasSecret
  <2> DEFINE u == twoFa[r].user
  <2>1. ~crossed /\ u \in People
    BY <1>8 DEF CommitDisable, histories, SessionTypeOK
  <2>2. \A q \in Requests : twoFa'[q].op = "idle"
    <3>1. \A q \in Requests : q # r => twoFa[q].op = "idle"
      BY <1>8, <2>1 DEF CommitDisable, TwoFaInv, OneIsOpen
    <3> QED BY <1>8, <3>1 DEF CommitDisable, SessionTypeOK
  <2>3. \A v \in People : IF v = u THEN ~account'[v].totp ELSE account'[v] = account[v]
    BY <1>8 DEF CommitDisable, Cleared, SessionTypeOK
  <2>4. OneIsOpen' /\ EnabledWithSecret'
    BY <2>2 DEF OneIsOpen, EnabledWithSecret
  <2>5. EnabledHasSecret'
    BY <2>1, <2>3 DEF TwoFaInv, EnabledHasSecret
  <2> QED BY <2>4, <2>5 DEF TwoFaInv
<1>9. CASE UNCHANGED sessionVars \/ Tick \/ RedisFails \/ RedisReturns
  BY <1>1, <1>9 DEF sessionVars, histories, Tick, RedisFails, RedisReturns
<1>10. ASSUME NEW u \in People, PasswordLogin(u) PROVE TwoFaInv'
  BY <1>1, <1>10 DEF PasswordLogin, histories
<1>11. ASSUME NEW t \in tokens, SecondFactorLogin(t) \/ Refresh(t) \/ Logout(t) PROVE TwoFaInv'
  BY <1>1, <1>11 DEF SecondFactorLogin, Refresh, Logout, histories
<1>12. ASSUME NEW u \in People, LdapLogin(u) \/ SmsLogin(u) PROVE TwoFaInv'
  BY <1>2, <1>12 DEF LdapLogin, SmsLogin
<1>13. ASSUME NEW t \in tokens, NEW p \in Passwords, ForceChange(t, p) PROVE TwoFaInv'
  <2>1. t.sub \in People
    BY DEF SessionTypeOK, TokenSet
  <2> QED BY <1>4, <1>13, <2>1 DEF ForceChange
<1>14. ASSUME NEW u \in People, NEW p \in Passwords, ChangePassword(u, p) \/ ResetPassword(u, p)
       PROVE  TwoFaInv'
  BY <1>4, <1>14 DEF ChangePassword, ResetPassword
<1> QED BY <1>2, <1>3, <1>5, <1>6, <1>7, <1>8, <1>9, <1>10, <1>11, <1>12, <1>13, <1>14 DEF SessionNext
----------------------------------------------------------------------------
(***************************************************************************)
(* The state keeps its types; what was logged out is still held by Redis,  *)
(* what claims a second factor was proved, and a second factor is enabled  *)
(* with a secret unless requests overlapped (auth.py 146-265).             *)
(***************************************************************************)
THEOREM SessionInvariant == SessionSpec => []SessionInv
<1>1. SessionInit => SessionInv
  <2> SUFFICES ASSUME SessionInit PROVE SessionInv
    OBVIOUS
  <2>1. account \in [People -> AccountRows]
    <3> DEFINE First == [active : {TRUE}, kind : {"local"}, pwd : Passwords, changed : {0},
                         totp : {FALSE}, secret : {NoSecret}]
    <3>1. ASSUME NEW a \in First PROVE a \in AccountRows
      <4>1. /\ a = [active |-> a.active, kind |-> a.kind, pwd |-> a.pwd, changed |-> a.changed,
                    totp |-> a.totp, secret |-> a.secret]
            /\ a.pwd \in Passwords
        OBVIOUS
      <4>2. a.active \in BOOLEAN /\ a.totp \in BOOLEAN
        OBVIOUS
      <4>3. a.kind = "local" /\ a.changed = 0 /\ a.secret = NoSecret
        OBVIOUS
      <4>4. a.changed \in Nat /\ a.secret \in Secrets \cup {NoSecret} /\ a.kind \in {"local", "external"}
        BY <4>3
      <4> HIDE DEF First
      <4> QED BY <4>1, <4>2, <4>4 DEF AccountRows
    <3>2. account \in [People -> First]
      BY DEF SessionInit, Created
    <3> QED BY <3>1, <3>2
  <2>2. twoFa \in [Requests -> [op : {"idle"}]]
    BY DEF SessionInit
  <2>3. SessionTypeOK
    <3>1. now \in 0..LastTick /\ edits \in 0..MaxEdits
      BY Times DEF SessionInit
    <3>2. /\ tokens \subseteq TokenSet /\ revoked \subseteq [token : TokenSet, until : Nat]
          /\ ended \subseteq tokens /\ proved \subseteq People
          /\ redisUp \in BOOLEAN /\ crossed \in BOOLEAN
      BY DEF SessionInit
    <3> QED BY <2>1, <2>2, <3>1, <3>2 DEF SessionTypeOK, AccountRows
  <2>4. EndedIsRevoked /\ VerifiedByCode /\ OneIsOpen
    BY DEF SessionInit, EndedIsRevoked, VerifiedByCode, OneIsOpen
  <2>5. EnabledWithSecret /\ EnabledHasSecret
    BY DEF SessionInit, EnabledWithSecret, EnabledHasSecret
  <2> QED BY <2>3, <2>4, <2>5 DEF SessionInv
<1>2. SessionInv /\ [SessionNext]_sessionVars => SessionInv'
  BY SessionTypeStep, EndedStep, VerifiedStep, TwoFaStep DEF SessionInv, TwoFaInv
<1> QED BY <1>1, <1>2, PTL DEF SessionSpec

(***************************************************************************)
(* A token that was logged out opens nothing, verified tokens belong to    *)
(* who gave the second factor, an enabled one can be given, and a forced   *)
(* change of a password settles, for every account and every lifetime.     *)
(***************************************************************************)
THEOREM SessionsCorrect == SessionSpec => SessionsAreSafe
<1>1. SessionInv => SessionTypeOK /\ LoggedOutIsRefused /\ VerifiedByCode /\ EnabledHasSecret
  BY DEF SessionInv, EndedIsRevoked, LoggedOutIsRefused, Accepts, Passes, Blacklisted
<1>2. SessionInv /\ [SessionNext]_sessionVars =>
        [\A t \in tokens, p \in Passwords : ForceChange(t, p) => ~Initial(t.sub)']_sessionVars
  <2> SUFFICES ASSUME SessionInv, NEW t \in tokens, NEW p \in Passwords, ForceChange(t, p)
               PROVE  ~Initial(t.sub)'
    OBVIOUS
  <2>1. now \in Nat /\ t.sub \in People
    BY Times DEF SessionInv, SessionTypeOK, TokenSet
  <2>2. account'[t.sub].changed = now + Grace + 1
    BY <2>1 DEF ForceChange, SetPassword, AfterGrace, SessionInv, SessionTypeOK
  <2> QED BY <2>1, <2>2, Times DEF Initial, Distance, Created
<1> QED BY <1>1, <1>2, SessionInvariant, PTL DEF SessionsAreSafe, ForcedChangeSettles, SessionSpec

----------------------------------------------------------------------------
USE DurationAssumption, StateAssumption

\* What was drawn: the codes by number, the states by name.
WasDrawn(c) ==
    /\ c.key \in RedisKeys
    /\ c.key = Phone => c.value \in Nat /\ c.value <= drawn.codes
    /\ c.key # Phone => c.key \in drawn.states

\* The clock and the ends of keys are numbers, what was drawn is a record.
ClockOK ==
    /\ clock \in Nat
    /\ drawn \in [codes : Nat, states : SUBSET States]
    /\ stored \in [RedisKeys -> [value : {"none"} \cup Nat \cup Providers, until : Nat]]

\* What a request holds, and what was used, was drawn before.
ClaimsWereDrawn ==
    /\ DOMAIN caller = Callers
    /\ \A r \in Callers : caller[r].at = "matched" => WasDrawn(caller[r].claim)
    /\ \A c \in opened : WasDrawn(c)

SpentInv == ClockOK /\ ClaimsWereDrawn /\ UsedIsGone
----------------------------------------------------------------------------
\* What a client may present was drawn.
LEMMA ClaimWasDrawn ==
    ASSUME ClockOK, NEW c \in Claims
    PROVE  WasDrawn(c)
BY DEF ClockOK, Claims, WasDrawn, RedisKeys

\* A request that goes on holds no claim, or the one it compared.
LEMMA Goes ==
    ASSUME ClaimsWereDrawn, NEW r \in Callers, NEW next, Go(r, next),
           next.at = "matched" => WasDrawn(next.claim)',
           \A c : WasDrawn(c) => WasDrawn(c)',
           \A c \in opened' : WasDrawn(c)'
    PROVE  ClaimsWereDrawn'
<1>1. caller' = [caller EXCEPT ![r] = next]
  BY DEF Go
<1>2. DOMAIN caller' = Callers /\ caller'[r] = next
      /\ \A q \in Callers \ {r} : caller'[q] = caller[q]
  BY <1>1 DEF ClaimsWereDrawn
<1>3. ASSUME NEW q \in Callers, caller'[q].at = "matched"
      PROVE  WasDrawn(caller[q].claim)'
  <2>1. CASE q = r
    BY <1>2, <1>3, <2>1
  <2>2. CASE q # r
    <3>1. caller'[q] = caller[q] /\ WasDrawn(caller[q].claim)
      BY <1>2, <1>3, <2>2 DEF ClaimsWereDrawn
    <3> QED BY <3>1
  <2> QED BY <2>1, <2>2
<1> QED BY <1>2, <1>3 DEF ClaimsWereDrawn

\* What was drawn stays so.
LEMMA DrawnStays ==
    ASSUME ClockOK,
           \/ UNCHANGED drawn
           \/ drawn' = [drawn EXCEPT !.codes = @ + 1]
           \/ \E s \in States : drawn' = [drawn EXCEPT !.states = @ \cup {s}]
    PROVE  \A c : WasDrawn(c) => WasDrawn(c)'
BY DEF ClockOK, WasDrawn

\* A step that draws, stores and opens nothing.
LEMMA QuietStep ==
    ASSUME SpentInv, NEW r \in Callers, NEW next, Go(r, next),
           next.at = "matched" => WasDrawn(next.claim),
           UNCHANGED <<clock, stored, drawn, opened>>
    PROVE  SpentInv'
<1>1. ClockOK' /\ UsedIsGone'
  BY DEF SpentInv, ClockOK, UsedIsGone, Present
<1>2. \A c : WasDrawn(c) => WasDrawn(c)'
  BY DrawnStays DEF SpentInv
<1>3. ClaimsWereDrawn'
  BY <1>2, Goes DEF SpentInv, ClaimsWereDrawn
<1> QED BY <1>1, <1>3 DEF SpentInv

\* A new code differs from those used.
LEMMA StoreStep ==
    ASSUME SpentInv, NEW r \in Callers, StoreCode(r)
    PROVE  SpentInv'
<1> DEFINE new == [value |-> drawn.codes + 1, until |-> clock + CodeTTL]
<1>1. /\ drawn' = [drawn EXCEPT !.codes = @ + 1]
      /\ stored' = [stored EXCEPT ![Phone] = new]
      /\ Go(r, [at |-> "stored"])
      /\ UNCHANGED <<clock, opened>>
  BY DEF StoreCode
<1>2. new.value = drawn.codes + 1 /\ new \in [value : Nat, until : Nat]
  BY DEF SpentInv, ClockOK
<1> HIDE DEF new
<1>3. ClockOK'
  BY <1>1, <1>2 DEF SpentInv, ClockOK, RedisKeys
<1>4. \A c : WasDrawn(c) => WasDrawn(c)'
  BY <1>1, DrawnStays DEF SpentInv
<1>5. ClaimsWereDrawn'
  <2> DEFINE next == [at |-> "stored"]
  <2>1. Go(r, next) /\ next.at # "matched"
    BY <1>1
  <2> HIDE DEF next
  <2> QED BY <1>1, <1>4, <2>1, Goes DEF SpentInv, ClaimsWereDrawn
<1>6. UsedIsGone'
  <2> SUFFICES ASSUME NEW c \in opened, Present(c.key)' PROVE stored'[c.key].value # c.value
    BY <1>1 DEF UsedIsGone
  <2>1. WasDrawn(c) /\ c.key \in RedisKeys
    BY DEF SpentInv, ClaimsWereDrawn, WasDrawn
  <2>2. CASE c.key = Phone
    BY <1>1, <1>2, <2>1, <2>2 DEF SpentInv, ClockOK, WasDrawn
  <2>3. CASE c.key # Phone
    <3>1. stored'[c.key] = stored[c.key]
      BY <1>1, <2>1, <2>3 DEF SpentInv, ClockOK
    <3> QED BY <1>1, <3>1 DEF SpentInv, UsedIsGone, Present
  <2> QED BY <2>2, <2>3
<1> QED BY <1>3, <1>5, <1>6 DEF SpentInv

\* A new state is none of those used.
LEMMA AuthorizeStep ==
    ASSUME SpentInv, NEW s \in States, NEW p \in Providers, Authorize(s, p)
    PROVE  SpentInv'
<1> DEFINE new == [value |-> p, until |-> clock + StateTTL]
<1>1. /\ s \notin drawn.states
      /\ drawn' = [drawn EXCEPT !.states = @ \cup {s}]
      /\ stored' = [stored EXCEPT ![s] = new]
      /\ UNCHANGED <<clock, caller, opened>>
  BY DEF Authorize
<1>2. new \in [value : Providers, until : Nat]
  BY DEF SpentInv, ClockOK
<1> HIDE DEF new
<1>3. ClockOK'
  BY <1>1, <1>2 DEF SpentInv, ClockOK, RedisKeys
<1>4. \A c : WasDrawn(c) => WasDrawn(c)'
  BY <1>1, DrawnStays DEF SpentInv
<1>5. ClaimsWereDrawn'
  BY <1>1, <1>4 DEF SpentInv, ClaimsWereDrawn
<1>6. UsedIsGone'
  <2> SUFFICES ASSUME NEW c \in opened, Present(c.key)' PROVE stored'[c.key].value # c.value
    BY <1>1 DEF UsedIsGone
  <2>1. WasDrawn(c) /\ c.key \in RedisKeys
    BY DEF SpentInv, ClaimsWereDrawn, WasDrawn
  <2>2. c.key # s
    BY <1>1, <2>1 DEF WasDrawn
  <2>3. stored'[c.key] = stored[c.key]
    BY <1>1, <2>1, <2>2 DEF SpentInv, ClockOK
  <2> QED BY <1>1, <2>3 DEF SpentInv, UsedIsGone, Present
<1> QED BY <1>3, <1>5, <1>6 DEF SpentInv

\* What is used is deleted, and a later key under its name is gone with it.
LEMMA DeleteStep ==
    ASSUME SpentInv, NEW r \in Callers, Delete(r)
    PROVE  SpentInv'
<1> DEFINE claim == caller[r].claim
<1>1. /\ stored' = [stored EXCEPT ![claim.key] = Nothing]
      /\ opened' = opened \cup {claim}
      /\ Go(r, Rest)
      /\ UNCHANGED <<clock, drawn>>
  BY DEF Delete, Deleted
<1>2. WasDrawn(claim)
  BY DEF Delete, SpentInv, ClaimsWereDrawn
<1> HIDE DEF claim
<1>3. Nothing \in [value : {"none"}, until : Nat] /\ Nothing.until = 0 /\ Rest.at # "matched"
  BY DEF Nothing, Rest
<1>4. ClockOK'
  BY <1>1, <1>3 DEF SpentInv, ClockOK
<1>5. \A c : WasDrawn(c) => WasDrawn(c)'
  BY <1>1, DrawnStays DEF SpentInv
<1>6. ClaimsWereDrawn'
  BY <1>1, <1>2, <1>3, <1>5, Goes DEF SpentInv, ClaimsWereDrawn
<1>7. UsedIsGone'
  <2> SUFFICES ASSUME NEW c \in opened', Present(c.key)' PROVE stored'[c.key].value # c.value
    BY DEF UsedIsGone
  <2>1. c.key \in RedisKeys
    BY <1>1, <1>2 DEF SpentInv, ClaimsWereDrawn, WasDrawn
  <2>2. c.key # claim.key
    BY <1>1, <1>3, <1>4, <2>1 DEF SpentInv, ClockOK, Present
  <2>3. stored'[c.key] = stored[c.key] /\ c \in opened
    BY <1>1, <2>1, <2>2 DEF SpentInv, ClockOK
  <2> QED BY <1>1, <2>3 DEF SpentInv, UsedIsGone, Present
<1> QED BY <1>4, <1>6, <1>7 DEF SpentInv

(***************************************************************************)
(* What a request presents was drawn, and what was used is not there again *)
(* (sms_auth.py 92-105, auth.py 431-435).                                  *)
(***************************************************************************)
THEOREM SpentInvariant == CodeSpec => []SpentInv
<1>1. CodeInit => SpentInv
  <2> SUFFICES ASSUME CodeInit PROVE SpentInv
    OBVIOUS
  <2>1. ClockOK
    BY DEF CodeInit, ClockOK, Nothing
  <2>2. ClaimsWereDrawn
    BY DEF CodeInit, ClaimsWereDrawn, Rest
  <2> QED BY <2>1, <2>2 DEF SpentInv, UsedIsGone, CodeInit
<1>2. ASSUME SpentInv, [CodeNext]_codeVars PROVE SpentInv'
  <2>1. ASSUME NEW r \in Callers,
               \/ CheckCooldown(r) \/ CheckDaily(r) \/ RefuseDaily(r)
               \/ StartCooldown(r) \/ CountDaily(r)
        PROVE  SpentInv'
    <3>1. /\ UNCHANGED <<clock, stored, drawn, opened>>
          /\ \E at \in {"cool", "allowed", "rest", "cooled"} : Go(r, [at |-> at])
      BY <2>1 DEF CheckCooldown, CheckDaily, RefuseDaily, StartCooldown, CountDaily, Rest
    <3>2. PICK at \in {"cool", "allowed", "rest", "cooled"} : Go(r, [at |-> at])
      BY <3>1
    <3> DEFINE next == [at |-> at]
    <3>3. Go(r, next) /\ next.at # "matched"
      BY <3>2
    <3> HIDE DEF next
    <3> QED BY <1>2, <3>1, <3>3, QuietStep
  <2>2. ASSUME NEW r \in Callers, NEW c \in Claims, Compare(r, c) PROVE SpentInv'
    <3> DEFINE next == [at |-> "matched", claim |-> c]
    <3>1. Go(r, next) /\ next.claim = c /\ UNCHANGED <<clock, stored, drawn, opened>>
      BY <2>2 DEF Compare
    <3>2. WasDrawn(next.claim)
      BY <1>2, <3>1, ClaimWasDrawn DEF SpentInv
    <3> HIDE DEF next
    <3> QED BY <1>2, <3>1, <3>2, QuietStep
  <2>3. CASE Pass
    <3>1. clock' = clock + 1 /\ UNCHANGED <<stored, caller, drawn, opened>>
      BY <2>3 DEF Pass
    <3>2. ClockOK'
      BY <1>2, <3>1 DEF SpentInv, ClockOK
    <3>3. ClaimsWereDrawn'
      BY <1>2, <3>1 DEF SpentInv, ClaimsWereDrawn, WasDrawn
    <3>4. \A c \in opened : Present(c.key)' => Present(c.key)
      BY <1>2, <3>1 DEF SpentInv, ClockOK, ClaimsWereDrawn, WasDrawn, Present
    <3> QED BY <1>2, <3>1, <3>2, <3>3, <3>4 DEF SpentInv, UsedIsGone
  <2>4. CASE UNCHANGED codeVars
    BY <1>2, <2>4 DEF codeVars, SpentInv, ClockOK, ClaimsWereDrawn, WasDrawn, UsedIsGone, Present
  <2> QED BY <1>2, <2>1, <2>2, <2>3, <2>4, StoreStep, AuthorizeStep, DeleteStep DEF CodeNext
<1> QED BY <1>1, <1>2, PTL DEF CodeSpec

----------------------------------------------------------------------------
\* Where a request is: between two calls, or with a claim it compared.
Asking == {"rest", "cool", "allowed", "stored", "cooled"}
Calls == [at : Asking] \cup [at : {"matched"}, claim : Claimable]
CallersOK == caller \in [Callers -> Calls]

\* Requests between the check of the daily limit and the count.
Sending == {r \in Callers : caller[r].at \in {"allowed", "stored", "cooled"}}
\* Each of them may still add one.
WillHold == Today + Cardinality(Sending) < DailyLimit + Cardinality(Callers)

\* The codes of one request are a cool-down apart, and it is not asked for
\* another before the last of them has cooled.
Spaced(s, t) == s.by = t.by /\ s # t => s.at + Cooldown <= t.at \/ t.at + Cooldown <= s.at
Cooled ==
    /\ sends \subseteq [code : Nat, by : Callers, at : Nat]
    /\ \A s \in sends :
          /\ s.at <= clock
          /\ caller[s.by].at # "stored" => s.at + Cooldown <= cooling
          /\ caller[s.by].at \in {"cool", "allowed"} => s.at + Cooldown <= clock
    /\ \A s, t \in sends : Spaced(s, t)

CodeInv == CodeTypeOK /\ CallersOK /\ WillHold /\ DailyLimitHolds /\ Cooled

\* The durations and counts are numbers.
LEMMA CodeNumbers ==
    /\ CodeTTL \in Nat /\ Cooldown \in Nat /\ Day \in Nat /\ StateTTL \in Nat /\ DailyLimit \in Nat
    /\ LastHour \in Nat /\ MaxCodes \in Nat
    /\ Cardinality(Callers) \in Nat /\ Cardinality(Callers) > 0
<1>1. Cardinality(Callers) \in Nat /\ Cardinality(Callers) # 0
  BY CallerAssumption, FS_CardinalityType, FS_EmptySet
<1> QED BY <1>1, DurationAssumption

\* How many requests send.
LEMMA SendingCount ==
    ASSUME CallersOK, NEW r \in Callers, NEW m,
           caller' = [caller EXCEPT ![r] = m]
    PROVE  /\ Cardinality(Sending) \in Nat /\ Cardinality(Sending)' \in Nat
           /\ Cardinality(Sending)' <= Cardinality(Callers)
           /\ (m.at \in {"allowed", "stored", "cooled"} <=> r \in Sending) =>
                 Cardinality(Sending)' = Cardinality(Sending)
           /\ m.at \notin {"allowed", "stored", "cooled"} /\ r \in Sending =>
                 Cardinality(Sending)' + 1 = Cardinality(Sending)
<1>1. IsFiniteSet(Sending) /\ IsFiniteSet(Sending')
      /\ Cardinality(Sending)' <= Cardinality(Callers)
  <2>1. Sending \in SUBSET Callers /\ Sending' \in SUBSET Callers
    BY DEF Sending
  <2> QED BY <2>1, CallerAssumption, FS_Subset
<1>2. Sending' = IF m.at \in {"allowed", "stored", "cooled"} THEN Sending \cup {r} ELSE Sending \ {r}
  BY DEF Sending, CallersOK
<1>3. Cardinality(Sending) \in Nat /\ Cardinality(Sending)' \in Nat
  BY <1>1, FS_CardinalityType
<1>4. (m.at \in {"allowed", "stored", "cooled"} <=> r \in Sending) => Sending' = Sending
  BY <1>2
<1>5. ASSUME m.at \notin {"allowed", "stored", "cooled"}, r \in Sending
      PROVE  Cardinality(Sending)' + 1 = Cardinality(Sending)
  <2>1. Sending' = Sending \ {r}
    BY <1>2, <1>5
  <2>2. Cardinality(Sending \ {r}) = Cardinality(Sending) - 1
    BY <1>1, <1>5, FS_RemoveElement
  <2> QED BY <1>3, <2>1, <2>2
<1> QED BY <1>1, <1>3, <1>4, <1>5

\* A request goes on, and sends or stops sending without adding to the count.
LEMMA GoesOn ==
    ASSUME CodeInv, NEW r \in Callers, NEW m, Go(r, m), UNCHANGED <<clock, daily>>,
           m.at \in {"allowed", "stored", "cooled"} =>
              r \in Sending \/ (caller[r].at = "cool" /\ Today < DailyLimit)
    PROVE  WillHold' /\ DailyLimitHolds'
<1> DEFINE n == Cardinality(Sending)
           n1 == Cardinality(Sending)'
           all == Cardinality(Callers)
           day == Today
<1>1. caller' = [caller EXCEPT ![r] = m]
  BY DEF Go
<1>2. Today' = Today /\ DailyLimitHolds'
  BY DEF Today, CodeInv, DailyLimitHolds
<1>3. /\ n \in Nat /\ n1 \in Nat /\ n1 <= all
      /\ (m.at \in {"allowed", "stored", "cooled"} <=> r \in Sending) => n1 = n
      /\ m.at \notin {"allowed", "stored", "cooled"} /\ r \in Sending => n1 + 1 = n
  BY <1>1, SendingCount DEF CodeInv
<1>4. day \in Nat /\ DailyLimit \in Nat /\ all \in Nat /\ day + n < DailyLimit + all
  BY CodeNumbers DEF CodeInv, CodeTypeOK, Today, WillHold
<1> HIDE DEF n, n1, all, day
<1>5. (r \in Sending /\ day + n1 <= day + n) \/ n1 = n \/ day < DailyLimit
  <2>1. CASE r \in Sending
    BY <1>3, <1>4, <2>1
  <2>2. CASE r \notin Sending
    BY <1>3, <2>2 DEF day
  <2> QED BY <2>1, <2>2
<1>6. day + n1 < DailyLimit + all
  BY <1>3, <1>4, <1>5
<1> QED BY <1>2, <1>6 DEF WillHold, day, n1, all

\* What is stored is claimed by its kind: codes by number, states by provider.
LEMMA ClaimableKinds ==
    /\ \A c \in Claimable : c.key \in RedisKeys
    /\ \A n \in 1..MaxCodes : [key |-> Phone, value |-> n] \in Claimable
    /\ \A s \in States, p \in Providers : [key |-> s, value |-> p] \in Claimable
BY DEF Claimable, RedisKeys

\* Types of a step that stores, claims and opens nothing.
LEMMA CallTypes ==
    ASSUME CodeInv, ClockOK, NEW r \in Callers, NEW m \in Calls, Go(r, m),
           UNCHANGED <<clock, stored, drawn, opened>>,
           cooling' \in Nat, daily' \in [count : Nat, until : Nat]
    PROVE  CodeTypeOK' /\ CallersOK'
<1>1. caller' = [caller EXCEPT ![r] = m] /\ m.at \in Asking \cup {"matched"}
  BY DEF Go, Calls
<1>2. CallersOK'
  BY <1>1 DEF CodeInv, CallersOK
<1>3. \A q \in Callers : caller'[q].at \in {"rest", "cool", "allowed", "stored", "cooled", "matched"}
  BY <1>1 DEF CodeInv, CodeTypeOK, CallersOK, Asking
<1>4. \A k \in RedisKeys : stored'[k].until \in Nat /\
          (Present(k)' => [key |-> k, value |-> stored'[k].value] \in Claimable)
  BY DEF CodeInv, CodeTypeOK, Present
<1> QED BY <1>2, <1>3, <1>4 DEF CodeInv, CodeTypeOK

\* A request that goes on without sending a code leaves them spaced.
LEMMA CallSpaced ==
    ASSUME CodeInv, NEW r \in Callers, NEW m, Go(r, m), UNCHANGED <<clock, sends, cooling>>,
           caller[r].at # "stored", m.at # "stored",
           m.at \in {"cool", "allowed"} => caller[r].at \in {"cool", "allowed"} \/ cooling <= clock
    PROVE  Cooled'
<1>1. caller'[r] = m /\ \A q \in Callers \ {r} : caller'[q] = caller[q]
  BY DEF Go, CodeInv, CallersOK
<1>2. ASSUME NEW s \in sends
      PROVE  /\ s.at <= clock
             /\ caller'[s.by].at # "stored" => s.at + Cooldown <= cooling
             /\ caller'[s.by].at \in {"cool", "allowed"} => s.at + Cooldown <= clock
  <2>1. /\ s.at <= clock /\ s.by \in Callers /\ s.at \in Nat
        /\ caller[s.by].at # "stored" => s.at + Cooldown <= cooling
        /\ caller[s.by].at \in {"cool", "allowed"} => s.at + Cooldown <= clock
    BY DEF CodeInv, Cooled
  <2>2. CASE s.by # r
    BY <1>1, <2>1, <2>2
  <2>3. CASE s.by = r
    <3> DEFINE at == s.at + Cooldown
    <3>1. at \in Nat /\ cooling \in Nat /\ clock \in Nat
      BY <2>1, CodeNumbers DEF CodeInv, CodeTypeOK
    <3>2. at <= cooling
      BY <2>1, <2>3
    <3>3. caller[r].at \in {"cool", "allowed"} => at <= clock
      BY <2>1, <2>3
    <3> HIDE DEF at
    <3>4. m.at \in {"cool", "allowed"} => at <= clock
      BY <3>1, <3>2, <3>3
    <3> QED BY <1>1, <2>1, <2>3, <3>2, <3>4 DEF at
  <2> QED BY <2>2, <2>3
<1>3. sends' \subseteq [code : Nat, by : Callers, at : Nat] /\ \A s, t \in sends' : Spaced(s, t)
  BY DEF CodeInv, Cooled
<1> QED BY <1>2, <1>3 DEF Cooled

\* The steps of a request that store and open nothing.
LEMMA CallKeeps ==
    ASSUME CodeInv, ClockOK, NEW r \in Callers,
           \/ CheckCooldown(r) \/ CheckDaily(r) \/ RefuseDaily(r)
           \/ \E c \in Claims : Compare(r, c)
    PROVE  CodeInv'
<1>1. ASSUME NEW m \in Calls, Go(r, m), UNCHANGED <<clock, stored, cooling, daily, drawn, sends, opened>>,
             caller[r].at # "stored", m.at \notin {"stored", "cooled"},
             m.at = "allowed" => caller[r].at = "cool" /\ Today < DailyLimit,
             m.at \in {"cool", "allowed"} => caller[r].at = "cool" \/ cooling <= clock
      PROVE  CodeInv'
  <2>1. cooling' \in Nat /\ daily' \in [count : Nat, until : Nat]
    BY <1>1 DEF CodeInv, CodeTypeOK
  <2>2. CodeTypeOK' /\ CallersOK'
    BY <1>1, <2>1, CallTypes
  <2>3. WillHold' /\ DailyLimitHolds'
    BY <1>1, GoesOn
  <2>4. Cooled'
    BY <1>1, CallSpaced
  <2> QED BY <2>2, <2>3, <2>4 DEF CodeInv
<1>2. CASE CheckCooldown(r)
  <2> DEFINE m == [at |-> "cool"]
  <2>1. /\ Go(r, m) /\ UNCHANGED <<clock, stored, cooling, daily, drawn, sends, opened>>
        /\ caller[r].at = "rest" /\ cooling <= clock
    BY <1>2 DEF CheckCooldown, Rest
  <2>2. m \in Calls /\ m.at = "cool"
    BY DEF Calls, Asking
  <2> HIDE DEF m
  <2> QED BY <1>1, <2>1, <2>2
<1>3. CASE CheckDaily(r)
  <2> DEFINE m == [at |-> "allowed"]
  <2>1. /\ Go(r, m) /\ UNCHANGED <<clock, stored, cooling, daily, drawn, sends, opened>>
        /\ caller[r].at = "cool" /\ Today < DailyLimit
    BY <1>3 DEF CheckDaily, BelowLimit
  <2>2. m \in Calls /\ m.at = "allowed"
    BY DEF Calls, Asking
  <2> HIDE DEF m
  <2> QED BY <1>1, <2>1, <2>2
<1>4. CASE RefuseDaily(r)
  <2>1. /\ Go(r, Rest) /\ UNCHANGED <<clock, stored, cooling, daily, drawn, sends, opened>>
        /\ caller[r].at = "cool"
    BY <1>4 DEF RefuseDaily
  <2>2. Rest \in Calls /\ Rest.at = "rest"
    BY DEF Rest, Calls, Asking
  <2> QED BY <1>1, <2>1, <2>2
<1>5. ASSUME NEW c \in Claims, Compare(r, c) PROVE CodeInv'
  <2> DEFINE m == [at |-> "matched", claim |-> c]
  <2>1. /\ Go(r, m) /\ UNCHANGED <<clock, stored, cooling, daily, drawn, sends, opened>>
        /\ caller[r].at = "rest"
    BY <1>5 DEF Compare, Rest
  <2>2. c \in Claimable
    <3>1. drawn.codes \in 0..MaxCodes /\ drawn.states \subseteq States
      BY DEF CodeInv, CodeTypeOK
    <3> QED BY <3>1, CodeNumbers, EnabledAssumption DEF Claims, Claimable
  <2>3. m \in Calls /\ m.at = "matched"
    BY <2>2 DEF Calls
  <2> HIDE DEF m
  <2> QED BY <1>1, <2>1, <2>3
<1> QED BY <1>2, <1>3, <1>4, <1>5

\* A code is stored: a cool-down after those the same request stored before.
LEMMA StoringKeeps ==
    ASSUME CodeInv, ClockOK, ClockOK', NEW r \in Callers, StoreCode(r)
    PROVE  CodeInv'
<1> DEFINE m == [at |-> "stored"]
           code == drawn.codes + 1
           row1 == [value |-> code, until |-> clock + CodeTTL]
           sent == [code |-> code, by |-> r, at |-> clock]
<1>1. /\ caller[r].at = "allowed" /\ drawn.codes < MaxCodes /\ drawn' = [drawn EXCEPT !.codes = code]
      /\ stored' = [stored EXCEPT ![Phone] = row1] /\ sends' = sends \cup {sent}
      /\ Go(r, m) /\ UNCHANGED <<clock, cooling, daily, opened>>
  BY DEF StoreCode
<1>2. m \in Calls /\ m.at = "stored"
  BY DEF Calls, Asking
<1>3. code \in 1..MaxCodes /\ drawn.codes \in Nat
  BY <1>1, CodeNumbers DEF CodeInv, CodeTypeOK
<1>4. clock \in Nat
  BY DEF ClockOK
<1>10. sent.by = r /\ sent.at = clock /\ sent \in [code : Nat, by : Callers, at : Nat] /\ row1.value = code
  BY <1>3, <1>4
<1> HIDE DEF m, code, row1, sent
<1>5. caller' = [caller EXCEPT ![r] = m]
  BY <1>1 DEF Go
<1>6. CallersOK' /\ caller'[r] = m /\ \A q \in Callers \ {r} : caller'[q] = caller[q]
  BY <1>2, <1>5 DEF CodeInv, CallersOK
<1>7. CodeTypeOK'
  <2>1. \A k \in RedisKeys : stored'[k].until \in Nat
    BY DEF ClockOK
  <2>2. \A k \in RedisKeys : Present(k)' => [key |-> k, value |-> stored'[k].value] \in Claimable
    <3> SUFFICES ASSUME NEW k \in RedisKeys, Present(k)'
                 PROVE  [key |-> k, value |-> stored'[k].value] \in Claimable
      OBVIOUS
    <3>1. CASE k = Phone
      <4>1. stored'[k] = row1
        BY <1>1, <3>1 DEF ClockOK
      <4> QED BY <1>3, <1>10, <3>1, <4>1, ClaimableKinds
    <3>2. CASE k # Phone
      <4>1. stored'[k] = stored[k]
        BY <1>1, <3>2 DEF ClockOK
      <4> QED BY <1>1, <4>1 DEF CodeInv, CodeTypeOK, Present
    <3> QED BY <3>1, <3>2
  <2>3. \A q \in Callers : caller'[q].at \in {"rest", "cool", "allowed", "stored", "cooled", "matched"}
    BY <1>2, <1>6 DEF CodeInv, CodeTypeOK
  <2>4. drawn' \in [codes : 0..MaxCodes, states : SUBSET States]
    BY <1>1, <1>3 DEF CodeInv, CodeTypeOK
  <2> QED BY <1>1, <2>1, <2>2, <2>3, <2>4 DEF CodeInv, CodeTypeOK
<1>8. WillHold' /\ DailyLimitHolds'
  <2>1. r \in Sending
    BY <1>1 DEF Sending
  <2> QED BY <1>1, <2>1, GoesOn
<1>9. Cooled'
  <2>1. \A s \in sends : s \in [code : Nat, by : Callers, at : Nat] /\ s.at <= clock
    BY DEF CodeInv, Cooled
  <2>2. \A s \in sends : s.by = r => s.at + Cooldown <= clock
    BY <1>1 DEF CodeInv, Cooled
  <2>3. ASSUME NEW s \in sends'
        PROVE  /\ s.at <= clock'
               /\ caller'[s.by].at # "stored" => s.at + Cooldown <= cooling'
               /\ caller'[s.by].at \in {"cool", "allowed"} => s.at + Cooldown <= clock'
    <3>1. CASE s.by = r
      BY <1>1, <1>2, <1>4, <1>6, <1>10, <2>1, <3>1
    <3>2. CASE s.by # r
      <4>1. s \in sends /\ s.by \in Callers
        BY <1>1, <1>10, <2>1, <3>2
      <4> QED BY <1>1, <1>6, <3>2, <4>1 DEF CodeInv, Cooled
    <3> QED BY <3>1, <3>2
  <2>4. \A s, t \in sends : Spaced(s, t)
    BY DEF CodeInv, Cooled
  <2>5. \A s \in sends : Spaced(s, sent) /\ Spaced(sent, s)
    BY <1>10, <2>2 DEF Spaced
  <2>6. Spaced(sent, sent)
    BY DEF Spaced
  <2>7. sends' \subseteq [code : Nat, by : Callers, at : Nat] /\ \A s, t \in sends' : Spaced(s, t)
    BY <1>1, <1>10, <2>1, <2>4, <2>5, <2>6
  <2> QED BY <2>3, <2>7 DEF Cooled
<1> QED BY <1>6, <1>7, <1>8, <1>9 DEF CodeInv

\* The cool-down begins after the code was stored.
LEMMA CoolingKeeps ==
    ASSUME CodeInv, ClockOK, NEW r \in Callers, StartCooldown(r)
    PROVE  CodeInv'
<1> DEFINE m == [at |-> "cooled"]
           until == clock + Cooldown
<1>1. /\ caller[r].at = "stored" /\ cooling' = until /\ Go(r, m)
      /\ UNCHANGED <<clock, stored, daily, drawn, sends, opened>>
  BY DEF StartCooldown, CooledUntil
<1>2. m \in Calls /\ m.at = "cooled"
  BY DEF Calls, Asking
<1>3. until \in Nat /\ clock \in Nat /\ daily \in [count : Nat, until : Nat]
  BY CodeNumbers DEF ClockOK, CodeInv, CodeTypeOK
<1>4. \A s \in sends : s.at + Cooldown <= until
  <2> SUFFICES ASSUME NEW s \in sends PROVE s.at + Cooldown <= clock + Cooldown
    OBVIOUS
  <2>1. s.at \in Nat /\ s.at <= clock
    BY DEF CodeInv, Cooled
  <2> DEFINE at == s.at
  <2> HIDE DEF at
  <2> QED BY <1>3, <2>1, CodeNumbers DEF at
<1> HIDE DEF m, until
<1>5. CodeTypeOK' /\ CallersOK'
  BY <1>1, <1>2, <1>3, CallTypes
<1>6. WillHold' /\ DailyLimitHolds'
  <2>1. r \in Sending
    BY <1>1 DEF Sending
  <2> QED BY <1>1, <2>1, GoesOn
<1>7. caller'[r] = m /\ \A q \in Callers \ {r} : caller'[q] = caller[q]
  BY <1>1 DEF Go, CodeInv, CallersOK
<1>8. Cooled'
  <2>1. ASSUME NEW s \in sends
        PROVE  /\ s.at <= clock
               /\ caller'[s.by].at # "stored" => s.at + Cooldown <= cooling'
               /\ caller'[s.by].at \in {"cool", "allowed"} => s.at + Cooldown <= clock
    <3>1. /\ s.at <= clock /\ s.by \in Callers
          /\ caller[s.by].at \in {"cool", "allowed"} => s.at + Cooldown <= clock
      BY DEF CodeInv, Cooled
    <3>2. s.at + Cooldown <= cooling'
      BY <1>1, <1>4
    <3> QED BY <1>2, <1>7, <3>1, <3>2
  <2>2. sends \subseteq [code : Nat, by : Callers, at : Nat] /\ \A s, t \in sends : Spaced(s, t)
    BY DEF CodeInv, Cooled
  <2> QED BY <1>1, <2>1, <2>2 DEF Cooled
<1> QED BY <1>5, <1>6, <1>8 DEF CodeInv

\* The code is counted, by a request that no longer sends.
LEMMA CountingKeeps ==
    ASSUME CodeInv, ClockOK, NEW r \in Callers, CountDaily(r)
    PROVE  CodeInv'
<1>1. /\ caller[r].at = "cooled" /\ Go(r, Rest) /\ UNCHANGED <<clock, stored, cooling, drawn, sends, opened>>
      /\ daily' = [count |-> Today + 1, until |-> clock + Day]
  BY DEF CountDaily
<1>2. Rest \in Calls /\ Rest.at = "rest"
  BY DEF Rest, Calls, Asking
<1>3. Today \in Nat /\ clock \in Nat /\ cooling \in Nat
  BY DEF Today, CodeInv, CodeTypeOK, ClockOK
<1>4. daily' \in [count : Nat, until : Nat]
  <2>1. Today + 1 \in Nat /\ clock + Day \in Nat
    BY <1>3, CodeNumbers
  <2> QED BY <1>1, <2>1
<1>5. CodeTypeOK' /\ CallersOK'
  BY <1>1, <1>2, <1>3, <1>4, CallTypes
<1>6. WillHold' /\ DailyLimitHolds'
  <2> DEFINE n == Cardinality(Sending)
             n1 == Cardinality(Sending)'
             all == Cardinality(Callers)
             day == Today
             day1 == Today'
             count1 == daily.count'
  <2>1. caller' = [caller EXCEPT ![r] = Rest] /\ r \in Sending
    BY <1>1 DEF Go, Sending
  <2>2. n \in Nat /\ n1 \in Nat /\ n1 + 1 = n
    BY <1>2, <2>1, SendingCount DEF CodeInv
  <2>3. count1 = day + 1 /\ (day1 = 0 \/ day1 = count1) /\ day \in Nat /\ all \in Nat /\ DailyLimit \in Nat
    BY <1>1, <1>3, CodeNumbers DEF Today
  <2>4. day + n < DailyLimit + all
    BY DEF CodeInv, WillHold
  <2> HIDE DEF n, n1, all, day, day1, count1
  <2>5. day1 + n1 < DailyLimit + all /\ count1 < DailyLimit + all
    BY ONLY <2>2, <2>3, <2>4
  <2> QED BY <2>5 DEF WillHold, DailyLimitHolds, n1, all, day1, count1
<1>7. Cooled'
  BY <1>1, <1>2, CallSpaced
<1> QED BY <1>5, <1>6, <1>7 DEF CodeInv

\* Authorisations, deletions and the clock disturb no request for a code.
LEMMA QuietKeepsCodes ==
    ASSUME CodeInv, ClockOK, ClockOK',
           \/ \E r \in Callers : Delete(r)
           \/ \E s \in States, p \in Providers : Authorize(s, p)
           \/ Pass \/ UNCHANGED codeVars
    PROVE  CodeInv'
<1>1. ASSUME NEW r \in Callers, Delete(r) PROVE CodeInv'
  <2> DEFINE c == caller[r].claim
  <2>1. /\ caller[r].at = "matched" /\ stored' = [stored EXCEPT ![c.key] = Nothing]
        /\ opened' = opened \cup {c} /\ Go(r, Rest)
        /\ UNCHANGED <<clock, cooling, daily, drawn, sends>>
    BY <1>1 DEF Delete, Deleted
  <2>2. c \in Claimable
    BY <2>1 DEF CodeInv, CallersOK, Calls, Asking
  <2>3. Rest \in Calls /\ Rest.at = "rest" /\ caller' = [caller EXCEPT ![r] = Rest]
    BY <2>1 DEF Rest, Calls, Asking, Go
  <2>4. CallersOK'
    BY <2>3 DEF CodeInv, CallersOK
  <2> HIDE DEF c
  <2>5. \A k \in RedisKeys : Present(k)' => Present(k) /\ stored'[k] = stored[k]
    <3>1. Nothing.until = 0 /\ clock \in Nat
      BY DEF Nothing, ClockOK
    <3>2. \A k \in RedisKeys : stored'[k] = stored[k] \/ stored'[k] = Nothing
      BY <2>1 DEF ClockOK
    <3> QED BY <2>1, <3>1, <3>2 DEF Present
  <2>6. CodeTypeOK'
    <3>1. \A k \in RedisKeys : stored'[k].until \in Nat
      BY DEF ClockOK
    <3>2. \A q \in Callers : caller'[q].at \in {"rest", "cool", "allowed", "stored", "cooled", "matched"}
      BY <2>3 DEF CodeInv, CodeTypeOK, CallersOK
    <3> QED BY <2>1, <2>2, <2>5, <3>1, <3>2 DEF CodeInv, CodeTypeOK
  <2>7. WillHold' /\ DailyLimitHolds'
    BY <2>1, <2>3, GoesOn
  <2>8. Cooled'
    BY <2>1, <2>3, CallSpaced
  <2> QED BY <2>4, <2>6, <2>7, <2>8 DEF CodeInv
<1>2. ASSUME NEW s \in States, NEW p \in Providers, Authorize(s, p) PROVE CodeInv'
  <2> DEFINE m == [value |-> p, until |-> clock + StateTTL]
  <2>1. /\ stored' = [stored EXCEPT ![s] = m] /\ m.value = p
        /\ drawn' = [drawn EXCEPT !.states = @ \cup {s}]
        /\ UNCHANGED <<clock, cooling, daily, caller, sends, opened>>
    BY <1>2 DEF Authorize
  <2> HIDE DEF m
  <2>2. \A k \in RedisKeys : Present(k)' => [key |-> k, value |-> stored'[k].value] \in Claimable
    <3> SUFFICES ASSUME NEW k \in RedisKeys, Present(k)'
                 PROVE  [key |-> k, value |-> stored'[k].value] \in Claimable
      OBVIOUS
    <3>1. CASE k = s
      BY <2>1, <3>1, ClaimableKinds DEF ClockOK
    <3>2. CASE k # s
      <4>1. stored'[k] = stored[k]
        BY <2>1, <3>2 DEF ClockOK
      <4> QED BY <2>1, <4>1 DEF CodeInv, CodeTypeOK, Present
    <3> QED BY <3>1, <3>2
  <2>3. CodeTypeOK'
    <3>1. \A k \in RedisKeys : stored'[k].until \in Nat
      BY DEF ClockOK
    <3>2. drawn' \in [codes : 0..MaxCodes, states : SUBSET States]
      BY <2>1 DEF CodeInv, CodeTypeOK
    <3> QED BY <2>1, <2>2, <3>1, <3>2 DEF CodeInv, CodeTypeOK
  <2>4. CallersOK' /\ Sending' = Sending /\ Today' = Today
    BY <2>1 DEF CodeInv, CallersOK, Sending, Today
  <2>5. WillHold' /\ DailyLimitHolds' /\ Cooled'
    BY <2>1, <2>4 DEF CodeInv, WillHold, DailyLimitHolds, Cooled
  <2> QED BY <2>3, <2>4, <2>5 DEF CodeInv
<1>3. CASE Pass
  <2>1. /\ clock < LastHour /\ clock' = clock + 1
        /\ UNCHANGED <<stored, cooling, daily, caller, drawn, sends, opened>>
    BY <1>3 DEF Pass
  <2>2. clock \in 0..LastHour /\ clock' \in 0..LastHour /\ clock <= clock'
    BY <2>1, CodeNumbers DEF CodeInv, CodeTypeOK
  <2>3. \A k \in RedisKeys : Present(k)' => Present(k)
    <3> SUFFICES ASSUME NEW k \in RedisKeys, clock' < stored[k].until PROVE clock < stored[k].until
      BY <2>1 DEF Present
    <3> DEFINE later == clock'
               until == stored[k].until
    <3>1. until \in Nat /\ clock \in Nat /\ later \in Nat /\ clock <= later /\ later < until
      <4>1. until \in Nat /\ later < until
        BY DEF CodeInv, CodeTypeOK
      <4>2. clock \in Nat /\ later \in Nat /\ clock <= later
        <5> HIDE DEF later
        <5>1. later \in 0..LastHour
          BY <2>2 DEF later
        <5> QED BY <2>2, <5>1, CodeNumbers DEF later
      <4> QED BY <4>1, <4>2
    <3> HIDE DEF later, until
    <3>2. clock < until
      BY <3>1
    <3> QED BY <3>2 DEF until
  <2>4. CodeTypeOK' /\ CallersOK'
    BY <2>1, <2>2, <2>3 DEF CodeInv, CodeTypeOK, CallersOK
  <2>5. Today' = Today \/ Today' = 0
    BY <2>1, <2>2, CodeNumbers DEF CodeInv, CodeTypeOK, Today
  <2>6. WillHold'
    <3> DEFINE n == Cardinality(Sending)
               all == Cardinality(Callers)
               day == Today
               day1 == Today'
    <3>1. Sending' = Sending
      BY <2>1 DEF Sending
    <3>2. n \in Nat /\ all \in Nat /\ day \in Nat /\ DailyLimit \in Nat
      <4>1. Sending \in SUBSET Callers
        BY DEF Sending
      <4>2. IsFiniteSet(Sending)
        BY <4>1, CallerAssumption, FS_Subset
      <4> QED BY <4>2, FS_CardinalityType, CodeNumbers DEF CodeInv, CodeTypeOK, Today
    <3>3. day + n < DailyLimit + all /\ (day1 = day \/ day1 = 0)
      BY <2>5 DEF CodeInv, WillHold
    <3> HIDE DEF n, all, day, day1
    <3>4. day1 + n < DailyLimit + all
      BY ONLY <3>2, <3>3
    <3> QED BY <3>1, <3>4 DEF WillHold, n, all, day1
  <2>7. DailyLimitHolds'
    BY <2>1 DEF CodeInv, DailyLimitHolds
  <2>8. Cooled'
    <3> DEFINE later == clock'
    <3>1. later \in Nat /\ clock \in Nat /\ clock <= later
      BY <2>2, CodeNumbers
    <3> HIDE DEF later
    <3>2. ASSUME NEW s \in sends
          PROVE  /\ s.at <= later
                 /\ caller[s.by].at # "stored" => s.at + Cooldown <= cooling
                 /\ caller[s.by].at \in {"cool", "allowed"} => s.at + Cooldown <= later
      <4> DEFINE at == s.at
                 cool == s.at + Cooldown
      <4>1. /\ at \in Nat /\ at <= clock /\ cool \in Nat
            /\ caller[s.by].at # "stored" => cool <= cooling
            /\ caller[s.by].at \in {"cool", "allowed"} => cool <= clock
        BY CodeNumbers DEF CodeInv, Cooled
      <4> HIDE DEF at, cool
      <4>2. at <= later /\ (cool <= clock => cool <= later)
        BY <3>1, <4>1
      <4> QED BY <4>1, <4>2 DEF at, cool
    <3> QED BY <2>1, <3>2 DEF CodeInv, Cooled, later
  <2> QED BY <2>4, <2>6, <2>7, <2>8 DEF CodeInv
<1>4. CASE UNCHANGED codeVars
  <2>1. UNCHANGED <<clock, stored, cooling, daily, caller, drawn, sends, opened>>
    BY <1>4 DEF codeVars
  <2>2. CodeTypeOK' /\ CallersOK' /\ Cooled'
    BY <2>1 DEF CodeInv, CodeTypeOK, Present, CallersOK, Cooled
  <2>3. WillHold' /\ DailyLimitHolds'
    BY <2>1 DEF CodeInv, WillHold, DailyLimitHolds, Sending, Today
  <2> QED BY <2>2, <2>3 DEF CodeInv
<1> QED BY <1>1, <1>2, <1>3, <1>4

\* At first nothing was sent.
LEMMA CodesInitially == CodeInit => CodeInv
<1> SUFFICES ASSUME CodeInit PROVE CodeInv
  OBVIOUS
<1>1. Nothing.until = 0 /\ Rest.at = "rest" /\ Rest \in Calls
  BY DEF Nothing, Rest, Calls, Asking
<1>2. \A k \in RedisKeys : stored[k].until \in Nat /\ ~Present(k)
  BY <1>1 DEF CodeInit, Present
<1>3. CodeTypeOK /\ CallersOK
  BY <1>1, <1>2, CodeNumbers DEF CodeInit, CodeTypeOK, CallersOK
<1>4. Today = 0 /\ Sending = {}
  BY <1>1 DEF CodeInit, Today, Sending
<1>5. WillHold /\ DailyLimitHolds
  <2> DEFINE all == Cardinality(Callers)
  <2>1. Cardinality(Sending) = 0 /\ all \in Nat /\ all > 0 /\ DailyLimit \in Nat /\ daily.count = 0
    BY <1>4, FS_EmptySet, CodeNumbers DEF CodeInit
  <2> HIDE DEF all
  <2>2. 0 + 0 < DailyLimit + all
    BY <2>1
  <2> QED BY <1>4, <2>1, <2>2 DEF WillHold, DailyLimitHolds, all
<1>6. Cooled
  BY DEF CodeInit, Cooled
<1> QED BY <1>3, <1>5, <1>6 DEF CodeInv

\* Codes of one request are a cool-down apart: in the time of one there are as
\* many as requests that sent them.
LEMMA FewInTime == CodeInv => CooldownHolds
<1> SUFFICES ASSUME CodeInv, NEW t \in 0..LastHour
             PROVE  Cardinality(SentIn(t, t + Cooldown)) <= Cardinality(Callers)
  BY DEF CooldownHolds
<1> DEFINE S == SentIn(t, t + Cooldown)
           f == [s \in S |-> s.by]
<1>1. \A s \in S : s \in sends /\ s.by \in Callers /\ s.at \in Nat /\ t <= s.at /\ s.at < t + Cooldown
  BY DEF SentIn, CodeInv, Cooled
<1>2. ASSUME NEW s \in S, NEW u \in S, s.by = u.by PROVE s = u
  <2> SUFFICES ASSUME s # u PROVE FALSE
    OBVIOUS
  <2>1. s.at + Cooldown <= u.at \/ u.at + Cooldown <= s.at
    BY <1>1, <1>2 DEF CodeInv, Cooled, Spaced
  <2> DEFINE i == s.at
             j == u.at
  <2>2. i \in Nat /\ j \in Nat /\ t <= i /\ t <= j /\ i < t + Cooldown /\ j < t + Cooldown
        /\ t \in Nat /\ Cooldown \in Nat
    BY <1>1, CodeNumbers
  <2>3. i + Cooldown <= j \/ j + Cooldown <= i
    BY <2>1
  <2> HIDE DEF i, j
  <2> QED BY <2>2, <2>3
<1> HIDE DEF S
<1>3. f \in Injection(S, Callers)
  <2>1. f \in [S -> Callers]
    BY <1>1
  <2>2. \A a, b \in DOMAIN f : f[a] = f[b] => a = b
    BY <1>2
  <2> HIDE DEF f
  <2> QED BY <2>1, <2>2 DEF Injection, IsInjective
<1> QED BY <1>3, CallerAssumption, FS_Injection DEF S

(***************************************************************************)
(* No code and no state of a sign-in is used again by a request that       *)
(* starts later, the daily limit is passed by less than the requests that  *)
(* overlap, and in a cool-down each of them sends at most one code: for    *)
(* any durations, limits and requests.                                     *)
(***************************************************************************)
THEOREM CodesCorrect == CodeSpec => []CodesAreSpent
<1>1. ASSUME CodeInv, ClockOK, ClockOK', [CodeNext]_codeVars PROVE CodeInv'
  <2>1. CASE CodeNext
    <3>1. ASSUME NEW r \in Callers, CheckCooldown(r) \/ CheckDaily(r) \/ RefuseDaily(r) PROVE CodeInv'
      BY <1>1, <3>1, CallKeeps
    <3>2. ASSUME NEW r \in Callers, StoreCode(r) \/ StartCooldown(r) \/ CountDaily(r) PROVE CodeInv'
      BY <1>1, <3>2, StoringKeeps, CoolingKeeps, CountingKeeps
    <3>3. ASSUME NEW r \in Callers, NEW c \in Claims, Compare(r, c) PROVE CodeInv'
      BY <1>1, <3>3, CallKeeps
    <3>4. ASSUME \/ \E r \in Callers : Delete(r)
                 \/ \E s \in States, p \in Providers : Authorize(s, p)
                 \/ Pass
          PROVE  CodeInv'
      BY <1>1, <3>4, QuietKeepsCodes
    <3> QED BY <2>1, <3>1, <3>2, <3>3, <3>4 DEF CodeNext
  <2>2. CASE UNCHANGED codeVars
    BY <1>1, <2>2, QuietKeepsCodes
  <2> QED BY <1>1, <2>1, <2>2
<1>2. CodeInv /\ UsedIsGone => CodesAreSpent
  BY FewInTime DEF CodeInv, CodesAreSpent
<1>3. SpentInv => ClockOK /\ UsedIsGone
  BY DEF SpentInv
<1> QED BY <1>1, <1>2, <1>3, CodesInitially, SpentInvariant, PTL DEF CodeSpec
----------------------------------------------------------------------------
\* The requests about settings.  A request has read some of its keys; a batch
\* takes those that are not skipped, all of which it writes or finds written.
Values == Texts \cup {Empty, Mask}
ConfigRows == [value : Values, sealed : {"absent", "no", "yes"}]
Writes == [key : Keys, new : BOOLEAN, to : ConfigRows]
Taken(batch) == {k \in DOMAIN batch : ~Skipped(k, batch[k])}
Saving ==
    {Resting} \cup [at : {"saved"}]
        \cup [at : {"reading"}, kind : {"defaults"}, left : SUBSET Keys, writes : SUBSET Writes]
        \cup [at : {"reading"}, kind : {"batch"}, left : SUBSET Keys, batch : Batches, writes : SUBSET Writes]
        \cup [at : {"notifying"}, left : SUBSET Keys, set : SUBSET Keys]
SettingTypeOK ==
    /\ row \in [Keys -> ConfigRows] /\ saved \in [Keys -> Values]
    /\ saver \in [Savers -> Saving]

Initialising(a) == a.at = "reading" /\ a.kind = "defaults"
Batching(a) == a.at = "reading" /\ a.kind = "batch"
\* What an initialisation, and what a batch, is about to write.
InitialisesAbsent(a) == \A w \in a.writes : w.new /\ w.to = Plain(Default(w.key))
WritesBatch(a) ==
    /\ a.left \subseteq Taken(a.batch)
    /\ \A w \in a.writes : w.key \in Taken(a.batch) /\ w.to = Stored(w.key, a.batch[w.key])
    /\ \A k \in Taken(a.batch) \ (a.left \cup clashed) :
          (\E w \in a.writes : w.key = k) \/ row[k] = Stored(k, a.batch[k])

\* A setting has the row its last saving gave it, or none and was never saved.
SettingKept(k) == row[k] = Stored(k, saved[k]) \/ (row[k] = Absent /\ saved[k] = Default(k))

SettingInv ==
    /\ SettingTypeOK
    /\ \A k \in Keys \ clashed : SettingKept(k)
    /\ \A s \in Savers : /\ Initialising(saver[s]) => InitialisesAbsent(saver[s])
                         /\ Batching(saver[s]) => WritesBatch(saver[s])
    /\ \A s, t \in Savers : s # t /\ Batching(saver[s]) /\ Batching(saver[t]) =>
          Taken(saver[s].batch) \cap Taken(saver[t].batch) \subseteq clashed

\* Stored rows and defaults are rows, and a stored one is not absent.
LEMMA StoredRow ==
    /\ \A k \in Keys, v \in Values : Stored(k, v) \in ConfigRows /\ Stored(k, v) # Absent
    /\ \A k \in Keys : /\ Default(k) \in Values /\ Plain(Default(k)) = Stored(k, Default(k))
                       /\ Plain(Default(k)) \in ConfigRows
    /\ Absent \in ConfigRows
<1>1. \A k \in Keys : Default(k) \in Values
  BY SettingAssumption DEF Values
<1>2. \A k \in Keys : Plain(Default(k)) = Stored(k, Default(k))
  BY SensitiveDefaultAssumption DEF Stored, Plain
<1>3. \A k \in Keys, v \in Values : Stored(k, v) \in ConfigRows /\ Stored(k, v).sealed # "absent"
  BY DEF Stored, Plain, ConfigRows
<1>4. Absent \in ConfigRows /\ Absent.sealed = "absent"
  BY DEF Absent, ConfigRows, Values
<1> QED BY <1>1, <1>2, <1>3, <1>4

\* A batch maps keys to values.
LEMMA BatchTypes ==
    \A batch \in Batches : /\ DOMAIN batch \subseteq Keys
                           /\ \A k \in DOMAIN batch : batch[k] \in Values
                           /\ Taken(batch) \subseteq DOMAIN batch
BY DEF Batches, Values, Taken

\* What a step of one request that writes nothing leaves to show.
LEMMA OneSaver ==
    ASSUME SettingInv, NEW s \in Savers, NEW m \in Saving, saver' = [saver EXCEPT ![s] = m],
           UNCHANGED <<row, saved>>, clashed \subseteq clashed',
           Initialising(m) => InitialisesAbsent(m), Batching(m) => WritesBatch(m)',
           Batching(m) => \A t \in Savers \ {s} : Batching(saver[t]) =>
               Taken(m.batch) \cap Taken(saver[t].batch) \subseteq clashed'
    PROVE  SettingInv'
<1>1. saver'[s] = m /\ \A t \in Savers \ {s} : saver'[t] = saver[t]
  BY DEF SettingInv, SettingTypeOK
<1>2. SettingTypeOK'
  BY DEF SettingInv, SettingTypeOK
<1>3. \A k \in Keys \ clashed' : SettingKept(k)'
  BY DEF SettingInv, SettingKept
<1>4. ASSUME NEW t \in Savers, t # s, Batching(saver[t]) PROVE WritesBatch(saver[t])'
  <2>1. WritesBatch(saver[t]) /\ saver'[t] = saver[t]
    BY <1>1, <1>4 DEF SettingInv
  <2> QED BY <2>1 DEF WritesBatch
<1>5. ASSUME NEW t \in Savers
      PROVE  /\ Initialising(saver'[t]) => InitialisesAbsent(saver'[t])
             /\ Batching(saver'[t]) => WritesBatch(saver[t])'
  <2>1. CASE t = s
    <3>1. WritesBatch(m)' => WritesBatch(saver[s])'
      BY <1>1 DEF WritesBatch
    <3> QED BY <1>1, <2>1, <3>1
  <2>2. CASE t # s
    BY <1>1, <1>4, <2>2 DEF SettingInv
  <2> QED BY <2>1, <2>2
<1>6. \A t, u \in Savers : t # u /\ Batching(saver'[t]) /\ Batching(saver'[u]) =>
          Taken(saver'[t].batch) \cap Taken(saver'[u].batch) \subseteq clashed'
  BY <1>1 DEF SettingInv
<1> QED BY <1>2, <1>3, <1>5, <1>6 DEF SettingInv, Initialising, Batching

\* What a saving writes is a setting saved; what it leaves was not its own.
LEMMA CommitKeeps == ASSUME SettingInv, NEW s \in Savers, CommitSettings(s) PROVE SettingInv'
<1> DEFINE a == saver[s]
           batch == a.kind = "batch"
           writes == a.writes
           refused == \E w \in writes : w.new /\ row[w.key] # Absent
<1>1. /\ a.at = "reading" /\ a.left = {} /\ UNCHANGED clashed
      /\ a \in Saving /\ (Initialising(a) \/ Batching(a))
      /\ (Initialising(a) => ~batch) /\ (Batching(a) => batch)
  BY DEF CommitSettings, SettingInv, SettingTypeOK, Saving, Resting, Initialising, Batching
<1>2. /\ writes \subseteq Writes /\ (Batching(a) => a.batch \in Batches /\ WritesBatch(a))
      /\ Initialising(a) => InitialisesAbsent(a)
  BY <1>1 DEF SettingInv, Saving, Initialising, Batching, Resting
<1> DEFINE rest == IF ~refused /\ batch THEN [at |-> "saved"] ELSE Resting
<1>3. /\ saver' = [saver EXCEPT ![s] = rest] /\ rest \in Saving
      /\ ~Initialising(rest) /\ ~Batching(rest)
  <2>1. rest \in {[at |-> "saved"], Resting}
    OBVIOUS
  <2>2. saver' = [saver EXCEPT ![s] = rest]
    BY DEF CommitSettings
  <2> HIDE DEF rest
  <2> QED BY <2>1, <2>2 DEF Saving, Resting, Initialising, Batching
<1>4. CASE refused
  <2>1. UNCHANGED <<row, saved>>
    BY <1>4 DEF CommitSettings
  <2> HIDE DEF rest
  <2> QED BY <1>1, <1>3, <2>1, OneSaver
<1>5. CASE ~refused
  <2>1. /\ row' = [k \in Keys |-> IF \E w \in writes : w.key = k
                                  THEN (CHOOSE w \in writes : w.key = k).to ELSE row[k]]
        /\ saved' = [k \in Keys |-> IF batch /\ k \in DOMAIN a.batch
                                        /\ ~(k \in Sensitive /\ a.batch[k] \in {Empty, Mask})
                                    THEN a.batch[k] ELSE saved[k]]
    BY <1>5 DEF CommitSettings
  \* What is written, key by key.
  <2>2. ASSUME NEW k \in Keys, \E w \in writes : w.key = k
        PROVE  \E w \in writes : w.key = k /\ row'[k] = w.to
    BY <2>1, <2>2
  <2>3. ASSUME NEW k \in Keys, ~\E w \in writes : w.key = k
        PROVE  row'[k] = row[k]
    BY <2>1, <2>3
  <2>4. \A w \in writes : w.new => row[w.key] = Absent
    BY <1>5
  <2>5. SettingTypeOK'
    <3>1. \A k \in Keys : row'[k] \in ConfigRows
      <4> SUFFICES ASSUME NEW k \in Keys PROVE row'[k] \in ConfigRows
        OBVIOUS
      <4>1. row[k] \in ConfigRows
        BY DEF SettingInv, SettingTypeOK
      <4>2. \A w \in writes : w.to \in ConfigRows
        BY <1>2 DEF Writes
      <4> QED BY <2>2, <2>3, <4>1, <4>2
    <3>2. \A k \in Keys : saved'[k] \in Values
      <4> SUFFICES ASSUME NEW k \in Keys PROVE saved'[k] \in Values
        OBVIOUS
      <4>1. saved[k] \in Values
        BY DEF SettingInv, SettingTypeOK
      <4>2. batch /\ k \in DOMAIN a.batch => a.batch[k] \in Values
        BY <1>1, <1>2, BatchTypes DEF Initialising, Batching
      <4> QED BY <2>1, <4>1, <4>2
    <3>3. saver' \in [Savers -> Saving]
      BY <1>3 DEF SettingInv, SettingTypeOK
    <3>4. row' = [k \in Keys |-> row'[k]] /\ saved' = [k \in Keys |-> saved'[k]]
      BY <2>1
    <3> QED BY <3>1, <3>2, <3>3, <3>4 DEF SettingTypeOK
  <2>6. ASSUME NEW k \in Keys \ clashed PROVE SettingKept(k)'
    <3>1. SettingKept(k)
      BY <2>6 DEF SettingInv
    <3>2. CASE Initialising(a)
      <4>1. saved'[k] = saved[k]
        BY <1>1, <2>1, <3>2
      <4>2. CASE \E w \in writes : w.key = k
        <5>1. PICK w \in writes : w.key = k /\ row'[k] = w.to
          BY <2>2, <4>2
        <5>2. w.new /\ w.to = Plain(Default(k))
          BY <1>2, <3>2, <5>1 DEF InitialisesAbsent
        <5>3. row[k] = Absent
          BY <2>4, <5>1, <5>2
        <5>4. saved[k] = Default(k)
          <6>1. saved[k] \in Values
            BY DEF SettingInv, SettingTypeOK
          <6> QED BY <3>1, <5>3, <6>1, StoredRow DEF SettingKept
        <5> QED BY <4>1, <5>1, <5>2, <5>4, StoredRow DEF SettingKept
      <4>3. CASE ~\E w \in writes : w.key = k
        BY <2>3, <3>1, <4>1, <4>3 DEF SettingKept
      <4> QED BY <4>2, <4>3
    <3>3. CASE Batching(a)
      <4>1. CASE k \in Taken(a.batch)
        <5>1. saved'[k] = a.batch[k]
          BY <1>1, <2>1, <3>3, <4>1 DEF Taken, Skipped
        <5>2. (\E w \in writes : w.key = k) \/ row[k] = Stored(k, a.batch[k])
          BY <1>1, <1>2, <2>6, <3>3, <4>1 DEF WritesBatch
        <5>3. \A w \in writes : w.key = k => w.to = Stored(k, a.batch[k])
          BY <1>2, <3>3 DEF WritesBatch
        <5>4. row'[k] = Stored(k, a.batch[k])
          BY <2>2, <2>3, <5>2, <5>3
        <5> QED BY <5>1, <5>4 DEF SettingKept
      <4>2. CASE k \notin Taken(a.batch)
        <5>1. saved'[k] = saved[k]
          BY <2>1, <4>2 DEF Taken, Skipped
        <5>2. ~\E w \in writes : w.key = k
          BY <1>2, <3>3, <4>2 DEF WritesBatch
        <5> QED BY <2>3, <3>1, <5>1, <5>2 DEF SettingKept
      <4> QED BY <4>1, <4>2
    <3> QED BY <1>1, <3>2, <3>3
  \* Other requests: what they found written is written still.
  <2>7. saver'[s] = rest /\ \A t \in Savers \ {s} : saver'[t] = saver[t]
    BY <1>3 DEF SettingInv, SettingTypeOK
  <2> HIDE DEF rest
  <2>8. ASSUME NEW t \in Savers \ {s}, Batching(saver[t]) PROVE WritesBatch(saver[t])'
    <3> DEFINE b == saver[t]
    <3>1. b \in Saving /\ b.batch \in Batches /\ WritesBatch(b) /\ saver'[t] = b
      BY <2>7, <2>8 DEF SettingInv, SettingTypeOK, Saving, Batching, Resting
    <3>2. ASSUME NEW k \in Taken(b.batch) \ (b.left \cup clashed), row[k] = Stored(k, b.batch[k])
          PROVE  row'[k] = row[k]
      <4>1. k \in Keys /\ b.batch[k] \in Values
        BY <3>1, BatchTypes
      <4>2. row[k] # Absent
        BY <3>2, <4>1, StoredRow
      <4>3. CASE Initialising(a)
        BY <1>2, <2>3, <2>4, <4>1, <4>2, <4>3 DEF InitialisesAbsent
      <4>4. CASE Batching(a)
        <5>1. k \notin Taken(a.batch)
          BY <2>8, <3>2, <4>4 DEF SettingInv
        <5>2. ~\E w \in writes : w.key = k
          BY <1>2, <4>4, <5>1 DEF WritesBatch
        <5> QED BY <2>3, <4>1, <5>2
      <4> QED BY <1>1, <4>3, <4>4
    <3>3. ASSUME NEW k \in Taken(b.batch) \ (b.left \cup clashed)
          PROVE  (\E w \in b.writes : w.key = k) \/ row'[k] = Stored(k, b.batch[k])
      BY <3>1, <3>2, <3>3 DEF WritesBatch
    <3> QED BY <1>1, <3>1, <3>3 DEF WritesBatch
  <2>9. ASSUME NEW t \in Savers
        PROVE  /\ Initialising(saver'[t]) => InitialisesAbsent(saver'[t])
               /\ Batching(saver'[t]) => WritesBatch(saver[t])'
    <3>1. CASE t = s
      BY <1>3, <2>7, <3>1
    <3>2. CASE t # s
      BY <2>7, <2>8, <3>2 DEF SettingInv
    <3> QED BY <3>1, <3>2
  <2>10. \A t, u \in Savers : t # u /\ Batching(saver'[t]) /\ Batching(saver'[u]) =>
          Taken(saver'[t].batch) \cap Taken(saver'[u].batch) \subseteq clashed'
    BY <1>1, <1>3, <2>7 DEF SettingInv
  <2> QED BY <1>1, <2>5, <2>6, <2>9, <2>10 DEF SettingInv, Initialising, Batching
<1> QED BY <1>4, <1>5

\* A batch or an initialisation begins, and reads.
LEMMA ReadingKeeps ==
    ASSUME SettingInv, NEW s \in Savers,
           \/ BeginDefaults(s)
           \/ \E batch \in Batches : BeginBatch(s, batch)
           \/ \E k \in Keys : ReadKey(s, k)
    PROVE  SettingInv'
<1>1. ASSUME BeginDefaults(s) PROVE SettingInv'
  <2> DEFINE m == [at |-> "reading", kind |-> "defaults", left |-> Keys, writes |-> {}]
  <2>1. /\ m \in Saving /\ ~Batching(m) /\ InitialisesAbsent(m)
    BY DEF Saving, Batching, InitialisesAbsent
  <2>2. saver' = [saver EXCEPT ![s] = m] /\ UNCHANGED <<row, saved, clashed>>
    BY <1>1 DEF BeginDefaults
  <2> HIDE DEF m
  <2> QED BY <2>1, <2>2, OneSaver
<1>2. ASSUME NEW batch \in Batches, BeginBatch(s, batch) PROVE SettingInv'
  <2> DEFINE m == [at |-> "reading", kind |-> "batch", left |-> Taken(batch), batch |-> batch, writes |-> {}]
  <2>1. /\ saver' = [saver EXCEPT ![s] = m] /\ UNCHANGED <<row, saved>>
        /\ clashed' = clashed \cup
              {k \in Taken(batch) : \E t \in Savers \ {s} :
                  saver[t].at = "reading" /\ saver[t].kind = "batch" /\ k \in DOMAIN saver[t].batch}
    BY <1>2 DEF BeginBatch, Taken
  <2>2. Taken(batch) \in SUBSET Keys
    BY BatchTypes
  <2>3. m \in Saving
    BY <2>2 DEF Saving
  <2>4. m.batch = batch /\ m.left = Taken(batch) /\ m.writes = {} /\ ~Initialising(m)
    BY DEF Initialising
  <2> HIDE DEF m
  <2>5. WritesBatch(m)'
    BY <2>4 DEF WritesBatch
  <2>6. ASSUME NEW t \in Savers \ {s}, Batching(saver[t])
        PROVE  Taken(m.batch) \cap Taken(saver[t].batch) \subseteq clashed'
    <3>1. \A k \in Taken(saver[t].batch) : k \in DOMAIN saver[t].batch
      BY DEF Taken
    <3> QED BY <2>1, <2>4, <2>6, <3>1 DEF Batching
  <2> QED BY <2>1, <2>3, <2>4, <2>5, <2>6, OneSaver
<1>3. ASSUME NEW k \in Keys, ReadKey(s, k) PROVE SettingInv'
  <2> DEFINE a == saver[s]
             to == IF a.kind = "batch" THEN Stored(k, a.batch[k]) ELSE Plain(Default(k))
             new == (row[k] = Absent)
             write == [key |-> k, new |-> new, to |-> to]
             needed == IF a.kind = "batch" THEN row[k] # to \/ k \in Sensitive ELSE new
             writes == IF needed THEN a.writes \cup {write} ELSE a.writes
             m == [a EXCEPT !.left = a.left \ {k}, !.writes = writes]
  <2>1. a.at = "reading" /\ k \in a.left /\ UNCHANGED <<row, saved, clashed>>
    BY <1>3 DEF ReadKey
  <2>2. a \in Saving /\ (Initialising(a) \/ Batching(a))
    BY <2>1 DEF SettingInv, SettingTypeOK, Saving, Resting, Initialising, Batching
  <2>3. saver' = [saver EXCEPT ![s] = m]
    <3>1. saver' = [saver EXCEPT ![s].left = @ \ {k}, ![s].writes = writes]
      BY <1>3 DEF ReadKey, Wanted
    <3> HIDE DEF writes, to, new, needed
    <3> QED BY <3>1
  <2>4. ~(Initialising(a) /\ Batching(a)) /\ (Batching(a) <=> a.kind = "batch") /\ a.left \subseteq Keys
    BY <2>1, <2>2 DEF Initialising, Batching, Saving, Resting
  <2>5. a.writes \subseteq Writes /\ (Batching(a) => a.batch \in Batches)
    BY <2>1, <2>2 DEF Saving, Resting, Batching
  <2>6. to \in ConfigRows
    <3>1. Batching(a) => k \in Taken(a.batch)
      BY <2>1 DEF SettingInv, WritesBatch
    <3>2. Batching(a) => a.batch[k] \in Values
      BY <2>5, <3>1, BatchTypes
    <3> QED BY <2>4, <3>2, StoredRow
  <2>13. new \in BOOLEAN /\ (new <=> row[k] = Absent)
    OBVIOUS
  <2>14. needed \in BOOLEAN /\ (needed <=> IF a.kind = "batch" THEN row[k] # to \/ k \in Sensitive ELSE new)
    BY <2>13
  <2> HIDE DEF to, new, needed
  <2>7. writes \subseteq Writes
    BY <2>5, <2>6, <2>13 DEF Writes
  <2>8. \A w \in writes : w \in a.writes \/ (needed /\ w.key = k /\ w.to = to /\ w.new = new)
    OBVIOUS
  <2>9. (needed => \E w \in writes : w.key = k) /\ a.writes \subseteq writes
    <3>1. write.key = k
      OBVIOUS
    <3> HIDE DEF write
    <3> QED BY <2>14, <3>1
  <2> HIDE DEF writes
  <2>11. CASE Initialising(a)
    <3>5. a \in [at : {"reading"}, kind : {"defaults"}, left : SUBSET Keys, writes : SUBSET Writes]
      BY <2>2, <2>11 DEF Saving, Resting, Initialising
    <3>6. m \in [at : {"reading"}, kind : {"defaults"}, left : SUBSET Keys, writes : SUBSET Writes]
      BY <2>7, <3>5
    <3>1. /\ m \in Saving /\ ~Batching(m) /\ m.writes = writes
      BY <3>5, <3>6 DEF Saving, Batching
    <3>2. InitialisesAbsent(a) /\ to = Plain(Default(k))
      BY <2>4, <2>11 DEF SettingInv, to
    <3>3. \A w \in writes : w.new /\ w.to = Plain(Default(w.key))
      BY <2>4, <2>8, <2>13, <2>14, <2>11, <3>2 DEF InitialisesAbsent
    <3> HIDE DEF m
    <3> QED BY <2>1, <2>3, <3>1, <3>3, OneSaver DEF InitialisesAbsent
  <2>12. CASE Batching(a)
    <3>1. /\ m \in Saving /\ Batching(m) /\ ~Initialising(m)
          /\ m.writes = writes /\ m.left = a.left \ {k} /\ m.batch = a.batch
      <4>1. a \in [at : {"reading"}, kind : {"batch"}, left : SUBSET Keys, batch : Batches, writes : SUBSET Writes]
        BY <2>2, <2>12 DEF Saving, Resting, Batching
      <4>2. m \in [at : {"reading"}, kind : {"batch"}, left : SUBSET Keys, batch : Batches, writes : SUBSET Writes]
        BY <2>7, <4>1
      <4> QED BY <4>1, <4>2 DEF Saving, Batching, Initialising
    <3>2. WritesBatch(a) /\ to = Stored(k, a.batch[k])
      BY <2>4, <2>12 DEF SettingInv, to
    <3>3. k \in Taken(a.batch)
      BY <2>1, <3>2 DEF WritesBatch
    <3> HIDE DEF m
    <3>4. \A w \in writes : w.key \in Taken(a.batch) /\ w.to = Stored(w.key, a.batch[w.key])
      BY <2>8, <3>2, <3>3 DEF WritesBatch
    <3>5. \A j \in Taken(a.batch) \ (m.left \cup clashed) :
              (\E w \in writes : w.key = j) \/ row[j] = Stored(j, a.batch[j])
      <4> SUFFICES ASSUME NEW j \in Taken(a.batch) \ (m.left \cup clashed)
                   PROVE  (\E w \in writes : w.key = j) \/ row[j] = Stored(j, a.batch[j])
        OBVIOUS
      <4>1. CASE j = k
        BY <2>4, <2>9, <2>13, <2>14, <2>12, <3>2, <4>1
      <4>2. CASE j # k
        BY <2>9, <3>1, <3>2, <4>2 DEF WritesBatch
      <4> QED BY <4>1, <4>2
    <3>6. ASSUME NEW n, n = m PROVE WritesBatch(n)'
      BY <2>1, <3>1, <3>2, <3>4, <3>5, <3>6 DEF WritesBatch
    <3>7. \A t \in Savers \ {s} : Batching(saver[t]) => Taken(m.batch) \cap Taken(saver[t].batch) \subseteq clashed'
      BY <2>1, <2>12, <3>1 DEF SettingInv
    <3> SUFFICES ASSUME NEW n, n = m PROVE SettingInv'
      OBVIOUS
    <3> QED BY <2>1, <2>3, <3>1, <3>6, <3>7, OneSaver
  <2> QED BY <2>2, <2>11, <2>12
<1> QED BY <1>1, <1>2, <1>3

\* Logging and notifying leave the settings alone.
LEMMA QuietKeeps ==
    ASSUME SettingInv, NEW s \in Savers,
           \/ LogSaving(s) \/ BeginNotify(s) \/ SendNotice(s)
           \/ \E k \in Keys : ReadForNotice(s, k)
    PROVE  SettingInv'
<1>1. CASE LogSaving(s) \/ SendNotice(s)
  <2>1. saver' = [saver EXCEPT ![s] = Resting] /\ UNCHANGED <<row, saved, clashed>>
    BY <1>1 DEF LogSaving, SendNotice
  <2>2. Resting \in Saving /\ ~Initialising(Resting) /\ ~Batching(Resting)
    BY DEF Saving, Resting, Initialising, Batching
  <2> QED BY <2>1, <2>2, OneSaver
<1>2. CASE BeginNotify(s)
  <2> DEFINE m == [at |-> "notifying", left |-> UNION {Needs(ch) : ch \in Channels}, set |-> {}]
  <2>1. UNION {Needs(ch) : ch \in Channels} \in SUBSET Keys
    BY NeedsAssumption
  <2>2. m \in Saving /\ ~Initialising(m) /\ ~Batching(m)
    BY <2>1 DEF Saving, Initialising, Batching
  <2>3. saver' = [saver EXCEPT ![s] = m] /\ UNCHANGED <<row, saved, clashed>>
    BY <1>2 DEF BeginNotify
  <2> HIDE DEF m
  <2> QED BY <2>2, <2>3, OneSaver
<1>3. ASSUME NEW k \in Keys, ReadForNotice(s, k) PROVE SettingInv'
  <2> DEFINE a == saver[s]
             set == IF ReadValue(k) # Empty THEN a.set \cup {k} ELSE a.set
             m == [a EXCEPT !.left = a.left \ {k}, !.set = set]
  <2>1. a.at = "notifying" /\ a \in Saving /\ UNCHANGED <<row, saved, clashed>>
    BY <1>3 DEF ReadForNotice, SettingInv, SettingTypeOK
  <2>2. a.left \subseteq Keys /\ set \subseteq Keys
    BY <2>1 DEF Saving, Resting
  <2>3. saver' = [saver EXCEPT ![s] = m]
    BY <1>3 DEF ReadForNotice
  <2> HIDE DEF set
  <2>4. m \in Saving /\ ~Initialising(m) /\ ~Batching(m)
    BY <2>1, <2>2 DEF Saving, Resting, Initialising, Batching
  <2> HIDE DEF m
  <2> QED BY <2>1, <2>3, <2>4, OneSaver
<1> QED BY <1>1, <1>2, <1>3

\* No request runs at first, and nothing was saved.
LEMMA SettingInitially == SettingInit => SettingInv
<1> SUFFICES ASSUME SettingInit PROVE SettingInv
  OBVIOUS
<1>1. \A k \in Keys : saved[k] = Default(k) /\ (row[k] = Absent \/ row[k] = Plain(Default(k)))
  BY DEF SettingInit
<1>2. SettingTypeOK
  BY StoredRow DEF SettingInit, SettingTypeOK, Saving
<1>3. \A s \in Savers : ~Initialising(saver[s]) /\ ~Batching(saver[s])
  BY DEF SettingInit, Resting, Initialising, Batching
<1>4. \A k \in Keys : SettingKept(k)
  BY <1>1, StoredRow DEF SettingKept
<1> QED BY <1>2, <1>3, <1>4 DEF SettingInv

\* Every saving, initialisation and notification keeps what was saved.
THEOREM SettingInvariant == SettingSpec => []SettingInv
<1>1. SettingInv /\ [SettingNext]_settingVars => SettingInv'
  <2> SUFFICES ASSUME SettingInv, [SettingNext]_settingVars PROVE SettingInv'
    OBVIOUS
  <2>1. CASE SettingNext
    BY <2>1, CommitKeeps, ReadingKeeps, QuietKeeps DEF SettingNext
  <2>2. CASE UNCHANGED settingVars
    <3>1. UNCHANGED <<row, saver, saved, clashed>>
      BY <2>2 DEF settingVars
    <3> QED BY <3>1 DEF SettingInv, SettingTypeOK, SettingKept, WritesBatch
  <2> QED BY <2>1, <2>2
<1> QED BY <1>1, SettingInitially, PTL DEF SettingSpec

(***************************************************************************)
(* What was saved last is what is read, for any settings, values and       *)
(* channels and any overlapping requests (system_config.py 101-200).       *)
(***************************************************************************)
THEOREM SavingsAreRead == SettingSpec => []SavedIsRead
<1>1. SettingInv => SavedIsRead
  <2> SUFFICES ASSUME SettingInv, NEW k \in Keys \ clashed
               PROVE  /\ ReadValue(k) = IF saved[k] = Empty THEN Default(k) ELSE saved[k]
                      /\ (row[k].sealed = "yes") <=> (k \in Sensitive /\ row[k].value # Empty)
    BY DEF SavedIsRead
  <2>1. SettingKept(k)
    BY DEF SettingInv
  <2>2. CASE row[k] = Stored(k, saved[k])
    BY <2>2 DEF Stored, Plain, ReadValue
  <2>3. CASE row[k] = Absent /\ saved[k] = Default(k)
    BY <2>3 DEF Absent, ReadValue
  <2> QED BY <2>1, <2>2, <2>3 DEF SettingKept
<1> QED BY <1>1, SettingInvariant, PTL
----------------------------------------------------------------------------
\* The requests about accounts: a sign-in that looks for its person or has loaded
\* an account, or an import between two rows.
Offices == Positions \cup {NoPosition}
UserRows == [who : Identities \cup {Local}, position : Offices, number : Nat, import : Nat]
RowMaps == UNION {[D -> [position : Offices, seen : Nat]] : D \in SUBSET Names}
Looking == [at : {"person", "name"}, who : Identities, name : Names]
Loading == [at : {"save"}, who : Identities, name : Names, number : Nat, differs : BOOLEAN]
Importation ==
    [at : {"row", "write"}, sheet : Sheets, next : Nat, number : Nat, seen : Nat,
     written : RowMaps, dirty : RowMaps, refused : SUBSET Nat, broken : BOOLEAN]
RequestsOK == session \in [Sessions -> {Waiting} \cup Looking \cup Loading \cup Importation]

\* Nobody has two accounts.
AtMostOne == \A p \in Identities \ moved : \A m, n \in AccountsOf(p) : m = n
\* A sign-in knows the name of its person; when it is about to make an account
\* of that name this person's, the person has no other.
Foresees(a) ==
    a.at \in {"person", "name", "save"} /\ a.who \notin moved =>
       /\ a.at # "save" => a.name = nameOf[a.who]
       /\ a.at = "name" => AccountsOf(a.who) \subseteq {a.name}
       /\ a.at = "save" /\ a.differs => a.name = nameOf[a.who] /\ AccountsOf(a.who) \subseteq {a.name}
\* What an import has accepted is flushed or about to be.
Taking(a) == (1..a.next - 1) \ a.refused
Amounts(a, j) ==
    /\ a.sheet[j].name \in DOMAIN a.dirty \cup DOMAIN a.written
    /\ Over(a.dirty, a.written)[a.sheet[j].name].position = a.sheet[j].position
IsLast(a, j) == \A k \in Taking(a) : a.sheet[k].name = a.sheet[j].name => k <= j
Remembers(a) ==
    a.at \in {"row", "write"} =>
       /\ a.next \in 1..Len(a.sheet) + 1 /\ a.refused \subseteq 1..a.next - 1
       /\ a.at = "write" => a.next \in DOMAIN a.sheet
       /\ \A j \in Taking(a) : IsLast(a, j) => Amounts(a, j)

AccountInv ==
    /\ AccountTypeOK /\ RequestsOK /\ AtMostOne
    /\ \A s \in Sessions : Foresees(session[s]) /\ Remembers(session[s])

\* Tables of rows an import keeps, and what is laid over them.
LEMMA RowMap ==
    /\ None \in RowMaps
    /\ \A f, g \in RowMaps : Over(f, g) \in RowMaps
    /\ \A f \in RowMaps, n \in Names, r \in [position : Offices, seen : Nat] : With(f, n, r) \in RowMaps
    /\ \A f \in RowMaps : /\ DOMAIN f \subseteq Names
                          /\ \A n \in DOMAIN f : f[n] \in [position : Offices, seen : Nat]
<1> DEFINE Rows == [position : Offices, seen : Nat]
<1>1. \A D \in SUBSET Names : \A f \in [D -> Rows] : f \in RowMaps
  BY DEF RowMaps
<1>2. ASSUME NEW f \in RowMaps
      PROVE  DOMAIN f \in SUBSET Names /\ \A n \in DOMAIN f : f[n] \in Rows
  BY DEF RowMaps
<1>3. None \in RowMaps
  <2>1. None \in [{} -> Rows]
    BY DEF None
  <2> QED BY <1>1, <2>1
<1> HIDE DEF Rows
<1>4. \A D \in SUBSET Names, E \in SUBSET Names : \A f \in [D -> Rows], g \in [E -> Rows] : Over(f, g) \in RowMaps
  <2> SUFFICES ASSUME NEW D \in SUBSET Names, NEW E \in SUBSET Names, NEW f \in [D -> Rows], NEW g \in [E -> Rows]
               PROVE  Over(f, g) \in RowMaps
    OBVIOUS
  <2>1. Over(f, g) \in [D \cup E -> Rows]
    BY DEF Over
  <2> QED BY <1>1, <2>1
<1>5. \A f \in RowMaps : f \in [DOMAIN f -> Rows]
  BY DEF RowMaps, Rows
<1>6. \A f, g \in RowMaps : Over(f, g) \in RowMaps
  BY <1>2, <1>4, <1>5
<1>7. ASSUME NEW f \in RowMaps, NEW n \in Names, NEW r \in Rows PROVE With(f, n, r) \in RowMaps
  <2>1. [m \in {n} |-> r] \in [{n} -> Rows]
    OBVIOUS
  <2> QED BY <1>1, <1>6, <2>1 DEF With
<1> QED BY <1>2, <1>3, <1>6, <1>7 DEF Rows

\* What the rows of accounts are made of.
LEMMA RowTypes ==
    /\ \A who \in Identities \cup {Local}, p \in Offices, n, i \in Nat :
          Account(who, p, n, i) \in UserRows /\ Account(who, p, n, i).who = who
    /\ \A r \in UserRows : /\ \A w \in Identities \cup {Local} : [r EXCEPT !.who = w] \in UserRows
                           /\ \A p \in Offices : [r EXCEPT !.position = p] \in UserRows
                           /\ \A p \in Offices, i \in Nat : [r EXCEPT !.position = p, !.import = i] \in UserRows
    /\ AccountTypeOK => /\ \A n \in Names : Exists(n) => user[n] \in UserRows
                        /\ \A n \in Names : NumberOf(n) \in Nat
BY DEF Account, UserRows, Offices, AccountTypeOK, Exists, Nobody, NumberOf

\* A step of one request that writes nothing.
LEMMA OneRequest ==
    ASSUME AccountInv, NEW s \in Sessions, NEW m \in {Waiting} \cup Looking \cup Loading \cup Importation,
           session' = [session EXCEPT ![s] = m], UNCHANGED <<user, offices, nameOf, moved, kept>>,
           changes' \in 0..MaxChanges, Foresees(m), Remembers(m)
    PROVE  AccountInv'
<1>1. session'[s] = m /\ \A t \in Sessions \ {s} : session'[t] = session[t]
  BY DEF AccountInv, RequestsOK
<1>2. AccountTypeOK' /\ RequestsOK'
  BY DEF AccountInv, AccountTypeOK, RequestsOK
<1>3. \A p : AccountsOf(p)' = AccountsOf(p)
  BY DEF AccountsOf, Exists
<1>4. AtMostOne'
  BY <1>3 DEF AccountInv, AtMostOne
<1>5. \A t \in Sessions : Foresees(session'[t]) /\ Remembers(session'[t])
  BY <1>1 DEF AccountInv
<1>6. \A t \in Sessions : Foresees(session[t])'
  BY <1>3, <1>5 DEF Foresees
<1>7. \A t \in Sessions : Remembers(session[t])'
  BY <1>5 DEF Remembers, Taking, IsLast, Amounts
<1> QED BY <1>2, <1>4, <1>6, <1>7 DEF AccountInv

\* A step that makes no account anybody's: requests go on, or end.
LEMMA NobodyGains ==
    ASSUME AccountInv, AccountTypeOK', UNCHANGED <<nameOf, moved>>,
           RequestsOK', \A t \in Sessions : session'[t] = session[t] \/ session'[t] = Waiting,
           \A p \in Identities : AccountsOf(p)' \subseteq AccountsOf(p)
    PROVE  AccountInv'
<1>1. AtMostOne'
  BY DEF AccountInv, AtMostOne
<1>2. ASSUME NEW t \in Sessions, session'[t] = Waiting
      PROVE  (Foresees(session[t]) /\ Remembers(session[t]))'
  BY <1>2 DEF Waiting, Foresees, Remembers
<1>3. ASSUME NEW t \in Sessions, session'[t] = session[t]
      PROVE  (Foresees(session[t]) /\ Remembers(session[t]))'
  <2>1. Foresees(session[t]) /\ Remembers(session[t])
    BY DEF AccountInv
  <2>2. session[t].at \in {"person", "name", "save"} => session[t].who \in Identities
    BY DEF AccountInv, RequestsOK, Waiting, Looking, Loading, Importation
  <2>3. Foresees(session[t])'
    BY <1>3, <2>1, <2>2 DEF Foresees
  <2>4. Remembers(session[t])'
    BY <1>3, <2>1 DEF Remembers, Taking, IsLast, Amounts
  <2> QED BY <2>3, <2>4
<1> QED BY <1>1, <1>2, <1>3 DEF AccountInv

\* A sign-in the directory or the provider vouches for begins.
LEMMA AskingKeeps ==
    ASSUME AccountInv, NEW s \in Sessions, NEW p \in Identities,
           AskDirectory(s, p) \/ AskProvider(s, p)
    PROVE  AccountInv'
<1> DEFINE m == [at |-> "person", who |-> p, name |-> nameOf[p]]
<1>1. /\ session' = [session EXCEPT ![s] = m] /\ UNCHANGED <<user, offices, nameOf, moved, kept>>
      /\ changes' \in 0..MaxChanges
  BY ChangeAssumption DEF AskDirectory, AskProvider, Proceed, Change, AccountInv, AccountTypeOK
<1>2. m \in Looking /\ m.at = "person" /\ m.name = nameOf[m.who]
  BY DEF Looking, AccountInv, AccountTypeOK
<1> HIDE DEF m
<1>3. Foresees(m) /\ Remembers(m)
  BY <1>2 DEF Foresees, Remembers
<1> QED BY <1>1, <1>2, <1>3, OneRequest

\* What a sign-in loads of an account of its person, or of its name.
LEMMA LoadingKeeps ==
    ASSUME AccountInv, NEW s \in Sessions, session[s].at \in {"person", "name"},
           NEW n \in Names, session' = [session EXCEPT ![s] = Loaded(s, n)],
           UNCHANGED <<user, offices, nameOf, moved, kept, changes>>,
           n \in AccountsOf(session[s].who) \/ (session[s].at = "name" /\ n = session[s].name)
    PROVE  AccountInv'
<1> DEFINE m == Loaded(s, n)
           a == session[s]
           gains == (Exists(n) => user[n].who # a.who)
<1>1. a \in Looking
  BY DEF AccountInv, RequestsOK, Waiting, Looking, Loading, Importation
<1>2. a.who \in Identities /\ gains \in BOOLEAN /\ NumberOf(n) \in Nat
  BY <1>1, RowTypes DEF Looking, AccountInv
<1>3. m = [at |-> "save", who |-> a.who, name |-> n, number |-> NumberOf(n), differs |-> gains]
  BY DEF Loaded
<1>7. n \in AccountsOf(a.who) => ~gains
  BY DEF AccountsOf
<1> HIDE DEF gains
<1>4. m \in Loading /\ m.at = "save" /\ m.who = a.who /\ m.name = n /\ m.differs = gains
  BY <1>2, <1>3 DEF Loading
<1> HIDE DEF m
<1>5. Remembers(m)
  BY <1>4 DEF Remembers
<1>6. Foresees(m)
  <2>1. Foresees(a)
    BY DEF AccountInv
  <2>2. CASE n \in AccountsOf(a.who)
    BY <1>4, <1>7, <2>2 DEF Foresees
  <2>3. CASE a.at = "name" /\ n = a.name
    BY <1>4, <2>1, <2>3 DEF Foresees
  <2> QED BY <2>2, <2>3
<1>8. changes' \in 0..MaxChanges
  BY DEF AccountInv, AccountTypeOK
<1> QED BY <1>4, <1>5, <1>6, <1>8, OneRequest DEF m

\* It looks for the account of its person, then for that of the name.
LEMMA FindingKeeps ==
    ASSUME AccountInv, NEW s \in Sessions, FindPerson(s) \/ FindName(s)
    PROVE  AccountInv'
<1> DEFINE a == session[s]
<1>1. /\ a.at \in {"person", "name"} /\ UNCHANGED <<user, offices, nameOf, moved, kept, changes>>
  BY DEF FindPerson, FindName
<1>2. a \in Looking /\ a.name \in Names
  BY <1>1 DEF AccountInv, RequestsOK, Waiting, Looking, Loading, Importation
<1>3. changes' \in 0..MaxChanges
  BY <1>1 DEF AccountInv, AccountTypeOK
<1>4. CASE FindName(s)
  BY <1>1, <1>2, <1>4, LoadingKeeps DEF FindName, Proceed
<1>5. CASE FindPerson(s) /\ session' = [session EXCEPT ![s] = Waiting]
  <2>1. Foresees(Waiting) /\ Remembers(Waiting)
    BY DEF Waiting, Foresees, Remembers
  <2> QED BY <1>1, <1>3, <1>5, <2>1, OneRequest
<1>6. ASSUME NEW n \in AccountsOf(a.who), session' = [session EXCEPT ![s] = Loaded(s, n)]
      PROVE  AccountInv'
  <2>1. n \in Names
    BY DEF AccountsOf
  <2> QED BY <1>1, <1>6, <2>1, LoadingKeeps
<1>7. CASE /\ AccountsOf(a.who) = {} /\ a.at = "person"
           /\ session' = [session EXCEPT ![s] = [session[s] EXCEPT !.at = "name"]]
  <2> DEFINE m == [a EXCEPT !.at = "name"]
  <2>1. m \in Looking /\ m.at = "name" /\ m.who = a.who /\ m.name = a.name
    BY <1>2 DEF Looking
  <2>2. session' = [session EXCEPT ![s] = m]
    BY <1>7
  <2> HIDE DEF m
  <2>3. Foresees(a)
    BY DEF AccountInv
  <2>4. Foresees(m) /\ Remembers(m)
    BY <1>7, <2>1, <2>3 DEF Foresees, Remembers
  <2> QED BY <1>1, <1>3, <2>1, <2>2, <2>4, OneRequest
<1> QED BY <1>4, <1>5, <1>6, <1>7 DEF FindPerson, Proceed, Recognised

\* A sign-in that is saved makes an account its person's: the only one.
LEMMA SavingKeeps == ASSUME AccountInv, NEW s \in Sessions, SaveSignIn(s) PROVE AccountInv'
<1> DEFINE a == session[s]
           n == a.name
           new == (a.number = 0)
<1>0. PICK who : who = a.who
  OBVIOUS
<1>1. /\ a.at = "save" /\ session' = [session EXCEPT ![s] = Waiting]
      /\ UNCHANGED <<offices, nameOf, moved, kept, changes>>
      /\ user' = IF NumberOf(n) # a.number \/ ~a.differs THEN user
                 ELSE IF new THEN [user EXCEPT ![n] = Account(who, NoPosition, changes, 0)]
                 ELSE [user EXCEPT ![n].who = who]
  BY <1>0 DEF SaveSignIn, Proceed
<1>2. a \in Loading /\ n \in Names /\ who \in Identities /\ Foresees(a)
  BY <1>0, <1>1 DEF AccountInv, RequestsOK, Waiting, Looking, Loading, Importation
<1>3. RequestsOK' /\ \A t \in Sessions : session'[t] = session[t] \/ session'[t] = Waiting
  BY <1>1 DEF AccountInv, RequestsOK
<1>4. CASE user' = user
  <2>1. \A p \in Identities : AccountsOf(p)' = AccountsOf(p)
    BY <1>4 DEF AccountsOf, Exists
  <2>2. AccountTypeOK'
    BY <1>1, <1>4 DEF AccountInv, AccountTypeOK
  <2> QED BY <1>1, <1>3, <2>1, <2>2, NobodyGains
<1>5. CASE a.differs /\ NumberOf(n) = a.number
  <2> DEFINE r == IF new THEN Account(who, NoPosition, changes, 0) ELSE [user[n] EXCEPT !.who = who]
  <2>1. user' = [user EXCEPT ![n] = r]
    BY <1>1, <1>5
  <2>2. r \in UserRows /\ r.who = who
    <3>1. CASE new
      <4>1. changes \in Nat /\ NoPosition \in Offices /\ 0 \in Nat
        BY ChangeAssumption DEF AccountInv, AccountTypeOK, Offices
      <4>2. r = Account(who, NoPosition, changes, 0)
        BY <3>1
      <4> HIDE DEF r
      <4> QED BY <1>2, <4>1, <4>2, RowTypes
    <3>2. CASE ~new
      <4>1. Exists(n)
        BY <1>5, <3>2 DEF NumberOf
      <4>2. user[n] \in UserRows
        BY <1>2, <4>1, RowTypes DEF AccountInv
      <4>3. r = [user[n] EXCEPT !.who = who]
        BY <3>2
      <4>4. [user[n] EXCEPT !.who = who].who = who
        BY <4>2 DEF UserRows
      <4> HIDE DEF r
      <4> QED BY <1>2, <4>2, <4>3, <4>4, RowTypes
    <3> QED BY <3>1, <3>2
  <2> HIDE DEF r
  <2>3. r # Nobody
    BY <2>2 DEF UserRows, Nobody
  <2>4. user \in [Names -> {Nobody} \cup UserRows]
    BY DEF AccountInv, AccountTypeOK, UserRows, Offices
  <2>5. user'[n] = r /\ \A m \in Names \ {n} : user'[m] = user[m]
    BY <1>2, <2>1, <2>4
  <2>6. AccountTypeOK'
    <3>1. user' \in [Names -> {Nobody} \cup UserRows]
      BY <2>1, <2>2, <2>4
    <3> QED BY <1>1, <3>1 DEF AccountInv, AccountTypeOK, UserRows, Offices
  <2>7. \A p \in Identities : p # who => AccountsOf(p)' \subseteq AccountsOf(p)
    BY <2>2, <2>5 DEF AccountsOf, Exists
  <2>8. AccountsOf(who)' \subseteq AccountsOf(who) \cup {n}
    BY <2>5 DEF AccountsOf, Exists
  <2>9. who \notin moved => n = nameOf[who] /\ AccountsOf(who)' \subseteq {n}
    BY <1>0, <1>1, <1>2, <1>5, <2>8 DEF Foresees
  <2>10. AtMostOne'
    <3> SUFFICES ASSUME NEW p \in Identities \ moved PROVE \A i, j \in AccountsOf(p)' : i = j
      BY <1>1 DEF AtMostOne
    <3>1. CASE p = who
      BY <2>9, <3>1
    <3>2. CASE p # who
      BY <2>7, <3>2 DEF AccountInv, AtMostOne
    <3> QED BY <3>1, <3>2
  <2>11. ASSUME NEW t \in Sessions PROVE (Foresees(session[t]) /\ Remembers(session[t]))'
    <3>1. CASE session'[t] = Waiting
      BY <3>1 DEF Waiting, Foresees, Remembers
    <3>2. CASE session'[t] = session[t]
      <4>1. Foresees(session[t]) /\ Remembers(session[t])
        BY DEF AccountInv
      <4>2. session[t].at \in {"person", "name", "save"} => session[t].who \in Identities
        BY DEF AccountInv, RequestsOK, Waiting, Looking, Loading, Importation
      <4>3. Remembers(session[t])'
        BY <3>2, <4>1 DEF Remembers, Taking, IsLast, Amounts
      <4>4. Foresees(session[t])'
        <5>1. CASE session[t].who = who
          BY <1>1, <2>9, <3>2, <4>1, <5>1 DEF Foresees
        <5>2. CASE session[t].who # who
          BY <1>1, <2>7, <3>2, <4>1, <4>2, <5>2 DEF Foresees
        <5> QED BY <5>1, <5>2
      <4> QED BY <4>3, <4>4
    <3> QED BY <1>3, <3>1, <3>2
  <2> QED BY <1>3, <2>6, <2>10, <2>11 DEF AccountInv
<1>6. a.differs \in BOOLEAN
  BY <1>2 DEF Loading
<1> QED BY <1>1, <1>4, <1>5, <1>6

\* Administrators give accounts to nobody of a directory or a provider.
LEMMA AdministeringKeeps ==
    ASSUME AccountInv, NEW p \in Offices,
           \/ \E n \in Names : CreateUser(n, p) \/ UpdateUser(n, p) \/ DeleteUser(n)
           \/ p \in Positions /\ DeleteRole(p)
    PROVE  AccountInv'
<1>1. /\ UNCHANGED <<nameOf, session, moved, kept>> /\ offices' \subseteq offices
      /\ changes' \in 0..MaxChanges /\ changes' \in Nat
  BY ChangeAssumption DEF CreateUser, UpdateUser, DeleteUser, DeleteRole, Change, AccountInv, AccountTypeOK
<1>2. user \in [Names -> {Nobody} \cup UserRows] /\ NoPosition \in Offices /\ Local \in Identities \cup {Local}
  BY DEF AccountInv, AccountTypeOK, UserRows, Offices
<1>3. \A m \in Names : \/ user'[m] = user[m] \/ user'[m] = Nobody
                       \/ user'[m] \in UserRows /\ user'[m].who = Local
                       \/ Exists(m) /\ user'[m] \in UserRows /\ user'[m].who = user[m].who
  <2>1. ASSUME NEW n \in Names, CreateUser(n, p)
        PROVE  \A m \in Names : user'[m] = user[m] \/ (user'[m] \in UserRows /\ user'[m].who = Local)
    <3>1. user' = [user EXCEPT ![n] = Account(Local, p, changes', 0)] /\ 0 \in Nat
      BY <2>1 DEF CreateUser
    <3>2. Account(Local, p, changes', 0) \in UserRows /\ Account(Local, p, changes', 0).who = Local
      BY <1>1, <1>2, <3>1, RowTypes
    <3> QED BY <1>2, <3>1, <3>2
  <2>2. ASSUME NEW n \in Names, UpdateUser(n, p)
        PROVE  \A m \in Names : user'[m] = user[m] \/ (Exists(m) /\ user'[m] \in UserRows /\ user'[m].who = user[m].who)
    <3>1. user' = [user EXCEPT ![n] = [user[n] EXCEPT !.position = p]] /\ Exists(n)
      BY <2>2 DEF UpdateUser
    <3>2. user[n] \in UserRows
      BY <3>1, RowTypes DEF AccountInv
    <3>3. [user[n] EXCEPT !.position = p] \in UserRows /\ [user[n] EXCEPT !.position = p].who = user[n].who
      BY <3>2, RowTypes DEF UserRows
    <3> QED BY <1>2, <3>1, <3>3
  <2>3. ASSUME NEW n \in Names, DeleteUser(n) PROVE \A m \in Names : user'[m] = user[m] \/ user'[m] = Nobody
    BY <1>2, <2>3 DEF DeleteUser
  <2>4. CASE p \in Positions /\ DeleteRole(p)
    <3> SUFFICES ASSUME NEW m \in Names, Exists(m), user'[m] = [user[m] EXCEPT !.position = NoPosition]
                 PROVE  user'[m] \in UserRows /\ user'[m].who = user[m].who
      BY <2>4 DEF DeleteRole
    <3>1. user[m] \in UserRows
      BY RowTypes DEF AccountInv
    <3>2. [user[m] EXCEPT !.position = NoPosition] \in UserRows
      BY <1>2, <3>1, RowTypes
    <3>3. [user[m] EXCEPT !.position = NoPosition].who = user[m].who
      BY <3>1 DEF UserRows
    <3> QED BY <3>2, <3>3
  <2> QED BY <2>1, <2>2, <2>3, <2>4
<1>4. user' = [m \in Names |-> user'[m]]
  BY <1>2 DEF CreateUser, UpdateUser, DeleteUser, DeleteRole
<1>5. user' \in [Names -> {Nobody} \cup UserRows]
  BY <1>2, <1>3, <1>4
<1>6. AccountTypeOK'
  BY <1>1, <1>5 DEF AccountInv, AccountTypeOK, UserRows, Offices
<1>7. \A q \in Identities : AccountsOf(q)' \subseteq AccountsOf(q)
  BY <1>3, LocalAssumption DEF AccountsOf, Exists
<1>8. RequestsOK'
  BY <1>1 DEF AccountInv, RequestsOK
<1> QED BY <1>1, <1>6, <1>7, <1>8, NobodyGains

\* A person whose sign-in is under way is remembered as renamed.
LEMMA RenamingKeeps ==
    ASSUME AccountInv, NEW p \in Identities, NEW n \in Names, RenamePerson(p, n)
    PROVE  AccountInv'
<1>1. /\ UNCHANGED <<user, offices, session, kept>> /\ nameOf' = [nameOf EXCEPT ![p] = n]
      /\ moved' = IF \E s \in Sessions : session[s].at \in {"person", "name", "save"} /\ session[s].who = p
                  THEN moved \cup {p} ELSE moved
      /\ changes' \in 0..MaxChanges
  BY ChangeAssumption DEF RenamePerson, Change, AccountInv, AccountTypeOK
<1>2. AccountTypeOK' /\ RequestsOK'
  BY <1>1 DEF AccountInv, AccountTypeOK, RequestsOK
<1>3. \A q : AccountsOf(q)' = AccountsOf(q)
  BY <1>1 DEF AccountsOf, Exists
<1>4. AtMostOne'
  BY <1>1, <1>3 DEF AccountInv, AtMostOne
<1>5. ASSUME NEW t \in Sessions PROVE (Foresees(session[t]) /\ Remembers(session[t]))'
  <2>1. Foresees(session[t]) /\ Remembers(session[t]) /\ session'[t] = session[t]
    BY <1>1 DEF AccountInv
  <2>2. Remembers(session[t])'
    BY <2>1 DEF Remembers, Taking, IsLast, Amounts
  <2>3. CASE session[t].at \in {"person", "name", "save"} /\ session[t].who \notin moved'
    <3>1. session[t].who # p /\ session[t].who \notin moved
      BY <1>1, <2>3
    <3>2. session[t].who \in Identities
      BY <2>3 DEF AccountInv, RequestsOK, Waiting, Looking, Loading, Importation
    <3>3. nameOf'[session[t].who] = nameOf[session[t].who]
      BY <1>1, <3>1, <3>2 DEF AccountInv, AccountTypeOK
    <3> QED BY <1>3, <2>1, <2>2, <3>1, <3>3 DEF Foresees
  <2>4. CASE ~(session[t].at \in {"person", "name", "save"} /\ session[t].who \notin moved')
    BY <2>1, <2>2, <2>4 DEF Foresees
  <2> QED BY <2>3, <2>4
<1> QED BY <1>2, <1>4, <1>5 DEF AccountInv

\* A request that imports, and what its next row names.
LEMMA ImportTypes ==
    ASSUME AccountInv, NEW s \in Sessions, session[s].at \in {"row", "write"}
    PROVE  /\ session[s] \in Importation /\ Remembers(session[s])
           /\ session[s].sheet \in Seq([name : Names, position : Offices])
           /\ Len(session[s].sheet) \in Nat /\ DOMAIN session[s].sheet = 1..Len(session[s].sheet)
           /\ \A j \in DOMAIN session[s].sheet :
                 session[s].sheet[j].name \in Names /\ session[s].sheet[j].position \in Offices
<1>1. session[s] \in Importation
  BY DEF AccountInv, RequestsOK, Waiting, Looking, Loading, Importation
<1>2. session[s].sheet \in Seq([name : Names, position : Offices])
  BY <1>1, SheetAssumption DEF Importation, Offices
<1>3. Remembers(session[s])
  BY DEF AccountInv
<1>4. \A sheet \in Seq([name : Names, position : Offices]) :
          /\ Len(sheet) \in Nat /\ DOMAIN sheet = 1..Len(sheet)
          /\ \A j \in DOMAIN sheet : sheet[j] \in [name : Names, position : Offices]
  <2> DEFINE R == [name : Names, position : Offices]
  <2> HIDE DEF R
  <2>1. \A sheet \in Seq(R) : /\ Len(sheet) \in Nat /\ DOMAIN sheet = 1..Len(sheet)
                               /\ \A j \in DOMAIN sheet : sheet[j] \in R
    OBVIOUS
  <2> QED BY <2>1 DEF R
<1>5. \A r \in [name : Names, position : Offices] : r.name \in Names /\ r.position \in Offices
  OBVIOUS
<1> QED BY <1>1, <1>2, <1>3, <1>4, <1>5

\* A row that is refused is not taken; the rows before it are taken as they were.
LEMMA RefusingKeeps ==
    ASSUME AccountInv, NEW s \in Sessions, session[s].at \in {"row", "write"},
           session[s].next \in DOMAIN session[s].sheet, NEW broken \in BOOLEAN,
           session' = [session EXCEPT ![s] = [RowRefused(s) EXCEPT !.broken = broken]],
           UNCHANGED <<user, offices, nameOf, moved, kept, changes>>
    PROVE  AccountInv'
<1> DEFINE a == session[s]
           m == [RowRefused(s) EXCEPT !.broken = broken]
<1>1. a \in Importation /\ Remembers(a) /\ DOMAIN a.sheet = 1..Len(a.sheet) /\ Len(a.sheet) \in Nat
  BY ImportTypes
<1>2. a.next \in Nat /\ a.refused \in SUBSET Nat
  BY <1>1 DEF Importation
<1>3. m \in Importation
  <2>1. a.next + 1 \in Nat /\ a.refused \cup {a.next} \in SUBSET Nat
    BY <1>2
  <2> DEFINE next == a.next + 1
             refused == a.refused \cup {a.next}
  <2>2. m = [a EXCEPT !.at = "row", !.next = next, !.refused = refused, !.broken = broken]
    BY <1>1 DEF RowRefused, Importation
  <2> HIDE DEF next, refused
  <2> QED BY <1>1, <2>1, <2>2 DEF next, refused, Importation
<1>4. /\ m.at = "row" /\ m.next = a.next + 1 /\ m.refused = a.refused \cup {a.next}
      /\ m.sheet = a.sheet /\ m.dirty = a.dirty /\ m.written = a.written
  BY <1>1 DEF RowRefused, Importation
<1> HIDE DEF m
<1>5. Taking(m) = Taking(a)
  BY <1>2, <1>4 DEF Taking
<1>6. m.next \in 1..Len(m.sheet) + 1 /\ m.refused \subseteq 1..m.next - 1
  <2> DEFINE k == a.next
             last == Len(a.sheet)
  <2>1. /\ k \in Nat /\ k \in 1..last /\ last \in Nat /\ a.refused \subseteq 1..k - 1
        /\ m.next = k + 1 /\ m.refused = a.refused \cup {k} /\ m.sheet = a.sheet
    BY <1>1, <1>2, <1>4 DEF Remembers
  <2> HIDE DEF k, last
  <2>2. k + 1 \in 1..last + 1 /\ a.refused \cup {k} \subseteq 1..k + 1 - 1
    BY <2>1
  <2> QED BY <2>1, <2>2 DEF last
<1>7. \A j \in Taking(m) : IsLast(m, j) => Amounts(m, j)
  BY <1>1, <1>4, <1>5 DEF Remembers, IsLast, Amounts
<1>8. Remembers(m) /\ Foresees(m)
  BY <1>4, <1>6, <1>7 DEF Remembers, Foresees
<1>9. changes' \in 0..MaxChanges
  BY DEF AccountInv, AccountTypeOK
<1> QED BY <1>3, <1>8, <1>9, OneRequest DEF m

\* An import begins.
LEMMA StartingKeeps ==
    ASSUME AccountInv, NEW s \in Sessions, NEW sheet \in Sheets, StartImport(s, sheet)
    PROVE  AccountInv'
<1> DEFINE m == [at |-> "row", sheet |-> sheet, next |-> 1, number |-> MaxChanges + changes',
                 seen |-> 0, written |-> None, dirty |-> None, refused |-> {}, broken |-> FALSE]
<1>1. /\ session' = [session EXCEPT ![s] = m] /\ UNCHANGED <<user, offices, nameOf, moved, kept>>
      /\ changes' \in 0..MaxChanges
  BY ChangeAssumption DEF StartImport, Proceed, Change, AccountInv, AccountTypeOK
<1>2. MaxChanges + changes' \in Nat
  <2> DEFINE c == changes'
  <2>1. c \in 0..MaxChanges
    BY <1>1
  <2> HIDE DEF c
  <2>2. MaxChanges + c \in Nat
    BY <2>1, ChangeAssumption
  <2> QED BY <2>2 DEF c
<1>3. m \in Importation
  BY <1>2, RowMap DEF Importation
<1>4. m.at = "row" /\ m.next = 1 /\ m.refused = {} /\ m.sheet = sheet
  OBVIOUS
<1> HIDE DEF m
<1>5. Len(sheet) \in Nat
  BY SheetAssumption
<1>6. Taking(m) = {} /\ m.next \in 1..Len(m.sheet) + 1
  BY <1>4, <1>5 DEF Taking
<1>7. Foresees(m) /\ Remembers(m)
  BY <1>4, <1>6 DEF Foresees, Remembers
<1> QED BY <1>1, <1>3, <1>7, OneRequest

\* It looks up the role and the account of a row.
LEMMA ResolvingKeeps == ASSUME AccountInv, NEW s \in Sessions, ResolveUser(s) PROVE AccountInv'
<1> DEFINE a == session[s]
           m == [a EXCEPT !.at = "write", !.seen = NumberOf(RowOf(s).name)]
<1>1. /\ a.at = "row" /\ a.next \in DOMAIN a.sheet /\ UNCHANGED <<user, offices, nameOf, moved, kept, changes>>
      /\ \/ session' = [session EXCEPT ![s] = RowRefused(s)]
         \/ session' = [session EXCEPT ![s] = m]
  BY DEF ResolveUser, Proceed
<1>2. a \in Importation /\ Remembers(a) /\ RowOf(s).name \in Names
  BY <1>1, ImportTypes DEF RowOf
<1>3. CASE session' = [session EXCEPT ![s] = RowRefused(s)]
  <2>1. RowRefused(s) = [RowRefused(s) EXCEPT !.broken = a.broken] /\ a.broken \in BOOLEAN
    BY <1>2 DEF RowRefused, Importation
  <2> QED BY <1>1, <1>3, <2>1, RefusingKeeps
<1>4. CASE session' = [session EXCEPT ![s] = m]
  <2>1. NumberOf(RowOf(s).name) \in Nat
    BY <1>2, RowTypes DEF AccountInv
  <2>2. m \in Importation
    BY <1>2, <2>1 DEF Importation
  <2>3. /\ m.at = "write" /\ m.next = a.next /\ m.refused = a.refused /\ m.sheet = a.sheet
        /\ m.dirty = a.dirty /\ m.written = a.written
    BY <1>2 DEF Importation
  <2> HIDE DEF m
  <2>4. Remembers(m)
    BY <1>1, <1>2, <2>3 DEF Remembers, Taking, IsLast, Amounts
  <2>5. Foresees(m) /\ changes' \in 0..MaxChanges
    BY <1>1, <2>3 DEF Foresees, AccountInv, AccountTypeOK
  <2> QED BY <1>1, <1>4, <2>2, <2>4, <2>5, OneRequest
<1> QED BY <1>1, <1>3, <1>4

\* A row that is written is what is kept of its name, the others are kept as they were.
LEMMA WritingKeeps == ASSUME AccountInv, NEW s \in Sessions, WriteUser(s) PROVE AccountInv'
<1> DEFINE a == session[s]
           n == RowOf(s).name
           r == [position |-> RowOf(s).position,
                   seen |-> IF n \in DOMAIN a.written THEN a.written[n].seen ELSE a.seen]
           new == With(a.dirty, n, r)
           done == [a EXCEPT !.at = "row", !.next = a.next + 1]
           later == [done EXCEPT !.dirty = new]
           flush == Flushed(done, new)
<1>1. a.at = "write" /\ UNCHANGED <<user, offices, nameOf, moved, kept, changes>>
  BY DEF WriteUser
<1>2. /\ a \in Importation /\ Remembers(a) /\ a.next \in DOMAIN a.sheet
      /\ DOMAIN a.sheet = 1..Len(a.sheet) /\ Len(a.sheet) \in Nat
      /\ n \in Names /\ RowOf(s).position \in Offices /\ n = a.sheet[a.next].name
      /\ RowOf(s).position = a.sheet[a.next].position
  BY <1>1, ImportTypes DEF Remembers, RowOf
<1>3. /\ a.next \in Nat /\ a.refused \in SUBSET Nat /\ a.seen \in Nat
      /\ a.written \in RowMaps /\ a.dirty \in RowMaps
  BY <1>2 DEF Importation
<1>4. r \in [position : Offices, seen : Nat] /\ r.position = a.sheet[a.next].position
  <2>1. n \in DOMAIN a.written => a.written[n].seen \in Nat
    BY <1>3, RowMap
  <2> QED BY <1>2, <1>3, <2>1
<1>5. \/ session' = [session EXCEPT ![s] = later]
      \/ session' = [session EXCEPT ![s] = flush]
      \/ session' = [session EXCEPT ![s] = [RowRefused(s) EXCEPT !.broken = TRUE]]
  BY DEF WriteUser, Proceed
<1> HIDE DEF r, n
<1>6. new \in RowMaps /\ n \in DOMAIN new /\ new[n] = r
      /\ DOMAIN new = {n} \cup DOMAIN a.dirty /\ \A k \in DOMAIN a.dirty \ {n} : new[k] = a.dirty[k]
  <2> DEFINE one == [k \in {n} |-> r]
  <2>1. DOMAIN one = {n} /\ one[n] = r
    OBVIOUS
  <2>2. new = Over(one, a.dirty)
    BY DEF With
  <2>3. new \in RowMaps
    BY <1>2, <1>3, <1>4, RowMap
  <2> HIDE DEF one, new
  <2>4. /\ DOMAIN new = DOMAIN one \cup DOMAIN a.dirty
        /\ \A k \in DOMAIN one : new[k] = one[k]
        /\ \A k \in DOMAIN a.dirty \ DOMAIN one : new[k] = a.dirty[k]
    BY <2>2 DEF Over
  <2> QED BY <2>1, <2>3, <2>4
<1> DEFINE old == Over(a.dirty, a.written)
<1>12. /\ DOMAIN old = DOMAIN a.dirty \cup DOMAIN a.written
       /\ \A k \in DOMAIN a.dirty : old[k] = a.dirty[k]
       /\ \A k \in DOMAIN a.written \ DOMAIN a.dirty : old[k] = a.written[k]
  BY DEF Over
<1> HIDE DEF new, old
<1>7. changes' \in 0..MaxChanges
  BY <1>1 DEF AccountInv, AccountTypeOK
<1>8. ASSUME NEW m \in Importation, session' = [session EXCEPT ![s] = m],
             m.at = "row", m.next = a.next + 1, m.refused = a.refused, m.sheet = a.sheet,
             DOMAIN m.dirty \cup DOMAIN m.written = {n} \cup DOMAIN old,
             Over(m.dirty, m.written)[n] = r,
             \A k \in DOMAIN old \ {n} : Over(m.dirty, m.written)[k] = old[k]
      PROVE  AccountInv'
  <2>1. Taking(m) = Taking(a) \cup {a.next} /\ a.next \notin Taking(a)
    <3>1. a.refused \subseteq 1..a.next - 1
      BY <1>1, <1>2 DEF Remembers
    <3>2. a.next \notin a.refused
      BY <1>3, <3>1
    <3>3. 1..a.next + 1 - 1 = (1..a.next - 1) \cup {a.next} /\ a.next \notin 1..a.next - 1
      <4> DEFINE k == a.next
      <4>1. k \in Nat \ {0}
        BY <1>2, <1>3
      <4> HIDE DEF k
      <4>2. 1..k + 1 - 1 = (1..k - 1) \cup {k} /\ k \notin 1..k - 1
        BY <4>1
      <4> QED BY <4>2 DEF k
    <3> QED BY <1>8, <3>2, <3>3 DEF Taking
  <2>2. m.next \in 1..Len(m.sheet) + 1 /\ m.refused \subseteq 1..m.next - 1
    <3> DEFINE k == a.next
               last == Len(a.sheet)
    <3>1. /\ k \in Nat /\ k \in 1..last /\ last \in Nat /\ a.refused \subseteq 1..k - 1
          /\ m.next = k + 1 /\ m.refused = a.refused /\ m.sheet = a.sheet
      BY <1>1, <1>2, <1>3, <1>8 DEF Remembers
    <3> HIDE DEF k, last
    <3>2. k + 1 \in 1..last + 1 /\ a.refused \subseteq 1..k + 1 - 1
      BY <3>1
    <3> QED BY <3>1, <3>2 DEF last
  <2>3. ASSUME NEW j \in Taking(m), IsLast(m, j) PROVE Amounts(m, j)
    <3>1. CASE j = a.next
      <4>1. m.sheet[j].name = n
        BY <1>2, <1>8, <3>1
      <4> QED BY <1>4, <1>8, <3>1, <4>1 DEF Amounts
    <3>2. CASE j # a.next
      <4>1. j \in Taking(a) /\ j < a.next /\ a.next \in Taking(m)
        BY <1>3, <2>1, <3>2 DEF Taking
      <4>2. m.sheet[j].name # n
        <5>1. SUFFICES ASSUME m.sheet[j].name = n PROVE FALSE
          OBVIOUS
        <5>2. m.sheet[a.next].name = m.sheet[j].name
          BY <1>2, <1>8, <5>1
        <5>3. a.next <= j
          BY <2>3, <4>1, <5>2 DEF IsLast
        <5> QED BY <1>3, <4>1, <5>3 DEF Taking
      <4>3. IsLast(a, j)
        BY <1>8, <2>1, <2>3 DEF IsLast
      <4>4. Amounts(a, j)
        BY <1>1, <1>2, <4>1, <4>3 DEF Remembers
      <4>5. m.sheet[j].name \in DOMAIN old /\ old[m.sheet[j].name].position = m.sheet[j].position
        BY <1>8, <1>12, <4>4 DEF Amounts, old
      <4> QED BY <1>8, <4>2, <4>5 DEF Amounts
    <3> QED BY <3>1, <3>2
  <2>4. Remembers(m) /\ Foresees(m)
    BY <1>8, <2>2, <2>3 DEF Remembers, Foresees
  <2> QED BY <1>1, <1>7, <1>8, <2>4, OneRequest
<1>9. CASE session' = [session EXCEPT ![s] = later]
  <2>1. later \in Importation
    <3> DEFINE next == a.next + 1
    <3>1. next \in Nat
      BY <1>3
    <3>2. later = [a EXCEPT !.at = "row", !.next = next, !.dirty = new]
      BY <1>2 DEF Importation
    <3> HIDE DEF next, later
    <3> QED BY <1>2, <1>6, <3>1, <3>2 DEF Importation
  <2>2. /\ later.at = "row" /\ later.next = a.next + 1 /\ later.refused = a.refused
        /\ later.sheet = a.sheet /\ later.dirty = new /\ later.written = a.written
    BY <1>2 DEF Importation
  <2> HIDE DEF later
  <2> DEFINE then == Over(new, a.written)
  <2>3. /\ \A k \in DOMAIN new : then[k] = new[k]
        /\ \A k \in DOMAIN a.written \ DOMAIN new : then[k] = a.written[k]
    BY DEF Over
  <2> HIDE DEF then
  <2>4. /\ DOMAIN new \cup DOMAIN a.written = {n} \cup DOMAIN old /\ then[n] = r
        /\ \A k \in DOMAIN old \ {n} : then[k] = old[k]
    BY <1>6, <1>12, <2>3
  <2> QED BY <1>8, <1>9, <2>1, <2>2, <2>4 DEF then
<1>10. CASE session' = [session EXCEPT ![s] = flush]
  <2>1. flush \in Importation
    <3>1. Over(new, a.written) \in RowMaps /\ None \in RowMaps
      BY <1>3, <1>6, RowMap
    <3> DEFINE next == a.next + 1
               flushed == Over(new, a.written)
    <3>2. next \in Nat
      BY <1>3
    <3>3. flush = [a EXCEPT !.at = "row", !.next = next, !.written = flushed, !.dirty = None]
      BY <1>2 DEF Importation, Flushed
    <3> HIDE DEF next, flushed, flush
    <3> QED BY <1>2, <3>1, <3>2, <3>3 DEF Importation, flushed
  <2>2. /\ flush.at = "row" /\ flush.next = a.next + 1 /\ flush.refused = a.refused
        /\ flush.sheet = a.sheet /\ flush.dirty = None /\ flush.written = Over(new, a.written)
    BY <1>2 DEF Importation, Flushed
  <2> HIDE DEF flush
  <2>3. DOMAIN None = {}
    BY DEF None
  <2> DEFINE flushed == flush.written
             then == Over(None, flushed)
  <2>4. /\ DOMAIN flushed = DOMAIN new \cup DOMAIN a.written
        /\ \A k \in DOMAIN new : flushed[k] = new[k]
        /\ \A k \in DOMAIN a.written \ DOMAIN new : flushed[k] = a.written[k]
    BY <2>2 DEF Over
  <2> HIDE DEF flushed
  <2>5. \A k \in DOMAIN flushed : then[k] = flushed[k]
    BY <2>3 DEF Over
  <2> HIDE DEF then
  <2>6. /\ DOMAIN None \cup DOMAIN flushed = {n} \cup DOMAIN old /\ then[n] = r
        /\ \A k \in DOMAIN old \ {n} : then[k] = old[k]
    BY <1>6, <1>12, <2>3, <2>4, <2>5
  <2> QED BY <1>8, <1>10, <2>1, <2>2, <2>6 DEF then, flushed
<1>11. CASE session' = [session EXCEPT ![s] = [RowRefused(s) EXCEPT !.broken = TRUE]]
  <2>1. TRUE \in BOOLEAN
    OBVIOUS
  <2>2. \E b \in BOOLEAN : session' = [session EXCEPT ![s] = [RowRefused(s) EXCEPT !.broken = b]]
    BY <1>11, <2>1
  <2> QED BY <1>1, <1>2, <2>2, RefusingKeeps
<1> QED BY <1>5, <1>9, <1>10, <1>11

\* A row that a deadlock breaks is refused.
LEMMA BreakingKeeps == ASSUME AccountInv, NEW s \in Sessions, BreakDeadlock(s) PROVE AccountInv'
<1>1. /\ session[s].at = "write" /\ UNCHANGED <<user, offices, nameOf, moved, kept, changes>>
      /\ session' = [session EXCEPT ![s] = [RowRefused(s) EXCEPT !.broken = TRUE]]
  BY DEF BreakDeadlock, Proceed
<1>2. session[s].next \in DOMAIN session[s].sheet
  BY <1>1, ImportTypes DEF Remembers
<1>3. \E b \in BOOLEAN : session' = [session EXCEPT ![s] = [RowRefused(s) EXCEPT !.broken = b]]
  BY <1>1
<1> QED BY <1>1, <1>2, <1>3, RefusingKeeps

\* An import that ends gives nobody an account of a directory or a provider.
LEMMA EndingKeeps == ASSUME AccountInv, NEW s \in Sessions, EndUserImport(s) PROVE AccountInv'
<1> DEFINE a == session[s]
           rows == Over(a.dirty, a.written)
           whole == ~a.broken /\ Writable(a.dirty)
           Put(n) == IF Exists(n) THEN [user[n] EXCEPT !.position = rows[n].position, !.import = a.number]
                     ELSE Account(Local, rows[n].position, a.number, a.number)
<1>1. /\ a.at = "row" /\ session' = [session EXCEPT ![s] = Waiting]
      /\ UNCHANGED <<offices, nameOf, moved, changes>>
      /\ user' = [n \in Names |-> IF whole /\ n \in DOMAIN rows THEN Put(n) ELSE user[n]]
      /\ kept' = IF whole THEN kept \cup {a.number} ELSE kept
  BY DEF EndUserImport, Proceed
<1>2. a \in Importation /\ a.number \in Nat
  BY <1>1, ImportTypes DEF Importation
<1>3. \A n \in DOMAIN rows : rows[n].position \in Offices
  <2>1. rows \in RowMaps
    BY <1>2, RowMap DEF Importation
  <2> HIDE DEF rows
  <2> QED BY <2>1, RowMap
<1> HIDE DEF rows, whole
<1>4. user \in [Names -> {Nobody} \cup UserRows]
  BY DEF AccountInv, AccountTypeOK, UserRows, Offices
<1>5. ASSUME NEW n \in Names, n \in DOMAIN rows
      PROVE  /\ Put(n) \in UserRows
             /\ Put(n).who = IF Exists(n) THEN user[n].who ELSE Local
  <2>1. CASE Exists(n)
    <3>1. user[n] \in UserRows
      BY <2>1, RowTypes DEF AccountInv
    <3> QED BY <1>2, <1>3, <1>5, <2>1, <3>1, RowTypes DEF UserRows
  <2>2. CASE ~Exists(n)
    <3> DEFINE p == rows[n].position
    <3>1. Put(n) = Account(Local, p, a.number, a.number) /\ p \in Offices
      BY <1>3, <1>5, <2>2
    <3> HIDE DEF p, Put
    <3>2. Account(Local, p, a.number, a.number) \in UserRows /\ Account(Local, p, a.number, a.number).who = Local
      BY <1>2, <3>1, RowTypes
    <3> QED BY <2>2, <3>1, <3>2
  <2> QED BY <2>1, <2>2
<1> HIDE DEF Put
<1>6. user' \in [Names -> {Nobody} \cup UserRows]
  BY <1>1, <1>4, <1>5
<1>7. kept' \subseteq Nat
  BY <1>1, <1>2 DEF AccountInv, AccountTypeOK
<1>8. AccountTypeOK'
  BY <1>1, <1>6, <1>7 DEF AccountInv, AccountTypeOK, UserRows, Offices
<1>9. ASSUME NEW p \in Identities PROVE AccountsOf(p)' \subseteq AccountsOf(p)
  <2> SUFFICES ASSUME NEW n \in Names, user'[n] # Nobody, user'[n].who = p PROVE n \in AccountsOf(p)
    BY DEF AccountsOf, Exists
  <2>1. CASE user'[n] = user[n]
    BY <2>1 DEF AccountsOf, Exists
  <2>2. CASE n \in DOMAIN rows /\ user'[n] = Put(n)
    <3>1. p # Local
      BY LocalAssumption
    <3> QED BY <1>5, <2>2, <3>1 DEF AccountsOf
  <2> QED BY <1>1, <2>1, <2>2
<1>10. RequestsOK' /\ \A t \in Sessions : session'[t] = session[t] \/ session'[t] = Waiting
  BY <1>1 DEF AccountInv, RequestsOK
<1> QED BY <1>1, <1>8, <1>9, <1>10, NobodyGains

\* No request runs at first, and every account is the administrators'.
LEMMA AccountInitially == AccountInit => AccountInv
<1> SUFFICES ASSUME AccountInit PROVE AccountInv
  OBVIOUS
<1>1. \A n \in Names : user[n] = Nobody \/ user[n] = Account(Local, NoPosition, 1, 0)
  BY DEF AccountInit
<1>2. AccountTypeOK
  <2>1. Account(Local, NoPosition, 1, 0) \in UserRows
    BY RowTypes DEF Offices
  <2>2. user \in [Names -> {Nobody} \cup UserRows]
    BY <2>1 DEF AccountInit
  <2> QED BY <2>2, ChangeAssumption DEF AccountInit, AccountTypeOK, UserRows, Offices
<1>3. \A p \in Identities : AccountsOf(p) = {}
  BY <1>1, LocalAssumption DEF AccountsOf, Exists, Account
<1>4. \A s \in Sessions : session[s] = Waiting
  BY DEF AccountInit
<1>5. \A s \in Sessions : Foresees(session[s]) /\ Remembers(session[s])
  BY <1>4 DEF Waiting, Foresees, Remembers
<1>6. RequestsOK /\ AtMostOne
  BY <1>3 DEF AccountInit, RequestsOK, AtMostOne
<1> QED BY <1>2, <1>5, <1>6 DEF AccountInv

\* Sign-ins, imports, renamings and what administrators do keep the invariant.
THEOREM AccountInvariant == AccountSpec => []AccountInv
<1>1. AccountInv /\ [AccountNext]_accountVars => AccountInv'
  <2> SUFFICES ASSUME AccountInv, [AccountNext]_accountVars PROVE AccountInv'
    OBVIOUS
  <2>1. ASSUME NEW s \in Sessions, NEW p \in Identities, AskDirectory(s, p) \/ AskProvider(s, p)
        PROVE  AccountInv'
    BY <2>1, AskingKeeps
  <2>2. ASSUME NEW s \in Sessions, FindPerson(s) \/ FindName(s) \/ SaveSignIn(s) PROVE AccountInv'
    BY <2>2, FindingKeeps, SavingKeeps
  <2>3. ASSUME NEW s \in Sessions,
               \/ \E sheet \in Sheets : StartImport(s, sheet)
               \/ ResolveUser(s) \/ WriteUser(s) \/ BreakDeadlock(s) \/ EndUserImport(s)
        PROVE  AccountInv'
    BY <2>3, StartingKeeps, ResolvingKeeps, WritingKeeps, BreakingKeeps, EndingKeeps
  <2>4. ASSUME NEW p \in Identities, NEW n \in Names, RenamePerson(p, n) PROVE AccountInv'
    BY <2>4, RenamingKeeps
  <2>5. ASSUME NEW n \in Names, NEW p \in Offices, CreateUser(n, p) \/ UpdateUser(n, p) PROVE AccountInv'
    BY <2>5, AdministeringKeeps
  <2>6. ASSUME NEW n \in Names, DeleteUser(n) PROVE AccountInv'
    <3>1. NoPosition \in Offices
      BY DEF Offices
    <3> QED BY <2>6, <3>1, AdministeringKeeps
  <2>7. ASSUME NEW p \in Positions, DeleteRole(p) PROVE AccountInv'
    BY <2>7, AdministeringKeeps DEF Offices
  <2>8. CASE UNCHANGED accountVars
    <3>1. UNCHANGED <<user, offices, nameOf, session, moved, kept, changes>>
      BY <2>8 DEF accountVars
    <3>2. AccountTypeOK' /\ RequestsOK'
      BY <3>1 DEF AccountInv, AccountTypeOK, RequestsOK
    <3>3. \A q \in Identities : AccountsOf(q)' \subseteq AccountsOf(q)
      BY <3>1 DEF AccountsOf, Exists
    <3> QED BY <3>1, <3>2, <3>3, NobodyGains
  <2> QED BY <2>1, <2>2, <2>3, <2>4, <2>5, <2>6, <2>7, <2>8 DEF AccountNext, Offices
<1> QED BY <1>1, AccountInitially, PTL DEF AccountSpec

\* An import that ends writes what it remembers, or nothing.
LEMMA EndingReports ==
    ASSUME AccountInv, NEW s \in Sessions, EndUserImport(s)
    PROVE  LET i == session[s]
               good == DOMAIN i.sheet \ i.refused
               Last(j) == \A k \in good : i.sheet[k].name = i.sheet[j].name => k <= j
               RowsWritten(j) == user'[i.sheet[j].name] # Nobody
                             /\ user'[i.sheet[j].name].position = i.sheet[j].position
           IN  \/ \A j \in good : Last(j) => RowsWritten(j)
               \/ kept' = kept /\ user' = user
<1> DEFINE a == session[s]
           good == DOMAIN a.sheet \ a.refused
           rows == Over(a.dirty, a.written)
           whole == ~a.broken /\ Writable(a.dirty)
           Put(n) == IF Exists(n) THEN [user[n] EXCEPT !.position = rows[n].position, !.import = a.number]
                     ELSE Account(Local, rows[n].position, a.number, a.number)
<1>1. /\ a.at = "row" /\ a.next \notin DOMAIN a.sheet
      /\ user' = [n \in Names |-> IF whole /\ n \in DOMAIN rows THEN Put(n) ELSE user[n]]
      /\ kept' = IF whole THEN kept \cup {a.number} ELSE kept
  BY DEF EndUserImport
<1>2. /\ a \in Importation /\ Remembers(a) /\ DOMAIN a.sheet = 1..Len(a.sheet) /\ Len(a.sheet) \in Nat
      /\ \A j \in DOMAIN a.sheet : a.sheet[j].name \in Names
  BY <1>1, ImportTypes
<1>3. user = [n \in Names |-> user[n]]
  BY DEF AccountInv, AccountTypeOK
<1>4. CASE ~whole
  BY <1>1, <1>3, <1>4
<1>5. CASE whole
  <2>1. good = Taking(a)
    <3> DEFINE last == Len(a.sheet)
               next == a.next
    <3>3. next \in 1..last + 1 /\ next \notin 1..last /\ last \in Nat
      BY <1>1, <1>2 DEF Remembers
    <3> HIDE DEF last, next
    <3>1. next = last + 1
      BY <3>3
    <3>2. next - 1 = last
      BY <3>1, <3>3
    <3> QED BY <1>2, <3>2 DEF Taking, last, next
  <2> SUFFICES ASSUME NEW j \in good, \A k \in good : a.sheet[k].name = a.sheet[j].name => k <= j
               PROVE  /\ user'[a.sheet[j].name] # Nobody
                      /\ user'[a.sheet[j].name].position = a.sheet[j].position
    OBVIOUS
  <2> DEFINE n == a.sheet[j].name
  <2>2. Amounts(a, j)
    BY <1>1, <1>2, <2>1 DEF Remembers, IsLast
  <2>3. n \in DOMAIN rows /\ rows[n].position = a.sheet[j].position /\ n \in Names
    BY <1>2, <2>2 DEF Amounts, Over
  <2> HIDE DEF rows
  <2>4. user'[n] = Put(n)
    BY <1>1, <1>5, <2>3
  <2>5. CASE Exists(n)
    <3>1. user[n] \in UserRows
      BY <2>3, <2>5, RowTypes DEF AccountInv
    <3>2. Put(n) = [user[n] EXCEPT !.position = rows[n].position, !.import = a.number]
      BY <2>5
    <3>3. Put(n).position = rows[n].position /\ Put(n).who = user[n].who /\ "position" \in DOMAIN Put(n)
      BY <3>1, <3>2 DEF UserRows
    <3>4. "position" \notin DOMAIN Nobody
      BY DEF Nobody
    <3> QED BY <2>3, <2>4, <3>3, <3>4
  <2>6. CASE ~Exists(n)
    BY <2>3, <2>4, <2>6 DEF Account, Nobody
  <2> QED BY <2>5, <2>6
<1> QED BY <1>4, <1>5

(***************************************************************************)
(* Nobody has two accounts, and an import of users does as it reports, for *)
(* any people, names, roles and sheets and any requests that overlap       *)
(* (ldap_auth.py 178-229, user.py 727-755).                                *)
(***************************************************************************)
THEOREM AccountsCorrect == AccountSpec => AccountsAgree
<1>1. AccountInv => AccountTypeOK /\ OneAccountPerIdentity
  <2> SUFFICES ASSUME AccountInv, NEW p \in Identities \ moved PROVE Cardinality(AccountsOf(p)) <= 1
    BY DEF OneAccountPerIdentity, AccountInv
  <2>1. CASE AccountsOf(p) = {}
    BY <2>1, FS_EmptySet
  <2>2. CASE AccountsOf(p) # {}
    <3>1. PICK n \in AccountsOf(p) : TRUE
      BY <2>2
    <3>2. \A m \in AccountsOf(p) : m = n
      BY DEF AccountInv, AtMostOne
    <3>3. AccountsOf(p) = {n}
      BY <3>1, <3>2
    <3>4. Cardinality(AccountsOf(p)) = 1
      BY <3>3, FS_Singleton
    <3> QED BY <3>4
  <2> QED BY <2>1, <2>2
<1>2. AccountInv /\ [AccountNext]_accountVars =>
        [\A s \in Sessions : EndUserImport(s) =>
            LET i == session[s]
                good == DOMAIN i.sheet \ i.refused
                Last(j) == \A k \in good : i.sheet[k].name = i.sheet[j].name => k <= j
                RowsWritten(j) == user'[i.sheet[j].name] # Nobody
                              /\ user'[i.sheet[j].name].position = i.sheet[j].position
            IN  \/ \A j \in good : Last(j) => RowsWritten(j)
                \/ kept' = kept /\ user' = user]_accountVars
  BY EndingReports
<1> QED BY <1>1, <1>2, AccountInvariant, PTL DEF AccountSpec, AccountsAgree, ImportDoesAsReported
------------------------------------------------------------------------------
\* The rows a table may have; what two rows of a transaction may be about.
Fit(t) == Ends[t][1] \X Ends[t][2]
Part == UNION {[table : {t}, seen : SUBSET Fit(t), inserts : SUBSET Fit(t), drops : SUBSET Fit(t),
                wants : SUBSET Fit(t)] : t \in Tables}
Here(p) == {p[1], p[2]} \subseteq present

\* What an update of a table has read and will write.  Only a list of resource groups of
\* an instance leaves out of its inserts what was there.
Sound(e) ==
    /\ e.seen \subseteq link[e.table] /\ e.seen \subseteq e.drops
    /\ e.inserts \subseteq e.wants
    /\ e.table # "holds" => e.inserts = e.wants
\* What it read is still what there is.
Current(e) ==
    /\ link[e.table] \cap e.drops \subseteq e.seen \cup (e.wants \ e.inserts)
    /\ \A p \in e.wants \ e.inserts : Here(p) => p \in link[e.table] /\ p \notin e.seen

Quiet == [at : {"free", "between"}, parts : {{}}]
Resolved == [at : {"resolved"}, parts : {{}}, group : Groups, rs : Optional(ResourceGroups), ms : SUBSET Members]
Opened == [at : {"open"}, parts : SUBSET Part, makes : SUBSET (UNION {Members, Groups, Roles, Codes}), then : Quiet]

EditorsOK == editor \in [Editors -> Quiet \cup Resolved \cup Opened]
RowsFit == \A t \in Tables : link[t] \subseteq Fit(t) /\ \A p \in link[t] : Here(p)
\* Resource groups and instances are numbered once.
NumberedOnce == (ResourceGroups \cup Instances) \ present \subseteq stopped
PartsSound == \A c \in Editors : \A e \in editor[c].parts :
    Sound(e) /\ (e.table \in interfered \/ Current(e)) /\ \A f \in editor[c].parts : f.table = e.table => f = e
OneAtATime == \A c, d \in Editors : \A e \in editor[c].parts, f \in editor[d].parts :
    e.table = f.table /\ e.table \notin interfered => c = d

Linked ==
    /\ EditorsOK /\ RowsFit /\ NumberedOnce /\ PartsSound /\ OneAtATime
    /\ LinkedAsAsked
----------------------------------------------------------------------------
LEMMA TheTables ==
    /\ Tables = {"member", "scope", "holds", "permits"}
    /\ Ends["member"] = <<Members, Groups>> /\ Ends["scope"] = <<Groups, ResourceGroups>>
    /\ Ends["holds"] = <<ResourceGroups, Instances>> /\ Ends["permits"] = <<Roles, Codes>>
BY DEF Tables, Ends

LEMMA PartFields ==
    ASSUME NEW e \in Part
    PROVE  /\ e.table \in Tables /\ e.seen \subseteq Fit(e.table) /\ e.inserts \subseteq Fit(e.table)
           /\ e.drops \subseteq Fit(e.table) /\ e.wants \subseteq Fit(e.table)
           /\ \A s \in SUBSET Fit(e.table) :
                LET f == [e EXCEPT !.seen = s]
                IN  f \in Part /\ f.table = e.table /\ f.seen = s /\ f.inserts = e.inserts
                    /\ f.drops = e.drops /\ f.wants = e.wants
<1>1. PICK t \in Tables : e \in [table : {t}, seen : SUBSET Fit(t), inserts : SUBSET Fit(t),
                                 drops : SUBSET Fit(t), wants : SUBSET Fit(t)]
  BY DEF Part
<1>2. SUFFICES ASSUME NEW s \in SUBSET Fit(t)
               PROVE  LET f == [e EXCEPT !.seen = s]
                      IN  f \in [table : {t}, seen : SUBSET Fit(t), inserts : SUBSET Fit(t),
                                 drops : SUBSET Fit(t), wants : SUBSET Fit(t)]
                          /\ f.table = e.table /\ f.seen = s /\ f.inserts = e.inserts
                          /\ f.drops = e.drops /\ f.wants = e.wants
  BY <1>1 DEF Part
<1> QED BY <1>1, <1>2

\* The rows of a list lie in their table, and are those about its owner.
LEMMA PairsFit ==
    ASSUME NEW t \in Tables, NEW side \in {1, 2}, NEW key \in Ends[t][side],
           NEW others \in SUBSET Ends[t][3 - side]
    PROVE  /\ Pairs(t, side, key, others) \subseteq Fit(t)
           /\ \A p \in Fit(t) : p[side] = key <=> p \in Pairs(t, side, key, Ends[t][3 - side])
           /\ \A p \in Pairs(t, side, key, others) : p[side] = key
           /\ Pairs(t, side, key, others) \subseteq Pairs(t, side, key, Ends[t][3 - side])
<1>1. CASE side = 1
  BY <1>1 DEF Pairs, Fit
<1>2. CASE side = 2
  BY <1>2 DEF Pairs, Fit
<1> QED BY <1>1, <1>2

LEMMA ReplacementIsSound ==
    ASSUME Linked, NEW t \in Tables, NEW side \in {1, 2}, NEW key \in Ends[t][side],
           NEW others \in SUBSET Ends[t][3 - side]
    PROVE  LET e == Replacement(t, side, key, others)
           IN  e \in Part /\ e.table = t /\ Sound(e) /\ Current(e)
<1> DEFINE e == Replacement(t, side, key, others)
           all == Pairs(t, side, key, Ends[t][3 - side])
           new == Pairs(t, side, key, others)
<1>1. e.table = t /\ e.seen = Of(t, side, key) /\ e.inserts = new /\ e.drops = all /\ e.wants = new
  BY DEF Replacement
<1>2. link[t] \subseteq Fit(t) /\ Of(t, side, key) = {p \in link[t] : p[side] = key}
  BY DEF Linked, RowsFit, Of
<1>3. new \subseteq Fit(t) /\ all \subseteq Fit(t) /\ \A p \in Fit(t) : p[side] = key <=> p \in all
  BY PairsFit
<1>4. e = [table |-> t, seen |-> Of(t, side, key), inserts |-> new, drops |-> all, wants |-> new]
  BY DEF Replacement
<1> HIDE DEF e, all, new
<1>5. e \in Part
  BY <1>2, <1>3, <1>4 DEF Part
<1>6. Sound(e) /\ Current(e)
  BY <1>1, <1>2, <1>3 DEF Sound, Current
<1> QED BY <1>1, <1>5, <1>6 DEF e

LEMMA DifferenceIsSound ==
    ASSUME Linked, NEW i \in Instances, NEW rs \in SUBSET ResourceGroups
    PROVE  LET e == Difference("holds", 2, i, rs)
           IN  e \in Part /\ e.table = "holds" /\ Sound(e) /\ Current(e)
<1> DEFINE w == Replacement("holds", 2, i, rs)
           e == Difference("holds", 2, i, rs)
<1>1. w \in Part /\ w.table = "holds" /\ Sound(w) /\ Current(w) /\ w.inserts = w.wants
  <2>1. "holds" \in Tables /\ i \in Ends["holds"][2] /\ rs \in SUBSET Ends["holds"][1] /\ 3 - 2 = 1
    BY TheTables
  <2>2. w.inserts = w.wants
    BY DEF Replacement
  <2> QED BY <2>1, <2>2, ReplacementIsSound
<1>2. /\ w.wants \subseteq w.drops /\ w.seen = link["holds"] \cap w.drops
  <2>1. "holds" \in Tables /\ i \in Ends["holds"][2] /\ rs \in SUBSET Ends["holds"][1] /\ 3 - 2 = 1
    BY TheTables
  <2>2. Pairs("holds", 2, i, rs) \subseteq Pairs("holds", 2, i, Ends["holds"][1])
    BY <2>1, PairsFit
  <2>3. w.wants = Pairs("holds", 2, i, rs) /\ w.drops = Pairs("holds", 2, i, Ends["holds"][1])
    BY DEF Replacement
  <2> QED BY <1>1, <2>2, <2>3 DEF Sound, Current
<1>3. e = [w EXCEPT !.seen = w.seen \ w.wants, !.inserts = w.inserts \ w.seen]
  BY DEF Difference, Replacement
<1>4. w \in [table : {"holds"}, seen : SUBSET Fit("holds"), inserts : SUBSET Fit("holds"),
             drops : SUBSET Fit("holds"), wants : SUBSET Fit("holds")]
  BY <1>1 DEF Part
<1> HIDE DEF w, e
<1>5. /\ e.table = "holds" /\ e.seen = w.seen \ w.wants /\ e.inserts = w.inserts \ w.seen
      /\ e.drops = w.drops /\ e.wants = w.wants
  BY <1>3, <1>4
<1>6. e \in Part
  <2>1. e \in [table : {"holds"}, seen : SUBSET Fit("holds"), inserts : SUBSET Fit("holds"),
             drops : SUBSET Fit("holds"), wants : SUBSET Fit("holds")]
    BY <1>3, <1>4
  <2> QED BY <2>1, TheTables DEF Part
<1>7. Sound(e) /\ Current(e)
  BY <1>1, <1>2, <1>5 DEF Sound, Current
<1> QED BY <1>5, <1>6, <1>7 DEF e
----------------------------------------------------------------------------
LEMMA EditorTypes ==
    ASSUME Linked, NEW c \in Editors
    PROVE  editor[c] \in Quiet \cup Resolved \cup Opened /\ editor[c].parts \subseteq Part
BY DEF Linked, EditorsOK, Quiet, Resolved, Opened

\* What a request holds changes, and nothing of the tables.
LEMMA EditorMoves ==
    ASSUME Linked, ~torn, NEW c \in Editors, NEW r \in Quiet \cup Resolved \cup Opened,
           editor' = [editor EXCEPT ![c] = r], UNCHANGED <<link, present, asked>>,
           NumberedOnce', r.parts \subseteq Part,
           \A e \in r.parts : Sound(e) /\ Current(e) /\ \A f \in r.parts : f.table = e.table => f = e,
           interfered' = interfered \cup ({e.table : e \in r.parts}
                                \cap {e.table : e \in UNION {editor[d].parts : d \in Editors \ {c}}})
    PROVE  Linked'
<1>1. editor'[c] = r /\ \A d \in Editors \ {c} : editor'[d] = editor[d]
  BY DEF Linked, EditorsOK
<1>2. EditorsOK'
  BY DEF Linked, EditorsOK
<1>3. RowsFit' /\ \A e : (Sound(e)' <=> Sound(e)) /\ (Current(e)' <=> Current(e))
  BY DEF Linked, RowsFit, Sound, Current, Here
<1>4. PartsSound'
  <2> SUFFICES ASSUME NEW d \in Editors, NEW e \in editor'[d].parts
               PROVE  Sound(e) /\ (e.table \in interfered' \/ Current(e)) /\ \A f \in editor'[d].parts : f.table = e.table => f = e
    BY <1>3 DEF PartsSound
  <2>1. CASE d = c
    BY <1>1, <2>1
  <2>2. CASE d # c
    BY <1>1, <2>2 DEF Linked, PartsSound
  <2> QED BY <2>1, <2>2
<1>5. OneAtATime'
  <2> SUFFICES ASSUME NEW d \in Editors, NEW b \in Editors, d # b, NEW e \in editor'[d].parts,
                      NEW f \in editor'[b].parts, e.table = f.table
               PROVE  e.table \in interfered'
    BY DEF OneAtATime
  <2>1. CASE d = c
    <3>1. f \in UNION {editor[x].parts : x \in Editors \ {c}}
      BY <1>1, <2>1
    <3> QED BY <1>1, <2>1, <3>1
  <2>2. CASE b = c
    <3>1. e \in UNION {editor[x].parts : x \in Editors \ {c}}
      BY <1>1, <2>2
    <3> QED BY <1>1, <2>2, <3>1
  <2>3. CASE d # c /\ b # c
    BY <1>1, <2>3 DEF Linked, OneAtATime
  <2> QED BY <2>1, <2>2, <2>3
<1>7. LinkedAsAsked'
  BY DEF Linked, LinkedAsAsked
<1> QED BY <1>2, <1>3, <1>4, <1>5, <1>7 DEF Linked

LEMMA OpenKeeps ==
    ASSUME Linked, ~torn, NEW c \in Editors, editor[c].parts = {}, NEW parts \in SUBSET Part,
           NEW makes \in SUBSET (UNION {Members, Groups, Roles, Codes}), NEW then \in Quiet,
           \A e \in parts : Sound(e) /\ Current(e) /\ \A f \in parts : f.table = e.table => f = e,
           OpenUpdate(c, parts, makes, then)
    PROVE  Linked'
<1> DEFINE r == [at |-> "open", parts |-> parts, makes |-> makes, then |-> then]
<1>1. editor' = [editor EXCEPT ![c] = r] /\ UNCHANGED <<link, present, asked, stopped>>
  BY DEF OpenUpdate
<1>2. r \in Quiet \cup Resolved \cup Opened /\ r.parts = parts
  BY DEF Opened
<1>3. NumberedOnce'
  BY <1>1 DEF Linked, NumberedOnce
<1>4. interfered' = interfered \cup ({e.table : e \in r.parts}
                                \cap {e.table : e \in UNION {editor[d].parts : d \in Editors \ {c}}})
  BY <1>2 DEF OpenUpdate
<1> HIDE DEF r
<1> QED BY <1>1, <1>2, <1>3, <1>4, EditorMoves

\* A request that reads and writes nothing of the tables.
LEMMA NothingRead ==
    ASSUME Linked, ~torn, NEW c \in Editors, NEW r \in Quiet \cup Resolved \cup Opened, r.parts = {},
           editor' = [editor EXCEPT ![c] = r], UNCHANGED <<link, present, stopped, asked, interfered>>
    PROVE  Linked'
<1>1. NumberedOnce'
  BY DEF Linked, NumberedOnce
<1> QED BY <1>1, EditorMoves

\* What a request is about to write was read as it began, and is of tables of its own.
LEMMA BeginKeeps ==
    ASSUME Linked, ~torn, NEW c \in Editors, NEW parts, NEW makes,
           \A e \in parts : e \in Part /\ Sound(e) /\ Current(e) /\ \A f \in parts : f.table = e.table => f = e,
           makes \subseteq UNION {Members, Groups, Roles, Codes}, Begin(c, parts, makes)
    PROVE  Linked'
<1>1. editor[c].parts = {} /\ Free \in Quiet /\ OpenUpdate(c, parts, makes, Free)
  BY DEF Begin, Free, Quiet
<1> QED BY <1>1, OpenKeeps

LEMMA SaveUserKeeps ==
    ASSUME Linked, ~torn, NEW c \in Editors, NEW u \in Members, NEW gs \in SUBSET Groups, SaveUser(c, u, gs)
    PROVE  Linked'
<1> DEFINE e == Replacement("member", 1, u, gs \cap present)
<1>1. "member" \in Tables /\ u \in Ends["member"][1] /\ gs \cap present \in SUBSET Ends["member"][3 - 1]
  BY TheTables
<1>2. e \in Part /\ Sound(e) /\ Current(e)
  BY <1>1, ReplacementIsSound
<1>3. Begin(c, {e}, {u} \ present)
  BY DEF SaveUser
<1> HIDE DEF e
<1> QED BY <1>2, <1>3, BeginKeeps

LEMMA GroupPartsSound ==
    ASSUME Linked, NEW g \in Groups, NEW rs \in Optional(ResourceGroups), NEW ms \in Optional(Members)
    PROVE  \A e \in GroupParts(g, rs, ms) :
              e \in Part /\ Sound(e) /\ Current(e) /\ \A f \in GroupParts(g, rs, ms) : f.table = e.table => f = e
<1> DEFINE d == Replacement("scope", 1, g, rs)
           e == Replacement("member", 2, g, ms)
<1>1. rs # Same => d \in Part /\ d.table = "scope" /\ Sound(d) /\ Current(d)
  <2>1. "scope" \in Tables /\ g \in Ends["scope"][1] /\ (rs # Same => rs \in SUBSET Ends["scope"][3 - 1])
    BY TheTables DEF Optional
  <2> QED BY <2>1, ReplacementIsSound
<1>2. ms # Same => e \in Part /\ e.table = "member" /\ Sound(e) /\ Current(e)
  <2>1. "member" \in Tables /\ g \in Ends["member"][2] /\ (ms # Same => ms \in SUBSET Ends["member"][3 - 2])
    BY TheTables DEF Optional
  <2> QED BY <2>1, ReplacementIsSound
<1>3. GroupParts(g, rs, ms) = (IF rs = Same THEN {} ELSE {d}) \cup (IF ms = Same THEN {} ELSE {e})
  BY DEF GroupParts, Parts
<1> HIDE DEF d, e
<1> QED BY <1>1, <1>2, <1>3

LEMMA SaveGroupKeeps ==
    ASSUME Linked, ~torn, NEW c \in Editors, NEW g \in Groups, NEW rs \in Optional(ResourceGroups),
           NEW ms \in Optional(Members), SaveGroup(c, g, rs, ms)
    PROVE  Linked'
<1>1. Begin(c, GroupParts(g, rs, ms), {g} \ present)
  BY DEF SaveGroup
<1>2. {g} \ present \subseteq UNION {Members, Groups, Roles, Codes}
  OBVIOUS
<1> QED BY <1>1, <1>2, GroupPartsSound, BeginKeeps

LEMMA SaveResourceGroupKeeps ==
    ASSUME Linked, ~torn, NEW c \in Editors, NEW r \in ResourceGroups, NEW is \in Optional(Instances),
           NEW gs \in Optional(Groups), SaveResourceGroup(c, r, is, gs)
    PROVE  Linked'
<1> DEFINE d == Replacement("holds", 1, r, is \cap Active)
           e == Replacement("scope", 2, r, gs \cap present)
           parts == (IF is = Same THEN {} ELSE {d}) \cup (IF gs = Same THEN {} ELSE {e})
<1>1. is # Same => d \in Part /\ d.table = "holds" /\ Sound(d) /\ Current(d)
  <2>1. "holds" \in Tables /\ r \in Ends["holds"][1] /\ (is # Same => is \cap Active \in SUBSET Ends["holds"][3 - 1])
    BY TheTables DEF Optional
  <2> QED BY <2>1, ReplacementIsSound
<1>2. gs # Same => e \in Part /\ e.table = "scope" /\ Sound(e) /\ Current(e)
  <2>1. "scope" \in Tables /\ r \in Ends["scope"][2] /\ (gs # Same => gs \cap present \in SUBSET Ends["scope"][3 - 2])
    BY TheTables DEF Optional
  <2> QED BY <2>1, ReplacementIsSound
<1>3. Begin(c, parts, {r} \ present)
  BY DEF SaveResourceGroup, Parts
<1>4. {r} \ present = {}
  BY <1>3 DEF Begin, Linked, NumberedOnce
<1>5. \A f \in parts : f \in Part /\ Sound(f) /\ Current(f) /\ \A h \in parts : h.table = f.table => h = f
  <2> HIDE DEF d, e
  <2> QED BY <1>1, <1>2
<1> HIDE DEF parts
<1> QED BY <1>3, <1>4, <1>5, BeginKeeps

LEMMA SetUserGroupsKeeps ==
    ASSUME Linked, ~torn, NEW c \in Editors, NEW r \in ResourceGroups, NEW gs \in SUBSET Groups, SetUserGroups(c, r, gs)
    PROVE  Linked'
<1> DEFINE e == Replacement("scope", 2, r, gs)
<1>1. "scope" \in Tables /\ r \in Ends["scope"][2] /\ gs \in SUBSET Ends["scope"][3 - 2]
  BY TheTables
<1>2. e \in Part /\ Sound(e) /\ Current(e)
  BY <1>1, ReplacementIsSound
<1>3. Begin(c, {e}, {})
  BY DEF SetUserGroups
<1> HIDE DEF e
<1> QED BY <1>2, <1>3, BeginKeeps

LEMMA SaveInstanceKeeps ==
    ASSUME Linked, ~torn, NEW c \in Editors, NEW i \in Instances, NEW rs \in SUBSET ResourceGroups, SaveInstance(c, i, rs)
    PROVE  Linked'
<1> DEFINE e == Difference("holds", 2, i, rs \cap present)
<1>1. rs \cap present \in SUBSET ResourceGroups
  OBVIOUS
<1>2. e \in Part /\ Sound(e) /\ Current(e)
  BY <1>1, DifferenceIsSound
<1>3. Begin(c, {e}, {i} \ present)
  BY DEF SaveInstance
<1>4. {i} \ present = {}
  BY <1>3 DEF Begin, Linked, NumberedOnce
<1> HIDE DEF e
<1> QED BY <1>2, <1>3, <1>4, BeginKeeps

LEMMA SaveRoleKeeps ==
    ASSUME Linked, ~torn, NEW c \in Editors, NEW r \in Roles, NEW ps \in SUBSET Codes, SaveRole(c, r, ps)
    PROVE  Linked'
<1> DEFINE e == Replacement("permits", 1, r, ps)
<1>1. "permits" \in Tables /\ r \in Ends["permits"][1] /\ ps \in SUBSET Ends["permits"][3 - 1]
  BY TheTables
<1>2. e \in Part /\ Sound(e) /\ Current(e)
  BY <1>1, ReplacementIsSound
<1>3. Begin(c, {e}, ({r} \cup ps) \ present)
  BY DEF SaveRole
<1> HIDE DEF e
<1>4. ({r} \cup ps) \ present \subseteq UNION {Members, Groups, Roles, Codes}
  OBVIOUS
<1> QED BY <1>2, <1>3, <1>4, BeginKeeps

LEMMA GrantPermissionsKeeps ==
    ASSUME Linked, ~torn, NEW c \in Editors, NEW r \in Roles, NEW ps \in SUBSET Codes, GrantPermissions(c, r, ps)
    PROVE  Linked'
<1> DEFINE rows == {r} \X (ps \cap present)
           e == [table |-> "permits", seen |-> {}, drops |-> {}, inserts |-> rows, wants |-> rows]
<1>1. rows \subseteq Fit("permits") /\ "permits" \in Tables
  BY TheTables DEF Fit
<1>2. e \in Part /\ Sound(e) /\ Current(e)
  <2> HIDE DEF rows
  <2> QED BY <1>1 DEF Part, Sound, Current
<1>3. Begin(c, {e}, ps \ present)
  <2>1. e = [table |-> "permits", seen |-> {}, drops |-> {}, inserts |-> {r} \X (ps \cap present), wants |-> {r} \X (ps \cap present)]
    OBVIOUS
  <2> QED BY <2>1 DEF GrantPermissions
<1>4. ps \ present \subseteq UNION {Members, Groups, Roles, Codes}
  OBVIOUS
<1> HIDE DEF e
<1> QED BY <1>2, <1>3, <1>4, BeginKeeps

LEMMA RevokePermissionsKeeps ==
    ASSUME Linked, ~torn, NEW c \in Editors, NEW r \in Roles, NEW ps \in SUBSET Codes, RevokePermissions(c, r, ps)
    PROVE  Linked'
<1> DEFINE rows == {r} \X ps
           e == [table |-> "permits", seen |-> Of("permits", 1, r) \cap rows, drops |-> rows,
                 inserts |-> {}, wants |-> {}]
<1>1. rows \subseteq Fit("permits") /\ "permits" \in Tables
  BY TheTables DEF Fit
<1>2. Of("permits", 1, r) \cap rows = link["permits"] \cap rows
  BY DEF Of
<1>3. e \in Part /\ Sound(e) /\ Current(e)
  <2> HIDE DEF rows
  <2> QED BY <1>1, <1>2 DEF Part, Sound, Current
<1>4. Begin(c, {e}, {})
  BY DEF RevokePermissions
<1> HIDE DEF e
<1> QED BY <1>3, <1>4, BeginKeeps
----------------------------------------------------------------------------
LEMMA ResolveRowKeeps ==
    ASSUME Linked, ~torn, NEW c \in Editors, NEW g \in Groups, NEW rs \in SUBSET ResourceGroups,
           NEW ms \in SUBSET Members, ResolveRow(c, g, rs, ms)
    PROVE  Linked'
<1>1. editor[c].parts = {}
  BY EditorTypes DEF ResolveRow, Quiet, Resolved, Opened
<1> DEFINE r == [at |-> "resolved", parts |-> editor[c].parts, group |-> g, rs |-> rs, ms |-> ms]
<1>2. r \in Resolved /\ r.parts = {}
  BY <1>1 DEF Resolved, Optional
<1>3. editor' = [editor EXCEPT ![c] = r] /\ UNCHANGED <<link, present, stopped, asked, interfered>>
  BY DEF ResolveRow
<1> HIDE DEF r
<1> QED BY <1>2, <1>3, NothingRead

LEMMA WriteRowKeeps ==
    ASSUME Linked, ~torn, NEW c \in Editors, WriteRow(c)
    PROVE  Linked'
<1> DEFINE r == editor[c]
           parts == GroupParts(r.group, r.rs, r.ms)
<1>1. r.parts = {} /\ r.group \in Groups /\ r.rs \in Optional(ResourceGroups) /\ r.ms \in Optional(Members)
  BY EditorTypes DEF WriteRow, Quiet, Resolved, Opened, Optional
<1>2. OpenUpdate(c, parts, {r.group} \ present, Between({})) /\ Between({}) \in Quiet
  BY DEF WriteRow, Between, Quiet
<1>3. {r.group} \ present \subseteq UNION {Members, Groups, Roles, Codes}
  BY <1>1
<1>4. \A e \in parts : e \in Part /\ Sound(e) /\ Current(e) /\ \A f \in parts : f.table = e.table => f = e
  <2> HIDE DEF r
  <2> QED BY <1>1, GroupPartsSound
<1> HIDE DEF parts
<1> QED BY <1>1, <1>2, <1>3, <1>4, OpenKeeps

LEMMA EndImportKeeps ==
    ASSUME Linked, ~torn, NEW c \in Editors, EndImport(c)
    PROVE  Linked'
<1>1. editor[c].parts = {}
  BY EditorTypes DEF EndImport, Quiet, Resolved, Opened
<1> DEFINE r == [at |-> "open", parts |-> editor[c].parts, makes |-> {}, then |-> Free]
<1>2. r \in Opened /\ r.parts = {}
  BY <1>1 DEF Opened, Free, Quiet
<1>3. editor' = [editor EXCEPT ![c] = r] /\ UNCHANGED <<link, present, stopped, asked, interfered>>
  BY DEF EndImport
<1> HIDE DEF r
<1> QED BY <1>2, <1>3, NothingRead

LEMMA AbandonKeeps ==
    ASSUME Linked, ~torn, NEW c \in Editors, Abandon(c)
    PROVE  Linked'
<1>1. Free \in Quiet /\ Free.parts = {}
  BY DEF Free, Quiet
<1> QED BY <1>1, NothingRead DEF Abandon

\* What is stopped concerns no row.
LEMMA StopKeeps ==
    ASSUME Linked, UNCHANGED <<link, present, editor, asked, interfered, torn>>, NumberedOnce'
    PROVE  Linked'
BY DEF Linked, EditorsOK, RowsFit, PartsSound, OneAtATime, LinkedAsAsked, Sound, Current, Here

\* A request that forgets rows holds what it held, without them.
LEMMA Forgotten ==
    ASSUME Linked, NEW rows, NEW c \in Editors
    PROVE  LET r == Forget(rows)[c]
           IN  /\ r \in Quiet \cup Resolved \cup Opened
               /\ r.parts = {[e EXCEPT !.seen = @ \ rows[e.table]] : e \in editor[c].parts}
<1> DEFINE old == editor[c]
           new == {[e EXCEPT !.seen = @ \ rows[e.table]] : e \in old.parts}
           r == [old EXCEPT !.parts = new]
<1>1. Forget(rows)[c] = r
  BY DEF Forget
<1>2. old \in Quiet \cup Resolved \cup Opened /\ old.parts \subseteq Part
  BY EditorTypes
<1>3. new \subseteq Part
  BY <1>2, PartFields
<1>4. old.parts = {} => new = {}
  OBVIOUS
<1>5. SUFFICES r \in Quiet \cup Resolved \cup Opened /\ r.parts = new
  BY <1>1
<1> HIDE DEF new, old
<1>6. CASE old \in Quiet
  BY <1>4, <1>6 DEF Quiet
<1>7. CASE old \in Resolved
  BY <1>4, <1>7 DEF Resolved
<1>8. CASE old \in Opened
  BY <1>3, <1>8 DEF Opened
<1> QED BY <1>2, <1>6, <1>7, <1>8

\* Of a request that forgets rows, each part is an old one that saw no more than that.
LEMMA ForgottenParts ==
    ASSUME Linked, NEW rows, NEW c \in Editors, NEW e \in Forget(rows)[c].parts
    PROVE  \E o \in editor[c].parts :
             /\ e = [o EXCEPT !.seen = @ \ rows[o.table]] /\ o \in Part /\ e \in Part
             /\ e.table = o.table /\ e.seen = o.seen \ rows[o.table]
             /\ e.inserts = o.inserts /\ e.drops = o.drops /\ e.wants = o.wants
<1>1. PICK o \in editor[c].parts : e = [o EXCEPT !.seen = @ \ rows[o.table]]
  BY Forgotten
<1>2. o \in Part
  BY EditorTypes
<1> DEFINE s == o.seen \ rows[o.table]
<1>3. s \in SUBSET Fit(o.table) /\ e = [o EXCEPT !.seen = s]
  BY <1>1, <1>2, PartFields
<1> HIDE DEF s
<1>4. /\ e \in Part /\ e.table = o.table /\ e.seen = s /\ e.inserts = o.inserts
      /\ e.drops = o.drops /\ e.wants = o.wants
  BY <1>2, <1>3, PartFields
<1> QED BY <1>1, <1>2, <1>4 DEF s

LEMMA DeleteOwnerKeeps ==
    ASSUME Linked, ~torn, NEW x, DeleteOwner(x)
    PROVE  Linked'
<1> DEFINE rows == [t \in Tables |-> {p \in Ends[t][1] \X Ends[t][2] : x \in {p[1], p[2]}}]
<1>1. /\ link' = [t \in Tables |-> link[t] \ rows[t]]
      /\ asked' = [t \in Tables |-> asked[t] \ rows[t]]
      /\ editor' = Forget(rows)
      /\ present' = present \ {x} /\ stopped' = stopped \cup {x} /\ UNCHANGED <<interfered, torn>>
      /\ x \notin Instances
  BY DEF DeleteOwner
<1>2. \A t \in Tables : \A p \in Fit(t) : p \in rows[t] <=> x \in {p[1], p[2]}
  BY DEF Fit
<1> HIDE DEF rows
<1>3. EditorsOK'
  <2>1. \A c \in Editors : editor'[c] \in Quiet \cup Resolved \cup Opened
    BY <1>1, Forgotten
  <2> QED BY <1>1, <2>1 DEF EditorsOK, Forget
<1>4. RowsFit'
  BY <1>1, <1>2 DEF Linked, RowsFit, Here
<1>5. NumberedOnce'
  BY <1>1 DEF Linked, NumberedOnce
<1>6. ASSUME NEW c \in Editors, NEW o \in editor[c].parts, NEW e, e.table = o.table,
             e.seen = o.seen \ rows[o.table], e.inserts = o.inserts, e.drops = o.drops, e.wants = o.wants
      PROVE  Sound(e)' /\ (e.table \in interfered \/ Current(e)')
  <2>1. o \in Part /\ o.table \in Tables /\ o.wants \subseteq Fit(o.table)
    BY EditorTypes, PartFields
  <2>2. Sound(o) /\ (o.table \in interfered \/ Current(o))
    BY DEF Linked, PartsSound
  <2>3. link'[e.table] = link[o.table] \ rows[o.table]
    BY <1>1, <1>6, <2>1
  <2>4. Sound(e)'
    BY <1>6, <2>2, <2>3 DEF Sound
  <2>5. ASSUME Current(o) PROVE Current(e)'
    <3>1. link[o.table] \cap o.drops \subseteq o.seen \cup (o.wants \ o.inserts)
      BY <2>5 DEF Current
    <3>2. ASSUME NEW p \in o.wants \ o.inserts, {p[1], p[2]} \subseteq present'
          PROVE  p \in link'[e.table] /\ p \notin e.seen
      <4>1. p \in link[o.table] /\ p \notin o.seen
        BY <1>1, <2>5, <3>2 DEF Current, Here
      <4>2. p \notin rows[o.table]
        BY <1>1, <1>2, <2>1, <3>2
      <4> QED BY <1>6, <2>3, <4>1, <4>2
    <3> QED BY <1>6, <2>3, <3>1, <3>2 DEF Current, Here
  <2> QED BY <1>6, <2>2, <2>4, <2>5
<1>7. PartsSound'
  <2> SUFFICES ASSUME NEW c \in Editors, NEW e \in editor'[c].parts
               PROVE  /\ Sound(e)' /\ (e.table \in interfered' \/ Current(e)')
                      /\ \A f \in editor'[c].parts : f.table = e.table => f = e
    BY DEF PartsSound
  <2>1. PICK o \in editor[c].parts :
             /\ e = [o EXCEPT !.seen = @ \ rows[o.table]]
             /\ e.table = o.table /\ e.seen = o.seen \ rows[o.table]
             /\ e.inserts = o.inserts /\ e.drops = o.drops /\ e.wants = o.wants
    BY <1>1, ForgottenParts
  <2>2. Sound(e)' /\ (e.table \in interfered' \/ Current(e)')
    BY <1>1, <1>6, <2>1
  <2>3. ASSUME NEW f \in editor'[c].parts, f.table = e.table PROVE f = e
    <3>1. PICK o2 \in editor[c].parts : f = [o2 EXCEPT !.seen = @ \ rows[o2.table]] /\ f.table = o2.table
      BY <1>1, ForgottenParts
    <3>2. o2 = o
      BY <2>1, <2>3, <3>1 DEF Linked, PartsSound
    <3> QED BY <2>1, <3>1, <3>2
  <2> QED BY <2>2, <2>3
<1>8. OneAtATime'
  <2> SUFFICES ASSUME NEW c \in Editors, NEW d \in Editors, NEW e \in editor'[c].parts,
                      NEW f \in editor'[d].parts, e.table = f.table, e.table \notin interfered
               PROVE  c = d
    BY <1>1 DEF OneAtATime
  <2>1. PICK o \in editor[c].parts : e.table = o.table
    BY <1>1, ForgottenParts
  <2>2. PICK o2 \in editor[d].parts : f.table = o2.table
    BY <1>1, ForgottenParts
  <2> QED BY <2>1, <2>2 DEF Linked, OneAtATime
<1>9. LinkedAsAsked'
  BY <1>1 DEF Linked, LinkedAsAsked
<1> QED BY <1>3, <1>4, <1>5, <1>7, <1>8, <1>9 DEF Linked

\* What a commit makes of a table.
SeenIn(parts, t) == UNION {e.seen : e \in {f \in parts : f.table = t}}
InsertsIn(parts, t) == UNION {e.inserts : e \in {f \in parts : f.table = t}}
DropsIn(parts, t) == UNION {e.drops : e \in {f \in parts : f.table = t}}
WantsIn(parts, t) == UNION {e.wants : e \in {f \in parts : f.table = t}}

LEMMA NoneOfIt ==
    ASSUME NEW parts, NEW t, \A e \in parts : e.table # t
    PROVE  SeenIn(parts, t) = {} /\ InsertsIn(parts, t) = {} /\ DropsIn(parts, t) = {} /\ WantsIn(parts, t) = {}
<1>1. {f \in parts : f.table = t} = {}
  OBVIOUS
<1> QED BY <1>1 DEF SeenIn, InsertsIn, DropsIn, WantsIn

LEMMA CommitWrites ==
    ASSUME Linked, ~torn, NEW c \in Editors, CommitUpdate(c)
    PROVE  /\ link' = [t \in Tables |-> (link[t] \ SeenIn(editor[c].parts, t)) \cup InsertsIn(editor[c].parts, t)]
           /\ asked' = [t \in Tables |-> (asked[t] \ DropsIn(editor[c].parts, t))
                          \cup {p \in WantsIn(editor[c].parts, t) : {p[1], p[2]} \subseteq present'}]
           /\ \A t \in Tables : Touched(editor[c].parts)[t] =
                 UNION {e.seen \cup e.inserts : e \in {f \in editor[c].parts : f.table = t}}
BY DEF CommitUpdate, Written, Asked, Touched, Union, SeenIn, InsertsIn, DropsIn, WantsIn

\* Whether a row about to stay is about things there are does not change by a commit.
LEMMA KeptAreOld ==
    ASSUME NEW e \in Part, Sound(e), NEW makes \in SUBSET (UNION {Members, Groups, Roles, Codes}),
           NEW p \in e.wants \ e.inserts, {p[1], p[2]} \subseteq present \cup makes
    PROVE  Here(p)
<1>1. e.table = "holds" /\ p \in Fit(e.table)
  BY PartFields DEF Sound
<1>2. p[1] \in ResourceGroups /\ p[2] \in Instances
  BY <1>1, TheTables DEF Fit
<1> QED BY <1>2, KindsAssumption DEF Here

LEMMA CommitUpdateKeeps ==
    ASSUME Linked, ~torn, NEW c \in Editors, CommitUpdate(c)
    PROVE  Linked'
<1> DEFINE r == editor[c]
           rows == Touched(r.parts)
<1>1. r \in Opened /\ r.parts \subseteq Part /\ Accepted(r.parts, r.makes)
  BY EditorTypes DEF CommitUpdate, Quiet, Resolved
<1>2. /\ present' = present \cup r.makes /\ UNCHANGED <<stopped, interfered, torn>>
      /\ editor' = [Forget(rows) EXCEPT ![c] = r.then]
      /\ r.makes \in SUBSET (UNION {Members, Groups, Roles, Codes}) /\ r.then \in Quiet
  BY <1>1 DEF CommitUpdate, Opened
<1>3. editor'[c] = r.then /\ editor'[c].parts = {} /\ \A d \in Editors \ {c} : editor'[d] = Forget(rows)[d]
  BY <1>2 DEF Forget, Quiet
<1>4. /\ \A t \in Tables : link'[t] = (link[t] \ SeenIn(r.parts, t)) \cup InsertsIn(r.parts, t)
      /\ \A t \in Tables : asked'[t] = (asked[t] \ DropsIn(r.parts, t))
                          \cup {p \in WantsIn(r.parts, t) : {p[1], p[2]} \subseteq present'}
      /\ \A t \in Tables : SeenIn(r.parts, t) \subseteq rows[t]
      /\ \A t \in Tables : (\A e \in r.parts : e.table # t) => rows[t] = {}
  BY CommitWrites DEF SeenIn
<1>5. \A t \in Tables : SeenIn(r.parts, t) \subseteq link[t] /\ InsertsIn(r.parts, t) \subseteq Fit(t)
  BY <1>1, PartFields DEF SeenIn, InsertsIn, Linked, PartsSound, Sound
<1>6. \A t \in Tables : \A p \in InsertsIn(r.parts, t) : {p[1], p[2]} \subseteq present'
  BY <1>1, <1>2 DEF InsertsIn, Accepted
<1>7. \A e \in r.parts : e \in Part /\ Sound(e) /\ (e.table \in interfered \/ Current(e))
                      /\ \A f \in r.parts : f.table = e.table => f = e
  BY <1>1 DEF Linked, PartsSound
<1> HIDE DEF rows
<1>8. EditorsOK'
  <2>1. \A d \in Editors : editor'[d] \in Quiet \cup Resolved \cup Opened
    BY <1>2, <1>3, Forgotten
  <2>2. editor' = [d \in Editors |-> editor'[d]]
    BY <1>2 DEF Forget
  <2> HIDE DEF r
  <2> QED BY <2>1, <2>2 DEF EditorsOK
<1>9. RowsFit'
  <2> SUFFICES ASSUME NEW t \in Tables, NEW p \in link'[t] PROVE p \in Fit(t) /\ {p[1], p[2]} \subseteq present'
    BY DEF RowsFit, Here
  <2> QED BY <1>2, <1>4, <1>5, <1>6 DEF Linked, RowsFit, Here
<1>10. NumberedOnce'
  BY <1>2 DEF Linked, NumberedOnce
<1>11. ASSUME NEW d \in Editors \ {c}, NEW o \in editor[d].parts, NEW e, e.table = o.table,
             e.seen = o.seen \ rows[o.table], e.inserts = o.inserts, e.drops = o.drops, e.wants = o.wants
      PROVE  Sound(e)' /\ (e.table \in interfered \/ Current(e)')
  <2>1. o \in Part /\ o.table \in Tables
    BY EditorTypes, PartFields
  <2>2. Sound(o) /\ (o.table \in interfered \/ Current(o))
    BY DEF Linked, PartsSound
  <2>3. Sound(e)'
    BY <1>4, <1>11, <2>1, <2>2 DEF Sound
  <2>4. ASSUME o.table \notin interfered PROVE Current(e)'
    <3>1. \A f \in r.parts : f.table # o.table
      BY <1>11, <2>4 DEF Linked, OneAtATime
    <3>2. rows[o.table] = {} /\ link'[o.table] = link[o.table]
      <4>1. SeenIn(r.parts, o.table) = {} /\ InsertsIn(r.parts, o.table) = {}
        BY <3>1, NoneOfIt
      <4>2. link'[o.table] = (link[o.table] \ {}) \cup {}
        BY <1>4, <2>1, <4>1
      <4>3. rows[o.table] = {}
        BY <1>4, <2>1, <3>1
      <4> QED BY <4>2, <4>3
    <3>3. Current(o) /\ e.seen = o.seen
      BY <1>11, <2>2, <2>4, <3>2
    <3>4. \A p \in o.wants \ o.inserts : {p[1], p[2]} \subseteq present' => Here(p)
      BY <1>2, <2>1, <2>2, KeptAreOld
    <3> QED BY <1>11, <3>2, <3>3, <3>4 DEF Current, Here
  <2> QED BY <1>11, <2>3, <2>4
<1>12. PartsSound'
  <2> SUFFICES ASSUME NEW d \in Editors, NEW e \in editor'[d].parts
               PROVE  /\ Sound(e)' /\ (e.table \in interfered' \/ Current(e)')
                      /\ \A f \in editor'[d].parts : f.table = e.table => f = e
    BY DEF PartsSound
  <2>0. d \in Editors \ {c} /\ editor'[d] = Forget(rows)[d]
    BY <1>3
  <2>1. PICK o \in editor[d].parts :
             /\ e = [o EXCEPT !.seen = @ \ rows[o.table]]
             /\ e.table = o.table /\ e.seen = o.seen \ rows[o.table]
             /\ e.inserts = o.inserts /\ e.drops = o.drops /\ e.wants = o.wants
    BY <2>0, ForgottenParts
  <2>2. Sound(e)' /\ (e.table \in interfered' \/ Current(e)')
    BY <1>2, <1>11, <2>0, <2>1
  <2>3. ASSUME NEW f \in editor'[d].parts, f.table = e.table PROVE f = e
    <3>1. PICK o2 \in editor[d].parts : f = [o2 EXCEPT !.seen = @ \ rows[o2.table]] /\ f.table = o2.table
      BY <2>0, ForgottenParts
    <3>2. o2 = o
      BY <2>1, <2>3, <3>1 DEF Linked, PartsSound
    <3> QED BY <2>1, <3>1, <3>2
  <2> QED BY <2>2, <2>3
<1>13. OneAtATime'
  <2> SUFFICES ASSUME NEW b \in Editors, NEW d \in Editors, NEW e \in editor'[b].parts,
                      NEW f \in editor'[d].parts, e.table = f.table, e.table \notin interfered
               PROVE  b = d
    BY <1>2 DEF OneAtATime
  <2>1. PICK o \in editor[b].parts : e.table = o.table
    BY <1>3, ForgottenParts
  <2>2. PICK o2 \in editor[d].parts : f.table = o2.table
    BY <1>3, ForgottenParts
  <2> QED BY <2>1, <2>2 DEF Linked, OneAtATime
<1>14. ASSUME NEW t \in Tables, t # "holds" PROVE asked'[t] \subseteq link'[t]
  <2>1. asked[t] \subseteq link[t]
    BY <1>14 DEF Linked, LinkedAsAsked
  <2>2. SeenIn(r.parts, t) \subseteq DropsIn(r.parts, t) /\ WantsIn(r.parts, t) \subseteq InsertsIn(r.parts, t)
    BY <1>7, <1>14 DEF SeenIn, DropsIn, WantsIn, InsertsIn, Sound
  <2> QED BY <1>4, <2>1, <2>2
<1>15. ASSUME NEW t \in Tables, t \notin interfered PROVE link'[t] = asked'[t]
  <2>1. link[t] = asked[t]
    BY <1>15 DEF Linked, LinkedAsAsked
  <2>2. CASE \A e \in r.parts : e.table # t
    <3>1. link'[t] = (link[t] \ {}) \cup {} /\ asked'[t] = (asked[t] \ {}) \cup {p \in {} : {p[1], p[2]} \subseteq present'}
      BY <1>4, <2>2, NoneOfIt
    <3> QED BY <2>1, <3>1
  <2>3. CASE \E e \in r.parts : e.table = t
    <3>1. PICK e \in r.parts : e.table = t
      BY <2>3
    <3>2. /\ e \in Part /\ Sound(e) /\ Current(e) /\ {f \in r.parts : f.table = t} = {e}
      BY <1>7, <1>15, <3>1
    <3>3. /\ SeenIn(r.parts, t) = e.seen /\ InsertsIn(r.parts, t) = e.inserts
          /\ DropsIn(r.parts, t) = e.drops /\ WantsIn(r.parts, t) = e.wants
      BY <3>2 DEF SeenIn, InsertsIn, DropsIn, WantsIn
    <3>4. link'[t] = (link[t] \ e.seen) \cup e.inserts
      BY <1>4, <3>3
    <3>5. asked'[t] = (link[t] \ e.drops) \cup {p \in e.wants : {p[1], p[2]} \subseteq present'}
      BY <1>4, <2>1, <3>3
    <3>6. \A p \in e.wants \ e.inserts : {p[1], p[2]} \subseteq present' => p \in link[t] /\ p \notin e.seen
      BY <1>2, <3>1, <3>2, KeptAreOld DEF Current
    <3>7. \A p \in link[t] \cup e.inserts : {p[1], p[2]} \subseteq present'
      BY <1>2, <1>6, <3>3 DEF Linked, RowsFit, Here
    <3>8. e.seen \subseteq e.drops /\ e.inserts \subseteq e.wants /\ link[t] \cap e.drops \subseteq e.seen \cup (e.wants \ e.inserts)
      BY <3>1, <3>2 DEF Sound, Current
    <3>9. ASSUME NEW p PROVE p \in link'[t] <=> p \in asked'[t]
      BY <3>4, <3>5, <3>6, <3>7, <3>8
    <3> QED BY <3>4, <3>5, <3>9, Zenon
  <2> QED BY <2>2, <2>3
<1>16. LinkedAsAsked'
  BY <1>2, <1>14, <1>15 DEF LinkedAsAsked
<1> QED BY <1>8, <1>9, <1>10, <1>12, <1>13, <1>16 DEF Linked

\* Short of a row of an import that was refused half done, what requests have read is
\* what there is, and the tables are what was asked for, for any people, groups and editors.
THEOREM LinksInvariant == LinkSpec => [](torn \/ Linked)
<1>1. LinkInit => Linked
  <2> SUFFICES ASSUME LinkInit PROVE Linked
    OBVIOUS
  <2>1. \A t \in Tables : link[t] \subseteq {p \in Fit(t) : Here(p)}
    BY DEF LinkInit, Fit, Here
  <2>2. Free \in Quiet /\ Free.parts = {} /\ editor = [c \in Editors |-> Free]
    BY DEF LinkInit, Free, Quiet
  <2>3. NumberedOnce
    <3>0. PICK G \in {{}, Groups \cup Codes} :
             present = (UNION {Members, Groups, ResourceGroups, Instances, Builtin, Codes}) \ G
      BY DEF LinkInit
    <3>1. ASSUME NEW x \in ResourceGroups \cup Instances PROVE x \in present
      <4>1. x \in UNION {Members, Groups, ResourceGroups, Instances, Builtin, Codes}
        OBVIOUS
      <4>2. x \notin G
        BY KindsAssumption
      <4> QED BY <3>0, <4>1, <4>2
    <3> QED BY <3>1 DEF NumberedOnce
  <2>4. RowsFit
    BY <2>1 DEF RowsFit
  <2>5. EditorsOK /\ PartsSound /\ OneAtATime
    BY <2>2 DEF EditorsOK, PartsSound, OneAtATime
  <2>6. LinkedAsAsked
    BY DEF LinkInit, LinkedAsAsked
  <2> QED BY <2>3, <2>4, <2>5, <2>6 DEF Linked
<1>2. (torn \/ Linked) /\ [LinkNext]_linkVars => (torn \/ Linked)'
  <2> SUFFICES ASSUME torn \/ Linked, [LinkNext]_linkVars PROVE torn' \/ Linked'
    OBVIOUS
  <2>1. CASE torn
    <3>1. ASSUME NEW c \in Editors, NEW parts, NEW makes, Begin(c, parts, makes) PROVE torn'
      BY <2>1, <3>1 DEF Begin, OpenUpdate
    <3>2. ASSUME NEW c \in Editors, WriteRow(c) \/ RefuseRow(c) \/ EndImport(c) \/ CommitUpdate(c) \/ Abandon(c)
          PROVE  torn'
      BY <2>1, <3>2 DEF WriteRow, OpenUpdate, RefuseRow, EndImport, CommitUpdate, Abandon
    <3>3. ASSUME NEW c \in Editors, NEW g, NEW rs, NEW ms, ResolveRow(c, g, rs, ms) PROVE torn'
      BY <2>1, <3>3 DEF ResolveRow
    <3>4. ASSUME NEW x, Toggle(x) \/ StopInstance(x) \/ DeleteOwner(x) PROVE torn'
      BY <2>1, <3>4 DEF Toggle, StopInstance, DeleteOwner
    <3>5. CASE UNCHANGED linkVars
      BY <2>1, <3>5 DEF linkVars
    <3>6. CASE \E c \in Editors : \E parts, makes : Begin(c, parts, makes)
      BY <3>1, <3>6
    <3>7. CASE LinkNext /\ ~\E c \in Editors : \E parts, makes : Begin(c, parts, makes)
      BY <3>2, <3>3, <3>4, <3>7 DEF LinkNext, SaveUser, SaveGroup, SaveResourceGroup, SetUserGroups, SaveInstance,
         SaveRole, GrantPermissions, RevokePermissions
    <3> QED BY <3>5, <3>6, <3>7
  <2>2. CASE ~torn
    <3>1. Linked
      BY <2>2
    <3>2. ASSUME NEW c \in Editors, RefuseRow(c) PROVE torn'
      BY <3>2 DEF RefuseRow
    <3>3. ASSUME NEW x \in present, Toggle(x) PROVE Linked'
      <4>1. NumberedOnce'
        BY <3>1, <3>3 DEF Toggle, Linked, NumberedOnce
      <4> QED BY <3>1, <3>3, <4>1, StopKeeps DEF Toggle
    <3>4. ASSUME NEW x \in present, StopInstance(x) PROVE Linked'
      <4>1. NumberedOnce'
        BY <3>1, <3>4 DEF StopInstance, Linked, NumberedOnce
      <4> QED BY <3>1, <3>4, <4>1, StopKeeps DEF StopInstance
    <3>5. CASE UNCHANGED linkVars
      <4>1. NumberedOnce'
        BY <3>1, <3>5 DEF linkVars, Linked, NumberedOnce
      <4> QED BY <3>1, <3>5, <4>1, StopKeeps DEF linkVars
    <3> QED BY <2>2, <3>1, <3>2, <3>3, <3>4, <3>5, SaveUserKeeps, SaveGroupKeeps, ResolveRowKeeps,
               SaveResourceGroupKeeps, SetUserGroupsKeeps, SaveInstanceKeeps, SaveRoleKeeps, GrantPermissionsKeeps,
               RevokePermissionsKeeps, WriteRowKeeps, EndImportKeeps, CommitUpdateKeeps, AbandonKeeps,
               DeleteOwnerKeeps DEF LinkNext
  <2> QED BY <2>1, <2>2
<1> QED BY <1>1, <1>2, PTL DEF LinkSpec

\* Updates that overlap lose nothing of what was asked for (role.py 590-640, user.py 275-299),
\* for any people, groups, roles and editors.
THEOREM LinksCorrect == LinkSpec => []LinkedAsAsked
<1>1. torn \/ Linked => LinkedAsAsked
  BY DEF Linked, LinkedAsAsked
<1> QED BY <1>1, LinksInvariant, PTL
==============================================================================
