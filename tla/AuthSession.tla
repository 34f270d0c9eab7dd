----------------------------- MODULE AuthSession -----------------------------
(***************************************************************************)
(* Sign-in: the ways to log in, the tokens they issue, the check every     *)
(* request makes of its token, logging out, renewing tokens, the second    *)
(* factor and the changes of a password.                                   *)
(*                                                                         *)
(* A token is its payload: two of the same second are one.  Redis keeps    *)
(* the tokens logged out until they expire; when it is down every check is *)
(* refused.  Enabling and disabling the second factor reads the account    *)
(* and commits later: requests overlap.                                    *)
(***************************************************************************)
EXTENDS Naturals, FiniteSets

CONSTANTS
    People,       \* accounts
    Passwords,    \* passwords that satisfy the policy
    Defaults,     \* DEFAULT_PASSWORDS
    Secrets,      \* secrets of authenticators
    NoSecret,
    Requests,     \* overlapping requests about the second factor
    AccessTTL, RefreshTTL, ChangeTTL, PasswordTTL, Grace,  \* in ticks
    LastTick,     \* bound: ticks of the clock
    MaxTokens,    \* bound: tokens that have not expired
    MaxEdits      \* bound: changes of passwords, secrets and accounts

ASSUME TTLAssumption ==
    {AccessTTL, RefreshTTL, ChangeTTL, PasswordTTL, Grace, LastTick, MaxTokens, MaxEdits} \subseteq Nat
ASSUME SecretAssumption == NoSecret \notin Secrets
ASSUME DefaultAssumption == Defaults \subseteq Passwords

VARIABLES
    now,
    account,   \* sql_users: active, kind, pwd, changed (password_changed_at), totp, secret
    tokens,    \* tokens issued that have not expired
    revoked,   \* Redis blacklist:<token>, each with the tick it goes
    redisUp,
    twoFa,     \* what each request about the second factor has read
    ended,     \* history: tokens logged out with success
    proved,    \* history: who logged in with a code of the authenticator
    crossed,   \* history: two requests about a second factor overlapped
    edits      \* history: changes of passwords, secrets and accounts

sessionVars == <<now, account, tokens, revoked, redisUp, twoFa, ended, proved, crossed, edits>>
histories == <<ended, proved, crossed, edits>>

Created == 0    \* created_at: accounts are as old as the model
----------------------------------------------------------------------------
Token(u, type, ttl, challenge, verified) ==
    [sub |-> u, type |-> type, exp |-> now + ttl, challenge |-> challenge, verified |-> verified]
\* _issue_login_tokens.
LoginTokens(u, verified) ==
    {Token(u, "access", AccessTTL, FALSE, verified), Token(u, "refresh", RefreshTTL, FALSE, verified)}
\* decode_token accepts a token in its last second.
Decodes(t) == now <= t.exp
Blacklisted(t) == \E r \in revoked : r.token = t /\ now < r.until

\* Mutant of Passes: the check lets through what it cannot look up.
PassesUnchecked(t) == ~redisUp \/ ~Blacklisted(t)
\* The check of the blacklist, closed when Redis does not answer.
Passes(t) == redisUp /\ ~Blacklisted(t)

\* current_user lets the bearer of t in.
Accepts(t) ==
    /\ Decodes(t) /\ Passes(t)
    /\ account[t.sub].active
    /\ t.challenge => t.verified

\* is_initial_password_state, is_password_expired and the reasons to change.
Distance(a, b) == IF a < b THEN b - a ELSE a - b
Initial(u) == Distance(account[u].changed, Created) <= Grace
Expired(u) == now >= account[u].changed + PasswordTTL
MustChange(u) ==
    \/ account[u].pwd \in Defaults
    \/ account[u].kind = "local" /\ Initial(u)
    \/ Expired(u)

Edit == edits < MaxEdits /\ edits' = edits + 1
Issue(new) ==
    /\ Cardinality(tokens \cup new) <= MaxTokens
    /\ tokens' = tokens \cup new
----------------------------------------------------------------------------
SessionInit ==
    /\ now = 0
    /\ account \in [People -> [active : {TRUE}, kind : {"local"}, pwd : Passwords, changed : {Created},
                               totp : {FALSE}, secret : {NoSecret}]]
    /\ tokens = {} /\ revoked = {} /\ redisUp = TRUE
    /\ twoFa = [r \in Requests |-> [op |-> "idle"]]
    /\ ended = {} /\ proved = {} /\ crossed = FALSE /\ edits = 0

\* What a first factor yields: tokens, or a challenge for the second.
FirstFactorTokens(u) ==
    IF account[u].totp THEN {Token(u, "access", AccessTTL, TRUE, FALSE)} ELSE LoginTokens(u, FALSE)

\* login: the password was right; it may have to be changed first.
PasswordLogin(u) ==
    /\ account[u].active
    /\ Issue(IF MustChange(u) THEN {Token(u, "password_change", ChangeTTL, FALSE, FALSE)}
                              ELSE FirstFactorTokens(u))
    /\ UNCHANGED <<now, account, revoked, redisUp, twoFa, histories>>

\* ldap_login and sms_login: the directory or the code was right.
DirectoryLogin(u, kind) ==
    /\ account' = [account EXCEPT ![u].kind = kind]
    /\ IF account[u].active THEN Issue(FirstFactorTokens(u)) ELSE UNCHANGED tokens
    /\ UNCHANGED <<now, revoked, redisUp, twoFa, histories>>
LdapLogin(u) == DirectoryLogin(u, "external")
SmsLogin(u) == account[u].active /\ DirectoryLogin(u, account[u].kind)

\* oauth_callback issues tokens whatever second factor the account has.
OauthLogin(u) ==
    /\ account' = [account EXCEPT ![u].kind = "external"]
    /\ IF account[u].active THEN Issue(LoginTokens(u, FALSE)) ELSE UNCHANGED tokens
    /\ UNCHANGED <<now, revoked, redisUp, twoFa, histories>>

\* verify_login_2fa: the code belongs to the account's secret.
SecondFactorLogin(t) ==
    /\ t \in tokens /\ Decodes(t) /\ t.type = "access" /\ t.challenge
    /\ account[t.sub].active /\ account[t.sub].totp /\ account[t.sub].secret # NoSecret
    /\ Issue(LoginTokens(t.sub, TRUE))
    /\ proved' = proved \cup {t.sub}
    /\ UNCHANGED <<now, account, revoked, redisUp, twoFa, ended, crossed, edits>>

\* refresh_token hands on whether the second factor was given.
Renewed(t) == LoginTokens(t.sub, t.verified)
Refresh(t) ==
    /\ t \in tokens /\ Decodes(t) /\ t.type = "refresh"
    /\ account[t.sub].active
    /\ Issue(Renewed(t))
    /\ UNCHANGED <<now, account, revoked, redisUp, twoFa, histories>>

\* The blacklist entry is given the time the token has left.
Until(t) == t.exp
\* logout: of a token without time left nothing is kept, and that is success too.
Logout(t) ==
    /\ t \in tokens /\ redisUp
    /\ revoked' = IF now < t.exp THEN revoked \cup {[token |-> t, until |-> Until(t)]} ELSE revoked
    /\ ended' = ended \cup {t}
    /\ UNCHANGED <<now, account, tokens, redisUp, twoFa, proved, crossed, edits>>
----------------------------------------------------------------------------
Authorised(u) == \E t \in tokens : t.sub = u /\ Accepts(t)
Open(op) == {r \in Requests : twoFa[r].op = op}

\* setup_2fa: a new secret at once, also where the factor is enabled.
Setup(u, s) ==
    /\ Authorised(u) /\ s # account[u].secret
    /\ Edit
    /\ account' = [account EXCEPT ![u].secret = s]
    /\ UNCHANGED <<now, tokens, revoked, redisUp, twoFa, ended, proved, crossed>>

\* verify_2fa and disable_2fa read the account and compare the code.
ReadTwoFa(r, u, op) ==
    /\ twoFa[r].op = "idle" /\ Authorised(u)
    /\ account[u].secret # NoSecret
    /\ op = "disable" => account[u].totp
    /\ twoFa' = [twoFa EXCEPT ![r] = [op |-> op, user |-> u, totp |-> account[u].totp]]
    /\ crossed' = (crossed \/ Open("idle") # Requests)
    /\ UNCHANGED <<now, account, tokens, revoked, redisUp, ended, proved, edits>>

\* The commit of verify_2fa writes only what differs from what it read.
CommitEnable(r) ==
    /\ twoFa[r].op = "enable"
    /\ account' = [account EXCEPT ![twoFa[r].user].totp = IF twoFa[r].totp THEN @ ELSE TRUE]
    /\ twoFa' = [twoFa EXCEPT ![r] = [op |-> "idle"]]
    /\ UNCHANGED <<now, tokens, revoked, redisUp, histories>>

Cleared(a) == [a EXCEPT !.totp = FALSE, !.secret = NoSecret]
CommitDisable(r) ==
    /\ twoFa[r].op = "disable"
    /\ account' = [account EXCEPT ![twoFa[r].user] = Cleared(@)]
    /\ twoFa' = [twoFa EXCEPT ![r] = [op |-> "idle"]]
    /\ UNCHANGED <<now, tokens, revoked, redisUp, histories>>
----------------------------------------------------------------------------
SetPassword(u, p, at) ==
    /\ Edit
    /\ account' = [account EXCEPT ![u].pwd = p, ![u].changed = at]
    /\ UNCHANGED <<now, tokens, revoked, redisUp, twoFa, ended, proved, crossed>>

\* UserService.change_password: the old password was right, the new one differs.
ChangePassword(u, p) ==
    /\ Authorised(u) /\ p # account[u].pwd
    /\ SetPassword(u, p, now)

AfterGrace == now + Grace + 1
\* force_change_password: the token serves until it expires.
ForceChange(t, p) ==
    /\ t \in tokens /\ Decodes(t) /\ t.type = "password_change"
    /\ account[t.sub].active /\ p # account[t.sub].pwd
    /\ SetPassword(t.sub, p, AfterGrace)

\* An import with a password marks it as the initial one again.
ResetPassword(u, p) == SetPassword(u, p, Created)
SetActive(u) ==
    /\ Edit
    /\ account' = [account EXCEPT ![u].active = ~@]
    /\ UNCHANGED <<now, tokens, revoked, redisUp, twoFa, ended, proved, crossed>>

\* Time passes; tokens and entries past their time are forgotten.
Tick ==
    /\ now < LastTick /\ now' = now + 1
    /\ tokens' = {t \in tokens : now' <= t.exp}
    /\ ended' = ended \cap tokens'
    /\ revoked' = {r \in revoked : now' < r.until}
    /\ UNCHANGED <<account, redisUp, twoFa, proved, crossed, edits>>
RedisFails ==
    /\ redisUp /\ redisUp' = FALSE
    /\ UNCHANGED <<now, account, tokens, revoked, twoFa, histories>>
RedisReturns ==
    /\ ~redisUp /\ redisUp' = TRUE
    /\ UNCHANGED <<now, account, tokens, revoked, twoFa, histories>>

SessionNext ==
    \/ \E u \in People : PasswordLogin(u) \/ LdapLogin(u) \/ SmsLogin(u) \/ OauthLogin(u)
    \/ \E t \in tokens : SecondFactorLogin(t) \/ Refresh(t) \/ Logout(t)
    \/ \E u \in People, s \in Secrets : Setup(u, s)
    \/ \E r \in Requests, u \in People, op \in {"enable", "disable"} : ReadTwoFa(r, u, op)
    \/ \E r \in Requests : CommitEnable(r) \/ CommitDisable(r)
    \/ \E u \in People, p \in Passwords : ChangePassword(u, p) \/ ResetPassword(u, p)
    \/ \E t \in tokens, p \in Passwords : ForceChange(t, p)
    \/ \E u \in People : SetActive(u)
    \/ Tick \/ RedisFails \/ RedisReturns

SessionSpec == SessionInit /\ [][SessionNext]_sessionVars
=============================================================================
