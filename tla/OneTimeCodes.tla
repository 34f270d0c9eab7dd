---------------------------- MODULE OneTimeCodes ----------------------------
(***************************************************************************)
(* What Redis keeps for one use: the code sent to a phone, with its        *)
(* cool-down and its daily count, and the state of a sign-in with an       *)
(* external provider.  A request reads, compares and deletes in separate   *)
(* calls; several requests overlap.  A key is there until its time.        *)
(***************************************************************************)
EXTENDS Naturals, FiniteSets

CONSTANTS
    Callers,     \* overlapping requests
    States,      \* states of sign-ins (uuid4), each drawn once
    Providers,   \* SUPPORTED_PROVIDERS
    Enabled,     \* those the configuration enables
    CodeTTL, Cooldown, Day, StateTTL,   \* in ticks
    DailyLimit,
    LastHour,    \* bound: ticks of the clock
    MaxCodes     \* bound: codes drawn

ASSUME CallerAssumption == IsFiniteSet(Callers) /\ Callers # {}
ASSUME EnabledAssumption == Enabled \subseteq Providers
ASSUME DurationAssumption == {CodeTTL, Cooldown, Day, StateTTL, DailyLimit, LastHour, MaxCodes} \subseteq Nat

Phone == "phone"
ASSUME StateAssumption == Phone \notin States
RedisKeys == States \cup {Phone}

VARIABLES
    clock,        \* the clock
    stored,      \* sms:code:<phone> and oauth_state:<state>: value and end
    cooling,     \* end of sms:cooldown:<phone>
    daily,       \* sms:daily:<phone>: count and end
    caller,      \* where each request is
    drawn,       \* history: codes and states drawn so far
    sends,       \* history: the codes stored, by whom and when
    opened       \* history: what was claimed and deleted, key and value

codeVars == <<clock, stored, cooling, daily, caller, drawn, sends, opened>>

Nothing == [value |-> "none", until |-> 0]
Present(k) == clock < stored[k].until
Rest == [at |-> "rest"]
Go(r, next) == caller' = [caller EXCEPT ![r] = next]

CodeInit ==
    /\ clock = 0
    /\ stored = [k \in RedisKeys |-> Nothing]
    /\ cooling = 0 /\ daily = [count |-> 0, until |-> 0]
    /\ caller = [r \in Callers |-> Rest]
    /\ drawn = [codes |-> 0, states |-> {}]
    /\ sends = {} /\ opened = {}
----------------------------------------------------------------------------
Today == IF clock < daily.until THEN daily.count ELSE 0

\* send_sms_code: no cool-down is running.
CheckCooldown(r) ==
    /\ caller[r] = Rest /\ cooling <= clock
    /\ Go(r, [at |-> "cool"])
    /\ UNCHANGED <<clock, stored, cooling, daily, drawn, sends, opened>>

BelowLimit(n) == n < DailyLimit
\* The count of the day is below the limit, or the request is refused.
CheckDaily(r) ==
    /\ caller[r].at = "cool" /\ BelowLimit(Today)
    /\ Go(r, [at |-> "allowed"])
    /\ UNCHANGED <<clock, stored, cooling, daily, drawn, sends, opened>>
RefuseDaily(r) ==
    /\ caller[r].at = "cool" /\ ~BelowLimit(Today)
    /\ Go(r, Rest)
    /\ UNCHANGED <<clock, stored, cooling, daily, drawn, sends, opened>>

StoreCode(r) ==
    /\ caller[r].at = "allowed" /\ drawn.codes < MaxCodes
    /\ drawn' = [drawn EXCEPT !.codes = @ + 1]
    /\ stored' = [stored EXCEPT ![Phone] = [value |-> drawn.codes + 1, until |-> clock + CodeTTL]]
    /\ sends' = sends \cup {[code |-> drawn.codes + 1, by |-> r, at |-> clock]}
    /\ Go(r, [at |-> "stored"])
    /\ UNCHANGED <<clock, cooling, daily, opened>>

CooledUntil == clock + Cooldown
StartCooldown(r) ==
    /\ caller[r].at = "stored"
    /\ cooling' = CooledUntil
    /\ Go(r, [at |-> "cooled"])
    /\ UNCHANGED <<clock, stored, daily, drawn, sends, opened>>

\* INCR and EXPIRE in one pipeline: the day starts anew with every code.
CountDaily(r) ==
    /\ caller[r].at = "cooled"
    /\ daily' = [count |-> Today + 1, until |-> clock + Day]
    /\ Go(r, Rest)     \* what the provider of text messages answers changes nothing
    /\ UNCHANGED <<clock, stored, cooling, drawn, sends, opened>>
----------------------------------------------------------------------------
\* oauth_authorize keeps the state before it finds the provider disabled.
Authorize(s, p) ==
    /\ s \notin drawn.states
    /\ drawn' = [drawn EXCEPT !.states = @ \cup {s}]
    /\ stored' = [stored EXCEPT ![s] = [value |-> p, until |-> clock + StateTTL]]
    /\ UNCHANGED <<clock, cooling, daily, caller, sends, opened>>

\* What a client may present: any code, or a state it was given with its provider's callback.
Claims == {[key |-> Phone, value |-> n] : n \in 1..drawn.codes}
          \cup [key : drawn.states, value : Enabled]

\* verify_sms_code and oauth_callback: read and compare.
Compare(r, claim) ==
    /\ caller[r] = Rest
    /\ Present(claim.key) /\ stored[claim.key].value = claim.value
    /\ Go(r, [at |-> "matched", claim |-> claim])
    /\ UNCHANGED <<clock, stored, cooling, daily, drawn, sends, opened>>

\* Mutant of Deleted: what was claimed stays.
DeletedLater(k) == stored
\* The key is deleted, whatever it holds by now.
Deleted(k) == [stored EXCEPT ![k] = Nothing]
\* The delete; what the account or the provider says afterwards changes nothing here.
Delete(r) ==
    /\ caller[r].at = "matched"
    /\ stored' = Deleted(caller[r].claim.key)
    /\ opened' = opened \cup {caller[r].claim}
    /\ Go(r, Rest)
    /\ UNCHANGED <<clock, cooling, daily, drawn, sends>>

Pass ==
    /\ clock < LastHour /\ clock' = clock + 1
    /\ UNCHANGED <<stored, cooling, daily, caller, drawn, sends, opened>>

CodeNext ==
    \/ \E r \in Callers : CheckCooldown(r) \/ CheckDaily(r) \/ RefuseDaily(r) \/ StoreCode(r)
                          \/ StartCooldown(r) \/ CountDaily(r) \/ Delete(r)
    \/ \E r \in Callers, claim \in Claims : Compare(r, claim)
    \/ \E s \in States, p \in Providers : Authorize(s, p)
    \/ Pass

CodeSpec == CodeInit /\ [][CodeNext]_codeVars
----------------------------------------------------------------------------
Claimable == [key : {Phone}, value : 1..MaxCodes] \cup [key : States, value : Providers]

\* The state is well-formed.
CodeTypeOK ==
    /\ clock \in 0..LastHour
    /\ \A k \in RedisKeys : stored[k].until \in Nat /\
          (Present(k) => [key |-> k, value |-> stored[k].value] \in Claimable)
    /\ cooling \in Nat /\ daily \in [count : Nat, until : Nat]
    /\ \A r \in Callers : caller[r].at \in {"rest", "cool", "allowed", "stored", "cooled", "matched"}
    /\ drawn \in [codes : 0..MaxCodes, states : SUBSET States]
    /\ opened \subseteq Claimable

(***************************************************************************)
(* What opened a sign-in is gone: a request that starts later cannot use   *)
(* it again, whatever was sent, claimed or had expired in between          *)
(* (sms_auth.py 92-105, auth.py 431-435).                                  *)
(***************************************************************************)
UsedIsGone == \A c \in opened : Present(c.key) => stored[c.key].value # c.value

(***************************************************************************)
(* Requests that overlap pass the daily limit by less than their number:   *)
(* the check and the count are two calls (sms_auth.py 54-73).              *)
(***************************************************************************)
DailyLimitHolds == daily.count < DailyLimit + Cardinality(Callers)

\* The codes stored in the ticks from..to-1.
SentIn(from, to) == {s \in sends : from <= s.at /\ s.at < to}

(***************************************************************************)
(* In the time of one cool-down a phone is sent at most one code by each   *)
(* of the requests that overlap (sms_auth.py 48-67).                       *)
(***************************************************************************)
CooldownHolds ==
    \A t \in 0..LastHour : Cardinality(SentIn(t, t + Cooldown)) <= Cardinality(Callers)

(***************************************************************************)
(* The codes and the states of sign-ins keep all of these, however the     *)
(* requests for them and their answers overlap with their expiry.          *)
(***************************************************************************)
CodesAreSpent == CodeTypeOK /\ UsedIsGone /\ DailyLimitHolds /\ CooldownHolds
=============================================================================
