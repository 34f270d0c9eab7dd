------------------------------ MODULE Settings ------------------------------
(***************************************************************************)
(* The rows of system_config: their initialisation, which any reader of    *)
(* all settings may start, the saving of a batch of them, which logs an    *)
(* audit record in a transaction of its own, and the notification of a     *)
(* ticket, which reads them one by one while they change.                  *)
(***************************************************************************)
EXTENDS Naturals, FiniteSets

CONSTANTS
    Keys,        \* CONFIG_DEFINITIONS
    Sensitive,   \* those stored encrypted
    Texts,       \* values, other than the two below
    Empty,
    Mask,        \* what get_all shows instead of a sensitive value
    Channels,
    Default(_),  \* value of a setting nobody saved
    Needs(_),    \* the settings a channel must have to be used
    Savers,      \* overlapping requests
    MaxSavings   \* bound: initialisations, batches and notifications

ASSUME SensitiveAssumption == Sensitive \subseteq Keys
ASSUME TextAssumption == Empty \notin Texts /\ Mask \notin Texts /\ Empty # Mask
ASSUME SettingAssumption == \A k \in Keys : Default(k) \in Texts \cup {Empty}
\* No definition gives a sensitive setting a default (system_config.py 33-97).
ASSUME SensitiveDefaultAssumption == \A k \in Sensitive : Default(k) = Empty
ASSUME NeedsAssumption == \A ch \in Channels : Needs(ch) \subseteq Keys

VARIABLES
    row,        \* system_config: per key the value and whether it is encrypted
    saver,      \* what each request has read
    logged,     \* audit records of savings
    notified,   \* channels the last notification was sent to
    saved,      \* history: per key the value saved last
    clashed,    \* history: keys that two batches, which overlapped, save
    savings     \* history: initialisations, batches and notifications begun

settingVars == <<row, saver, logged, notified, saved, clashed, savings>>

Absent == [value |-> Empty, sealed |-> "absent"]
Plain(v) == [value |-> v, sealed |-> "no"]
\* encrypt_field; a sensitive value that is empty stays plain.
Stored(k, v) == IF k \in Sensitive /\ v # Empty THEN [value |-> v, sealed |-> "yes"] ELSE Plain(v)
\* get_value.
ReadValue(k) == IF row[k].value = Empty THEN Default(k) ELSE row[k].value
\* get_all.
Shown(k) == IF k \in Sensitive /\ row[k].value # Empty THEN Mask ELSE row[k].value

Save == savings < MaxSavings /\ savings' = savings + 1
Resting == [at |-> "resting"]
\* Mutant of Skipped: an empty sensitive value is skipped, its mask is saved.
SkippedEmpty(k, v) == k \in Sensitive /\ v = Empty
Skipped(k, v) == k \in Sensitive /\ v \in {Empty, Mask}

SettingInit ==
    /\ row \in {[k \in Keys |-> Absent], [k \in Keys |-> Plain(Default(k))]}
    /\ saver = [s \in Savers |-> Resting]
    /\ logged = 0 /\ notified = {}
    /\ saved = [k \in Keys |-> Default(k)]
    /\ clashed = {} /\ savings = 0
----------------------------------------------------------------------------
\* _ensure_defaults: every key that has no row is given one.
BeginDefaults(s) ==
    /\ saver[s] = Resting /\ Save
    /\ saver' = [saver EXCEPT ![s] = [at |-> "reading", kind |-> "defaults", left |-> Keys,
                                      writes |-> {}]]
    /\ UNCHANGED <<row, logged, notified, saved, clashed>>

\* update_batch: a partial function of keys to values; what is skipped is not read.
BeginBatch(s, batch) ==
    /\ saver[s] = Resting /\ Save
    /\ LET ks == {k \in DOMAIN batch : ~Skipped(k, batch[k])}
       IN  /\ saver' = [saver EXCEPT ![s] = [at |-> "reading", kind |-> "batch", left |-> ks,
                                             batch |-> batch, writes |-> {}]]
           /\ clashed' = clashed \cup
                 {k \in ks : \E t \in Savers \ {s} :
                     saver[t].at = "reading" /\ saver[t].kind = "batch" /\ k \in DOMAIN saver[t].batch}
    /\ UNCHANGED <<row, logged, notified, saved>>

\* One SELECT: afterwards it is known whether to insert, to update or to leave the row.
Wanted(s, k) == IF saver[s].kind = "batch" THEN Stored(k, saver[s].batch[k]) ELSE Plain(Default(k))
ReadKey(s, k) ==
    /\ saver[s].at = "reading" /\ k \in saver[s].left
    /\ LET write == [key |-> k, new |-> row[k] = Absent, to |-> Wanted(s, k)]
           needed == IF saver[s].kind = "batch" THEN row[k] # Wanted(s, k) \/ k \in Sensitive
                                                ELSE write.new
       IN  saver' = [saver EXCEPT ![s].left = @ \ {k},
                                  ![s].writes = IF needed THEN @ \cup {write} ELSE @]
    /\ UNCHANGED <<row, logged, notified, saved, clashed, savings>>

\* The commit; a key inserted by another meanwhile refuses all of it.
CommitSettings(s) ==
    /\ saver[s].at = "reading" /\ saver[s].left = {}
    /\ LET writes == saver[s].writes
           refused == \E w \in writes : w.new /\ row[w.key] # Absent
           batch == saver[s].kind = "batch"
           ks == IF batch THEN {k \in DOMAIN saver[s].batch : ~Skipped(k, saver[s].batch[k])} ELSE {}
       IN  IF refused
           THEN saver' = [saver EXCEPT ![s] = Resting] /\ UNCHANGED <<row, saved>>
           ELSE /\ row' = [k \in Keys |-> IF \E w \in writes : w.key = k
                                          THEN (CHOOSE w \in writes : w.key = k).to ELSE row[k]]
                /\ saved' = [k \in Keys |-> IF batch /\ k \in DOMAIN saver[s].batch
                                                /\ ~(k \in Sensitive /\ saver[s].batch[k] \in {Empty, Mask})
                                            THEN saver[s].batch[k] ELSE saved[k]]
                /\ saver' = [saver EXCEPT ![s] = IF batch THEN [at |-> "saved"] ELSE Resting]
    /\ UNCHANGED <<logged, notified, clashed, savings>>
\* AuditLogService.write swallows its own failure; a crash has the same effect.
LogSaving(s) ==
    /\ saver[s].at = "saved"
    /\ logged' \in {logged, logged + 1}
    /\ saver' = [saver EXCEPT ![s] = Resting]
    /\ UNCHANGED <<row, notified, saved, clashed, savings>>
----------------------------------------------------------------------------
\* notify_workflow reads its settings one by one, then sends to the channels that
\* have what they need; a channel that fails leaves the others alone.
BeginNotify(s) ==
    /\ saver[s] = Resting /\ Save
    /\ saver' = [saver EXCEPT ![s] = [at |-> "notifying", left |-> UNION {Needs(ch) : ch \in Channels},
                                      set |-> {}]]
    /\ UNCHANGED <<row, logged, notified, saved, clashed>>
ReadForNotice(s, k) ==
    /\ saver[s].at = "notifying" /\ k \in saver[s].left
    /\ saver' = [saver EXCEPT ![s].left = @ \ {k},
                              ![s].set = IF ReadValue(k) # Empty THEN @ \cup {k} ELSE @]
    /\ UNCHANGED <<row, logged, notified, saved, clashed, savings>>
SendNotice(s) ==
    /\ saver[s].at = "notifying" /\ saver[s].left = {}
    /\ \E failing \in SUBSET Channels :
          notified' = {ch \in Channels \ failing : Needs(ch) \subseteq saver[s].set}
    /\ saver' = [saver EXCEPT ![s] = Resting]
    /\ UNCHANGED <<row, logged, saved, clashed, savings>>

\* Batches a client may send: any values, and what get_all showed.
Batches == UNION {[ks -> Texts \cup {Empty, Mask}] : ks \in (SUBSET Keys) \ {{}}}
SettingNext ==
    \E s \in Savers :
        \/ BeginDefaults(s) \/ CommitSettings(s) \/ LogSaving(s) \/ BeginNotify(s) \/ SendNotice(s)
        \/ \E batch \in Batches :
              /\ \A k \in DOMAIN batch : batch[k] = Mask => Shown(k) = Mask
              /\ BeginBatch(s, batch)
        \/ \E k \in Keys : ReadKey(s, k) \/ ReadForNotice(s, k)

SettingSpec == SettingInit /\ [][SettingNext]_settingVars
----------------------------------------------------------------------------
(***************************************************************************)
(* What was saved last is what is read, decrypted where it is sensitive:   *)
(* an initialisation that overlaps does not reset it, and the mask the     *)
(* page sends back does not replace it.  Two batches that overlap on a key *)
(* are excepted: each writes only what differs from what it read           *)
(* (system_config.py 101-200).                                             *)
(***************************************************************************)
SavedIsRead ==
    \A k \in Keys \ clashed :
        /\ ReadValue(k) = IF saved[k] = Empty THEN Default(k) ELSE saved[k]
        /\ (row[k].sealed = "yes") <=> (k \in Sensitive /\ row[k].value # Empty)
=============================================================================
