----------------------------- MODULE Recordings -----------------------------
(***************************************************************************)
(* One finished recording: its object in R2 and its row in                 *)
(* meeting_artifacts.  The egress_ended webhook registers the object, or   *)
(* deletes it when the host is over quota; the daily clean-up registers    *)
(* what no webhook registered in the 48 hours since the upload, and        *)
(* deletes row and object when the session is no longer retained.          *)
(* Deliveries of the webhook may overlap, and the Worker may die between   *)
(* any two steps.                                                          *)
(***************************************************************************)
EXTENDS Naturals

CONSTANTS
    Deliveries, \* deliveries of egress_ended
    Runs        \* how often the daily clean-up is triggered within 48 hours

ASSUME RecordingAssumption == Runs \in Nat

VARIABLES
    full,     \* whether the host is over quota with this recording
    session,  \* the ended session: kept, expired (past retainUntil), gone
    object,   \* the object: none, stored, deleted
    row,      \* meeting_artifacts has its row
    recent,   \* uploaded within the last 48 hours
    hook,     \* what each delivery does
    cron,     \* reconcileOrphanedRecordings
    runs,     \* how often it was to run since the upload, while the object is recent
    misses,   \* how many of these runs did not get to the object, or failed
    retention \* cleanupExpiredMeetings: its step, and whether it has read the key

reVars == <<full, session, object, row, recent, hook, cron, runs, misses, retention>>

ReTypeOK ==
    /\ full \in BOOLEAN /\ row \in BOOLEAN /\ recent \in BOOLEAN
    /\ session \in {"kept", "expired", "gone"}
    /\ object \in {"none", "stored", "deleted"}
    /\ hook \in [Deliveries -> {"idle", "found", "deleting", "registering"}]
    /\ cron \in {"idle", "listed", "registering"} /\ runs \in 0..Runs /\ misses \in 0..runs
    /\ retention \in [pc : {"idle", "selected", "read", "dropped"}, key : BOOLEAN]

ReInit ==
    /\ full \in BOOLEAN
    /\ session = "kept" /\ object = "none" /\ row = FALSE /\ recent = TRUE
    /\ hook = [d \in Deliveries |-> "idle"]
    /\ cron = "idle" /\ runs = 0 /\ misses = 0
    /\ retention = [pc |-> "idle", key |-> FALSE]

\* registerMeetingArtifactMetadata: one row per key; a session that is gone has no row.
Register == row' = (row \/ session # "gone")

-----------------------------------------------------------------------------

\* The egress has uploaded its file; deliveries follow.
Uploads ==
    /\ object = "none"
    /\ object' = "stored"
    /\ UNCHANGED <<full, session, row, recent, hook, cron, runs, misses, retention>>

Moves(d, from, to) == hook[d] = from /\ hook' = [hook EXCEPT ![d] = to]

\* The session and the registered row are looked up.
HookFinds(d) ==
    /\ object # "none" /\ session # "gone" /\ ~row
    /\ Moves(d, "idle", "found")
    /\ UNCHANGED <<full, session, object, row, recent, cron, runs, misses, retention>>

HookMeasures(d) ==
    /\ Moves(d, "found", IF full THEN "deleting" ELSE "registering")
    /\ UNCHANGED <<full, session, object, row, recent, cron, runs, misses, retention>>

HookDeletes(d) ==
    /\ Moves(d, "deleting", "idle")
    /\ object' = "deleted"
    /\ UNCHANGED <<full, session, row, recent, cron, runs, misses, retention>>

HookRegisters(d) ==
    /\ Moves(d, "registering", "idle")
    /\ Register
    /\ UNCHANGED <<full, session, object, recent, cron, runs, misses, retention>>

\* The delete or the insert fails, which is only logged, or the Worker dies.
HookFails(d) ==
    /\ hook[d] # "idle"
    /\ hook' = [hook EXCEPT ![d] = "idle"]
    /\ UNCHANGED <<full, session, object, row, recent, cron, runs, misses, retention>>

-----------------------------------------------------------------------------

\* The daily run begins, and its listing of the recent objects comes to this one.
CronLists ==
    /\ cron = "idle" /\ object = "stored" /\ recent /\ runs < Runs
    /\ cron' = "listed" /\ runs' = runs + 1
    /\ UNCHANGED <<full, session, object, row, recent, hook, misses, retention>>

\* It stops at the page cap before it comes to the object, or fails, or is not triggered.
CronMisses ==
    /\ cron = "idle" /\ object # "none" /\ recent /\ runs < Runs
    /\ runs' = runs + 1 /\ misses' = misses + 1
    /\ UNCHANGED <<full, session, object, row, recent, hook, cron, runs, misses, retention>>

\* A variant of CronCompares that has the condition on the session the wrong way round.
CronComparesGone ==
    /\ cron = "listed"
    /\ cron' = IF row \/ session # "gone" THEN "idle" ELSE "registering"
    /\ UNCHANGED <<full, session, object, row, recent, hook, runs, misses, retention>>

\* Objects with a row, or without a session, are left alone.
CronCompares ==
    /\ cron = "listed"
    /\ cron' = IF row \/ session = "gone" THEN "idle" ELSE "registering"
    /\ UNCHANGED <<full, session, object, row, recent, hook, runs, misses, retention>>

CronRegisters ==
    /\ cron = "registering"
    /\ cron' = "idle"
    /\ Register
    /\ UNCHANGED <<full, session, object, recent, hook, runs, misses, retention>>

\* A statement of the run fails, or its Worker dies.
CronBreaks ==
    /\ cron # "idle"
    /\ cron' = "idle" /\ misses' = misses + 1
    /\ UNCHANGED <<full, session, object, row, recent, hook, runs, retention>>

\* 48 hours have passed: from the next run on the object is not looked at.
Ages ==
    /\ recent /\ object # "none" /\ runs = Runs
    /\ recent' = FALSE
    /\ UNCHANGED <<full, session, object, row, hook, cron, runs, misses, retention>>

\* Sessions are retained for days, and neither a request nor a run lasts that long.
RetentionEnds ==
    /\ session = "kept" /\ ~recent /\ cron = "idle"
    /\ \A d \in Deliveries : hook[d] = "idle"
    /\ session' = "expired"
    /\ UNCHANGED <<full, object, row, recent, hook, cron, runs, misses, retention>>

RetentionSelects ==
    /\ session = "expired" /\ retention.pc = "idle"
    /\ retention' = [retention EXCEPT !.pc = "selected"]
    /\ UNCHANGED <<full, session, object, row, recent, hook, cron, runs, misses>>

\* A variant of RetentionReads that deletes the object at once.
RetentionRemovesFirst ==
    /\ retention.pc = "selected"
    /\ retention' = [pc |-> "read", key |-> row]
    /\ object' = IF row THEN "deleted" ELSE object
    /\ UNCHANGED <<full, session, row, recent, hook, cron, runs, misses>>

RetentionReads ==
    /\ retention.pc = "selected"
    /\ retention' = [pc |-> "read", key |-> row]
    /\ UNCHANGED <<full, session, object, row, recent, hook, cron, runs, misses>>

\* The row goes with its session.
RetentionDrops ==
    /\ retention.pc = "read"
    /\ retention' = [retention EXCEPT !.pc = "dropped"]
    /\ session' = "gone" /\ row' = FALSE
    /\ UNCHANGED <<full, object, recent, hook, cron, runs, misses>>

RetentionRemoves ==
    /\ retention.pc = "dropped"
    /\ retention' = [pc |-> "idle", key |-> FALSE]
    /\ object' = IF retention.key THEN "deleted" ELSE object
    /\ UNCHANGED <<full, session, row, recent, hook, cron, runs, misses>>

\* A step of the clean-up fails, or its Worker dies: the next run starts again.
CronFails ==
    /\ retention.pc # "idle"
    /\ retention' = [pc |-> "idle", key |-> FALSE]
    /\ UNCHANGED <<full, session, object, row, recent, hook, cron, runs, misses>>

ReNext ==
    \/ Uploads
    \/ \E d \in Deliveries : \/ HookFinds(d) \/ HookMeasures(d) \/ HookDeletes(d)
                             \/ HookRegisters(d) \/ HookFails(d)
    \/ CronLists \/ CronMisses \/ CronCompares \/ CronRegisters \/ CronBreaks \/ Ages
    \/ RetentionEnds \/ RetentionSelects \/ RetentionReads \/ RetentionDrops
    \/ RetentionRemoves \/ CronFails

ReSpec == ReInit /\ [][ReNext]_reVars

-----------------------------------------------------------------------------

\* A registered recording can be played: its row never outlives its object, as long as no
\* delivery finds the host over quota.
RowHasObject == (row /\ ~full) => object = "stored"

\* A missed webhook is made good by any one daily run that gets to the object: when the 48
\* hours are over and the recording is there without a row, every run of them has missed it.
OneRunSuffices ==
    (~recent /\ cron = "idle" /\ object = "stored" /\ session # "gone" /\ ~row)
        => misses = Runs

=============================================================================
