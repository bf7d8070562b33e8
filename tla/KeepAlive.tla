----------------------------- MODULE KeepAlive -----------------------------
(***************************************************************************)
(* One model that its tasks leave behind in memory.  The core accounts it  *)
(* as warm and writes an activity record to Redis; the maintenance process *)
(* reads the record, pings the model and writes the record back; an unload *)
(* and a restart of the core come in between.  The model belongs to an     *)
(* Ollama provider, which lets go of it by itself, or is a managed server. *)
(*                                                                         *)
(* Moments are kept as ages, which Tick makes older, up to Oldest.  One    *)
(* flow of the core at a time uses or unloads the model: ModelAdmission    *)
(* has the overlaps.                                                       *)
(***************************************************************************)
EXTENDS Integers

CONSTANTS
    KeepAliveWindow,   \* keep_alive: how long a model is kept after its last use
    KeepAlivePeriod,   \* keep_alive_period: how long a ping lasts
    AliveTime,         \* alive_time: how long the provider keeps a model unasked
    MaxRun,            \* bound: what one run of the pings may take
    NoMoment              \* no such moment

Retention == IF AliveTime > KeepAliveWindow THEN AliveTime ELSE KeepAliveWindow
Oldest    == Retention + MaxRun
Ages      == 0 .. Oldest

ASSUME KeepAliveAssumption ==
    /\ {KeepAliveWindow, KeepAlivePeriod, AliveTime, MaxRun} \subseteq Nat \ {0}
    /\ NoMoment \notin Nat

VARIABLES
    managed,   \* a llama-cpp provider with exec_cmd
    holds,     \* how long the provider will keep the model in memory
    warm,      \* released_at of the soft consumer
    record,    \* the activity record in Redis: last_used_at, last_ping_at
    core,      \* idle, busy (a task uses the model), saving, unloading, forgetting
    stamp,     \* `now` of the record being saved
    cron,      \* idle, reading, deleting, pinging, writing
    began,     \* `now` of the run of keep_alive_ping
    copy       \* the record it read

coreVars == <<warm, core, stamp>>
cronVars == <<cron, began, copy>>
keepVars == <<managed, holds, record, coreVars, cronVars>>

NoActivity == [used |-> NoMoment, pinged |-> NoMoment]

KeepInit ==
    /\ managed \in BOOLEAN /\ holds = 0 /\ warm = NoMoment /\ record = NoActivity
    /\ core = "idle" /\ stamp = NoMoment /\ cron = "idle" /\ began = NoMoment /\ copy = NoActivity

\* The soft consumer still occupies memory.
WarmActive == warm # NoMoment /\ (managed \/ warm < Retention)

Later(age)      == IF age = NoMoment \/ age = Oldest THEN age ELSE age + 1
LaterOf(moment) == [used |-> Later(moment.used), pinged |-> Later(moment.pinged)]

\* Time passes; an Ollama server lets go of a model nobody asks it to keep.
Tick ==
    /\ cron # "idle" => began < MaxRun
    /\ holds' = IF managed \/ core = "busy" \/ holds = 0 THEN holds ELSE holds - 1
    /\ warm' = Later(warm) /\ stamp' = Later(stamp) /\ began' = Later(began)
    /\ record' = LaterOf(record) /\ copy' = LaterOf(copy)
    /\ UNCHANGED <<managed, core, cron>>

-----------------------------------------------------------------------------
(* The core. *)

\* A task reserves the model and has the provider load it; what was warm is its
\* reservation now.
Use ==
    /\ core = "idle"
    /\ core' = "busy" /\ warm' = NoMoment
    /\ holds' = IF holds = 0 THEN 1 ELSE holds
    /\ UNCHANGED <<managed, record, stamp, cronVars>>

\* Its release leaves the model behind, unless the run says otherwise.
Release(retain) ==
    /\ core = "busy"
    /\ holds' = IF managed THEN holds ELSE AliveTime
    /\ IF retain
          THEN core' = "saving" /\ warm' = 0 /\ stamp' = 0
          ELSE core' = "idle" /\ UNCHANGED <<warm, stamp>>
    /\ UNCHANGED <<managed, record, cronVars>>

\* _persist_model_activity; a Redis error is only logged.
Persist(ok) ==
    /\ core = "saving"
    /\ core' = "idle" /\ stamp' = NoMoment
    /\ record' = IF ok THEN [used |-> stamp, pinged |-> stamp] ELSE record
    /\ UNCHANGED <<managed, holds, warm, cronVars>>

\* An idle model is unloaded to make room, by an operator, or before the
\* process ends.
Unload ==
    /\ core = "idle" /\ WarmActive
    /\ core' = "unloading"
    /\ UNCHANGED <<managed, holds, record, warm, stamp, cronVars>>

Unloaded(ok) ==
    /\ core = "unloading"
    /\ IF ok THEN core' = "forgetting" /\ holds' = 0 ELSE core' = "idle" /\ UNCHANGED holds
    /\ UNCHANGED <<managed, record, warm, stamp, cronVars>>

\* The record is removed, then the soft consumer; a Redis error is only logged.
ClearActivity(ok) ==
    /\ core = "forgetting"
    /\ core' = "idle" /\ warm' = NoMoment
    /\ record' = IF ok THEN NoActivity ELSE record
    /\ UNCHANGED <<managed, holds, stamp, cronVars>>

\* What a new process takes for warm: a managed server that survived, or a model
\* whose last use is recent.
RestoredWarm ==
    IF managed THEN IF holds > 0 THEN 0 ELSE NoMoment
    ELSE IF record.used # NoMoment /\ record.used < Retention THEN record.used ELSE NoMoment

\* The core ends, at any step, and starts again.
Restart ==
    /\ core' = "idle" /\ stamp' = NoMoment /\ warm' = RestoredWarm
    /\ holds' = IF core = "busy" /\ ~managed THEN AliveTime ELSE holds
    /\ UNCHANGED <<managed, record, cronVars>>

-----------------------------------------------------------------------------
(* The maintenance process. *)

CronBegins ==
    /\ cron = "idle" /\ record # NoActivity
    /\ cron' = "reading" /\ began' = 0
    /\ UNCHANGED <<managed, holds, record, coreVars, copy>>

CronEnds == cron' = "idle" /\ began' = NoMoment /\ copy' = NoActivity

\* An age as the run sees it, which took its `now` before it read the record.
Since(age) == age - began

\* The record goes when its window is over, counted from the last use, and the
\* model is pinged when the period is.
CronReads ==
    /\ cron = "reading"
    /\ IF record # NoActivity /\ (\/ Since(record.used) >= KeepAliveWindow
                                  \/ Since(record.pinged) >= KeepAlivePeriod)
          THEN /\ cron' = IF Since(record.used) >= KeepAliveWindow THEN "deleting" ELSE "pinging"
               /\ copy' = record /\ UNCHANGED began
          ELSE CronEnds
    /\ UNCHANGED <<managed, holds, record, coreVars>>

CronDeletes ==
    /\ cron = "deleting" /\ CronEnds
    /\ record' = NoActivity
    /\ UNCHANGED <<managed, holds, coreVars>>

\* The request has Ollama keep the model for two periods, and any answer to it will
\* do; for a managed server it is ensure_running.  A failure leaves the record
\* alone.
CronPings(ok) ==
    /\ cron = "pinging"
    /\ IF ok
          THEN /\ cron' = "writing" /\ UNCHANGED <<began, copy>>
               /\ holds' \in IF managed THEN {1} ELSE {holds, 2 * KeepAlivePeriod}
          ELSE CronEnds /\ UNCHANGED holds
    /\ UNCHANGED <<managed, record, coreVars>>

\* Mutant: the ping counts as a use.
CronWritesMoves ==
    /\ cron = "writing" /\ CronEnds
    /\ record' = [used |-> began, pinged |-> began]
    /\ UNCHANGED <<managed, holds, coreVars>>

\* The record it read is written back with the time of the ping, whatever the
\* record has become meanwhile.
CronWrites ==
    /\ cron = "writing" /\ CronEnds
    /\ record' = [used |-> copy.used, pinged |-> began]
    /\ UNCHANGED <<managed, holds, coreVars>>

-----------------------------------------------------------------------------
(* Redis and the managed server. *)

\* Every write gives the record a time to live of at least the window.
RecordExpires ==
    /\ record # NoActivity /\ record.pinged >= KeepAliveWindow
    /\ record' = NoActivity
    /\ UNCHANGED <<managed, holds, coreVars, cronVars>>

ServerDies ==
    /\ managed /\ holds > 0 /\ core # "busy"
    /\ holds' = 0
    /\ UNCHANGED <<managed, record, coreVars, cronVars>>

CoreEnds == \/ \E ok \in BOOLEAN : Persist(ok) \/ Unloaded(ok) \/ ClearActivity(ok)
CronActs == CronBegins \/ CronReads \/ CronDeletes \/ CronWrites \/ \E ok \in BOOLEAN : CronPings(ok)

KeepNext ==
    \/ Tick \/ Use \/ Unload \/ CoreEnds \/ Restart \/ CronActs \/ RecordExpires \/ ServerDies
    \/ \E retain \in BOOLEAN : Release(retain)

\* Time passes, what was begun is answered, and cron is run again and again.
KeepSpec ==
    /\ KeepInit /\ [][KeepNext]_keepVars
    /\ WF_keepVars(Tick) /\ WF_keepVars(CoreEnds) /\ WF_keepVars(CronActs)

-----------------------------------------------------------------------------
\* Properties.

\* spec/scheduling.md:577, "a keep-alive ping does not move" the window: once no
\* task uses the model any more, the pings cease, an Ollama server lets go of
\* it and its memory is free again, through every overlap of a ping with a
\* release, an unload or a restart.
IdleModelIsLetGo ==
    <>[](core # "busy") =>
        <>[](cron # "pinging" /\ (~managed => holds = 0 /\ ~WarmActive))
=============================================================================
