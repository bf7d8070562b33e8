---------------------------- MODULE QueueManager ----------------------------
(***************************************************************************)
(* The task queue of core/queue_manager.py: the ZSET that orders waiting   *)
(* tasks, the HASH that persists each task, the in-memory registry _tasks  *)
(* and the live Task object the coroutines share.                          *)
(*                                                                         *)
(* Every method is a coroutine: what it assigns before its first await     *)
(* happens at the call, the Redis command takes effect at some later       *)
(* moment, and what follows the await happens later still.  Each operator  *)
(* below is one such atomic part; a composing module strings them together.*)
(* Only external tasks (created by an endpoint for a client) are modelled. *)
(***************************************************************************)
EXTENDS Naturals

CONSTANT Task

VARIABLES
  obj,       \* status field of the shared Task object
  started,   \* whether the object's started_at is set
  done,      \* the object's _done_event
  hash,      \* status field of the persisted hash, "none" when deleted
  zset,      \* members of queue:<type>
  registry   \* keys of QueueManager._tasks

queueVars == <<obj, started, done, hash, zset, registry>>

Waiting  == {"created", "queued"}
Terminal == {"completed", "failed", "canceled"}
Status   == Waiting \cup Terminal \cup {"running"}

QueueTypeOK ==
  /\ obj \in [Task -> Status]
  /\ started \in [Task -> BOOLEAN]
  /\ done \in [Task -> BOOLEAN]
  /\ hash \in [Task -> Status \cup {"none"}]
  /\ zset \subseteq Task
  /\ registry \subseteq Task

QueueInit ==
  /\ obj = [t \in Task |-> "created"]
  /\ started = [t \in Task |-> FALSE]
  /\ done = [t \in Task |-> FALSE]
  /\ hash = [t \in Task |-> "none"]
  /\ zset = {}
  /\ registry = {}

-----------------------------------------------------------------------------
(* add_task: the status, then one transaction ZADD + HSET, then _tasks. *)

AddIssue(t) ==
  /\ obj' = [obj EXCEPT ![t] = "queued"]
  /\ UNCHANGED <<started, done, hash, zset, registry>>

AddCommit(t) ==
  /\ zset' = zset \cup {t}
  /\ hash' = [hash EXCEPT ![t] = "queued"]
  /\ UNCHANGED <<obj, started, done, registry>>

AddRegister(t) ==
  /\ registry' = registry \cup {t}
  /\ UNCHANGED <<obj, started, done, hash, zset>>

(* Mutant of Pop: the head of the queue is read and not removed. *)
PopPeek(t) ==
  /\ t \in zset
  /\ UNCHANGED zset

(* pop_next: ZPOPMIN. *)
Pop(t) ==
  /\ t \in zset
  /\ zset' = zset \ {t}

(* mark_running: only a registered task has its object updated; the hash is
   written in any case. *)
RunningIssue(t) ==
  /\ IF t \in registry
       THEN /\ obj' = [obj EXCEPT ![t] = "running"]
            /\ started' = [started EXCEPT ![t] = TRUE]
       ELSE UNCHANGED <<obj, started>>
  /\ UNCHANGED <<done, hash, zset, registry>>

RunningCommit(t) ==
  /\ hash' = [hash EXCEPT ![t] = "running"]
  /\ UNCHANGED <<obj, started, done, zset, registry>>

(* mark_completed, mark_failed and mark_canceled: the object first, then HSET,
   then the stream sentinel and _done_event.  None looks at the old status. *)
FinishIssue(t, status) ==
  /\ obj' = [obj EXCEPT ![t] = status]
  /\ UNCHANGED <<started, done, hash, zset, registry>>

FinishCommit(t, status) ==
  /\ hash' = [hash EXCEPT ![t] = status]
  /\ done' = [done EXCEPT ![t] = TRUE]
  /\ UNCHANGED <<obj, started, zset, registry>>

(* mark_canceled on the copy that get_persisted_task read from Redis: the
   client's own object, if any, is not told. *)
DetachedCancel(t) ==
  /\ hash' = [hash EXCEPT ![t] = "canceled"]
  /\ UNCHANGED <<obj, started, done, zset, registry>>

(* delete_task up to its first await.  A waiting task is canceled first. *)
DeleteIssue(t) ==
  /\ registry' = registry \ {t}
  /\ obj' = IF t \in registry /\ obj[t] \in Waiting
              THEN [obj EXCEPT ![t] = "canceled"] ELSE obj
  /\ UNCHANGED <<started, done, hash, zset>>

(* What delete_task still has to write: a task it does not know counts as
   internal, so its hash goes away as well. *)
DeleteRest(t) ==
  IF t \notin registry THEN "delete_hash"
  ELSE IF obj[t] \in Waiting THEN "delete_hset" ELSE "delete_zrem"

DeleteHset(t) ==
  /\ hash' = [hash EXCEPT ![t] = "canceled"]
  /\ UNCHANGED <<obj, started, done, zset, registry>>

DeleteZrem(t) ==
  /\ zset' = zset \ {t}
  /\ UNCHANGED <<obj, started, done, hash, registry>>

DeleteHash(t) ==
  /\ zset' = zset \ {t}
  /\ hash' = [hash EXCEPT ![t] = "none"]
  /\ UNCHANGED <<obj, started, done, registry>>

(* Mutant of RecoverQueued: a task that was running is queued again. *)
RecoverAgain(t) ==
  /\ hash[t] \in {"queued", "running"}
  /\ zset' = zset \cup {t}
  /\ registry' = registry \cup {t}
  /\ obj' = [obj EXCEPT ![t] = "queued"]
  /\ done' = [done EXCEPT ![t] = FALSE]
  /\ UNCHANGED <<started, hash>>

(* recover_startup_tasks for one id: a queued member or a queued hash without
   a member becomes a waiting task again, as a new object whose started_at is
   the persisted one (mark_running may not have written it yet); any other
   member is quarantined; a task that was running is failed, not replayed. *)
RecoverQueued(t) ==
  /\ hash[t] = "queued"
  /\ zset' = zset \cup {t}
  /\ registry' = registry \cup {t}
  /\ obj' = [obj EXCEPT ![t] = "queued"]
  /\ done' = [done EXCEPT ![t] = FALSE]
  /\ \E persisted \in {FALSE, started[t]} :
       started' = [started EXCEPT ![t] = persisted]
  /\ UNCHANGED hash

RecoverOther(t) ==
  /\ hash[t] # "queued"
  /\ zset' = zset \ {t}
  /\ hash' = IF t \in zset \/ hash[t] = "running"
               THEN [hash EXCEPT ![t] = "failed"] ELSE hash
  /\ UNCHANGED <<obj, started, done, registry>>
=============================================================================
