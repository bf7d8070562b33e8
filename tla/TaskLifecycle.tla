--------------------------- MODULE TaskLifecycle ---------------------------
(***************************************************************************)
(* The life of an external task across the coroutines of one service       *)
(* process and the maintenance process beside it: the endpoint handler     *)
(* that waits for it, the scheduler pass that pops, defers and dispatches  *)
(* it, the runs it is given, Core.terminate_task, the cron reapers and a   *)
(* crash followed by the startup recovery.                                 *)
(*                                                                         *)
(* Abstractions: one task type; the admission gates of a pass are one      *)
(* await whose outcome is any; retry, fallback and smart fallback are one  *)
(* requeue (MaxRequeues); a deadline may expire whenever the code tests it.*)
(***************************************************************************)
EXTENDS QueueManager

CONSTANTS
  Run,          \* identities of concurrently existing runner coroutines
  NoTask,       \* "no task" for cur, runTask and cronVictim
  CronEnabled,  \* whether a maintenance process runs beside the service
  MaxRequeues,  \* bound: requeues of one task after a failed run
  MaxCrashes,   \* bound: crashes of the service process
  MaxTerminate, \* bound: terminate calls from the dashboard
  MaxFaults     \* bound: Redis commands that raise

ASSUME NoTaskAssumption == NoTask \notin Task
ASSUME BoundAssumption ==
  /\ CronEnabled \in BOOLEAN
  /\ MaxRequeues \in Nat /\ MaxCrashes \in Nat
  /\ MaxTerminate \in Nat /\ MaxFaults \in Nat

VARIABLES
  client,       \* endpoint handler of each task
  sched,        \* control point of Scheduler.run
  cur,          \* the task the scheduler has in hand
  deferred,     \* deferred_tasks of the pass
  runTask, runPc, runCancel,   \* _active_runs: task, control point, cancel()
  term,         \* terminate_task / delete_task in progress for each task
  cronTodo, cronMembers, cronVictim,  \* cleanup_expired_tasks
  requeues, crashes, terminations, faults,  \* counters behind the bounds
  recovering,   \* ids recover_startup_tasks has not looked at yet
  interrupted   \* history: tasks whose worker a crash killed

schedVars == <<sched, cur, deferred>>
runVars   == <<runTask, runPc, runCancel>>
cronVars  == <<cronTodo, cronMembers, cronVictim>>
bounds    == <<requeues, crashes, terminations, faults>>
crashVars == <<recovering, interrupted>>
vars == <<queueVars, client, schedVars, runVars, term, cronVars, bounds,
          crashVars>>

ClientPc == {"new", "add_commit", "add_register", "wait", "leave", "gone"}
SchedPc  == {"down", "dead", "pop", "gate", "fail_commit", "readd", "readd_commit",
             "readd_register"}
RunPc    == {"idle", "start", "marking", "exec", "completing", "failing",
             "canceling", "add_commit", "add_register", "mark_failed",
             "mark_canceled", "finally"}
TermPc   == {"idle", "cancel_commit", "detached_commit", "cancel_wait",
             "delete", "delete_hset", "delete_zrem", "delete_hash"}

TypeOK ==
  /\ QueueTypeOK
  /\ client \in [Task -> ClientPc]
  /\ sched \in SchedPc
  /\ cur \in Task \cup {NoTask}
  /\ deferred \subseteq Task
  /\ runTask \in [Run -> Task \cup {NoTask}]
  /\ runPc \in [Run -> RunPc]
  /\ runCancel \in [Run -> BOOLEAN]
  /\ term \in [Task -> TermPc]
  /\ cronTodo \subseteq Task
  /\ cronMembers \subseteq Task
  /\ cronVictim \in Task \cup {NoTask}
  /\ requeues \in [Task -> Nat]
  /\ crashes \in Nat
  /\ terminations \in Nat
  /\ faults \in Nat
  /\ recovering \subseteq Task
  /\ interrupted \subseteq Task

Up == sched # "down"

Init ==
  /\ QueueInit
  /\ client = [t \in Task |-> "new"]
  /\ sched = "pop"
  /\ cur = NoTask
  /\ deferred = {}
  /\ runTask = [r \in Run |-> NoTask]
  /\ runPc = [r \in Run |-> "idle"]
  /\ runCancel = [r \in Run |-> FALSE]
  /\ term = [t \in Task |-> "idle"]
  /\ cronTodo = {} /\ cronMembers = {} /\ cronVictim = NoTask
  /\ requeues = [t \in Task |-> 0]
  /\ crashes = 0 /\ terminations = 0 /\ faults = 0
  /\ recovering = {}
  /\ interrupted = {}

-----------------------------------------------------------------------------
(* The endpoint: it creates the task, awaits on_task_added, waits for the    *)
(* done event, and leaves with the answer, at its deadline or because the    *)
(* client of a stream disconnected.                                          *)

ClientStep(t, from, to) ==
  /\ Up
  /\ client[t] = from
  /\ client' = [client EXCEPT ![t] = to]
  /\ UNCHANGED <<schedVars, runVars, cronVars, bounds, crashVars>>

ClientSubmit(t) ==
  /\ ClientStep(t, "new", "add_commit")
  /\ AddIssue(t)
  /\ UNCHANGED term

ClientCommit(t) ==
  /\ ClientStep(t, "add_commit", "add_register")
  /\ AddCommit(t)
  /\ UNCHANGED term

ClientRegister(t) ==
  /\ ClientStep(t, "add_register", "wait")
  /\ AddRegister(t)
  /\ UNCHANGED term

(* core.delete_task as a coroutine of its own. *)
StartDelete(t) ==
  /\ term[t] = "idle"
  /\ term' = [term EXCEPT ![t] = DeleteRest(t)]
  /\ DeleteIssue(t)

ClientAnswered(t) ==
  /\ ClientStep(t, "wait", "gone")
  /\ done[t]
  /\ StartDelete(t)

ClientDisconnect(t) ==
  /\ ClientStep(t, "wait", "gone")
  /\ ~done[t]
  /\ StartDelete(t)

(* After terminate_task a streaming handler still deletes in its finally. *)
ClientLeave(t) ==
  /\ ClientStep(t, "leave", "gone")
  /\ StartDelete(t)

-----------------------------------------------------------------------------
(* Core.terminate_task, for the endpoint's deadline and for the dashboard.   *)

RunsOf(t) == {r \in Run : runPc[r] # "idle" /\ runTask[r] = t}

TerminateWaiting(t) ==
  /\ t \in registry /\ obj[t] \in Waiting
  /\ FinishIssue(t, "canceled")
  /\ term' = [term EXCEPT ![t] = "cancel_commit"]
  /\ UNCHANGED runVars

TerminateRunning(t) ==
  /\ t \in registry /\ obj[t] = "running"
  /\ term' = [term EXCEPT ![t] = "cancel_wait"]
  /\ \/ \E r \in RunsOf(t) : runCancel' = [runCancel EXCEPT ![r] = TRUE]
     \/ RunsOf(t) = {} /\ UNCHANGED runCancel
  /\ UNCHANGED <<queueVars, runTask, runPc>>

TerminatePersisted(t) ==
  /\ t \notin registry /\ hash[t] # "none"
  /\ term' = [term EXCEPT ![t] = IF hash[t] \in Terminal THEN "delete"
                                  ELSE "detached_commit"]
  /\ UNCHANGED <<queueVars, runVars>>

TerminateNothing(t) ==
  /\ \/ t \in registry /\ obj[t] \in Terminal
     \/ t \notin registry /\ hash[t] = "none"
  /\ UNCHANGED <<queueVars, runVars, term>>

Terminate(t) ==
  /\ term[t] = "idle"
  /\ \/ TerminateWaiting(t)
     \/ TerminateRunning(t)
     \/ TerminatePersisted(t)
     \/ TerminateNothing(t)

(* Mutant of ClientTimeout: only the run phase has a deadline. *)
ClientTimeoutRunOnly(t) ==
  /\ Up
  /\ client[t] = "wait" /\ ~done[t] /\ started[t]
  /\ \E to \in {"leave", "gone"} : client' = [client EXCEPT ![t] = to]
  /\ Terminate(t)
  /\ UNCHANGED <<schedVars, cronVars, bounds, crashVars>>

ClientTimeout(t) ==
  /\ Up
  /\ client[t] = "wait" /\ ~done[t]
  /\ \E to \in {"leave", "gone"} : client' = [client EXCEPT ![t] = to]
  /\ Terminate(t)
  /\ UNCHANGED <<schedVars, cronVars, bounds, crashVars>>

OperatorTerminate(t) ==
  /\ Up
  /\ terminations < MaxTerminate
  /\ terminations' = terminations + 1
  /\ Terminate(t)
  /\ UNCHANGED <<client, schedVars, cronVars, requeues, crashes, faults, crashVars>>

TermStep(t, from, to) ==
  /\ term[t] = from
  /\ term' = [term EXCEPT ![t] = to]
  /\ UNCHANGED <<client, schedVars, runVars, cronVars, bounds, crashVars>>

TermCancelCommit(t) ==
  TermStep(t, "cancel_commit", "delete") /\ FinishCommit(t, "canceled")

TermDetachedCommit(t) ==
  TermStep(t, "detached_commit", "delete") /\ DetachedCancel(t)

(* cancel_task returned: the run finished, or five seconds went by. *)
TermWaited(t) ==
  TermStep(t, "cancel_wait", "delete") /\ UNCHANGED queueVars

TermDelete(t) ==
  TermStep(t, "delete", DeleteRest(t)) /\ DeleteIssue(t)

TermDeleteHset(t) ==
  TermStep(t, "delete_hset", "delete_zrem") /\ DeleteHset(t)

TermDeleteZrem(t) ==
  TermStep(t, "delete_zrem", "idle") /\ DeleteZrem(t)

TermDeleteHash(t) ==
  TermStep(t, "delete_hash", "idle") /\ DeleteHash(t)

-----------------------------------------------------------------------------
(* Scheduler.run.  A popped task is in nobody's queue until it is deferred   *)
(* and re-added, failed, or handed to a run.                                 *)

SchedStep(from, to) ==
  /\ sched = from
  /\ sched' = to
  /\ UNCHANGED <<client, term, cronVars, bounds, crashVars>>

PopUnknown(t) ==
  /\ SchedStep("pop", "pop")
  /\ Pop(t) /\ t \notin registry
  /\ UNCHANGED <<obj, started, done, hash, registry, cur, deferred, runVars>>

PopKnown(t) ==
  /\ SchedStep("pop", "gate")
  /\ Pop(t) /\ t \in registry
  /\ cur' = t
  /\ UNCHANGED <<obj, started, done, hash, registry, deferred, runVars>>

(* _expire_queued_task_if_needed runs before any gate has awaited; a task
   that has run before never expires here. *)
PopExpired(t) ==
  /\ SchedStep("pop", "fail_commit")
  /\ Pop(t) /\ t \in registry /\ ~started[t]
  /\ obj' = [obj EXCEPT ![t] = "failed"]
  /\ cur' = t
  /\ UNCHANGED <<started, done, hash, registry, deferred, runVars>>

(* Mutant of FailCommit: no `continue` after an expired task. *)
FailCommitNoContinue ==
  /\ SchedStep("fail_commit", "gate")
  /\ FinishCommit(cur, "failed")
  /\ cur' = NoTask
  /\ UNCHANGED <<deferred, runVars>>

FailCommit ==
  /\ SchedStep("fail_commit", "pop")
  /\ FinishCommit(cur, "failed")
  /\ cur' = NoTask
  /\ UNCHANGED <<deferred, runVars>>

GateDefer ==
  /\ SchedStep("gate", "pop")
  /\ deferred' = deferred \cup {cur}
  /\ cur' = NoTask
  /\ UNCHANGED <<queueVars, runVars>>

(* _handle_remote_refusal gives up on a remote that cannot run the model. *)
GateFail ==
  /\ SchedStep("gate", "fail_commit")
  /\ FinishIssue(cur, "failed")
  /\ UNCHANGED <<cur, deferred, runVars>>

(* Mutant of GateDispatch: the task stays in hand and is offered once more. *)
GateDispatchNoPop(r) ==
  /\ SchedStep("gate", "gate")
  /\ runPc[r] = "idle"
  /\ runPc' = [runPc EXCEPT ![r] = "start"]
  /\ runTask' = [runTask EXCEPT ![r] = cur]
  /\ UNCHANGED <<queueVars, cur, deferred, runCancel>>

GateDispatch(r) ==
  /\ SchedStep("gate", "pop")
  /\ runPc[r] = "idle"
  /\ runPc' = [runPc EXCEPT ![r] = "start"]
  /\ runTask' = [runTask EXCEPT ![r] = cur]
  /\ cur' = NoTask
  /\ UNCHANGED <<queueVars, deferred, runCancel>>

QueueDrained ==
  /\ SchedStep("pop", "readd")
  /\ zset = {} /\ deferred # {}
  /\ UNCHANGED <<queueVars, cur, deferred, runVars>>

ReaddIssue(t) ==
  /\ SchedStep("readd", "readd_commit")
  /\ t \in deferred
  /\ AddIssue(t)
  /\ deferred' = deferred \ {t}
  /\ cur' = t
  /\ UNCHANGED runVars

ReaddCommit ==
  /\ SchedStep("readd_commit", "readd_register")
  /\ AddCommit(cur)
  /\ UNCHANGED <<cur, deferred, runVars>>

ReaddRegister ==
  /\ SchedStep("readd_register", "readd")
  /\ AddRegister(cur)
  /\ cur' = NoTask
  /\ UNCHANGED <<deferred, runVars>>

PassDone ==
  /\ SchedStep("readd", "pop")
  /\ deferred = {}
  /\ UNCHANGED <<queueVars, cur, deferred, runVars>>

-----------------------------------------------------------------------------
(* Scheduler._run_task.                                                      *)

RunStep(r, from, to) ==
  /\ runPc[r] = from
  /\ ~runCancel[r]
  /\ runPc' = [runPc EXCEPT ![r] = to]
  /\ UNCHANGED <<client, schedVars, runTask, runCancel, term, cronVars,
                 crashes, terminations, crashVars>>

NoRequeue == UNCHANGED <<requeues, faults>>

RunStart(r) ==
  /\ RunStep(r, "start", "marking")
  /\ RunningIssue(runTask[r])
  /\ NoRequeue

RunMarked(r) ==
  /\ RunStep(r, "marking", "exec")
  /\ RunningCommit(runTask[r])
  /\ NoRequeue

(* Hook control points, result.ok and the reject policy decide which of the
   first three; the last is the except block of a timeout or an exception. *)
RunFinish(r) ==
  /\ \/ RunStep(r, "exec", "completing")  /\ FinishIssue(runTask[r], "completed")
     \/ RunStep(r, "exec", "failing")     /\ FinishIssue(runTask[r], "failed")
     \/ RunStep(r, "exec", "canceling")   /\ FinishIssue(runTask[r], "canceled")
     \/ RunStep(r, "exec", "mark_failed") /\ FinishIssue(runTask[r], "failed")
  /\ NoRequeue

RunFinished(r) ==
  /\ \/ RunStep(r, "completing", "finally") /\ FinishCommit(runTask[r], "completed")
     \/ /\ \E from \in {"failing", "mark_failed"} : RunStep(r, from, "finally")
        /\ FinishCommit(runTask[r], "failed")
     \/ /\ \E from \in {"canceling", "mark_canceled"} : RunStep(r, from, "finally")
        /\ FinishCommit(runTask[r], "canceled")
  /\ NoRequeue

Requeue(r, from) ==
  LET t == runTask[r] IN
  /\ RunStep(r, from, "add_commit")
  /\ requeues[t] < MaxRequeues
  /\ requeues' = [requeues EXCEPT ![t] = @ + 1]
  /\ AddIssue(t)

RunRequeue(r) == Requeue(r, "exec") /\ UNCHANGED faults

RunRequeueCommit(r) ==
  /\ RunStep(r, "add_commit", "add_register")
  /\ AddCommit(runTask[r])
  /\ NoRequeue

RunRequeued(r) ==
  /\ RunStep(r, "add_register", "finally")
  /\ AddRegister(runTask[r])
  /\ NoRequeue

FreeRun(r) ==
  /\ runPc' = [runPc EXCEPT ![r] = "idle"]
  /\ runTask' = [runTask EXCEPT ![r] = NoTask]
  /\ runCancel' = [runCancel EXCEPT ![r] = FALSE]

(* The releases of the finally block are done. *)
RunReleased(r) ==
  /\ runPc[r] = "finally" /\ ~runCancel[r]
  /\ FreeRun(r)
  /\ UNCHANGED <<queueVars, client, schedVars, term, cronVars, bounds, crashVars>>

(* CancelledError before the try block or inside the finally block: nothing
   is marked. *)
RunAborted(r) ==
  /\ runPc[r] \in {"start", "marking", "finally"} /\ runCancel[r]
  /\ FreeRun(r)
  /\ UNCHANGED <<queueVars, client, schedVars, term, cronVars, bounds, crashVars>>

(* CancelledError inside the try block is marked; inside one of its except
   blocks it goes straight to finally. *)
RunCanceled(r) ==
  /\ runCancel[r]
  /\ runCancel' = [runCancel EXCEPT ![r] = FALSE]
  /\ \/ /\ runPc[r] \in {"exec", "completing", "failing", "canceling",
                         "add_commit", "add_register"}
        /\ runPc' = [runPc EXCEPT ![r] = "mark_canceled"]
        /\ FinishIssue(runTask[r], "canceled")
     \/ /\ runPc[r] \in {"mark_failed", "mark_canceled", "add_commit",
                         "add_register"}
        /\ runPc' = [runPc EXCEPT ![r] = "finally"]
        /\ UNCHANGED queueVars
  /\ UNCHANGED <<client, schedVars, runTask, term, cronVars, bounds, crashVars>>

-----------------------------------------------------------------------------
(* The maintenance process (core/cron.py) shares nothing but Redis.          *)

CronStep ==
  CronEnabled /\ UNCHANGED <<obj, started, done, zset, registry, client,
                              schedVars, runVars, term, bounds, crashVars>>

CronStart ==
  /\ cronTodo = {} /\ cronVictim = NoTask
  /\ cronTodo' = Task
  /\ cronMembers' = zset
  /\ CronStep
  /\ UNCHANGED <<hash, cronVictim>>

(* Mutant of CronScan: orphans are left to the dashboard. *)
CronScanNoReap(t) ==
  /\ t \in cronTodo /\ cronVictim = NoTask
  /\ cronTodo' = cronTodo \ {t}
  /\ CronStep
  /\ UNCHANGED <<hash, cronMembers, cronVictim>>

CronScan(t) ==
  /\ t \in cronTodo /\ cronVictim = NoTask
  /\ cronTodo' = cronTodo \ {t}
  /\ cronVictim' = IF hash[t] = "queued" /\ t \notin cronMembers
                     THEN t ELSE NoTask
  /\ CronStep
  /\ UNCHANGED <<hash, cronMembers>>

CronReap ==
  /\ cronVictim # NoTask
  /\ hash' = [hash EXCEPT ![cronVictim] = "failed"]
  /\ cronVictim' = NoTask
  /\ CronStep
  /\ UNCHANGED <<cronTodo, cronMembers>>

(* cleanup_stale_tasks: run_timeout and a minute of grace are over, so no
   worker of the task can still be running. *)
CronStale(t) ==
  /\ hash[t] = "running"
  /\ \A r \in RunsOf(t) : runPc[r] = "finally"
  /\ hash' = [hash EXCEPT ![t] = "failed"]
  /\ CronStep
  /\ UNCHANGED cronVars

(* A terminal hash older than external_task_live, a day by default. *)
CronExpire(t) ==
  /\ hash[t] \in Terminal
  /\ client[t] = "gone" /\ term[t] = "idle" /\ RunsOf(t) = {}
  /\ t \notin zset \cup deferred \cup {cur}
  /\ hash' = [hash EXCEPT ![t] = "none"]
  /\ CronStep
  /\ UNCHANGED cronVars

-----------------------------------------------------------------------------
(* The service process dies and is started again; Redis and cron live on.    *)

Executing == {t \in Task : \E r \in Run : runPc[r] = "exec" /\ runTask[r] = t}

Crash ==
  /\ Up
  /\ crashes < MaxCrashes
  /\ crashes' = crashes + 1
  /\ sched' = "down"
  /\ cur' = NoTask /\ deferred' = {}
  /\ client' = [t \in Task |-> IF client[t] = "new" THEN "new" ELSE "gone"]
  /\ runPc' = [r \in Run |-> "idle"]
  /\ runTask' = [r \in Run |-> NoTask]
  /\ runCancel' = [r \in Run |-> FALSE]
  /\ term' = [t \in Task |-> "idle"]
  /\ registry' = {}
  /\ recovering' = Task
  /\ interrupted' = interrupted \cup Executing
  /\ UNCHANGED <<obj, started, done, hash, zset, cronVars, requeues,
                 terminations, faults>>

Recover(t) ==
  /\ t \in recovering
  /\ RecoverQueued(t) \/ RecoverOther(t)
  /\ recovering' = recovering \ {t}
  /\ UNCHANGED <<client, schedVars, runVars, term, cronVars, bounds, interrupted>>

Recovered ==
  /\ sched = "down" /\ recovering = {}
  /\ sched' = "pop"
  /\ UNCHANGED <<queueVars, client, cur, deferred, runVars, term, cronVars,
                 bounds, crashVars>>

-----------------------------------------------------------------------------
(* A Redis command raises: what the coroutine was about to write is not      *)
(* written, and the exception goes where the code lets it go.                *)

Fault ==
  /\ faults < MaxFaults
  /\ faults' = faults + 1

(* The handler answers with an error and never looks at the task again. *)
AddRefused(t) ==
  /\ Fault /\ Up
  /\ client[t] = "add_commit"
  /\ client' = [client EXCEPT ![t] = "gone"]
  /\ UNCHANGED <<queueVars, schedVars, runVars, term, cronVars, requeues,
                 crashes, terminations, crashVars>>

(* terminate_task or delete_task ends half-way. *)
TermBroken(t) ==
  /\ Fault
  /\ term[t] \in {"cancel_commit", "detached_commit", "delete_hset",
                  "delete_zrem", "delete_hash"}
  /\ term' = [term EXCEPT ![t] = "idle"]
  /\ UNCHANGED <<queueVars, client, schedVars, runVars, cronVars, requeues,
                 crashes, terminations, crashVars>>

(* Nothing in Scheduler.run catches it and nothing restarts the loop. *)
SchedulerDies ==
  /\ Fault
  /\ sched \in {"pop", "fail_commit", "readd_commit"}
  /\ sched' = "dead" /\ cur' = NoTask /\ deferred' = {}
  /\ UNCHANGED <<queueVars, client, runVars, term, cronVars, requeues,
                 crashes, terminations, crashVars>>

(* mark_running is outside the try block. *)
MarkRunningBroken(r) ==
  /\ Fault
  /\ runPc[r] = "marking"
  /\ FreeRun(r)
  /\ UNCHANGED <<queueVars, client, schedVars, term, cronVars, requeues,
                 crashes, terminations, crashVars>>

(* Inside the try block the reject policy decides again; a requeue that could
   not be written ends in mark_failed. *)
FinishBroken(r) ==
  /\ Fault
  /\ \E from \in {"completing", "failing", "canceling", "add_commit"} :
       \/ Requeue(r, from)
       \/ /\ RunStep(r, from, "mark_failed")
          /\ FinishIssue(runTask[r], "failed")
          /\ UNCHANGED requeues

(* Inside an except block it goes straight to finally. *)
MarkBroken(r) ==
  /\ Fault
  /\ \E from \in {"mark_failed", "mark_canceled"} :
       RunStep(r, from, "finally")
  /\ UNCHANGED <<queueVars, requeues>>

-----------------------------------------------------------------------------
ClientNext == \E t \in Task :
  \/ ClientSubmit(t) \/ ClientCommit(t) \/ ClientRegister(t)
  \/ ClientAnswered(t) \/ ClientDisconnect(t) \/ ClientLeave(t)
  \/ ClientTimeout(t) \/ OperatorTerminate(t)

TermNext == \E t \in Task :
  \/ TermCancelCommit(t) \/ TermDetachedCommit(t) \/ TermWaited(t)
  \/ TermDelete(t) \/ TermDeleteHset(t) \/ TermDeleteZrem(t) \/ TermDeleteHash(t)

SchedNext ==
  \/ \E t \in Task : PopUnknown(t) \/ PopKnown(t) \/ PopExpired(t) \/ ReaddIssue(t)
  \/ FailCommit \/ GateDefer \/ GateFail
  \/ \E r \in Run : GateDispatch(r)
  \/ QueueDrained \/ ReaddCommit \/ ReaddRegister \/ PassDone

RunNext == \E r \in Run :
  \/ RunStart(r) \/ RunMarked(r) \/ RunFinish(r) \/ RunFinished(r)
  \/ RunRequeue(r) \/ RunRequeueCommit(r) \/ RunRequeued(r)
  \/ RunReleased(r) \/ RunAborted(r) \/ RunCanceled(r)

CronNext ==
  \/ CronStart \/ CronReap
  \/ \E t \in Task : CronScan(t) \/ CronStale(t) \/ CronExpire(t)

CrashNext == Crash \/ Recovered \/ \E t \in Task : Recover(t)

FaultNext ==
  \/ \E t \in Task : AddRefused(t) \/ TermBroken(t)
  \/ SchedulerDies
  \/ \E r \in Run : MarkRunningBroken(r) \/ FinishBroken(r) \/ MarkBroken(r)

Next ==
  \/ ClientNext \/ TermNext \/ SchedNext \/ RunNext
  \/ CronNext \/ CrashNext \/ FaultNext

Spec == Init /\ [][Next]_vars

(* Every coroutine is resumed, Redis answers or raises, the deadlines and run
   timeouts are finite, the cron timer fires.  Crashes, faults, disconnects and
   the dashboard owe nothing.  A gate that is tried again and again succeeds at last: the
   resources that other tasks hold are released. *)
Fairness ==
  /\ \A t \in Task :
       /\ WF_vars(ClientCommit(t) \/ ClientRegister(t) \/ ClientAnswered(t)
                    \/ ClientLeave(t) \/ ClientTimeout(t))
       /\ WF_vars(TermCancelCommit(t) \/ TermDetachedCommit(t) \/ TermWaited(t)
                    \/ TermDelete(t) \/ TermDeleteHset(t) \/ TermDeleteZrem(t)
                    \/ TermDeleteHash(t))
       /\ WF_vars(CronScan(t))
       /\ WF_vars(CronStale(t))
       /\ WF_vars(Recover(t))
       /\ SF_vars(cur = t /\ \E r \in Run : GateDispatch(r))
  /\ WF_vars(SchedNext)
  /\ \A r \in Run : WF_vars(RunStart(r) \/ RunMarked(r) \/ RunFinish(r)
       \/ RunFinished(r) \/ RunRequeue(r) \/ RunRequeueCommit(r)
       \/ RunRequeued(r) \/ RunReleased(r) \/ RunAborted(r) \/ RunCanceled(r))
  /\ WF_vars(CronStart)
  /\ WF_vars(CronReap)
  /\ WF_vars(Recovered)

FairSpec == Spec /\ Fairness

-----------------------------------------------------------------------------
(* Who may still bring a task to a worker.                                   *)

SchedHolds(t) == cur = t /\ sched \in {"gate", "readd_commit"}

RunHolds(r, t) ==
  /\ runTask[r] = t
  /\ runPc[r] \in {"start", "marking", "exec", "completing", "failing",
                  "canceling", "add_commit"}

Holds(t) ==
  \/ client[t] \in {"new", "add_commit"}
  \/ t \in zset \cup deferred
  \/ SchedHolds(t)
  \/ \E r \in Run : RunHolds(r, t)

(* A queued hash that no queue and no coroutine will pick up. *)
Orphan(t) == hash[t] = "queued" /\ ~Holds(t)

(* One task never has two workers executing it: whatever retries, deferrals,
   cancellations and re-adds do, a task is popped by one pass and handed to
   one run before it can be queued again (scheduler.py:121-363, 558-686). *)
AtMostOneExecution ==
  \A r1, r2 \in Run :
    runPc[r1] = "exec" /\ runPc[r2] = "exec" /\ runTask[r1] = runTask[r2]
      => r1 = r2

(* A deferred or in-hand task has left the queue for good until it is
   re-added: a pass never holds a task that somebody else could pop as well
   (scheduler.py:131-134, 362-363). *)
PassOwnsItsTasks ==
  \A t \in Task : t \in deferred \/ SchedHolds(t) => t \notin zset

(* A task whose worker died with the process is not replayed: neither the
   recovery nor any later step brings it to a worker again
   (queue_manager.py:142-156). *)
InterruptedNotReplayed ==
  \A t \in interrupted : ~Holds(t) /\ hash[t] # "queued"

(* Every client of a submitted task gets its handler to an end: an answer, a
   timeout or a disconnect (endpoint.py:187-206). *)
ClientsLeave == \A t \in Task : client[t] = "wait" ~> client[t] = "gone"

(* Unless the scheduler loop dies of a Redis error, no task hash stays queued
   or running for good: whatever was dropped by a pass, lost in a race with a
   deletion, left behind by a canceled run, by a crash or by a write that failed
   is in the end run, failed by the recovery or by a reaper
   (queue_manager.py:87-158, cron.py:259-431). *)
HashesSettle ==
  \/ <>(sched = "dead")
  \/ \A t \in Task : <>[](hash[t] \in Terminal \cup {"none"})

-----------------------------------------------------------------------------
(* What the repository says of the code and the code does not do.            *)

(* queue_manager.py:273: "External tasks (created by endpoints) keep their
   Redis HASH for cron cleanup": only cleanup_expired_tasks removes one. *)
ExternalHashKept ==
  [][\A t \in Task : hash[t] # "none" /\ hash'[t] = "none"
       => term'[t] = term[t]]_vars

(* cron.py:343: "a hash that says `queued` while no queue holds it can never
   be dispatched": the task the reaper fails has nobody left to run it. *)
ReapedIsUndispatchable ==
  [][\A t \in Task : cronVictim = t /\ cronVictim' # t => ~Holds(t)]_vars

(* scheduling.md:17-32: canceled is a terminal state, no arrow leads from it
   back to queued or running. *)
CanceledIsFinal ==
  [][\A t \in Task :
       obj[t] = "canceled" => obj'[t] \notin {"queued", "running"}]_vars
=============================================================================
