------------------------------ MODULE Shutdown ------------------------------
(***************************************************************************)
(* The orderly end of a process and the start of the next one on the same  *)
(* Redis: a signal or the dashboard asks for it, queued external tasks are *)
(* canceled, active runs get a drain window and are canceled when it is    *)
(* over, the services are stopped, and the next process recovers what the  *)
(* hashes and the queue say.  Meanwhile the scheduler finishes its pass,   *)
(* runs end, fail, are queued again and make child tasks.                  *)
(*                                                                         *)
(* A task is in one coroutine's hands at a time and a mark is one step:    *)
(* TaskLifecycle has the overlaps of marks, and the crash.  Resources,     *)
(* audit log and local servers, which Core.stop ends as well, have modules *)
(* of their own.                                                           *)
(***************************************************************************)
EXTENDS Naturals, FiniteSets

CONSTANTS
    Work,        \* tasks
    External,    \* those made by endpoints; the others are child tasks of runs
    NoTask

ASSUME WorkAssumption == External \subseteq Work /\ NoTask \notin Work

VARIABLES
    persisted, queue,     \* Redis: the status a hash says, the members of the ZSET
    registry,             \* QueueManager._tasks
    adding,               \* on_task_added has passed its check, the task is not in the queue yet
    handlers, told,       \* endpoints that still wait, those whose done event is set
    loop,                 \* the scheduler: pass, readd, asleep, gone
    hand, deferred,       \* what its pass holds
    stopped,              \* ~Scheduler._running
    run, canceling,       \* active runs, and those asked to end
    requeued,             \* bound: a task is queued again once
    drain,                \* where graceful_shutdown is
    flag,                 \* Core._restart_requested
    asker, again,        \* who asked, and whether somebody asked twice
    pending, victim,      \* tasks of the snapshot still to look at, the one being removed
    late,                 \* the drain window has passed
    main,                 \* serving, exit, ended, gone, next (the next process is up)
    atRequest,            \* runs that were active at the request and have not ended since
    interrupted           \* tasks cut off while a worker had them

redisVars == <<persisted, queue>>
taskVars  == <<redisVars, registry, adding, handlers, told>>
schedVars == <<loop, hand, deferred, stopped>>
jobVars   == <<run, canceling, requeued, atRequest, interrupted>>
downVars  == <<drain, flag, asker, again, pending, victim, late>>
shutdownVars == <<taskVars, schedVars, jobVars, downVars, main>>

Terminal == {"completed", "failed", "canceled"}
Active   == {t \in Work : run[t] # "none"}
Alive    == main \in {"serving", "exit", "ended"}

ShutdownInit ==
    /\ persisted = [t \in Work |-> "none"] /\ queue = {} /\ registry = {} /\ adding = {}
    /\ handlers = {} /\ told = {}
    /\ loop = "asleep" /\ hand = NoTask /\ deferred = {} /\ stopped = FALSE
    /\ run = [t \in Work |-> "none"] /\ canceling = {} /\ requeued = {}
    /\ drain = "none" /\ flag = FALSE /\ asker = "signal" /\ again = FALSE
    /\ pending = {} /\ victim = NoTask /\ late = FALSE /\ main = "serving"
    /\ atRequest = {} /\ interrupted = {}

---------------------------------------------------------------------------
(* Tasks come, and leave the registry with their handler. *)

\* An external task is refused once the flag is set.
Submit(t) ==
    /\ main = "serving" /\ ~flag /\ t \in External /\ t \notin handlers /\ persisted[t] = "none"
    /\ adding' = adding \cup {t} /\ handlers' = handlers \cup {t}
    /\ UNCHANGED <<redisVars, registry, told, schedVars, jobVars, downVars, main>>

Enqueue(t) ==
    /\ queue' = queue \cup {t} /\ registry' = registry \cup {t}
    /\ persisted' = [persisted EXCEPT ![t] = "queued"]

\* A run makes a child task, which the flag does not refuse.
SpawnChild(t) ==
    /\ Alive /\ t \notin External /\ persisted[t] = "none"
    /\ \E parent \in External : run[parent] = "executing"
    /\ Enqueue(t)
    /\ UNCHANGED <<adding, handlers, told, schedVars, jobVars, downVars, main>>

Added(t) ==
    /\ t \in adding /\ Alive /\ adding' = adding \ {t} /\ Enqueue(t)
    /\ UNCHANGED <<handlers, told, schedVars, jobVars, downVars, main>>

\* delete_task: a task that waits is canceled with it.
Erase(t) ==
    /\ registry' = registry \ {t} /\ queue' = queue \ {t}
    /\ persisted' = [persisted EXCEPT
                       ![t] = IF @ = "queued" /\ t \in registry THEN "canceled" ELSE @]

\* The handler of an ended task is through, whatever became of the task since.
HandlerDone(t) ==
    /\ Alive /\ t \in told
    /\ handlers' = handlers \ {t} /\ told' = told \ {t} /\ Erase(t)
    /\ UNCHANGED <<adding, schedVars, jobVars, downVars, main>>

---------------------------------------------------------------------------
(* The scheduler. *)

Wake ==
    /\ Alive /\ loop = "asleep" /\ loop' = (IF stopped THEN "gone" ELSE "pass")
    /\ UNCHANGED <<taskVars, hand, deferred, stopped, jobVars, downVars, main>>

\* A popped task that the registry does not know is dropped.
Pop(t) ==
    /\ Alive /\ loop = "pass" /\ hand = NoTask /\ t \in queue
    /\ queue' = queue \ {t} /\ hand' = (IF t \in registry THEN t ELSE NoTask)
    /\ UNCHANGED <<persisted, registry, adding, handlers, told, loop, deferred, stopped, jobVars,
                   downVars, main>>

Dispatch ==
    /\ Alive /\ loop = "pass" /\ hand # NoTask
    /\ run' = [run EXCEPT ![hand] = "starting"] /\ hand' = NoTask
    /\ UNCHANGED <<taskVars, loop, deferred, stopped, canceling, requeued, atRequest, interrupted,
                   downVars, main>>

Defer ==
    /\ Alive /\ loop = "pass" /\ hand # NoTask
    /\ deferred' = deferred \cup {hand} /\ hand' = NoTask
    /\ UNCHANGED <<taskVars, loop, stopped, jobVars, downVars, main>>

\* The queue is empty: what was deferred is added again, and the loop sleeps or,
\* when it has been stopped, ends.
PassOver ==
    /\ Alive /\ loop = "pass" /\ hand = NoTask /\ queue = {} /\ loop' = "readd"
    /\ UNCHANGED <<taskVars, hand, deferred, stopped, jobVars, downVars, main>>

Readd(t) ==
    /\ Alive /\ loop = "readd" /\ t \in deferred
    /\ deferred' = deferred \ {t} /\ Enqueue(t)
    /\ UNCHANGED <<adding, handlers, told, loop, hand, stopped, jobVars, downVars, main>>

ReaddOver ==
    /\ Alive /\ loop = "readd" /\ deferred = {}
    /\ loop' = IF stopped THEN "gone" ELSE "asleep"
    /\ UNCHANGED <<taskVars, hand, deferred, stopped, jobVars, downVars, main>>

---------------------------------------------------------------------------
(* The runs. *)

Leaves(t) == run' = [run EXCEPT ![t] = "none"] /\ canceling' = canceling \ {t}

Starts(t) ==
    /\ Alive /\ run[t] = "starting" /\ t \notin canceling
    /\ run' = [run EXCEPT ![t] = "executing"] /\ persisted' = [persisted EXCEPT ![t] = "running"]
    /\ UNCHANGED <<queue, registry, adding, handlers, told, schedVars, canceling, requeued,
                   atRequest, interrupted, downVars, main>>

Ends(t) ==
    /\ Alive /\ run[t] = "executing" /\ Leaves(t) /\ atRequest' = atRequest \ {t}
    /\ \E outcome \in {"completed", "failed"} : persisted' = [persisted EXCEPT ![t] = outcome]
    /\ told' = told \cup ({t} \cap handlers)
    /\ UNCHANGED <<queue, registry, adding, handlers, schedVars, requeued, interrupted,
                   downVars, main>>

\* A failed run is queued again, the drain notwithstanding.
QueueAgain(t) ==
    /\ Alive /\ run[t] = "executing" /\ t \notin canceling \cup requeued
    /\ Leaves(t) /\ atRequest' = atRequest \ {t} /\ requeued' = requeued \cup {t} /\ Enqueue(t)
    /\ UNCHANGED <<adding, handlers, told, schedVars, interrupted, downVars, main>>

\* A run canceled in its worker marks its task; one that still was in mark_running
\* marks nothing, and its hash may say running already.
CutOff(t) ==
    /\ Alive /\ t \in canceling /\ Leaves(t)
    /\ IF run[t] = "executing"
       THEN /\ persisted' = [persisted EXCEPT ![t] = "canceled"]
            /\ told' = told \cup ({t} \cap handlers) /\ interrupted' = interrupted \cup {t}
       ELSE /\ \E said \in {persisted[t], "running"} : persisted' = [persisted EXCEPT ![t] = said]
            /\ UNCHANGED <<told, interrupted>>
    /\ UNCHANGED <<queue, registry, adding, handlers, schedVars, requeued, atRequest, downVars,
                   main>>

---------------------------------------------------------------------------
(* graceful_shutdown. *)

\* The flag, and the tasks the registry has at that moment.
Ask(s) ==
    /\ main = "serving" /\ drain = "none"
    /\ drain' = "pending" /\ flag' = TRUE /\ asker' = s
    /\ pending' = registry \cap External /\ atRequest' = Active
    /\ UNCHANGED <<taskVars, schedVars, run, canceling, requeued, interrupted, again, victim,
                   late, main>>

\* A signal after the dashboard: the second call returns at once, and its caller
\* stops the servers while the first call still drains.
AskAgain ==
    /\ main = "serving" /\ drain \notin {"none", "over"} /\ asker = "webui" /\ ~again
    /\ again' = TRUE /\ main' = "exit"
    /\ UNCHANGED <<taskVars, schedVars, jobVars, drain, flag, asker, pending, victim, late>>

\* _cancel_pending_external_tasks: only what is queued at the time it is looked at.
CancelPending(t) ==
    /\ Alive /\ drain = "pending" /\ victim = NoTask /\ t \in pending /\ pending' = pending \ {t}
    /\ IF persisted[t] = "queued"
       THEN /\ persisted' = [persisted EXCEPT ![t] = "canceled"]
            /\ told' = told \cup ({t} \cap handlers) /\ victim' = t
       ELSE UNCHANGED <<persisted, told, victim>>
    /\ UNCHANGED <<queue, registry, adding, handlers, schedVars, jobVars, drain, flag, asker,
                   again, late, main>>

DeletePending ==
    /\ Alive /\ victim # NoTask /\ Erase(victim) /\ victim' = NoTask
    /\ UNCHANGED <<adding, handlers, told, schedVars, jobVars, drain, flag, asker, again,
                   pending, late, main>>

\* The first run that ends sets the event.
AnyDone == \E t \in Work : run[t] = "none"

AllDone == Active = {}

\* Without an active run there is nothing to wait for and the scheduler is stopped.
PendingOver ==
    /\ Alive /\ drain = "pending" /\ pending = {} /\ victim = NoTask
    /\ IF AllDone THEN drain' = "over" /\ stopped' = TRUE
       ELSE drain' = "waiting" /\ UNCHANGED stopped
    /\ UNCHANGED <<taskVars, loop, hand, deferred, jobVars, flag, asker, again, pending, victim,
                   late, main>>

\* The last run has ended; until the waiting call resumes, another may begin.
BecomesIdle ==
    /\ Alive /\ drain = "waiting" /\ AllDone /\ drain' = "woken"
    /\ UNCHANGED <<taskVars, schedVars, jobVars, flag, asker, again, pending, victim, late, main>>

DrainEnds ==
    /\ Alive /\ drain = "woken" /\ drain' = "over" /\ stopped' = TRUE
    /\ UNCHANGED <<taskVars, loop, hand, deferred, jobVars, flag, asker, again, pending, victim,
                   late, main>>

\* Only a signal limits the wait.
WindowOverSignal ==
    /\ Alive /\ drain = "waiting" /\ ~AllDone /\ asker = "signal"
    /\ drain' = "canceling" /\ late' = TRUE /\ canceling' = canceling \cup Active
    /\ UNCHANGED <<taskVars, schedVars, run, requeued, atRequest, interrupted, flag, asker, again,
                   pending, victim, main>>

\* The window is over: the active runs are canceled, and waited for briefly.
WindowOver ==
    /\ Alive /\ drain = "waiting" /\ ~AllDone
    /\ drain' = "canceling" /\ late' = TRUE /\ canceling' = canceling \cup Active
    /\ UNCHANGED <<taskVars, schedVars, run, requeued, atRequest, interrupted, flag, asker,
                   again, pending, victim, main>>

CancelingOver ==
    /\ Alive /\ drain = "canceling" /\ drain' = "over" /\ stopped' = TRUE
    /\ UNCHANGED <<taskVars, loop, hand, deferred, jobVars, flag, asker, again, pending, victim,
                   late, main>>

---------------------------------------------------------------------------
(* The end of the process, and the next one. *)

StopServers ==
    /\ main = "serving" /\ drain = "over" /\ main' = "exit"
    /\ UNCHANGED <<taskVars, schedVars, jobVars, downVars>>

\* A scheduler that is still in its pass after five seconds is canceled there.
LoopCut ==
    /\ main = "exit" /\ loop # "gone" /\ loop' = "gone" /\ hand' = NoTask /\ deferred' = {}
    /\ UNCHANGED <<taskVars, stopped, jobVars, downVars, main>>

\* All services have ended: Core.stop.
ServicesEnd ==
    /\ main = "exit" /\ loop = "gone" /\ main' = "ended" /\ handlers' = {} /\ told' = {}
    /\ UNCHANGED <<redisVars, registry, adding, schedVars, jobVars, downVars>>

\* The event loop is closed: runs that are left are canceled with it, and their
\* marks reach Redis or do not.  What was in memory is gone.
Exit ==
    /\ main = "ended" /\ main' = "gone"
    /\ \E marked \in SUBSET {t \in Work : run[t] = "executing"} :
          persisted' = [t \in Work |-> IF t \in marked THEN "canceled" ELSE persisted[t]]
    /\ interrupted' = interrupted \cup {t \in Work : run[t] = "executing"}
    /\ run' = [t \in Work |-> "none"] /\ canceling' = {} /\ requeued' = {}
    /\ registry' = {} /\ adding' = {} /\ pending' = {} /\ victim' = NoTask
    /\ drain' = "over" /\ late' = FALSE /\ again' = FALSE
    /\ UNCHANGED <<queue, handlers, told, schedVars, atRequest, flag, asker>>

\* A task that was running is queued again.
RestoredRunning == {t \in Work : persisted[t] \in {"queued", "running"}}

\* recover_startup_tasks: members of the queue whose hash does not say queued are
\* put aside, hashes that say queued are queued, those that say running fail.
Restored == {t \in Work : persisted[t] = "queued"}

Recover ==
    /\ main = "gone" /\ main' = "next"
    /\ queue' = Restored /\ registry' = Restored
    /\ persisted' = [t \in Work |->
                  IF persisted[t] = "running" \/ (t \in queue /\ persisted[t] # "queued")
                  THEN "failed" ELSE persisted[t]]
    /\ UNCHANGED <<adding, handlers, told, schedVars, jobVars, downVars>>

SchedulerActs ==
    \/ Wake \/ Dispatch \/ Defer \/ PassOver \/ ReaddOver
    \/ \E t \in Work : Pop(t) \/ Readd(t)

DrainActs ==
    \/ DeletePending \/ PendingOver \/ BecomesIdle \/ DrainEnds \/ WindowOver \/ CancelingOver
    \/ \E t \in Work : CancelPending(t)

ExitActs == StopServers \/ LoopCut \/ ServicesEnd \/ Exit \/ Recover

ShutdownNext ==
    \/ \E t \in Work : \/ Submit(t) \/ SpawnChild(t) \/ Added(t) \/ HandlerDone(t) \/ Starts(t) \/ Ends(t)
                       \/ QueueAgain(t) \/ CutOff(t)
    \/ \E s \in {"signal", "webui"} : Ask(s)
    \/ AskAgain \/ SchedulerActs \/ DrainActs \/ ExitActs

ShutdownSpec == ShutdownInit /\ [][ShutdownNext]_shutdownVars

---------------------------------------------------------------------------
(* Properties. *)

\* Every variable has its type, and only active runs are asked to end.
ShutdownTypeOK ==
    /\ persisted \in [Work -> {"none", "queued", "running"} \cup Terminal]
    /\ queue \subseteq Work /\ registry \subseteq Work /\ adding \subseteq Work
    /\ handlers \subseteq External /\ told \subseteq Work
    /\ loop \in {"pass", "readd", "asleep", "gone"}
    /\ hand \in Work \cup {NoTask} /\ deferred \subseteq Work /\ stopped \in BOOLEAN
    /\ run \in [Work -> {"none", "starting", "executing"}] /\ canceling \subseteq Active
    /\ requeued \subseteq Work
    /\ drain \in {"none", "pending", "waiting", "woken", "canceling", "over"}
    /\ flag \in BOOLEAN /\ asker \in {"signal", "webui"} /\ again \in BOOLEAN
    /\ pending \subseteq Work /\ victim \in Work \cup {NoTask} /\ late \in BOOLEAN
    /\ main \in {"serving", "exit", "ended", "gone", "next"}
    /\ atRequest \subseteq Work  /\ interrupted \subseteq Work

\* A restart strands nothing: in the next process every task that reached Redis has
\* ended, or says queued and is both in the queue and in the registry, though its
\* last process left it in a pass, in a run or half removed.
RestartStrandsNothing ==
    main = "next" => \A t \in Work :
        \/ persisted[t] \in Terminal \cup {"none"}
        \/ persisted[t] = "queued" /\ t \in queue \cap registry

\* What was cut off while a worker had it is not run again by the next process.
RestartReplaysNothing == main = "next" => interrupted \cap queue = {}

\* What a process leaves behind in the middle of its work the next one takes up as
\* it should: nothing is stranded and nothing is run twice.
RestartIsFaithful == RestartStrandsNothing /\ RestartReplaysNothing

\* A run that was active when the restart was asked for is only cut off when its
\* window has passed, or somebody asked a second time.
DrainIsPatient ==
    [][\A t \in atRequest \cap atRequest' :
          (run[t] # "none" /\ run'[t] = "none") => late \/ again]_shutdownVars

\* A shutdown that was asked for comes to its end, though a run or the pass of the
\* scheduler never does.
ShutdownEnds == flag ~> main = "next"
=============================================================================
