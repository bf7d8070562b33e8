--------------------------- MODULE ModelAdmission ---------------------------
(***************************************************************************)
(* How the scheduler admits tasks to models: the resource gates of         *)
(* Scheduler.run, the unloads they wait for, the reservations and releases *)
(* of _run_task, a requeue that may overlap the run that asked for it, the *)
(* dashboard's (or a sensor's) force_release, and a configuration reload.  *)
(*                                                                         *)
(* Abstractions: one worker; a deferral leaves the task waiting; how a run *)
(* ends is free; hooks, Redis and the queue are TaskLifecycle's.           *)
(***************************************************************************)
EXTENDS Resources, FiniteSets

CONSTANTS
  Run,            \* identities of concurrently existing runs
  NoTask,
  Route,          \* the model each task asks for first
  SmartFallback,  \* whether a requeue may choose another model
  MaxRequeues,    \* bound: requeues
  MaxAborts,      \* bound: runs canceled where nothing is released
  MaxPanel,       \* bound: force_release calls
  MaxReloads      \* bound: reloads that change the metric

ASSUME AdmissionAssumption ==
  /\ NoTask \notin Task
  /\ Route \in [Task -> Model]
  /\ SmartFallback \in BOOLEAN
  /\ MaxRequeues \in Nat /\ MaxAborts \in Nat
  /\ MaxPanel \in Nat /\ MaxReloads \in Nat

VARIABLES
  waiting,    \* tasks in the queue
  route,      \* resolved model of each task
  cur,        \* the task whose gate waits for an unload
  runTask, runModel, runPc,
  todo,       \* entries force_unload_for has still to look at
  victim,     \* the model whose provider is being asked to unload it
  requeues, aborts, panels, reloads

Unloader == {"scheduler", "panel"}

RunPc == {"idle", "start", "exec", "requeued", "finish"}

runVars    == <<runTask, runModel, runPc>>
unloadVars == <<todo, victim>>
bounds     == <<requeues, aborts, panels, reloads>>
vars == <<resourceVars, waiting, route, cur, runVars, unloadVars, bounds>>

TypeOK ==
  /\ ResourcesTypeOK
  /\ waiting \subseteq Task
  /\ route \in [Task -> Model]
  /\ cur \in Task \cup {NoTask}
  /\ runTask \in [Run -> Task \cup {NoTask}]
  /\ runModel \in [Run -> Model \cup {NoModel}]
  /\ runPc \in [Run -> RunPc]
  /\ todo \in [Unloader -> SUBSET Model]
  /\ victim \in [Unloader -> Model \cup {NoModel}]
  /\ requeues \in Nat /\ aborts \in Nat /\ panels \in Nat /\ reloads \in Nat

Init ==
  /\ ResourcesInit
  /\ waiting = Task
  /\ route = Route
  /\ cur = NoTask
  /\ runTask = [r \in Run |-> NoTask]
  /\ runModel = [r \in Run |-> NoModel]
  /\ runPc = [r \in Run |-> "idle"]
  /\ todo = [u \in Unloader |-> {}]
  /\ victim = [u \in Unloader |-> NoModel]
  /\ requeues = 0 /\ aborts = 0 /\ panels = 0 /\ reloads = 0

-----------------------------------------------------------------------------
(* The gates of Scheduler.run.                                               *)

Dispatch(r, t) ==
  /\ runPc[r] = "idle"
  /\ Reserve(t, route[t])
  /\ waiting' = waiting \ {t}
  /\ runTask' = [runTask EXCEPT ![r] = t]
  /\ runModel' = [runModel EXCEPT ![r] = route[t]]
  /\ runPc' = [runPc EXCEPT ![r] = "start"]
  /\ UNCHANGED <<route, unloadVars, bounds>>

Admissible(m) == IF Parallel(m) THEN ParallelAdmissible(m) ELSE SingleAdmissible(m)

NeedsUnload(m) == IF Parallel(m) THEN ParallelNeedsUnload(m) ELSE SingleNeedsUnload(m)

Admit(r, t) ==
  /\ cur = NoTask /\ t \in waiting
  /\ Admissible(route[t])
  /\ Dispatch(r, t)
  /\ UNCHANGED cur

(* force_unload_for goes to the next entry without a suspension in between. *)
Proceed(u, rest) ==
  \/ /\ rest = {}
     /\ todo' = [todo EXCEPT ![u] = {}]
     /\ victim' = [victim EXCEPT ![u] = NoModel]
  \/ \E m \in rest :
       /\ todo' = [todo EXCEPT ![u] = rest \ {m}]
       /\ victim' = [victim EXCEPT ![u] = m]

(* Mutant of AskUnload: the pass does not wait for the unload. *)
AskUnloadDetached(t) ==
  /\ cur = NoTask /\ t \in waiting
  /\ NeedsUnload(route[t])
  /\ ~HasConsumers
  /\ Proceed("scheduler", warm \ {route[t]})
  /\ UNCHANGED <<resourceVars, waiting, route, cur, runVars, bounds>>

(* force_unload_for: nothing while anybody holds a reservation, else the
   entries that are warm at this moment, one awaited call after the other. *)
AskUnload(t) ==
  /\ cur = NoTask /\ t \in waiting
  /\ NeedsUnload(route[t])
  /\ ~HasConsumers
  /\ cur' = t
  /\ Proceed("scheduler", warm \ {route[t]})
  /\ UNCHANGED <<resourceVars, waiting, route, runVars, bounds>>

Unloaded == victim["scheduler"] = NoModel

(* The check after the unload, which does not think of reuse. *)
AdmissibleNow(m) ==
  IF Parallel(m) THEN ParallelAdmissible(m) ELSE Fits(Need[m]) /\ SlotFree(m)

AdmitUnloaded(r) ==
  /\ cur # NoTask /\ Unloaded
  /\ AdmissibleNow(route[cur])
  /\ Dispatch(r, cur)
  /\ cur' = NoTask

DeferUnloaded ==
  /\ cur # NoTask /\ Unloaded
  /\ ~AdmissibleNow(route[cur])
  /\ cur' = NoTask
  /\ UNCHANGED <<resourceVars, waiting, route, runVars, unloadVars, bounds>>

-----------------------------------------------------------------------------
(* Unload loops, of the scheduler and of force_release.                      *)

PanelRelease ==
  /\ panels < MaxPanel
  /\ panels' = panels + 1
  /\ victim["panel"] = NoModel
  /\ ~HasConsumers
  /\ Proceed("panel", warm)
  /\ UNCHANGED <<resourceVars, waiting, route, cur, runVars, requeues, aborts,
                 reloads>>

(* Mutant of UnloadOk: the soft entry outlives its model. *)
UnloadOkKeepsSoft(u) ==
  /\ victim[u] # NoModel
  /\ Proceed(u, IF victim[u] \in Managed THEN {} ELSE todo[u])
  /\ UNCHANGED <<resourceVars, waiting, route, cur, runVars, bounds>>

(* Stopping a managed server ends the loop. *)
UnloadOk(u) ==
  /\ victim[u] # NoModel
  /\ ClearSoft(victim[u])
  /\ Proceed(u, IF victim[u] \in Managed THEN {} ELSE todo[u])
  /\ UNCHANGED <<waiting, route, cur, runVars, bounds>>

UnloadFailed(u) ==
  /\ victim[u] # NoModel
  /\ Proceed(u, todo[u])
  /\ UNCHANGED <<resourceVars, waiting, route, cur, runVars, bounds>>

-----------------------------------------------------------------------------
(* Scheduler._run_task.                                                      *)

RunStep(r, from, to) ==
  /\ runPc[r] = from
  /\ runPc' = [runPc EXCEPT ![r] = to]
  /\ UNCHANGED <<cur, runTask, runModel, unloadVars, aborts, panels, reloads>>

(* Mutant of RunBegin: a parallel start is counted again. *)
RunBeginCountsAll(r) ==
  /\ RunStep(r, "start", "exec")
  /\ StartModel(runModel[r])
  /\ UNCHANGED <<waiting, route, requeues>>

(* After mark_running; a parallel start was counted at the reservation. *)
RunBegin(r) ==
  /\ RunStep(r, "start", "exec")
  /\ IF Parallel(runModel[r]) THEN UNCHANGED resourceVars ELSE StartModel(runModel[r])
  /\ UNCHANGED <<waiting, route, requeues>>

(* The task is in the queue again before its old run gets to its finally. *)
RunRequeue(r) ==
  LET t == runTask[r] IN
  /\ RunStep(r, "exec", "requeued")
  /\ requeues < MaxRequeues
  /\ requeues' = requeues + 1
  /\ waiting' = waiting \cup {t}
  /\ \E m \in IF SmartFallback THEN Model ELSE {route[t]} :
       route' = [route EXCEPT ![t] = m]
  /\ UNCHANGED resourceVars

FreeRun(r) ==
  /\ runPc' = [runPc EXCEPT ![r] = "idle"]
  /\ runTask' = [runTask EXCEPT ![r] = NoTask]
  /\ runModel' = [runModel EXCEPT ![r] = NoModel]

(* The finally block; retain_model is false when a managed server failed to
   start. *)
RunReleaseSingle(r) ==
  /\ \E from \in {"exec", "requeued"} : RunStep(r, from, "finish")
  /\ ~Parallel(runModel[r])
  /\ \E retain \in {TRUE, runModel[r] \notin Managed} :
       ReleaseSingle(runTask[r], runModel[r], retain)
  /\ UNCHANGED <<waiting, route, requeues>>

(* After the activity record is written. *)
RunFinish(r) ==
  /\ runPc[r] = "finish"
  /\ FinishModel(runModel[r])
  /\ FreeRun(r)
  /\ UNCHANGED <<waiting, route, cur, unloadVars, bounds>>

RunReleaseParallel(r) ==
  /\ runPc[r] \in {"exec", "requeued"}
  /\ Parallel(runModel[r])
  /\ \E retain \in {TRUE, runModel[r] \notin Managed} :
       ReleaseParallel(runTask[r], runModel[r], retain)
  /\ FreeRun(r)
  /\ UNCHANGED <<waiting, route, cur, unloadVars, bounds>>

(* A cancellation or a Redis error in mark_running, before the try block, and
   a cancellation while the finally block writes the activity record. *)
RunAborted(r) ==
  /\ runPc[r] \in {"start", "finish"}
  /\ aborts < MaxAborts
  /\ aborts' = aborts + 1
  /\ FreeRun(r)
  /\ UNCHANGED <<resourceVars, waiting, route, cur, unloadVars, requeues,
                 panels, reloads>>

-----------------------------------------------------------------------------
SoftExpired(m) ==
  /\ Expire(m)
  /\ UNCHANGED <<waiting, route, cur, runVars, unloadVars, bounds>>

Reload ==
  /\ reloads < MaxReloads
  /\ reloads' = reloads + 1
  /\ DropMetric \/ AddMetric
  /\ UNCHANGED <<waiting, route, cur, runVars, unloadVars, requeues, aborts, panels>>

SchedNext ==
  \/ \E r \in Run, t \in Task : Admit(r, t)
  \/ \E t \in Task : AskUnload(t)
  \/ \E r \in Run : AdmitUnloaded(r)
  \/ DeferUnloaded

UnloadNext == \E u \in Unloader : UnloadOk(u) \/ UnloadFailed(u)

RunNext == \E r \in Run :
  \/ RunBegin(r) \/ RunRequeue(r) \/ RunReleaseSingle(r) \/ RunFinish(r)
  \/ RunReleaseParallel(r) \/ RunAborted(r)

Next ==
  \/ SchedNext \/ UnloadNext \/ RunNext
  \/ PanelRelease \/ Reload
  \/ \E m \in Model : SoftExpired(m)

Spec == Init /\ [][Next]_vars

(* The loop goes on, providers answer and runs end.  A task that can be admitted
   or can ask for an unload again and again gets to it, since every pass looks
   at every waiting task; a provider asked again and again unloads; retention
   windows end. *)
Fairness ==
  /\ \A t \in Task :
       SF_vars(AskUnload(t) \/ \E r \in Run : Admit(r, t))
  /\ WF_vars(DeferUnloaded \/ \E r \in Run : AdmitUnloaded(r))
  /\ \A u \in Unloader :
       /\ WF_vars(UnloadOk(u) \/ UnloadFailed(u))
       /\ SF_vars(UnloadOk(u))
  /\ \A r \in Run : WF_vars(RunBegin(r) \/ RunReleaseSingle(r)
                               \/ RunReleaseParallel(r) \/ RunFinish(r))
  /\ \A m \in Model : WF_vars(SoftExpired(m))

FairSpec == Spec /\ Fairness

-----------------------------------------------------------------------------
Running(r, m) == runPc[r] # "idle" /\ runModel[r] = m

RunsIn(m, pcs) == {r \in Run : runModel[r] = m /\ runPc[r] \in pcs}

Reserved == SumFunctionOnSet(held, Task) + SumFunctionOnSet(base, Model)

(* A model without concurrency never serves two requests: the slot holds from
   admission, through a load that takes minutes, until the release
   (resources.py:48-51, 351-382, scheduler.py:665-686). *)
OneRunPerModel ==
  \A r1, r2 \in Run : \A m \in Model :
    ~Parallel(m) /\ Running(r1, m) /\ Running(r2, m) => r1 = r2

(* A parallel model never serves more sessions than its maximum, and its base is
   reserved exactly once while it serves any (resources.py:519-592). *)
SessionsWithinMaximum ==
  \A m \in Model : Parallel(m) =>
    LET running == Cardinality(RunsIn(m, RunPc)) IN
    /\ running <= MaxConcurrent[m]
    /\ base[m] = IF running > 0 THEN Need[m] ELSE 0

(* What tasks hold and what idle models occupy fits into the memory together,
   whatever is reused, unloaded or expires in between
   (resource.py:347-399, resources.py:799-828). *)
MemoryNotOvercommitted == Reserved + SoftUsed <= Capacity

(* The used amount is the sum of the reservations (resource.py:542-656). *)
UsedIsReserved == used = Reserved

(* The counters that admission looks at are exact: no slot and no active count
   outlives its run (resources.py:335-382). *)
CountersExact == \A m \in Model :
  IF Parallel(m)
    THEN slots[m] = 0 /\ active[m] = Cardinality(RunsIn(m, RunPc))
    ELSE /\ slots[m] = Cardinality(RunsIn(m, {"start", "exec", "requeued"}))
         /\ active[m] = Cardinality(RunsIn(m, {"exec", "requeued", "finish"}))

(* No provider is asked to unload a model that a run has reserved
   (resources.py:609-622). *)
NeverStopBusy ==
  [][\A u \in Unloader : \A m \in Model :
       victim[u] # m /\ victim'[u] = m
         => RunsIn(m, {"start", "exec", "requeued"}) = {}]_vars

(* The idle model of a parallel provider stands in its own way: a session does
   not fit beside what is warm, it would if the others were unloaded, and nobody
   asks for that, because the check counts the others' idle models as if they
   stayed and its own as if it were gone (resource.py:566-590,
   resources.py:474-487).  Only models that no retention window ends are left. *)
Misjudged(t) ==
  LET m == route[t] IN
  /\ Parallel(m) /\ m \in warm
  /\ ~HasConsumers /\ warm \subseteq Managed
  /\ ~Fits(Session[m]) /\ ~FitsWithoutOthers(m)
  /\ used + Need[m] + Session[m] <= Limit

(* Every task gets its turn, whatever runs and is warm when it arrives: nobody's
   reservation, slot or idle model stays in its way for good.  The one exception
   is a task that is misjudged from some point on (scheduler.py:191-360). *)
EveryTaskServed ==
  \A t \in Task : []<>(t \notin waiting) \/ <>[]Misjudged(t)

-----------------------------------------------------------------------------
(* What the repository says of the code and the code does not do.            *)

(* resource.py:572: the requirement fits "after evicting idle models except this
   one", so a task that it would make room for is served. *)
ServedWhateverIsWarm == \A t \in Task : t \in waiting ~> t \notin waiting

(* resources.py:48-51: "A slot is held from scheduler admission until the task
   releases its resources, so a second task cannot pass". *)
SlotHeldUntilRelease ==
  \A r \in Run : \A m \in Model :
    ~Parallel(m) /\ runModel[r] = m /\ runPc[r] \in {"start", "exec", "requeued"}
      => slots[m] > 0

(* resources.py:81-83: "a reload must not throw away the memory a running task
   holds". *)
ReloadKeepsReservations == metric => used >= Reserved

(* scheduling.md:305: the finally block of a run releases its session or its
   plain reservation, so a task that has no run holds nothing. *)
ReservationEndsWithRun ==
  \A t \in Task : (\A r \in Run : runTask[r] # t) => held[t] = 0

(* resources.py:610: "Never stop a provider while a task still holds a
   reservation". *)
ProviderNotStoppedWhileReserved ==
  [][\A u \in Unloader :
       victim'[u] \notin {victim[u], NoModel} => ~HasConsumers]_vars
=============================================================================
