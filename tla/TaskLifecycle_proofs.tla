------------------------ MODULE TaskLifecycle_proofs ------------------------
(* Safety of TaskLifecycle for any set of tasks and of runner coroutines. *)
EXTENDS TaskLifecycle, TLAPS

(* A task nobody submitted yet has left no trace anywhere. *)
Fresh(t) ==
  /\ hash[t] = "none"
  /\ term[t] = "idle"
  /\ t \notin registry \cup zset \cup deferred
  /\ cur # t
  /\ cronVictim # t
  /\ \A r \in Run : runTask[r] # t

(* Control points agree with the data they need. *)
Control ==
  /\ cur \in Task <=> sched \in {"gate", "fail_commit", "readd_commit", "readd_register"}
  /\ \A r \in Run : runTask[r] \in Task <=> runPc[r] # "idle"
  /\ sched # "down" => recovering = {}
  /\ sched = "down" =>
       /\ deferred = {}
       /\ \A r \in Run : runPc[r] = "idle"
       /\ \A t \in Task : client[t] \in {"new", "gone"}
  /\ \A t \in Task : client[t] = "new" => Fresh(t)

(* At most one holder per task, pair by pair. *)
Exclusive ==
  /\ \A t \in Task : client[t] \in {"new", "add_commit"} =>
       /\ t \notin zset /\ t \notin deferred /\ ~SchedHolds(t)
       /\ \A r \in Run : ~RunHolds(r, t)
  /\ \A t \in zset :
       /\ t \notin deferred /\ ~SchedHolds(t)
       /\ \A r \in Run : ~RunHolds(r, t)
  /\ \A t \in deferred : ~SchedHolds(t) /\ \A r \in Run : ~RunHolds(r, t)
  /\ \A t \in Task : SchedHolds(t) => \A r \in Run : ~RunHolds(r, t)
  /\ \A r1, r2 \in Run : \A t \in Task :
       RunHolds(r1, t) /\ RunHolds(r2, t) => r1 = r2

Inv == TypeOK /\ Control /\ Exclusive

LEMMA BooleanUpdate ==
  ASSUME NEW S, NEW f \in [S -> BOOLEAN], NEW x, NEW b \in BOOLEAN
  PROVE  [f EXCEPT ![x] = b] \in [S -> BOOLEAN]
  BY Zenon

LEMMA InitInv == Init => Inv
  BY NoTaskAssumption
  DEF Init, QueueInit, Inv, TypeOK, QueueTypeOK, Control, Exclusive, Fresh,
      SchedHolds, RunHolds, ClientPc, SchedPc, RunPc, TermPc, Status, Waiting,
      Terminal

(* Submission of a task. *)
LEMMA ClientInv ==
  ASSUME Inv, NEW t \in Task,
         \/ ClientSubmit(t)
         \/ ClientCommit(t)
         \/ ClientRegister(t)
  PROVE  Inv'
<1> USE NoTaskAssumption
    DEF Inv, TypeOK, QueueTypeOK, Control, Exclusive, Fresh, SchedHolds,
        RunHolds, ClientPc, SchedPc, RunPc, TermPc, Status, Waiting, Terminal,
        queueVars, schedVars, runVars, cronVars, bounds, crashVars, Up,
        ClientStep, AddIssue, AddCommit, AddRegister
<1>1. CASE ClientSubmit(t) BY <1>1 DEF ClientSubmit
<1>2. CASE ClientCommit(t) BY <1>2 DEF ClientCommit
<1>3. CASE ClientRegister(t) BY <1>3 DEF ClientRegister
<1> QED BY <1>1, <1>2, <1>3

(* A handler leaves and starts the deletion. *)
LEMMA LeaveInv ==
  ASSUME Inv, NEW t \in Task,
         \/ ClientAnswered(t)
         \/ ClientDisconnect(t)
         \/ ClientLeave(t)
  PROVE  Inv'
<1> USE NoTaskAssumption
    DEF Inv, TypeOK, QueueTypeOK, Control, Exclusive, Fresh, SchedHolds,
        RunHolds, ClientPc, SchedPc, RunPc, TermPc, Status, Waiting, Terminal,
        queueVars, schedVars, runVars, cronVars, bounds, crashVars, Up,
        ClientStep, StartDelete, DeleteIssue, DeleteRest
<1>1. CASE ClientAnswered(t) BY <1>1 DEF ClientAnswered
<1>2. CASE ClientDisconnect(t) BY <1>2 DEF ClientDisconnect
<1>3. CASE ClientLeave(t) BY <1>3 DEF ClientLeave
<1> QED BY <1>1, <1>2, <1>3

(* A call of terminate_task. *)
LEMMA TerminateInv ==
  ASSUME Inv, NEW t \in Task,
         \/ ClientTimeout(t)
         \/ OperatorTerminate(t)
  PROVE  Inv'
<1> USE NoTaskAssumption
    DEF Inv, TypeOK, QueueTypeOK, Control, Exclusive, Fresh, SchedHolds,
        RunHolds, ClientPc, SchedPc, RunPc, TermPc, Status, Waiting, Terminal,
        queueVars, schedVars, runVars, cronVars, bounds, crashVars, Up,
        Terminate, TerminateWaiting, TerminateRunning,
        TerminatePersisted, TerminateNothing, FinishIssue, RunsOf
<1>1. CASE ClientTimeout(t)
  <2>1. CASE TerminateWaiting(t) BY <1>1, <2>1 DEF ClientTimeout
  <2>2. CASE TerminateRunning(t)
    <3>1. TypeOK'
      <4>1. runCancel' \in [Run -> BOOLEAN] BY <1>1, <2>2 DEF ClientTimeout
      <4> QED BY <1>1, <2>2, <4>1 DEF ClientTimeout
    <3>2. Control' BY <1>1, <2>2 DEF ClientTimeout
    <3>3. Exclusive' BY <1>1, <2>2 DEF ClientTimeout
    <3> QED BY <3>1, <3>2, <3>3 DEF Inv
  <2>3. CASE TerminatePersisted(t) BY <1>1, <2>3 DEF ClientTimeout
  <2>4. CASE TerminateNothing(t) BY <1>1, <2>4 DEF ClientTimeout
  <2> QED BY <1>1, <2>1, <2>2, <2>3, <2>4 DEF ClientTimeout
<1>2. CASE OperatorTerminate(t)
  <2>1. CASE TerminateWaiting(t) BY <1>2, <2>1 DEF OperatorTerminate
  <2>2. CASE TerminateRunning(t)
    <3>1. TypeOK'
      <4>1. runCancel' \in [Run -> BOOLEAN] BY <1>2, <2>2 DEF OperatorTerminate
      <4> QED BY <1>2, <2>2, <4>1 DEF OperatorTerminate
    <3>2. Control' BY <1>2, <2>2 DEF OperatorTerminate
    <3>3. Exclusive' BY <1>2, <2>2 DEF OperatorTerminate
    <3> QED BY <3>1, <3>2, <3>3 DEF Inv
  <2>3. CASE TerminatePersisted(t) BY <1>2, <2>3 DEF OperatorTerminate
  <2>4. CASE TerminateNothing(t) BY <1>2, <2>4 DEF OperatorTerminate
  <2> QED BY <1>2, <2>1, <2>2, <2>3, <2>4 DEF OperatorTerminate
<1> QED BY <1>1, <1>2

(* The continuations of terminate_task and delete_task. *)
LEMMA TermInv ==
  ASSUME Inv, NEW t \in Task,
         \/ TermCancelCommit(t)
         \/ TermDetachedCommit(t)
         \/ TermWaited(t)
         \/ TermDelete(t)
         \/ TermDeleteHset(t)
         \/ TermDeleteZrem(t)
         \/ TermDeleteHash(t)
  PROVE  Inv'
<1> USE NoTaskAssumption
    DEF Inv, TypeOK, QueueTypeOK, Control, Exclusive, Fresh, SchedHolds,
        RunHolds, ClientPc, SchedPc, RunPc, TermPc, Status, Waiting, Terminal,
        queueVars, schedVars, runVars, cronVars, bounds, crashVars, Up,
        TermStep, FinishCommit, DetachedCancel,
        DeleteIssue, DeleteRest, DeleteHset, DeleteZrem, DeleteHash
<1>1. CASE TermCancelCommit(t) BY <1>1 DEF TermCancelCommit
<1>2. CASE TermDetachedCommit(t) BY <1>2 DEF TermDetachedCommit
<1>3. CASE TermWaited(t) BY <1>3 DEF TermWaited
<1>4. CASE TermDelete(t) BY <1>4 DEF TermDelete
<1>5. CASE TermDeleteHset(t) BY <1>5 DEF TermDeleteHset
<1>6. CASE TermDeleteZrem(t) BY <1>6 DEF TermDeleteZrem
<1>7. CASE TermDeleteHash(t) BY <1>7 DEF TermDeleteHash
<1> QED BY <1>1, <1>2, <1>3, <1>4, <1>5, <1>6, <1>7

(* The scheduler takes a task out of the queue or re-adds one. *)
LEMMA PopInv ==
  ASSUME Inv, NEW t \in Task,
         \/ PopUnknown(t)
         \/ PopKnown(t)
         \/ PopExpired(t)
         \/ ReaddIssue(t)
  PROVE  Inv'
<1> USE NoTaskAssumption
    DEF Inv, TypeOK, QueueTypeOK, Control, Exclusive, Fresh, SchedHolds,
        RunHolds, ClientPc, SchedPc, RunPc, TermPc, Status, Waiting, Terminal,
        queueVars, schedVars, runVars, cronVars, bounds, crashVars, Up,
        SchedStep, Pop, AddIssue
<1>1. CASE PopUnknown(t) BY <1>1 DEF PopUnknown
<1>2. CASE PopKnown(t) BY <1>2 DEF PopKnown
<1>3. CASE PopExpired(t) BY <1>3 DEF PopExpired
<1>4. CASE ReaddIssue(t) BY <1>4 DEF ReaddIssue
<1> QED BY <1>1, <1>2, <1>3, <1>4

(* The rest of a scheduler pass. *)
LEMMA PassInv ==
  ASSUME Inv,
         \/ FailCommit
         \/ GateDefer
         \/ GateFail
         \/ QueueDrained
         \/ ReaddCommit
         \/ ReaddRegister
         \/ PassDone
  PROVE  Inv'
<1> USE NoTaskAssumption
    DEF Inv, TypeOK, QueueTypeOK, Control, Exclusive, Fresh, SchedHolds,
        RunHolds, ClientPc, SchedPc, RunPc, TermPc, Status, Waiting, Terminal,
        queueVars, schedVars, runVars, cronVars, bounds, crashVars, Up,
        SchedStep, FinishIssue, FinishCommit, AddCommit, AddRegister
<1>1. CASE FailCommit BY <1>1 DEF FailCommit
<1>2. CASE GateDefer BY <1>2 DEF GateDefer
<1>3. CASE QueueDrained BY <1>3 DEF QueueDrained
<1>4. CASE ReaddCommit BY <1>4 DEF ReaddCommit
<1>5. CASE ReaddRegister BY <1>5 DEF ReaddRegister
<1>6. CASE PassDone BY <1>6 DEF PassDone
<1>7. CASE GateFail BY <1>7 DEF GateFail
<1> QED BY <1>1, <1>2, <1>3, <1>4, <1>5, <1>6, <1>7

(* The task in hand becomes a run. *)
LEMMA DispatchInv ==
  ASSUME Inv, NEW r \in Run,
         \/ GateDispatch(r)
  PROVE  Inv'
<1> USE NoTaskAssumption
    DEF Inv, TypeOK, QueueTypeOK, Control, Exclusive, Fresh, SchedHolds,
        RunHolds, ClientPc, SchedPc, RunPc, TermPc, Status, Waiting, Terminal,
        queueVars, schedVars, runVars, cronVars, bounds, crashVars, Up,
        SchedStep
<1>1. CASE GateDispatch(r) BY <1>1 DEF GateDispatch
<1> QED BY <1>1

(* The steps of _run_task. *)
LEMMA RunInv ==
  ASSUME Inv, NEW r \in Run,
         \/ RunStart(r)
         \/ RunMarked(r)
         \/ RunFinish(r)
         \/ RunFinished(r)
         \/ RunRequeue(r)
         \/ RunRequeueCommit(r)
         \/ RunRequeued(r)
         \/ RunReleased(r)
         \/ RunAborted(r)
         \/ RunCanceled(r)
  PROVE  Inv'
<1> USE NoTaskAssumption
    DEF Inv, TypeOK, QueueTypeOK, Control, Exclusive, Fresh, SchedHolds,
        RunHolds, ClientPc, SchedPc, RunPc, TermPc, Status, Waiting, Terminal,
        queueVars, schedVars, runVars, cronVars, bounds, crashVars, Up,
        RunStep, NoRequeue, Requeue, RunningIssue, RunningCommit, FinishIssue,
        FinishCommit, AddIssue, AddCommit, AddRegister, FreeRun
<1>1. CASE RunStart(r)
  <2>1. CASE runTask[r] \in registry
    <3>1. TypeOK'
      <4>1. started' \in [Task -> BOOLEAN]
        <5>1. started' = [started EXCEPT ![runTask[r]] = TRUE]
          BY <1>1, <2>1 DEF RunStart
        <5>2. started \in [Task -> BOOLEAN] OBVIOUS
        <5> QED BY ONLY <5>1, <5>2, BooleanUpdate
      <4> QED BY <1>1, <2>1, <4>1 DEF RunStart
    <3>2. Control' BY <1>1, <2>1 DEF RunStart
    <3>3. Exclusive' BY <1>1, <2>1 DEF RunStart
    <3> QED BY <3>1, <3>2, <3>3 DEF Inv
  <2>2. CASE runTask[r] \notin registry BY <1>1, <2>2 DEF RunStart
  <2> QED BY <2>1, <2>2
<1>2. CASE RunMarked(r) BY <1>2 DEF RunMarked
<1>3. CASE RunFinish(r) BY <1>3 DEF RunFinish
<1>4. CASE RunFinished(r)
  <2>1. CASE runPc[r] = "completing"
    <3>1. TypeOK'
      <4>1. done' \in [Task -> BOOLEAN] BY <1>4, <2>1 DEF RunFinished
      <4> QED BY <1>4, <2>1, <4>1 DEF RunFinished
    <3>2. Control' BY <1>4, <2>1 DEF RunFinished
    <3>3. Exclusive' BY <1>4, <2>1 DEF RunFinished
    <3> QED BY <3>1, <3>2, <3>3 DEF Inv
  <2>2. CASE runPc[r] \in {"failing", "mark_failed"}
    <3>1. TypeOK'
      <4>1. done' \in [Task -> BOOLEAN] BY <1>4, <2>2 DEF RunFinished
      <4> QED BY <1>4, <2>2, <4>1 DEF RunFinished
    <3>2. Control' BY <1>4, <2>2 DEF RunFinished
    <3>3. Exclusive' BY <1>4, <2>2 DEF RunFinished
    <3> QED BY <3>1, <3>2, <3>3 DEF Inv
  <2>3. CASE runPc[r] \in {"canceling", "mark_canceled"}
    <3>1. TypeOK'
      <4>1. done' \in [Task -> BOOLEAN] BY <1>4, <2>3 DEF RunFinished
      <4> QED BY <1>4, <2>3, <4>1 DEF RunFinished
    <3>2. Control' BY <1>4, <2>3 DEF RunFinished
    <3>3. Exclusive' BY <1>4, <2>3 DEF RunFinished
    <3> QED BY <3>1, <3>2, <3>3 DEF Inv
  <2> QED BY <1>4, <2>1, <2>2, <2>3 DEF RunFinished
<1>5. CASE RunRequeue(r) BY <1>5 DEF RunRequeue
<1>6. CASE RunRequeueCommit(r) BY <1>6 DEF RunRequeueCommit
<1>7. CASE RunRequeued(r) BY <1>7 DEF RunRequeued
<1>8. CASE RunReleased(r) BY <1>8 DEF RunReleased
<1>9. CASE RunAborted(r) BY <1>9 DEF RunAborted
<1>10. CASE RunCanceled(r) BY <1>10 DEF RunCanceled
<1> QED BY <1>1, <1>2, <1>3, <1>4, <1>5, <1>6, <1>7, <1>8, <1>9, <1>10

(* The maintenance process. *)
LEMMA CronInv ==
  ASSUME Inv,
         \/ CronStart
         \/ CronReap
  PROVE  Inv'
<1> USE NoTaskAssumption
    DEF Inv, TypeOK, QueueTypeOK, Control, Exclusive, Fresh, SchedHolds,
        RunHolds, ClientPc, SchedPc, RunPc, TermPc, Status, Waiting, Terminal,
        queueVars, schedVars, runVars, cronVars, bounds, crashVars, Up,
        CronStep
<1>1. CASE CronStart BY <1>1 DEF CronStart
<1>2. CASE CronReap BY <1>2 DEF CronReap
<1> QED BY <1>1, <1>2

(* The maintenance process, one hash. *)
LEMMA CronTaskInv ==
  ASSUME Inv, NEW t \in Task,
         \/ CronScan(t)
         \/ CronStale(t)
         \/ CronExpire(t)
  PROVE  Inv'
<1> USE NoTaskAssumption
    DEF Inv, TypeOK, QueueTypeOK, Control, Exclusive, Fresh, SchedHolds,
        RunHolds, ClientPc, SchedPc, RunPc, TermPc, Status, Waiting, Terminal,
        queueVars, schedVars, runVars, cronVars, bounds, crashVars, Up,
        CronStep
<1>1. CASE CronScan(t) BY <1>1 DEF CronScan
<1>2. CASE CronStale(t) BY <1>2 DEF CronStale
<1>3. CASE CronExpire(t) BY <1>3 DEF CronExpire
<1> QED BY <1>1, <1>2, <1>3

(* The crash and the end of the recovery. *)
LEMMA CrashInv ==
  ASSUME Inv,
         \/ Crash
         \/ Recovered
  PROVE  Inv'
<1> USE NoTaskAssumption
    DEF Inv, TypeOK, QueueTypeOK, Control, Exclusive, Fresh, SchedHolds,
        RunHolds, ClientPc, SchedPc, RunPc, TermPc, Status, Waiting, Terminal,
        queueVars, schedVars, runVars, cronVars, bounds, crashVars, Up,
        Executing
<1>1. CASE Crash BY <1>1 DEF Crash
<1>2. CASE Recovered BY <1>2 DEF Recovered
<1> QED BY <1>1, <1>2

(* The recovery of one id. *)
LEMMA RecoverInv ==
  ASSUME Inv, NEW t \in Task,
         \/ Recover(t)
  PROVE  Inv'
<1> USE NoTaskAssumption
    DEF Inv, TypeOK, QueueTypeOK, Control, Exclusive, Fresh, SchedHolds,
        RunHolds, ClientPc, SchedPc, RunPc, TermPc, Status, Waiting, Terminal,
        queueVars, schedVars, runVars, cronVars, bounds, crashVars, Up,
        RecoverQueued, RecoverOther
<1>1. CASE Recover(t)
  <2>1. CASE RecoverQueued(t)
    <3>1. TypeOK'
      <4>1. started' \in [Task -> BOOLEAN]
        <5>1. PICK p \in {FALSE, started[t]} : started' = [started EXCEPT ![t] = p]
          BY <2>1
        <5>2. started \in [Task -> BOOLEAN] OBVIOUS
        <5>3. p \in BOOLEAN BY <5>2, Zenon
        <5> QED BY ONLY <5>1, <5>2, <5>3, BooleanUpdate
      <4> QED BY <1>1, <2>1, <4>1 DEF Recover
    <3>2. Control' BY <1>1, <2>1 DEF Recover
    <3>3. Exclusive' BY <1>1, <2>1 DEF Recover
    <3> QED BY <3>1, <3>2, <3>3 DEF Inv
  <2>2. CASE RecoverOther(t) BY <1>1, <2>2 DEF Recover
  <2> QED BY <1>1, <2>1, <2>2 DEF Recover
<1> QED BY <1>1

(* A Redis command that raises in a handler or in the scheduler. *)
LEMMA FaultInv ==
  ASSUME Inv,
         \/ \E t \in Task : AddRefused(t) \/ TermBroken(t)
         \/ SchedulerDies
  PROVE  Inv'
<1> USE NoTaskAssumption
    DEF Inv, TypeOK, QueueTypeOK, Control, Exclusive, Fresh, SchedHolds,
        RunHolds, ClientPc, SchedPc, RunPc, TermPc, Status,
        Waiting, Terminal, queueVars, schedVars,
        runVars, cronVars, bounds, crashVars, Up, Fault
<1>1. ASSUME NEW t \in Task, AddRefused(t) PROVE Inv' BY <1>1 DEF AddRefused
<1>2. ASSUME NEW t \in Task, TermBroken(t) PROVE Inv' BY <1>2 DEF TermBroken
<1>3. CASE SchedulerDies BY <1>3 DEF SchedulerDies
<1> QED BY <1>1, <1>2, <1>3

(* A Redis command that raises in a run. *)
LEMMA RunFaultInv ==
  ASSUME Inv, NEW r \in Run,
         \/ MarkRunningBroken(r)
         \/ FinishBroken(r)
         \/ MarkBroken(r)
  PROVE  Inv'
<1> USE NoTaskAssumption
    DEF Inv, TypeOK, QueueTypeOK, Control, Exclusive, Fresh, SchedHolds,
        RunHolds, ClientPc, SchedPc, RunPc, TermPc, Status,
        Waiting, Terminal, queueVars, schedVars,
        runVars, cronVars, bounds, crashVars, Up, Fault,
        RunStep, Requeue, AddIssue, FinishIssue, FreeRun
<1>1. CASE MarkRunningBroken(r) BY <1>1 DEF MarkRunningBroken
<1>2. CASE FinishBroken(r) BY <1>2 DEF FinishBroken
<1>3. CASE MarkBroken(r) BY <1>3 DEF MarkBroken
<1> QED BY <1>1, <1>2, <1>3

LEMMA StutterInv == ASSUME Inv, UNCHANGED vars PROVE Inv'
  BY DEF vars, Inv, TypeOK, QueueTypeOK, Control, Exclusive, Fresh, SchedHolds,
         RunHolds, queueVars, schedVars, runVars, cronVars, bounds, crashVars

LEMMA NextInv == Inv /\ [Next]_vars => Inv'
<1> SUFFICES ASSUME Inv, [Next]_vars PROVE Inv'
  OBVIOUS
<1>1. CASE ClientNext
  BY <1>1, ClientInv, LeaveInv, TerminateInv DEF ClientNext
<1>2. CASE TermNext
  BY <1>2, TermInv DEF TermNext
<1>3. CASE SchedNext
  BY <1>3, PopInv, PassInv, DispatchInv DEF SchedNext
<1>4. CASE RunNext
  BY <1>4, RunInv DEF RunNext
<1>5. CASE CronNext
  BY <1>5, CronInv, CronTaskInv DEF CronNext
<1>6. CASE CrashNext
  BY <1>6, CrashInv, RecoverInv DEF CrashNext
<1>7. CASE FaultNext
  BY <1>7, FaultInv, RunFaultInv DEF FaultNext
<1>8. CASE UNCHANGED vars
  BY <1>8, StutterInv
<1> QED BY <1>1, <1>2, <1>3, <1>4, <1>5, <1>6, <1>7, <1>8 DEF Next

LEMMA Invariance == Spec => []Inv
  BY InitInv, NextInv, PTL DEF Spec

(* Every variable of the task service keeps its type. *)
THEOREM TypeCorrect == Spec => []TypeOK
<1>1. Inv => TypeOK
  BY DEF Inv
<1> QED BY <1>1, Invariance, PTL

(* However many runs, retries, cancellations, deferrals, deletions and crashes
   there are, one task is never executed by two workers at once. *)
THEOREM ExecutionIsExclusive == Spec => []AtMostOneExecution
<1>1. Inv => AtMostOneExecution
  BY DEF Inv, Control, Exclusive, RunHolds, AtMostOneExecution, TypeOK
<1> QED BY <1>1, Invariance, PTL

(* What a scheduler pass holds is in nobody else's queue. *)
THEOREM PassOwnership == Spec => []PassOwnsItsTasks
<1>1. Inv => PassOwnsItsTasks
  BY DEF Inv, Exclusive, PassOwnsItsTasks
<1> QED BY <1>1, Invariance, PTL

-----------------------------------------------------------------------------
(* A crash cannot lead to a replay, because a task in a worker has neither a *)
(* queue entry nor a queued hash.                                            *)

ExecNotQueued ==
  \A r \in Run : \A t \in Task :
    runTask[r] = t /\ runPc[r] = "exec" => hash[t] # "queued"

Replay == ExecNotQueued /\ InterruptedNotReplayed

LEMMA ReplayInit == Init => Replay
  BY DEF Init, QueueInit, Replay, ExecNotQueued, InterruptedNotReplayed

LEMMA ClientReplay ==
  ASSUME Inv, Replay, NEW t \in Task,
         \/ ClientSubmit(t)
         \/ ClientCommit(t)
         \/ ClientRegister(t)
         \/ ClientAnswered(t)
         \/ ClientDisconnect(t)
         \/ ClientLeave(t)
  PROVE  Replay'
<1> USE NoTaskAssumption
    DEF Inv, TypeOK, QueueTypeOK, Control, Exclusive, Fresh, SchedHolds,
        RunHolds, Holds, Replay, ExecNotQueued, InterruptedNotReplayed,
        queueVars, schedVars, runVars, cronVars, bounds, crashVars, Up,
        ClientStep, AddIssue, AddCommit, AddRegister,
        StartDelete, DeleteIssue, DeleteRest
<1>1. CASE ClientSubmit(t) BY <1>1 DEF ClientSubmit
<1>2. CASE ClientCommit(t) BY <1>2 DEF ClientCommit
<1>3. CASE ClientRegister(t) BY <1>3 DEF ClientRegister
<1>4. CASE ClientAnswered(t) BY <1>4 DEF ClientAnswered
<1>5. CASE ClientDisconnect(t) BY <1>5 DEF ClientDisconnect
<1>6. CASE ClientLeave(t) BY <1>6 DEF ClientLeave
<1> QED BY <1>1, <1>2, <1>3, <1>4, <1>5, <1>6

LEMMA TerminateReplay ==
  ASSUME Inv, Replay, NEW t \in Task,
         \/ ClientTimeout(t)
         \/ OperatorTerminate(t)
  PROVE  Replay'
<1> USE NoTaskAssumption
    DEF Inv, TypeOK, QueueTypeOK, Control, Exclusive, Fresh, SchedHolds,
        RunHolds, Holds, Replay, ExecNotQueued, InterruptedNotReplayed,
        queueVars, schedVars, runVars, cronVars, bounds, crashVars, Up,
        Terminate, TerminateWaiting, TerminateRunning,
        TerminatePersisted, TerminateNothing, FinishIssue, RunsOf
<1>1. CASE ClientTimeout(t) BY <1>1 DEF ClientTimeout
<1>2. CASE OperatorTerminate(t) BY <1>2 DEF OperatorTerminate
<1> QED BY <1>1, <1>2

LEMMA TermReplay ==
  ASSUME Inv, Replay, NEW t \in Task,
         \/ TermCancelCommit(t)
         \/ TermDetachedCommit(t)
         \/ TermWaited(t)
         \/ TermDelete(t)
         \/ TermDeleteHset(t)
         \/ TermDeleteZrem(t)
         \/ TermDeleteHash(t)
  PROVE  Replay'
<1> USE NoTaskAssumption
    DEF Inv, TypeOK, QueueTypeOK, Control, Exclusive, Fresh, SchedHolds,
        RunHolds, Holds, Replay, ExecNotQueued, InterruptedNotReplayed,
        queueVars, schedVars, runVars, cronVars, bounds, crashVars, Up,
        TermStep, FinishCommit, DetachedCancel,
        DeleteIssue, DeleteRest, DeleteHset, DeleteZrem, DeleteHash
<1>1. CASE TermCancelCommit(t) BY <1>1 DEF TermCancelCommit
<1>2. CASE TermDetachedCommit(t) BY <1>2 DEF TermDetachedCommit
<1>3. CASE TermWaited(t) BY <1>3 DEF TermWaited
<1>4. CASE TermDelete(t) BY <1>4 DEF TermDelete
<1>5. CASE TermDeleteHset(t) BY <1>5 DEF TermDeleteHset
<1>6. CASE TermDeleteZrem(t) BY <1>6 DEF TermDeleteZrem
<1>7. CASE TermDeleteHash(t) BY <1>7 DEF TermDeleteHash
<1> QED BY <1>1, <1>2, <1>3, <1>4, <1>5, <1>6, <1>7

LEMMA PopReplay ==
  ASSUME Inv, Replay, NEW t \in Task,
         \/ PopUnknown(t)
         \/ PopKnown(t)
         \/ PopExpired(t)
         \/ ReaddIssue(t)
  PROVE  Replay'
<1> USE NoTaskAssumption
    DEF Inv, TypeOK, QueueTypeOK, Control, Exclusive, Fresh, SchedHolds,
        RunHolds, Holds, Replay, ExecNotQueued, InterruptedNotReplayed,
        queueVars, schedVars, runVars, cronVars, bounds, crashVars, Up,
        SchedStep, Pop, AddIssue
<1>1. CASE PopUnknown(t) BY <1>1 DEF PopUnknown
<1>2. CASE PopKnown(t) BY <1>2 DEF PopKnown
<1>3. CASE PopExpired(t) BY <1>3 DEF PopExpired
<1>4. CASE ReaddIssue(t) BY <1>4 DEF ReaddIssue
<1> QED BY <1>1, <1>2, <1>3, <1>4

LEMMA PassReplay ==
  ASSUME Inv, Replay,
         \/ FailCommit
         \/ GateDefer
         \/ GateFail
         \/ QueueDrained
         \/ ReaddCommit
         \/ ReaddRegister
         \/ PassDone
  PROVE  Replay'
<1> USE NoTaskAssumption
    DEF Inv, TypeOK, QueueTypeOK, Control, Exclusive, Fresh, SchedHolds,
        RunHolds, Holds, Replay, ExecNotQueued, InterruptedNotReplayed,
        queueVars, schedVars, runVars, cronVars, bounds, crashVars, Up,
        SchedStep, FinishIssue, FinishCommit, AddCommit, AddRegister
<1>1. CASE FailCommit BY <1>1 DEF FailCommit
<1>2. CASE GateDefer BY <1>2 DEF GateDefer
<1>3. CASE QueueDrained BY <1>3 DEF QueueDrained
<1>4. CASE ReaddCommit BY <1>4 DEF ReaddCommit
<1>5. CASE ReaddRegister BY <1>5 DEF ReaddRegister
<1>6. CASE PassDone BY <1>6 DEF PassDone
<1>7. CASE GateFail BY <1>7 DEF GateFail
<1> QED BY <1>1, <1>2, <1>3, <1>4, <1>5, <1>6, <1>7

LEMMA DispatchReplay ==
  ASSUME Inv, Replay, NEW r \in Run,
         \/ GateDispatch(r)
  PROVE  Replay'
<1> USE NoTaskAssumption
    DEF Inv, TypeOK, QueueTypeOK, Control, Exclusive, Fresh, SchedHolds,
        RunHolds, Holds, Replay, ExecNotQueued, InterruptedNotReplayed,
        queueVars, schedVars, runVars, cronVars, bounds, crashVars, Up,
        SchedStep
<1>1. CASE GateDispatch(r) BY <1>1 DEF GateDispatch
<1> QED BY <1>1

LEMMA RunReplay ==
  ASSUME Inv, Replay, NEW r \in Run,
         \/ RunStart(r)
         \/ RunMarked(r)
         \/ RunFinish(r)
         \/ RunFinished(r)
         \/ RunRequeue(r)
         \/ RunRequeueCommit(r)
         \/ RunRequeued(r)
         \/ RunReleased(r)
         \/ RunAborted(r)
         \/ RunCanceled(r)
  PROVE  Replay'
<1> USE NoTaskAssumption
    DEF Inv, TypeOK, QueueTypeOK, Control, Exclusive, Fresh, SchedHolds,
        RunHolds, Holds, Replay, ExecNotQueued, InterruptedNotReplayed,
        queueVars, schedVars, runVars, cronVars, bounds, crashVars, Up,
        RunStep, NoRequeue, Requeue, RunningIssue, RunningCommit, FinishIssue,
        FinishCommit, AddIssue, AddCommit, AddRegister, FreeRun
<1>1. CASE RunStart(r) BY <1>1 DEF RunStart
<1>2. CASE RunMarked(r) BY <1>2 DEF RunMarked
<1>3. CASE RunFinish(r) BY <1>3 DEF RunFinish
<1>4. CASE RunFinished(r) BY <1>4 DEF RunFinished
<1>5. CASE RunRequeue(r) BY <1>5 DEF RunRequeue
<1>6. CASE RunRequeueCommit(r) BY <1>6 DEF RunRequeueCommit
<1>7. CASE RunRequeued(r) BY <1>7 DEF RunRequeued
<1>8. CASE RunReleased(r) BY <1>8 DEF RunReleased
<1>9. CASE RunAborted(r) BY <1>9 DEF RunAborted
<1>10. CASE RunCanceled(r) BY <1>10 DEF RunCanceled
<1> QED BY <1>1, <1>2, <1>3, <1>4, <1>5, <1>6, <1>7, <1>8, <1>9, <1>10

LEMMA CronReplay ==
  ASSUME Inv, Replay,
         \/ CronStart
         \/ CronReap
  PROVE  Replay'
<1> USE NoTaskAssumption
    DEF Inv, TypeOK, QueueTypeOK, Control, Exclusive, Fresh, SchedHolds,
        RunHolds, Holds, Replay, ExecNotQueued, InterruptedNotReplayed,
        queueVars, schedVars, runVars, cronVars, bounds, crashVars, Up,
        CronStep
<1>1. CASE CronStart BY <1>1 DEF CronStart
<1>2. CASE CronReap BY <1>2 DEF CronReap
<1> QED BY <1>1, <1>2

LEMMA CronTaskReplay ==
  ASSUME Inv, Replay, NEW t \in Task,
         \/ CronScan(t)
         \/ CronStale(t)
         \/ CronExpire(t)
  PROVE  Replay'
<1> USE NoTaskAssumption
    DEF Inv, TypeOK, QueueTypeOK, Control, Exclusive, Fresh, SchedHolds,
        RunHolds, Holds, Replay, ExecNotQueued, InterruptedNotReplayed,
        queueVars, schedVars, runVars, cronVars, bounds, crashVars, Up,
        CronStep
<1>1. CASE CronScan(t) BY <1>1 DEF CronScan
<1>2. CASE CronStale(t) BY <1>2 DEF CronStale
<1>3. CASE CronExpire(t) BY <1>3 DEF CronExpire
<1> QED BY <1>1, <1>2, <1>3

LEMMA CrashReplay ==
  ASSUME Inv, Replay,
         \/ Crash
         \/ Recovered
  PROVE  Replay'
<1> USE NoTaskAssumption
    DEF Inv, TypeOK, QueueTypeOK, Control, Exclusive, Fresh, SchedHolds,
        RunHolds, Holds, Replay, ExecNotQueued, InterruptedNotReplayed,
        queueVars, schedVars, runVars, cronVars, bounds, crashVars, Up,
        Executing
<1>1. CASE Crash BY <1>1 DEF Crash
<1>2. CASE Recovered BY <1>2 DEF Recovered
<1> QED BY <1>1, <1>2

LEMMA RecoverReplay ==
  ASSUME Inv, Replay, NEW t \in Task,
         \/ Recover(t)
  PROVE  Replay'
<1> USE NoTaskAssumption
    DEF Inv, TypeOK, QueueTypeOK, Control, Exclusive, Fresh, SchedHolds,
        RunHolds, Holds, Replay, ExecNotQueued, InterruptedNotReplayed,
        queueVars, schedVars, runVars, cronVars, bounds, crashVars, Up,
        RecoverQueued, RecoverOther
<1>1. CASE Recover(t) BY <1>1 DEF Recover
<1> QED BY <1>1

(* A Redis command that raises in a handler or in the scheduler. *)
LEMMA FaultReplay ==
  ASSUME Inv, Replay,
         \/ \E t \in Task : AddRefused(t) \/ TermBroken(t)
         \/ SchedulerDies
  PROVE  Replay'
<1> USE NoTaskAssumption
    DEF Inv, TypeOK, QueueTypeOK, Control, Exclusive, Fresh, SchedHolds,
        RunHolds, Holds, Replay, ExecNotQueued, InterruptedNotReplayed,
        queueVars, schedVars,
        runVars, cronVars, bounds, crashVars, Up, Fault
<1>1. ASSUME NEW t \in Task, AddRefused(t) PROVE Replay' BY <1>1 DEF AddRefused
<1>2. ASSUME NEW t \in Task, TermBroken(t) PROVE Replay' BY <1>2 DEF TermBroken
<1>3. CASE SchedulerDies BY <1>3 DEF SchedulerDies
<1> QED BY <1>1, <1>2, <1>3

(* A Redis command that raises in a run. *)
LEMMA RunFaultReplay ==
  ASSUME Inv, Replay, NEW r \in Run,
         \/ MarkRunningBroken(r)
         \/ FinishBroken(r)
         \/ MarkBroken(r)
  PROVE  Replay'
<1> USE NoTaskAssumption
    DEF Inv, TypeOK, QueueTypeOK, Control, Exclusive, Fresh, SchedHolds,
        RunHolds, Holds, Replay, ExecNotQueued, InterruptedNotReplayed,
        queueVars, schedVars,
        runVars, cronVars, bounds, crashVars, Up, Fault,
        RunStep, Requeue, AddIssue, FinishIssue, FreeRun
<1>1. CASE MarkRunningBroken(r) BY <1>1 DEF MarkRunningBroken
<1>2. CASE FinishBroken(r) BY <1>2 DEF FinishBroken
<1>3. CASE MarkBroken(r) BY <1>3 DEF MarkBroken
<1> QED BY <1>1, <1>2, <1>3

LEMMA NextReplay == Inv /\ Replay /\ [Next]_vars => Replay'
<1> SUFFICES ASSUME Inv, Replay, [Next]_vars PROVE Replay'
  OBVIOUS
<1>1. CASE ClientNext
  BY <1>1, ClientReplay, TerminateReplay DEF ClientNext
<1>2. CASE TermNext
  BY <1>2, TermReplay DEF TermNext
<1>3. CASE SchedNext
  BY <1>3, PopReplay, PassReplay, DispatchReplay DEF SchedNext
<1>4. CASE RunNext
  BY <1>4, RunReplay DEF RunNext
<1>5. CASE CronNext
  BY <1>5, CronReplay, CronTaskReplay DEF CronNext
<1>6. CASE CrashNext
  BY <1>6, CrashReplay, RecoverReplay DEF CrashNext
<1>7. CASE FaultNext
  BY <1>7, FaultReplay, RunFaultReplay DEF FaultNext
<1>8. CASE UNCHANGED vars
  BY <1>8 DEF vars, Replay, ExecNotQueued, InterruptedNotReplayed, Holds,
       SchedHolds, RunHolds, queueVars, schedVars, runVars, crashVars
<1> QED BY <1>1, <1>2, <1>3, <1>4, <1>5, <1>6, <1>7, <1>8 DEF Next

(* A task whose worker was killed by a crash of the service is never brought to
   a worker again. *)
THEOREM NoReplay == Spec => []InterruptedNotReplayed
<1>1. Replay => InterruptedNotReplayed
  BY DEF Replay
<1> QED BY <1>1, ReplayInit, NextReplay, Invariance, PTL DEF Spec
=============================================================================
