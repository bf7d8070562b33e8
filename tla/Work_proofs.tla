----------------------------- MODULE Work_proofs -----------------------------
(***************************************************************************)
(* Four components, for any callers, policies, tools, tasks and bounds:    *)
(* the core starts one server at a time and ends no program of another; a  *)
(* failing task costs a bounded number of runs; an agent run streams to    *)
(* its client once and answers every call of the model; and the end of a   *)
(* process waits for its runs and leaves what the next one can take up.    *)
(***************************************************************************)
EXTENDS LocalServer, TaskRetries, AgentRun, Shutdown, FiniteSetTheorems, SequenceTheorems, TLAPS

-----------------------------------------------------------------------------
(* The local server. *)

\* Only a call in the core queues for the lock, and only its start-up adopts.
QueueIsOfCore ==
    \A c \in Callers : /\ call[c].at = "queue" => c \in Starters
                       /\ call[c].at = "adopt" => c \in Stoppers

ServerTyped == ServerTypeOK /\ QueueIsOfCore

\* What a starter does between AcquireLock and Release, its clean-up included.
Inside(c) ==
    \/ call[c].at \in {"recheck", "spawn", "store", "starting", "waiting", "cleanup"}
    \/ call[c].at = "stopping" /\ call[c].next = "fail"

\* Whoever is inside holds the lock.
LockHeld == \A c \in Starters : Inside(c) => lock = c

\* A process id with start ticks that is remembered names nothing started later,
\* and never another program.
NamesOwn(r) ==
    r # NoProcess =>
        /\ r.ticks <= ticks
        /\ proc[r.pid].state = "other" => proc[r.pid].ticks # r.ticks

\* Every remembered process is one aidir has started.
Foreign ==
    /\ \A p \in Pids : proc[p].ticks <= ticks
    /\ NamesOwn(record)
    /\ \A c \in Callers : NamesOwn(call[c].mine)

ServerInv == ServerTyped /\ LockHeld /\ Foreign

-----------------------------------------------------------------------------
\* What a caller may be, and what a server process may be.
CallTyped(called) ==
    /\ called \in [Callers -> [at : {"idle", "probe", "queue", "recheck", "spawn", "store",
                                      "starting", "waiting", "cleanup", "adopt", "stopping"},
                               mine : Identity \cup {NoProcess},
                               next : {"idle", "fail", "probe"}]]
    /\ \A c \in Callers : /\ called[c].at = "queue" => c \in Starters
                          /\ called[c].at = "adopt" => c \in Stoppers

\* The call of c ends, and with it its hold of the lock.
LEMMA ReturnTyped ==
  ASSUME ServerTyped, NEW c \in Callers, NEW ok \in BOOLEAN, Return(c, ok)
  PROVE  CallTyped(call') /\ lock' \in Starters \cup {NoProcess} /\ failed' \in BOOLEAN
<1>1. CallTyped(call')
  BY DEF ServerTyped, ServerTypeOK, QueueIsOfCore, CallTyped, Return, Idle
<1>2. lock' \in Starters \cup {NoProcess}
  BY DEF ServerTyped, ServerTypeOK, Return, Release
<1>3. failed' \in BOOLEAN
  <2>1. CASE c \in Starters
    BY <2>1, Zenon DEF Return
  <2>2. CASE c \notin Starters
    BY <2>2, Zenon DEF Return, ServerTyped, ServerTypeOK
  <2> QED
    BY <2>1, <2>2
<1> QED
  BY <1>1, <1>2, <1>3

\* The call of c moves on.
LEMMA GotoTyped ==
  ASSUME ServerTyped, NEW c \in Callers,
         NEW next \in {"probe", "recheck", "spawn", "starting", "queue"},
         next = "queue" => c \in Starters, Goto(c, next)
  PROVE  CallTyped(call')
BY DEF ServerTyped, ServerTypeOK, QueueIsOfCore, CallTyped, Goto

\* What follows a stop.
LEMMA AfterStopTyped ==
  ASSUME ServerTyped, NEW c \in Callers, AfterStop(c)
  PROVE  CallTyped(call') /\ lock' \in Starters \cup {NoProcess} /\ failed' \in BOOLEAN
<1>1. CASE Return(c, FALSE)
  BY <1>1, ReturnTyped
<1>2. CASE /\ call' = [call EXCEPT ![c] = [Idle EXCEPT !.at = "probe"]]
           /\ UNCHANGED <<lock, failed>>
  BY <1>2 DEF ServerTyped, ServerTypeOK, QueueIsOfCore, CallTyped, Idle
<1>3. CASE call' = [call EXCEPT ![c] = Idle] /\ UNCHANGED <<lock, failed>>
  BY <1>3 DEF ServerTyped, ServerTypeOK, QueueIsOfCore, CallTyped, Idle
<1> QED
  BY <1>1, <1>2, <1>3 DEF AfterStop

\* What a stop does at once.
LEMMA StopTyped ==
  ASSUME ServerTyped, NEW c \in Callers, NEW following \in {"idle", "fail", "probe"}, Stop(c, following)
  PROVE  /\ CallTyped(call') /\ lock' \in Starters \cup {NoProcess} /\ failed' \in BOOLEAN
         /\ record' \in Identity \cup {NoProcess}
         /\ proc' \in [Pids -> [state : {"free", "other"} \cup OwnStates, ticks : 0 .. MaxStarts]]
<1>1. CASE Owned(record)
  <2>1. record \in Identity
    BY <1>1 DEF Owned, ServerTyped, ServerTypeOK
  <2>2. CallTyped(call')
    <3>1. call' = [call EXCEPT ![c] = [at |-> "stopping", mine |-> record, next |-> following]]
      BY <1>1 DEF Stop
    <3> QED
      BY <2>1, <3>1 DEF ServerTyped, ServerTypeOK, QueueIsOfCore, CallTyped
  <2>3. proc' \in [Pids -> [state : {"free", "other"} \cup OwnStates, ticks : 0 .. MaxStarts]]
    BY <1>1, <2>1, LocalServerAssumption DEF Stop, ServerTyped, ServerTypeOK, Identity, OwnStates, Free
  <2> QED
    BY <1>1, <2>2, <2>3, Zenon DEF Stop, ServerTyped, ServerTypeOK
<1>2. CASE ~Owned(record)
  <2>1. AfterStop(c) /\ record' = NoProcess /\ UNCHANGED proc
    BY <1>2 DEF Stop
  <2> QED
    BY <2>1, AfterStopTyped, Zenon DEF ServerTyped, ServerTypeOK
<1> QED
  BY <1>1, <1>2

\* Each step keeps the types.
LEMMA ServerTypeStep ==
  ASSUME ServerTyped, [ServerNext]_serverVars
  PROVE  ServerTyped'
<1> USE LocalServerAssumption DEF ServerTyped, ServerTypeOK, QueueIsOfCore, CallTyped, Callers, Identity, OwnStates, Free, Idle
<1>1. ASSUME NEW c \in Callers, ProbeHealth(c) PROVE ServerTyped'
  <2>1. CASE Return(c, TRUE)
    BY <1>1, <2>1, ReturnTyped DEF ProbeHealth
  <2>2. CASE Return(c, FALSE)
    BY <1>1, <2>2, ReturnTyped DEF ProbeHealth
  <2>3. CASE Goto(c, IF c \in Starters THEN "queue" ELSE "recheck") /\ UNCHANGED <<lock, failed>>
    BY <1>1, <2>3, GotoTyped DEF ProbeHealth
  <2> QED
    BY <1>1, <2>1, <2>2, <2>3, Zenon DEF ProbeHealth
<1>2. ASSUME NEW c \in Callers, Recheck(c) PROVE ServerTyped'
  <2>1. CASE Return(c, TRUE) /\ UNCHANGED record
    BY <1>2, <2>1, ReturnTyped DEF Recheck
  <2>2. CASE Return(c, FALSE) /\ record' = NoProcess
    BY <1>2, <2>2, ReturnTyped DEF Recheck
  <2>3. CASE Owned(record) /\ call' = [call EXCEPT ![c].at = "waiting", ![c].mine = record]
               /\ UNCHANGED <<record, lock, failed>>
    BY <1>2, <2>3 DEF Recheck, Owned
  <2>4. CASE record' = NoProcess /\ Goto(c, "spawn") /\ UNCHANGED <<lock, failed>>
    BY <1>2, <2>4, GotoTyped DEF Recheck
  <2> QED
    BY <1>2, <2>1, <2>2, <2>3, <2>4, Zenon DEF Recheck
<1>3. ASSUME NEW c \in Callers, Spawn(c) PROVE ServerTyped'
  <2>1. CASE Return(c, FALSE) /\ UNCHANGED <<proc, ticks>>
    BY <1>3, <2>1, ReturnTyped DEF Spawn
  <2>2. CASE ~(Return(c, FALSE) /\ UNCHANGED <<proc, ticks>>)
    <3>1. PICK p \in Pids :
               /\ ticks < MaxStarts /\ ticks' = ticks + 1
               /\ proc' = [proc EXCEPT ![p] = [state |-> "starting", ticks |-> ticks + 1]]
               /\ call' = [call EXCEPT ![c].at = "store", ![c].mine = [pid |-> p, ticks |-> ticks + 1]]
               /\ UNCHANGED <<lock, failed>>
      BY <1>3, <2>2, Zenon DEF Spawn
    <3>2. ticks' \in 0 .. MaxStarts /\ ticks + 1 \in 0 .. MaxStarts
      BY <3>1
    <3>3. CallTyped(call')
      BY <3>1, <3>2
    <3>4. proc' \in [Pids -> [state : {"free", "other"} \cup OwnStates, ticks : 0 .. MaxStarts]]
      BY <3>1, <3>2
    <3>5. UNCHANGED <<record, restarts, lock, failed>>
      BY <1>3, <3>1 DEF Spawn
    <3> QED
      BY <3>2, <3>3, <3>4, <3>5
  <2> QED
    BY <2>1, <2>2
<1>4. ASSUME NEW c \in Callers, StoreRecord(c) PROVE ServerTyped'
  BY <1>4, GotoTyped DEF StoreRecord, Goto
<1>5. ASSUME NEW c \in Callers, WaitReady(c) PROVE ServerTyped'
  <2>1. CASE Return(c, TRUE)
    BY <1>5, <2>1, ReturnTyped DEF WaitReady
  <2>2. CASE Return(c, FALSE)
    BY <1>5, <2>2, ReturnTyped DEF WaitReady
  <2>3. CASE /\ call' = [call EXCEPT ![c].at = "cleanup", ![c].next = "fail"]
            /\ UNCHANGED <<lock, failed>>
    BY <1>5, <2>3 DEF WaitReady
  <2> QED
    BY <1>5, <2>1, <2>2, <2>3, Zenon DEF WaitReady
<1>6. ASSUME NEW c \in Callers, StopAfterFailedStart(c) PROVE ServerTyped'
  <2>1. c \in Callers /\ Stop(c, "fail") /\ UNCHANGED <<ticks, restarts>>
    BY <1>6, Zenon DEF StopAfterFailedStart
  <2> QED
    BY <2>1, StopTyped
<1>7. ASSUME NEW c \in Callers, StopPolled(c) PROVE ServerTyped'
  BY <1>7, AfterStopTyped DEF StopPolled
<1>8. ASSUME NEW c \in Callers, StopKill(c) PROVE ServerTyped'
  <2>1. call[c].mine \in Identity
    BY <1>8 DEF StopKill, Owned
  <2> QED
    BY <1>8, <2>1, AfterStopTyped DEF StopKill
<1>9. ASSUME NEW c \in Callers, AdoptExisting(c) PROVE ServerTyped'
  <2>1. CASE Stop(c, "fail")
    BY <1>9, <2>1, StopTyped DEF AdoptExisting
  <2>2. CASE call' = [call EXCEPT ![c] = Idle] /\ UNCHANGED <<proc, record, lock, failed>>
    BY <1>9, <2>2 DEF AdoptExisting
  <2> QED
    BY <1>9, <2>1, <2>2, Zenon DEF AdoptExisting
<1>10. ASSUME NEW c \in Callers, AcquireLock(c) PROVE ServerTyped'
  <2>1. c \in Starters
    BY <1>10 DEF AcquireLock
  <2> QED
    BY <1>10, <2>1, GotoTyped DEF AcquireLock
<1>11. ASSUME NEW c \in Starters \cup CronPing, EnsureRunning(c) PROVE ServerTyped'
  BY <1>11, GotoTyped DEF EnsureRunning
<1>12. ASSUME NEW c \in Stoppers, StopProvider(c) PROVE ServerTyped'
  <2>1. c \in Callers /\ Stop(c, "idle") /\ UNCHANGED <<ticks, restarts>>
    BY <1>12, Zenon DEF StopProvider
  <2> QED
    BY <2>1, StopTyped
<1>13. ASSUME NEW c \in Starters, RestartLocalLlamaCpp(c) PROVE ServerTyped'
  <2>1. c \in Callers /\ Stop(c, "probe") /\ UNCHANGED <<ticks, restarts>>
    BY <1>13, Zenon DEF RestartLocalLlamaCpp
  <2> QED
    BY <2>1, StopTyped
<1>14. ASSUME CoreRestart PROVE ServerTyped'
  <2> DEFINE adopter == CHOOSE c \in Stoppers : TRUE
  <2>1. adopter \in Stoppers
    OBVIOUS
  <2>2. call' = [c \in Callers |-> IF c \in CronPing THEN call[c]
                                  ELSE IF c = adopter THEN [Idle EXCEPT !.at = "adopt"] ELSE Idle]
    BY <1>14 DEF CoreRestart
  <2> HIDE DEF adopter
  <2>3. CallTyped(call')
    BY <2>1, <2>2
  <2>4. failed' \in BOOLEAN
    BY <1>14, Zenon DEF CoreRestart
  <2> QED
    BY <1>14, <2>3, <2>4 DEF CoreRestart
<1>15. ASSUME NEW p \in Pids, BecomeReady(p) PROVE ServerTyped'
  BY <1>15 DEF BecomeReady
<1>16. ASSUME NEW p \in Pids, ProcessExit(p) PROVE ServerTyped'
  BY <1>16 DEF ProcessExit
<1>17. ASSUME NEW p \in Pids, OtherProgram(p) PROVE ServerTyped'
  BY <1>17 DEF OtherProgram
<1>18. ASSUME UNCHANGED serverVars PROVE ServerTyped'
  BY <1>18 DEF serverVars
<1> QED
  BY <1>1, <1>2, <1>3, <1>4, <1>5, <1>6, <1>7, <1>8, <1>9, <1>10, <1>11, <1>12, <1>13, <1>14, <1>15, <1>16, <1>17, <1>18 DEF ServerNext, CallStep

\* Each step leaves the lock with whoever is inside.
LEMMA LockStep ==
  ASSUME ServerTyped, LockHeld, [ServerNext]_serverVars
  PROVE  LockHeld'
<1> USE LocalServerAssumption DEF ServerTyped, ServerTypeOK, QueueIsOfCore, LockHeld, Inside, Callers, Idle
<1>1. ASSUME NEW c \in Callers, ProbeHealth(c) PROVE LockHeld'
  BY <1>1 DEF ProbeHealth, Return, Release, Goto
<1>2. ASSUME NEW c \in Callers, Recheck(c) PROVE LockHeld'
  BY <1>2 DEF Recheck, Return, Release, Goto, Owned
<1>3. ASSUME NEW c \in Callers, Spawn(c) PROVE LockHeld'
  <2>1. CASE Return(c, FALSE)
    BY <2>1 DEF Return, Release
  <2>2. CASE ~Return(c, FALSE)
    <3>1. PICK p \in Pids :
             /\ call' = [call EXCEPT ![c].at = "store", ![c].mine = [pid |-> p, ticks |-> ticks + 1]]
             /\ UNCHANGED lock
      BY <1>3, <2>2 DEF Spawn
    <3> QED
      BY <1>3, <3>1 DEF Spawn
  <2> QED
    BY <2>1, <2>2
<1>4. ASSUME NEW c \in Callers, StoreRecord(c) PROVE LockHeld'
  BY <1>4 DEF StoreRecord, Goto
<1>5. ASSUME NEW c \in Callers, WaitReady(c) PROVE LockHeld'
  <2>1. CASE Return(c, TRUE) \/ Return(c, FALSE)
    BY <1>5, <2>1 DEF WaitReady, Return, Release
  <2>2. CASE /\ call[c].at = "starting"
             /\ call' = [call EXCEPT ![c].at = "cleanup", ![c].next = "fail"]
             /\ UNCHANGED <<lock, failed>>
    BY <1>5, <2>2 DEF WaitReady
  <2> QED
    BY <1>5, <2>1, <2>2, Zenon DEF WaitReady
<1>6. ASSUME NEW c \in Callers, StopAfterFailedStart(c) PROVE LockHeld'
  BY <1>6 DEF StopAfterFailedStart, Stop, AfterStop, Return, Release, Owned
<1>7. ASSUME NEW c \in Callers, StopPolled(c) PROVE LockHeld'
  BY <1>7 DEF StopPolled, AfterStop, Return, Release, Owned
<1>8. ASSUME NEW c \in Callers, StopKill(c) PROVE LockHeld'
  BY <1>8 DEF StopKill, AfterStop, Return, Release, Owned
<1>9. ASSUME NEW c \in Callers, AdoptExisting(c) PROVE LockHeld'
  <2>1. c \in Stoppers /\ c \notin Starters
    BY <1>9 DEF AdoptExisting
  <2>2. CASE Stop(c, "fail")
    BY <1>9, <2>1, <2>2 DEF AdoptExisting, Stop, AfterStop, Return, Release, Owned
  <2>3. CASE call' = [call EXCEPT ![c] = Idle] /\ UNCHANGED <<proc, record, lock, failed>>
    BY <1>9, <2>1, <2>3 DEF AdoptExisting
  <2> QED
    BY <1>9, <2>2, <2>3, Zenon DEF AdoptExisting
<1>10. ASSUME NEW c \in Callers, AcquireLock(c) PROVE LockHeld'
  BY <1>10 DEF AcquireLock, Goto
<1>11. ASSUME NEW c \in Starters \cup CronPing, EnsureRunning(c) PROVE LockHeld'
  BY <1>11 DEF EnsureRunning, Goto
<1>12. ASSUME NEW c \in Stoppers, StopProvider(c) PROVE LockHeld'
  BY <1>12 DEF StopProvider, Stop, AfterStop, Return, Release, Owned
<1>13. ASSUME NEW c \in Starters, RestartLocalLlamaCpp(c) PROVE LockHeld'
  BY <1>13 DEF RestartLocalLlamaCpp, Stop, Owned
<1>14. ASSUME CoreRestart PROVE LockHeld'
  BY <1>14 DEF CoreRestart
<1>15. ASSUME NEW p \in Pids, BecomeReady(p) PROVE LockHeld'
  BY <1>15 DEF BecomeReady
<1>16. ASSUME NEW p \in Pids, ProcessExit(p) PROVE LockHeld'
  BY <1>16 DEF ProcessExit
<1>17. ASSUME NEW p \in Pids, OtherProgram(p) PROVE LockHeld'
  BY <1>17 DEF OtherProgram
<1>18. ASSUME UNCHANGED serverVars PROVE LockHeld'
  BY <1>18 DEF serverVars
<1> QED
  BY <1>1, <1>2, <1>3, <1>4, <1>5, <1>6, <1>7, <1>8, <1>9, <1>10, <1>11, <1>12, <1>13, <1>14, <1>15, <1>16, <1>17, <1>18 DEF ServerNext, CallStep

\* Each step remembers only processes of aidir.
LEMMA ForeignStep ==
  ASSUME ServerTyped, Foreign, [ServerNext]_serverVars
  PROVE  Foreign'
<1> USE LocalServerAssumption DEF ServerTyped, ServerTypeOK, Foreign, NamesOwn, Callers, Identity, Free, Idle, OwnStates
<1>1. ASSUME NEW c \in Callers, ProbeHealth(c) PROVE Foreign'
  BY <1>1 DEF ProbeHealth, Return, Release, Goto
<1>2. ASSUME NEW c \in Callers, Recheck(c) PROVE Foreign'
  BY <1>2 DEF Recheck, Return, Release, Goto, Owned
<1>3. ASSUME NEW c \in Callers, Spawn(c) PROVE Foreign'
  BY <1>3 DEF Spawn, Return, Release
<1>4. ASSUME NEW c \in Callers, StoreRecord(c) PROVE Foreign'
  BY <1>4 DEF StoreRecord, Goto
<1>5. ASSUME NEW c \in Callers, WaitReady(c) PROVE Foreign'
  <2>1. CASE Return(c, TRUE) \/ Return(c, FALSE)
    BY <1>5, <2>1 DEF WaitReady, Return, Release
  <2>2. CASE /\ call[c].at = "starting"
             /\ call' = [call EXCEPT ![c].at = "cleanup", ![c].next = "fail"]
             /\ UNCHANGED <<lock, failed>>
    BY <1>5, <2>2 DEF WaitReady
  <2> QED
    BY <1>5, <2>1, <2>2, Zenon DEF WaitReady
<1>6. ASSUME NEW c \in Callers, StopAfterFailedStart(c) PROVE Foreign'
  BY <1>6 DEF StopAfterFailedStart, Stop, AfterStop, Return, Release, Owned
<1>7. ASSUME NEW c \in Callers, StopPolled(c) PROVE Foreign'
  BY <1>7 DEF StopPolled, AfterStop, Return, Release, Owned
<1>8. ASSUME NEW c \in Callers, StopKill(c) PROVE Foreign'
  BY <1>8 DEF StopKill, AfterStop, Return, Release, Owned
<1>9. ASSUME NEW c \in Callers, AdoptExisting(c) PROVE Foreign'
  BY <1>9 DEF AdoptExisting, Stop, AfterStop, Return, Release, Owned
<1>10. ASSUME NEW c \in Callers, AcquireLock(c) PROVE Foreign'
  BY <1>10 DEF AcquireLock, Goto
<1>11. ASSUME NEW c \in Starters \cup CronPing, EnsureRunning(c) PROVE Foreign'
  BY <1>11 DEF EnsureRunning, Goto
<1>12. ASSUME NEW c \in Stoppers, StopProvider(c) PROVE Foreign'
  BY <1>12 DEF StopProvider, Stop, AfterStop, Return, Release, Owned
<1>13. ASSUME NEW c \in Starters, RestartLocalLlamaCpp(c) PROVE Foreign'
  BY <1>13 DEF RestartLocalLlamaCpp, Stop, Owned
<1>14. ASSUME CoreRestart PROVE Foreign'
  BY <1>14 DEF CoreRestart
<1>15. ASSUME NEW p \in Pids, BecomeReady(p) PROVE Foreign'
  BY <1>15 DEF BecomeReady
<1>16. ASSUME NEW p \in Pids, ProcessExit(p) PROVE Foreign'
  BY <1>16 DEF ProcessExit
<1>17. ASSUME NEW p \in Pids, OtherProgram(p) PROVE Foreign'
  BY <1>17 DEF OtherProgram
<1>18. ASSUME UNCHANGED serverVars PROVE Foreign'
  BY <1>18 DEF serverVars
<1> QED
  BY <1>1, <1>2, <1>3, <1>4, <1>5, <1>6, <1>7, <1>8, <1>9, <1>10, <1>11, <1>12, <1>13, <1>14, <1>15, <1>16, <1>17, <1>18 DEF ServerNext, CallStep

\* No step touches a process that is not one of aidir.
LEMMA SurviveStep ==
  ASSUME ServerTyped, Foreign, [ServerNext]_serverVars
  PROVE  \A q \in Pids : proc[q].state = "other" => proc'[q] = proc[q]
<1> USE LocalServerAssumption DEF ServerTyped, ServerTypeOK, Foreign, NamesOwn, Callers, Identity, OwnStates
<1>1. ASSUME NEW c \in Callers, ProbeHealth(c) PROVE \A q \in Pids : proc[q].state = "other" => proc'[q] = proc[q]
  BY <1>1 DEF ProbeHealth, Return, Release, Goto
<1>2. ASSUME NEW c \in Callers, Recheck(c) PROVE \A q \in Pids : proc[q].state = "other" => proc'[q] = proc[q]
  BY <1>2 DEF Recheck, Return, Release, Goto, Owned
<1>3. ASSUME NEW c \in Callers, Spawn(c) PROVE \A q \in Pids : proc[q].state = "other" => proc'[q] = proc[q]
  BY <1>3 DEF Spawn, Return, Release
<1>4. ASSUME NEW c \in Callers, StoreRecord(c) PROVE \A q \in Pids : proc[q].state = "other" => proc'[q] = proc[q]
  BY <1>4 DEF StoreRecord, Goto
<1>5. ASSUME NEW c \in Callers, WaitReady(c) PROVE \A q \in Pids : proc[q].state = "other" => proc'[q] = proc[q]
  BY <1>5 DEF WaitReady, Return, Release, Owned
<1>6. ASSUME NEW c \in Callers, StopAfterFailedStart(c) PROVE \A q \in Pids : proc[q].state = "other" => proc'[q] = proc[q]
  BY <1>6 DEF StopAfterFailedStart, Stop, AfterStop, Return, Release, Owned
<1>7. ASSUME NEW c \in Callers, StopPolled(c) PROVE \A q \in Pids : proc[q].state = "other" => proc'[q] = proc[q]
  BY <1>7 DEF StopPolled, AfterStop, Return, Release, Owned
<1>8. ASSUME NEW c \in Callers, StopKill(c) PROVE \A q \in Pids : proc[q].state = "other" => proc'[q] = proc[q]
  BY <1>8 DEF StopKill, AfterStop, Return, Release, Owned
<1>9. ASSUME NEW c \in Callers, AdoptExisting(c) PROVE \A q \in Pids : proc[q].state = "other" => proc'[q] = proc[q]
  BY <1>9 DEF AdoptExisting, Stop, AfterStop, Return, Release, Owned
<1>10. ASSUME NEW c \in Callers, AcquireLock(c) PROVE \A q \in Pids : proc[q].state = "other" => proc'[q] = proc[q]
  BY <1>10 DEF AcquireLock, Goto
<1>11. ASSUME NEW c \in Starters \cup CronPing, EnsureRunning(c) PROVE \A q \in Pids : proc[q].state = "other" => proc'[q] = proc[q]
  BY <1>11 DEF EnsureRunning, Goto
<1>12. ASSUME NEW c \in Stoppers, StopProvider(c) PROVE \A q \in Pids : proc[q].state = "other" => proc'[q] = proc[q]
  BY <1>12 DEF StopProvider, Stop, AfterStop, Return, Release, Owned
<1>13. ASSUME NEW c \in Starters, RestartLocalLlamaCpp(c) PROVE \A q \in Pids : proc[q].state = "other" => proc'[q] = proc[q]
  BY <1>13 DEF RestartLocalLlamaCpp, Stop, Owned
<1>14. ASSUME CoreRestart PROVE \A q \in Pids : proc[q].state = "other" => proc'[q] = proc[q]
  BY <1>14 DEF CoreRestart
<1>15. ASSUME NEW p \in Pids, BecomeReady(p) PROVE \A q \in Pids : proc[q].state = "other" => proc'[q] = proc[q]
  BY <1>15 DEF BecomeReady
<1>16. ASSUME NEW p \in Pids, ProcessExit(p) PROVE \A q \in Pids : proc[q].state = "other" => proc'[q] = proc[q]
  BY <1>16 DEF ProcessExit
<1>17. ASSUME NEW p \in Pids, OtherProgram(p) PROVE \A q \in Pids : proc[q].state = "other" => proc'[q] = proc[q]
  BY <1>17 DEF OtherProgram
<1>18. ASSUME UNCHANGED serverVars PROVE \A q \in Pids : proc[q].state = "other" => proc'[q] = proc[q]
  BY <1>18 DEF serverVars
<1> QED
  BY <1>1, <1>2, <1>3, <1>4, <1>5, <1>6, <1>7, <1>8, <1>9, <1>10, <1>11, <1>12, <1>13, <1>14, <1>15, <1>16, <1>17, <1>18 DEF ServerNext, CallStep

-----------------------------------------------------------------------------
\* The inductive invariant holds in every state.
LEMMA ServerInvariance == ServerSpec => []ServerInv
<1>1. ServerInit => ServerInv
  <2> SUFFICES ASSUME ServerInit PROVE ServerInv
    OBVIOUS
  <2>1. ServerTyped
    <3>1. 0 \in 0 .. MaxStarts /\ 0 \in 0 .. MaxRestarts
      BY LocalServerAssumption
    <3>2. failed \in BOOLEAN
      BY Zenon DEF ServerInit
    <3> QED
      BY <3>1, <3>2 DEF ServerInit, ServerTyped, QueueIsOfCore, ServerTypeOK, Free, Idle
  <2>2. LockHeld
    BY DEF ServerInit, LockHeld, Inside, Idle, Callers
  <2>3. Foreign
    BY DEF ServerInit, Foreign, NamesOwn, Free, Idle
  <2> QED
    BY <2>1, <2>2, <2>3 DEF ServerInv
<1>2. ServerInv /\ [ServerNext]_serverVars => ServerInv'
  BY ServerTypeStep, LockStep, ForeignStep DEF ServerInv
<1> QED
  BY <1>1, <1>2, PTL DEF ServerSpec

\* ServerTypeOK for every value of the constants.
THEOREM ServerTypes == ServerSpec => []ServerTypeOK
<1>1. ServerInv => ServerTypeOK
  BY DEF ServerInv, ServerTyped
<1> QED
  BY <1>1, ServerInvariance, PTL

\* OnlyOwnServer (ensure_running's lock, _owned's comparison of start ticks): one
\* start at a time in the core, and other programs survive every stop.
THEOREM OwnServer == ServerSpec => OnlyOwnServer
<1>1. ServerInv => StartsAreSerial
  BY DEF ServerInv, LockHeld, Inside, StartsAreSerial
<1>2. ServerInv /\ [ServerNext]_serverVars =>
        [\A p \in Pids : proc[p].state = "other" => proc'[p] = proc[p]]_serverVars
  BY SurviveStep DEF ServerInv
<1> QED
  BY <1>1, <1>2, ServerInvariance, PTL DEF ServerSpec, OnlyOwnServer, OtherProgramsSurvive

-----------------------------------------------------------------------------
(* Refusals and retries. *)

(* What the policy grants after one request: a run for each attempt and each
   fallback of it; and the part of that this request has gone through. *)
PerRequest == (RetryCount + 1) * (Fallbacks + 1)
Used       == retryAttempt * (Fallbacks + 1) + fallbackIndex

(* The requests of hooks that were carried out. *)
Pending(word) == IF word \in hookFlags THEN 1 ELSE 0
Consumed      == hookCalls - Pending("retry") - Pending("cancel")

CountersType ==
  /\ stage \in {"queued", "asking", "starting", "running", "delivering", "rejected"} \cup Ended
  /\ retryAttempt \in 0 .. RetryCount /\ fallbackIndex \in 0 .. Fallbacks
  /\ hookFlags \subseteq {"retry", "cancel"}
  /\ runs \in Nat /\ smart \in Nat /\ hookCalls \in Nat /\ Consumed \in Nat

(* The runs so far, by what is still granted: a task in the queue has not used
   its grant, one that runs has used one more, one that is through has it all. *)
RunsGranted ==
  /\ stage \in {"queued", "asking"} => runs <= Consumed * PerRequest + Used + smart
  /\ stage \in {"starting", "running", "rejected"} => runs <= Consumed * PerRequest + Used + 1 + smart
  /\ stage \in {"delivering"} \cup Ended => runs <= Consumed * PerRequest + PerRequest + smart
  /\ stage = "delivering" => retryAttempt = 0 /\ fallbackIndex = 0

RetriesInv == CountersType /\ RunsGranted

LEMMA Width == Fallbacks + 1 \in Nat \ {0} /\ PerRequest \in Nat /\ RetryCount \in Nat /\ Fallbacks \in Nat
<1>1. RetryCount \in Nat /\ Fallbacks \in Nat BY TaskRetriesAssumption
<1> QED BY <1>1 DEF PerRequest

(* The grant of a request covers what it can use up, and one more run. *)
LEMMA UsedIsGranted ==
  ASSUME NEW r \in 0 .. RetryCount, NEW i \in 0 .. Fallbacks
  PROVE  r * (Fallbacks + 1) + i \in Nat /\ r * (Fallbacks + 1) + i + 1 <= PerRequest
<1> DEFINE w == Fallbacks + 1
<1>1. w \in Nat /\ i < w /\ RetryCount - r \in Nat BY Width
<1>2. PerRequest = r * w + (RetryCount - r) * w + w BY Width DEF PerRequest
<1> HIDE DEF w
<1>3. r * w \in Nat /\ (RetryCount - r) * w \in Nat BY <1>1
<1>4. r * w + i \in Nat /\ r * w + i + 1 <= PerRequest BY <1>1, <1>2, <1>3
<1> QED BY <1>4 DEF w

LEMMA OneMoreAttempt ==
  ASSUME NEW r \in Nat PROVE (r + 1) * (Fallbacks + 1) = r * (Fallbacks + 1) + Fallbacks + 1
  BY Width

LEMMA MoreRequests ==
  ASSUME NEW c \in Nat, NEW d \in Nat, c < d
  PROVE  c * PerRequest + PerRequest <= d * PerRequest /\ c * PerRequest \in Nat
<1> DEFINE b == PerRequest
<1>1. b \in Nat BY Width
<1> HIDE DEF b
<1>2. d = c + 1 + (d - c - 1) /\ d - c - 1 \in Nat OBVIOUS
<1>3. d * b = c * b + b + (d - c - 1) * b BY <1>1
<1>4. c * b \in Nat /\ (d - c - 1) * b \in Nat /\ d * b \in Nat BY <1>1, <1>2
<1>5. c * b + b <= d * b BY <1>1, <1>3, <1>4
<1> QED BY <1>4, <1>5 DEF b

LEMMA RetriesInitial == RetriesInit => RetriesInv
<1> SUFFICES ASSUME RetriesInit PROVE RetriesInv OBVIOUS
<1>1. CountersType BY Width DEF RetriesInit, CountersType, Consumed, Pending, Ended
<1>2. retryAttempt = 0 /\ fallbackIndex = 0 /\ Consumed = 0
  <2>1. hookFlags = {} /\ hookCalls = 0 BY DEF RetriesInit
  <2>2. Pending("retry") = 0 /\ Pending("cancel") = 0 BY <2>1 DEF Pending
  <2>3. Consumed = 0 BY <2>1, <2>2 DEF Consumed
  <2> QED BY <2>3 DEF RetriesInit
<1>3. Used = 0 BY <1>2, Width DEF Used
<1>4. 0 * PerRequest = 0 BY Width
<1>5. RunsGranted BY <1>2, <1>3, <1>4 DEF RetriesInit, RunsGranted, Ended
<1> QED BY <1>1, <1>5 DEF RetriesInv

(* A step within one request and its grant. *)
LEMMA SameRequest ==
  ASSUME CountersType, hookFlags' = hookFlags, hookCalls' = hookCalls
  PROVE  /\ Consumed' = Consumed /\ (Consumed * PerRequest)' = Consumed * PerRequest
         /\ Consumed * PerRequest \in Nat /\ PerRequest \in Nat
         /\ Used \in Nat /\ Used + 1 <= PerRequest
<1>1. Consumed' = Consumed BY DEF Consumed, Pending
<1>2. Used \in Nat /\ Used + 1 <= PerRequest BY UsedIsGranted DEF CountersType, Used
<1>3. PerRequest \in Nat BY Width
<1>4. Consumed * PerRequest \in Nat BY <1>3 DEF CountersType
<1>5. (Consumed * PerRequest)' = Consumed * PerRequest BY <1>1 DEF PerRequest
<1> QED BY <1>1, <1>2, <1>3, <1>4, <1>5

(* The passes, the worker, and the ends of a run that change no counter. *)
LEMMA PassKeepsGrant ==
  ASSUME RetriesInv,
         PassStep \/ QueueTimeout \/ Execute \/ WorkerFails \/ RejectGivesUp \/ Complete
  PROVE  RetriesInv'
<1> USE DEF RetriesInv
<1> DEFINE granted == Consumed * PerRequest
<1>1. /\ hookFlags' = hookFlags /\ hookCalls' = hookCalls /\ smart' = smart
      /\ retryAttempt' = retryAttempt /\ fallbackIndex' = fallbackIndex
  BY DEF PassStep, RefreshRoute, StartRun, RefusedUnreachable, RefusedCapacity, QueueTimeout, Execute,
         WorkerFails, RejectGivesUp, Complete, policyVars
<1>2. /\ Consumed' = Consumed /\ granted' = granted /\ granted \in Nat /\ PerRequest \in Nat
      /\ Used \in Nat /\ Used + 1 <= PerRequest
  BY <1>1, SameRequest
<1>3. Used' = Used BY <1>1 DEF Used
<1>4. PerRequest' = PerRequest BY DEF PerRequest
<1> DEFINE limit == granted + Used + smart
<1>5. \/ stage \in {"queued", "asking"} /\ stage' \in {"queued", "asking"} \cup Ended /\ runs' = runs
      \/ stage = "asking" /\ stage' = "starting" /\ runs' = runs + 1
      \/ stage \in {"starting", "running"} /\ stage' \in {"running", "rejected"} /\ runs' = runs
      \/ stage = "rejected" /\ stage' \in Ended /\ runs' = runs
      \/ stage = "delivering" /\ stage' \in Ended /\ runs' = runs
  BY DEF PassStep, RefreshRoute, StartRun, RefusedUnreachable, RefusedCapacity, Reroute, QueueTimeout,
         Execute, WorkerFails, RejectGivesUp, Complete, Ended
<1>6. CountersType' BY <1>1, <1>2, <1>5 DEF CountersType, Ended
<1>7. RunsGranted'
  <2>1. runs \in Nat /\ smart \in Nat BY DEF CountersType
  <2> HIDE DEF granted
  <2>2. CASE stage \in {"queued", "asking"} /\ stage' \in {"queued", "asking"} \cup Ended /\ runs' = runs
    <3>1. runs <= granted + Used + smart BY <2>2 DEF RunsGranted, granted
    <3>2. runs' <= (granted + Used + smart)' /\ runs' <= (granted + PerRequest + smart)'
      BY <1>1, <1>2, <1>3, <1>4, <2>1, <2>2, <3>1
    <3> QED BY <2>2, <3>2 DEF RunsGranted, granted, Ended
  <2>3. CASE stage = "asking" /\ stage' = "starting" /\ runs' = runs + 1
    <3>1. runs <= granted + Used + smart BY <2>3 DEF RunsGranted, granted
    <3>2. runs' <= (granted + Used + 1 + smart)' BY <1>1, <1>2, <1>3, <1>4, <2>1, <2>3, <3>1
    <3> QED BY <2>3, <3>2 DEF RunsGranted, granted, Ended
  <2>4. CASE /\ \/ stage \in {"starting", "running"} /\ stage' \in {"running", "rejected"}
                \/ stage = "rejected" /\ stage' \in Ended
             /\ runs' = runs
    <3>1. runs <= granted + Used + 1 + smart BY <2>4 DEF RunsGranted, granted
    <3>2. runs' <= (granted + Used + 1 + smart)' /\ runs' <= (granted + PerRequest + smart)'
      BY <1>1, <1>2, <1>3, <1>4, <2>1, <2>4, <3>1
    <3> QED BY <2>4, <3>2 DEF RunsGranted, granted, Ended
  <2>5. CASE stage = "delivering" /\ stage' \in Ended /\ runs' = runs
    <3>1. runs <= granted + PerRequest + smart BY <2>5 DEF RunsGranted, granted
    <3>2. runs' <= (granted + PerRequest + smart)' BY <1>1, <1>2, <1>4, <2>5, <3>1
    <3> QED BY <2>5, <3>2 DEF RunsGranted, granted, Ended
  <2> QED BY <1>5, <2>2, <2>3, <2>4, <2>5
<1> QED BY <1>6, <1>7

(* A success, after which the counters start again. *)
LEMMA SuccessKeepsGrant == ASSUME RetriesInv, WorkerOk PROVE RetriesInv'
<1> USE DEF RetriesInv
<1> DEFINE granted == Consumed * PerRequest
<1>1. hookFlags' = hookFlags /\ hookCalls' = hookCalls /\ smart' = smart /\ runs' = runs
      /\ retryAttempt' = 0 /\ fallbackIndex' = 0 /\ stage = "running" /\ stage' = "delivering"
  BY DEF WorkerOk
<1>2. /\ Consumed' = Consumed /\ granted' = granted /\ granted \in Nat /\ PerRequest \in Nat
      /\ Used \in Nat /\ Used + 1 <= PerRequest
  BY <1>1, SameRequest
<1>3. CountersType' BY <1>1, <1>2, Width DEF CountersType, Ended
<1>4. runs <= granted + Used + 1 + smart BY <1>1 DEF RunsGranted
<1>5. runs \in Nat /\ smart \in Nat /\ PerRequest' = PerRequest BY DEF CountersType, PerRequest
<1> HIDE DEF granted
<1>6. runs' <= (granted + PerRequest + smart)' BY <1>1, <1>2, <1>4, <1>5
<1>7. RunsGranted' BY <1>1, <1>6 DEF RunsGranted, Ended, granted
<1> QED BY <1>3, <1>7

(* The reject policy: what it grants to the next run, it has counted. *)
LEMMA RejectKeepsGrant ==
  ASSUME RetriesInv, NEW reason \in Reasons,
         RejectRetry(reason) \/ RejectFallback(reason) \/ RejectCycle(reason)
  PROVE  RetriesInv'
<1> USE DEF RetriesInv
<1> DEFINE granted == Consumed * PerRequest
<1>1. hookFlags' = hookFlags /\ hookCalls' = hookCalls /\ smart' = smart /\ runs' = runs
      /\ stage = "rejected" /\ stage' = "queued"
  BY DEF RejectRetry, RejectFallback, RejectCycle, Requeue
<1>2. /\ Consumed' = Consumed /\ granted' = granted /\ granted \in Nat /\ PerRequest \in Nat
      /\ Used \in Nat /\ Used + 1 <= PerRequest
  BY <1>1, SameRequest
<1>3. retryAttempt \in 0 .. RetryCount /\ fallbackIndex \in 0 .. Fallbacks
  BY DEF CountersType
<1>4. /\ retryAttempt' \in 0 .. RetryCount /\ fallbackIndex' \in 0 .. Fallbacks
      /\ \/ retryAttempt' = retryAttempt + 1 /\ fallbackIndex' = fallbackIndex
         \/ retryAttempt' = retryAttempt /\ fallbackIndex' = fallbackIndex + 1
         \/ retryAttempt' = retryAttempt + 1 /\ fallbackIndex = Fallbacks /\ fallbackIndex' = 1
  BY <1>3, Width DEF RejectRetry, RejectFallback, RejectCycle
<1>5. (retryAttempt + 1) * (Fallbacks + 1) = retryAttempt * (Fallbacks + 1) + Fallbacks + 1
  BY <1>3, OneMoreAttempt
<1>6. Used' \in Nat /\ Used' >= Used + 1
  <2> DEFINE wide(r) == r * (Fallbacks + 1)
  <2>1. wide(retryAttempt) \in Nat BY <1>3, Width
  <2>2. wide(retryAttempt + 1) = wide(retryAttempt) + Fallbacks + 1 BY <1>5
  <2>3. Used = wide(retryAttempt) + fallbackIndex /\ Used' = wide(retryAttempt') + fallbackIndex'
    BY DEF Used
  <2> HIDE DEF wide
  <2> QED BY <1>3, <1>4, <2>1, <2>2, <2>3, Width
<1>7. CountersType' BY <1>1, <1>2, <1>4 DEF CountersType, Ended
<1>8. runs <= granted + Used + 1 + smart BY <1>1 DEF RunsGranted
<1>9. runs \in Nat /\ smart \in Nat BY DEF CountersType
<1> HIDE DEF granted
<1>10. runs' <= granted' + Used' + smart'
  <2>1. \A u, v, g, r, k \in Nat : r <= g + u + 1 + k /\ u + 1 <= v => r <= g + v + k OBVIOUS
  <2>2. granted \in Nat /\ Used \in Nat BY <1>2
  <2>3. Used' \in Nat /\ Used + 1 <= Used' BY <1>6, <2>2
  <2>4. runs <= granted + Used' + smart BY <2>1, <2>2, <2>3, <1>8, <1>9
  <2>5. granted' = granted /\ smart' = smart /\ runs' = runs BY <1>1, <1>2
  <2> QED BY <2>4, <2>5
<1>11. RunsGranted' BY <1>1, <1>10 DEF RunsGranted, Ended, granted
<1> QED BY <1>7, <1>11

LEMMA SmartKeepsGrant == ASSUME RetriesInv, SmartFallback PROVE RetriesInv'
<1> USE DEF RetriesInv
<1> DEFINE granted == Consumed * PerRequest
<1>1. hookFlags' = hookFlags /\ hookCalls' = hookCalls /\ smart' = smart + 1 /\ runs' = runs
      /\ retryAttempt' = retryAttempt /\ fallbackIndex' = fallbackIndex
      /\ stage = "running" /\ stage' = "queued"
  BY DEF SmartFallback
<1>2. /\ Consumed' = Consumed /\ granted' = granted /\ granted \in Nat /\ PerRequest \in Nat
      /\ Used \in Nat
  BY <1>1, SameRequest
<1>3. Used' = Used BY <1>1 DEF Used
<1>4. CountersType' BY <1>1, <1>2 DEF CountersType, Ended
<1>5. runs <= granted + Used + 1 + smart BY <1>1 DEF RunsGranted
<1>6. runs \in Nat /\ smart \in Nat BY DEF CountersType
<1> HIDE DEF granted
<1>7. runs' <= (granted + Used + smart)' BY <1>1, <1>2, <1>3, <1>5, <1>6
<1>8. RunsGranted' BY <1>1, <1>7 DEF RunsGranted, Ended, granted
<1> QED BY <1>4, <1>8

(* A hook: a request grants nothing until it is carried out, and then once. *)
LEMMA HookKeepsGrant ==
  ASSUME RetriesInv, HookControl \/ \E request \in {"retry", "cancel"} : HookRequests(request)
  PROVE  RetriesInv'
<1> USE DEF RetriesInv
<1>1. ASSUME NEW request \in {"retry", "cancel"}, HookRequests(request) PROVE RetriesInv'
  <2>1. /\ retryAttempt' = retryAttempt /\ fallbackIndex' = fallbackIndex /\ smart' = smart
        /\ runs' = runs /\ stage' = stage
    BY <1>1 DEF HookRequests, remoteVars
  <2>2. hookCalls' = hookCalls + 1 /\ hookFlags' = hookFlags \cup {request} /\ request \notin hookFlags
    BY <1>1 DEF HookRequests
  <2>3. Pending("retry")' + Pending("cancel")' = Pending("retry") + Pending("cancel") + 1
    <3>1. CASE request = "retry" BY <2>2, <3>1 DEF Pending
    <3>2. CASE request = "cancel" BY <2>2, <3>2 DEF Pending
    <3> QED BY <3>1, <3>2
  <2>4. Consumed' = Consumed
    <3>1. Pending("retry") \in Nat /\ Pending("cancel") \in Nat
          /\ Pending("retry")' \in Nat /\ Pending("cancel")' \in Nat
      BY DEF Pending
    <3>2. hookCalls \in Nat BY DEF CountersType
    <3> QED BY <2>2, <2>3, <3>1, <3>2 DEF Consumed
  <2>5. CountersType' BY <2>1, <2>2, <2>4 DEF CountersType
  <2>6. Used' = Used /\ PerRequest' = PerRequest BY <2>1 DEF Used, PerRequest
  <2>7. RunsGranted' BY <2>1, <2>4, <2>6 DEF RunsGranted
  <2> QED BY <2>5, <2>7
<1>2. ASSUME HookControl PROVE RetriesInv'
  <2>1. /\ retryAttempt' = retryAttempt /\ fallbackIndex' = fallbackIndex /\ smart' = smart
        /\ runs' = runs /\ hookCalls' = hookCalls
        /\ stage \in {"starting", "running", "delivering"}
        /\ stage' \in {"queued", "canceled"}
        /\ hookFlags' \subseteq hookFlags /\ hookFlags' # hookFlags
    BY <1>2 DEF HookControl
  <2>2. Consumed' \in Nat /\ Consumed < Consumed'
    <3>1. \A word \in {"retry", "cancel"} :
            Pending(word) \in {0, 1} /\ Pending(word)' \in {0, 1} /\ Pending(word)' <= Pending(word)
      BY <2>1 DEF Pending
    <3>2. \E word \in {"retry", "cancel"} : Pending(word)' < Pending(word)
      <4>1. PICK word \in hookFlags : word \notin hookFlags' BY <2>1
      <4>2. word \in {"retry", "cancel"} BY DEF CountersType
      <4>3. Pending(word) = 1 /\ Pending(word)' = 0 BY <4>1 DEF Pending
      <4> QED BY <4>2, <4>3
    <3>3. hookCalls \in Nat /\ Consumed \in Nat BY DEF CountersType
    <3> QED BY <2>1, <3>1, <3>2, <3>3 DEF Consumed
  <2>3. CountersType' BY <2>1, <2>2 DEF CountersType, Ended
  <2>4. Consumed * PerRequest + PerRequest <= Consumed' * PerRequest /\ Consumed * PerRequest \in Nat
        /\ Consumed' * PerRequest \in Nat
    <3>1. Consumed \in Nat BY DEF CountersType
    <3> DEFINE c == Consumed
               d == Consumed'
    <3>2. c \in Nat /\ d \in Nat /\ c < d BY <2>2, <3>1
    <3> HIDE DEF c, d
    <3>3. c * PerRequest + PerRequest <= d * PerRequest /\ c * PerRequest \in Nat BY <3>2, MoreRequests
    <3>4. d * PerRequest \in Nat BY <3>2, Width
    <3> QED BY <3>3, <3>4 DEF c, d
  <2>5. Used \in Nat /\ Used + 1 <= PerRequest /\ Used' = Used /\ PerRequest' = PerRequest
    <3>1. Used \in Nat /\ Used + 1 <= PerRequest BY UsedIsGranted DEF CountersType, Used
    <3> QED BY <2>1, <3>1 DEF Used, PerRequest
  <2>6. runs <= Consumed * PerRequest + PerRequest + smart
    <3>1. runs <= Consumed * PerRequest + Used + 1 + smart \/ runs <= Consumed * PerRequest + PerRequest + smart
      BY <2>1 DEF RunsGranted
    <3>2. runs \in Nat /\ smart \in Nat BY DEF CountersType
    <3> DEFINE granted == Consumed * PerRequest
    <3>3. granted \in Nat /\ PerRequest \in Nat BY <2>4, Width
    <3> HIDE DEF granted
    <3>4. runs <= granted + Used + 1 + smart \/ runs <= granted + PerRequest + smart BY <3>1 DEF granted
    <3>5. runs <= granted + PerRequest + smart BY <2>5, <3>2, <3>3, <3>4
    <3> QED BY <3>5 DEF granted
  <2>7. runs \in Nat /\ smart \in Nat /\ PerRequest \in Nat BY Width DEF CountersType
  <2>8. runs' <= Consumed' * PerRequest + Used' + smart' /\ runs' <= Consumed' * PerRequest + PerRequest + smart'
    <3> DEFINE granted == Consumed * PerRequest
               next == Consumed' * PerRequest
    <3>1. granted + PerRequest <= next /\ granted \in Nat /\ next \in Nat /\ runs <= granted + PerRequest + smart
      BY <2>4, <2>6
    <3> HIDE DEF granted, next
    <3>2. runs' <= next + Used' + smart' /\ runs' <= next + PerRequest + smart'
      BY <2>1, <2>5, <2>7, <3>1
    <3> QED BY <3>2 DEF next
  <2>9. RunsGranted' BY <2>1, <2>5, <2>8 DEF RunsGranted, Ended
  <2> QED BY <2>3, <2>9
<1> QED BY <1>1, <1>2

LEMMA RetriesStep == RetriesInv /\ [RetriesNext]_retryVars => RetriesInv'
<1> SUFFICES ASSUME RetriesInv, [RetriesNext]_retryVars PROVE RetriesInv' OBVIOUS
<1>1. ASSUME NEW c \in Remotes, NEW answer, RemoteChanges(c, answer) PROVE RetriesInv'
  BY <1>1 DEF RemoteChanges, policyVars, RetriesInv, CountersType, RunsGranted, Consumed, Pending, Used, PerRequest
<1>2. CASE UNCHANGED retryVars
  BY <1>2 DEF retryVars, RetriesInv, CountersType, RunsGranted, Consumed, Pending, Used, PerRequest
<1> QED
  BY <1>1, <1>2, PassKeepsGrant, SuccessKeepsGrant, RejectKeepsGrant, SmartKeepsGrant, HookKeepsGrant
  DEF RetriesNext, RunStep

(* For any remotes, policies, fallback lists and bounds: what a failing task
   costs in runs is what its retries and fallbacks allow for each request, and
   one run for each smart fallback (scheduler.py:688-803, 1571-1617). *)
THEOREM FailuresCostBoundedRuns == RetriesSpec => []RunsBounded
<1>1. RetriesInv => RunsBounded
  <2> SUFFICES ASSUME RetriesInv PROVE RunsBounded OBVIOUS
  <2> USE DEF RetriesInv
  <2>1. runs <= Consumed * PerRequest + PerRequest + smart
    <3> DEFINE granted == Consumed * PerRequest
    <3>1. runs \in Nat /\ smart \in Nat /\ PerRequest \in Nat /\ Consumed \in Nat BY Width DEF CountersType
    <3>2. granted \in Nat BY <3>1
    <3>3. Used \in Nat /\ Used + 1 <= PerRequest BY UsedIsGranted DEF CountersType, Used
    <3>4. \/ runs <= granted + Used + smart
          \/ runs <= granted + Used + 1 + smart
          \/ runs <= granted + PerRequest + smart
      BY DEF RunsGranted, CountersType
    <3> HIDE DEF granted
    <3>5. runs <= granted + PerRequest + smart BY <3>1, <3>2, <3>3, <3>4
    <3> QED BY <3>5 DEF granted
  <2>2. Consumed < hookCalls + 1 /\ Consumed \in Nat /\ hookCalls + 1 \in Nat
    BY DEF Consumed, Pending, CountersType
  <2>3. Consumed * PerRequest + PerRequest <= (hookCalls + 1) * PerRequest BY <2>2, MoreRequests
  <2>4. runs <= (hookCalls + 1) * PerRequest + smart
    <3> DEFINE granted == Consumed * PerRequest
               most == (hookCalls + 1) * PerRequest
    <3>1. runs \in Nat /\ smart \in Nat /\ granted \in Nat /\ most \in Nat /\ PerRequest \in Nat
      BY <2>2, Width DEF CountersType
    <3>2. runs <= granted + PerRequest + smart /\ granted + PerRequest <= most BY <2>1, <2>3
    <3> HIDE DEF granted, most
    <3>3. runs <= most + smart BY <3>1, <3>2
    <3> QED BY <3>3 DEF most
  <2>5. (1 + hookCalls) * (RetryCount + 1) * (Fallbacks + 1) = (hookCalls + 1) * PerRequest
    BY <2>2, Width DEF PerRequest, CountersType
  <2> QED BY <2>4, <2>5 DEF RunsBounded
<1> QED BY <1>1, RetriesInitial, RetriesStep, PTL DEF RetriesSpec

-----------------------------------------------------------------------------
(* The agent run. *)

Calls == 1 .. MaxCalls

TalkType == asked \in Seq(Calls) /\ results \in Seq(Calls) /\ todo \in Seq(Calls)

(* Only an attempt that streams, or the run it ended, has passed something on. *)
OneStream ==
  /\ at \notin {"stream", "done"} => sentTo = {}
  /\ at = "stream" => sentTo \subseteq {attempt}
  /\ \E a : sentTo \subseteq {a}

(* Between a reply and the next call, what is answered and what is still to be
   executed are together what was asked for. *)
TalkIsWhole ==
  /\ at \in {"context", "call", "sent", "compat", "stream"} => results = asked
  /\ at \in {"tool", "register", "wait", "giveUp", "reap"} => results \o todo = asked
  /\ at \in {"register", "wait", "giveUp", "reap"} => todo # <<>>

AgentInv == TalkType /\ OneStream /\ TalkIsWhole

(* Where a failed call goes on. *)
LEMMA FailedGoes ==
  ASSUME NEW code, Failed(code)
  PROVE  at' \in {"call", "done"}
  BY DEF Failed, End

LEMMA AgentInitial == AgentInit => AgentInv
  BY DEF AgentInit, AgentInv, TalkType, OneStream, TalkIsWhole

(* The model calls leave the conversation as it is, and pass chunks on only
   from an attempt that was not repeated. *)
LEMMA CallKeeps ==
  ASSUME AgentInv,
         ApplyContext \/ BeginCall \/ AttemptFails \/ ParserRejects \/ CompatFails \/ CompatInterrupted
           \/ EmitChunk \/ StreamEnds \/ StreamFails
  PROVE  AgentInv'
<1> USE DEF AgentInv
<1>1. UNCHANGED <<asked, results, todo>>
  BY DEF ApplyContext, BeginCall, AttemptFails, ParserRejects, CompatFails, CompatInterrupted, EmitChunk,
         StreamEnds, StreamFails
<1>2. TalkType' BY <1>1 DEF TalkType
<1>3. /\ at \in {"context", "call", "sent", "compat", "stream"}
      /\ at' \in {"call", "sent", "compat", "stream", "done"}
  BY FailedGoes
  DEF ApplyContext, BeginCall, AttemptFails, ParserRejects, CompatFails, CompatInterrupted, EmitChunk,
      StreamEnds, StreamFails, End
<1>4. TalkIsWhole' BY <1>1, <1>3 DEF TalkIsWhole
<1>5. CASE EmitChunk
  <2>1. at = "stream" /\ at' = at /\ attempt' = attempt /\ sentTo' = sentTo \cup {attempt}
    BY <1>5 DEF EmitChunk
  <2>2. sentTo' \subseteq {attempt'} BY <2>1 DEF OneStream
  <2>3. OneStream' BY <2>1, <2>2 DEF OneStream
  <2> QED BY <1>2, <1>4, <2>3
<1>6. CASE ~EmitChunk
  <2>1. sentTo' = sentTo
    BY <1>6
    DEF ApplyContext, BeginCall, AttemptFails, ParserRejects, CompatFails, CompatInterrupted, StreamEnds,
        StreamFails
  <2>2. at = "stream" => at' = "done" \/ sentTo = {}
    <3>1. CASE StreamFails
      <4>1. PICK code \in Errors \ {"invalid_json"} :
              IF attempt \in sentTo THEN End(code) /\ UNCHANGED attempt ELSE Failed(code)
        BY <3>1 DEF StreamFails
      <4>2. CASE attempt \in sentTo BY <4>1, <4>2 DEF End
      <4>3. CASE attempt \notin sentTo BY <3>1, <4>3 DEF StreamFails, OneStream
      <4> QED BY <4>2, <4>3
    <3>2. CASE StreamEnds BY <3>2 DEF StreamEnds, End
    <3> QED
      BY <1>6, <3>1, <3>2
      DEF ApplyContext, BeginCall, AttemptFails, ParserRejects, CompatFails, CompatInterrupted
  <2>3. OneStream' BY <1>3, <2>1, <2>2 DEF OneStream
  <2> QED BY <1>2, <1>4, <2>3
<1> QED BY <1>5, <1>6

(* The ends of a run, and its wait for a tool. *)
LEMMA WaitKeeps ==
  ASSUME AgentInv,
         StartTool \/ ToolNotQueued \/ ToolQueued \/ ToolAnswered \/ ToolTimesOut \/ ToolGivenUp
           \/ TerminateTool \/ ToolTerminated \/ ToolRemoved \/ Canceled
  PROVE  AgentInv'
<1> USE DEF AgentInv
<1>1. UNCHANGED <<asked, results, todo, sentTo, attempt>>
  BY DEF StartTool, ToolNotQueued, ToolQueued, ToolAnswered, ToolTimesOut, ToolGivenUp, TerminateTool,
         ToolTerminated, ToolRemoved, Canceled
<1>2. \/ at' \in {"terminate", "terminated", "removed"} /\ at # "stream"
      \/ at' = "done"
      \/ /\ at \in {"tool", "register", "wait"} /\ at' \in {"register", "wait", "giveUp", "reap"}
         /\ at = "tool" => todo # <<>>
  BY DEF StartTool, ToolNotQueued, ToolQueued, ToolAnswered, ToolTimesOut, ToolGivenUp, TerminateTool,
         ToolTerminated, ToolRemoved, Canceled, End
<1>3. at # "done"
  BY DEF StartTool, ToolNotQueued, ToolQueued, ToolAnswered, ToolTimesOut, ToolGivenUp, TerminateTool,
         ToolTerminated, ToolRemoved, Canceled
<1>4. TalkType' BY <1>1 DEF TalkType
<1>5. OneStream' BY <1>1, <1>2, <1>3 DEF OneStream
<1>6. TalkIsWhole' BY <1>1, <1>2 DEF TalkIsWhole
<1> QED BY <1>4, <1>5, <1>6

(* A reply: what it asks for is all still to be executed. *)
LEMMA ReplyKeeps == ASSUME AgentInv, CallSucceeds PROVE AgentInv'
<1> USE DEF AgentInv
<1>1. sentTo' = sentTo /\ at \in {"sent", "compat"} BY DEF CallSucceeds
<1>2. CASE at' = "done" /\ UNCHANGED <<asked, results, todo>>
  BY <1>1, <1>2 DEF TalkType, OneStream, TalkIsWhole
<1>3. CASE \E n \in 1 .. MaxCalls : /\ todo' = [i \in 1 .. n |-> i] /\ asked' = todo'
                                    /\ results' = <<>> /\ at' = "tool"
  <2>1. PICK n \in 1 .. MaxCalls : /\ todo' = [i \in 1 .. n |-> i] /\ asked' = todo'
                                   /\ results' = <<>> /\ at' = "tool"
    BY <1>3
  <2>2. [i \in 1 .. n |-> i] \in Seq(Calls)
    <3>1. n \in Nat /\ \A i \in 1 .. n : i \in Calls BY AgentRunAssumption DEF Calls
    <3> QED BY <3>1
  <2>3. TalkType' BY <2>1, <2>2 DEF TalkType
  <2>4. results' \o todo' = asked'
    <3> DEFINE s == [i \in 1 .. n |-> i]
    <3>1. s \in Seq(Calls) BY <2>2
    <3> HIDE DEF s
    <3>2. <<>> \o s = s BY <3>1
    <3> QED BY <2>1, <3>2 DEF s
  <2>5. TalkIsWhole' BY <2>1, <2>4 DEF TalkIsWhole
  <2>6. OneStream' BY <1>1, <2>1 DEF OneStream
  <2> QED BY <2>3, <2>5, <2>6
<1> QED BY <1>2, <1>3 DEF CallSucceeds, Reply, End

(* The answer of a tool joins the answers before it. *)
LEMMA ReapKeeps == ASSUME AgentInv, ToolReaped PROVE AgentInv'
<1> USE DEF AgentInv
<1>1. sentTo' = sentTo /\ at = "reap" /\ asked' = asked BY DEF ToolReaped
<1>2. CASE at' = "done" /\ UNCHANGED <<results, todo>>
  BY <1>1, <1>2 DEF TalkType, OneStream, TalkIsWhole
<1>3. CASE at' = "tool" /\ results' = Append(results, Head(todo)) /\ todo' = Tail(todo)
  <2>1. todo # <<>> /\ results \o todo = asked BY <1>1 DEF TalkIsWhole
  <2>2. results \in Seq(Calls) /\ todo \in Seq(Calls) BY DEF TalkType
  <2>3. Head(todo) \in Calls /\ Tail(todo) \in Seq(Calls) BY <2>1, <2>2
  <2>4. Append(results, Head(todo)) \o Tail(todo) = results \o todo
    <3> DEFINE n == Len(results)
               left == Append(results, Head(todo)) \o Tail(todo)
               right == results \o todo
    <3>1. Len(todo) \in Nat \ {0} /\ Len(Tail(todo)) = Len(todo) - 1 BY <2>1, <2>2
    <3>2. left \in Seq(Calls) /\ right \in Seq(Calls) BY <2>2, <2>3
    <3>3. Len(left) = Len(right) BY <2>2, <2>3, <3>1
    <3>4. ASSUME NEW i \in 1 .. Len(right) PROVE left[i] = right[i]
      <4>1. CASE i <= n BY <2>2, <2>3, <3>1, <4>1
      <4>2. CASE i = n + 1 BY <2>2, <2>3, <3>1, <4>2
      <4>3. CASE i > n + 1 BY <2>2, <2>3, <3>1, <4>3
      <4>4. n \in Nat /\ i \in Nat BY <2>2
      <4> HIDE DEF n, left, right
      <4> QED BY <4>1, <4>2, <4>3, <4>4
    <3> HIDE DEF left, right
    <3>5. left = right BY <3>2, <3>3, <3>4, SeqEqual
    <3> QED BY <3>5 DEF left, right
  <2>5. TalkType' BY <1>1, <1>3, <2>2, <2>3 DEF TalkType
  <2>6. TalkIsWhole' BY <1>1, <1>3, <2>1, <2>4 DEF TalkIsWhole
  <2>7. OneStream' BY <1>1, <1>3 DEF OneStream
  <2> QED BY <2>5, <2>6, <2>7
<1> QED BY <1>2, <1>3 DEF ToolReaped, End

(* The next call is made when nothing is left to execute. *)
LEMMA TurnKeeps == ASSUME AgentInv, NextTurn PROVE AgentInv'
<1> USE DEF AgentInv
<1>1. /\ at = "tool" /\ at' = "call" /\ todo = <<>> /\ UNCHANGED <<asked, results, todo, sentTo>>
  BY DEF NextTurn
<1>2. results = asked
  <2>1. results \o <<>> = asked /\ results \in Seq(Calls) BY <1>1 DEF TalkIsWhole, TalkType
  <2> QED BY <2>1
<1> QED BY <1>1, <1>2 DEF TalkType, OneStream, TalkIsWhole

LEMMA AgentStep == AgentInv /\ [AgentNext]_agentVars => AgentInv'
<1> SUFFICES ASSUME AgentInv, [AgentNext]_agentVars PROVE AgentInv' OBVIOUS
<1>1. CASE UNCHANGED runVars
  BY <1>1 DEF runVars, AgentInv, TalkType, OneStream, TalkIsWhole
<1> QED
  BY <1>1, CallKeeps, WaitKeeps, ReplyKeeps, ReapKeeps, TurnKeeps DEF AgentNext, RunActs, agentVars

LEMMA AgentInvariance == AgentSpec => []AgentInv
  BY AgentInitial, AgentStep, PTL DEF AgentSpec

(* Whatever fails, is retried, tried with another payload or canceled: a client
   gets the chunks of one attempt at most (openaix/app.py:1649-1760). *)
THEOREM OneAttemptStreams == AgentSpec => []StreamNeverRepeats
<1>1. AgentInv => StreamNeverRepeats
  <2> SUFFICES ASSUME AgentInv PROVE Cardinality(sentTo) <= 1 BY DEF StreamNeverRepeats
  <2>1. PICK a : sentTo \subseteq {a} BY DEF AgentInv, OneStream
  <2>2. CASE sentTo = {} BY <2>2, FS_EmptySet
  <2>3. CASE sentTo = {a}
    <3>1. Cardinality({a}) = 1 BY FS_Singleton
    <3> QED BY <2>3, <3>1
  <2> QED BY <2>1, <2>2, <2>3
<1> QED BY <1>1, AgentInvariance, PTL

(* However many tools a reply asks for and whatever becomes of them: the model
   is called again only with an answer to each call, in the order asked
   (openaix/app.py:1003-1131). *)
THEOREM EveryCallAnswered == AgentSpec => []CallsAreAnswered
<1>1. AgentInv => CallsAreAnswered BY DEF AgentInv, TalkIsWhole, CallsAreAnswered
<1> QED BY <1>1, AgentInvariance, PTL

-----------------------------------------------------------------------------
(* The end of the process. *)

\* The places in which a process holds a task that waits.
Held(t) == t \in queue \/ t \in deferred \/ hand = t

\* Until the next process is up: a task waits in one place or runs, has been
\* submitted before it does either, and the hash of a run in its worker says so.
OnePlace ==
    main # "next" => \A t \in Work :
        /\ t \in adding => persisted[t] = "none" /\ t \in External
        /\ persisted[t] = "none" => ~Held(t) /\ run[t] = "none"
        /\ run[t] # "none" => ~Held(t)
        /\ t \in deferred => t \notin queue /\ hand # t
        /\ hand = t => t \notin queue
        /\ run[t] = "executing" => persisted[t] = "running"

\* What was cut off is in no place any more, and its hash does not say queued.
CutOffStays ==
    main # "next" => \A t \in interrupted :
        ~Held(t) /\ run[t] = "none" /\ persisted[t] \in {"canceled", "running"}

PlaceInv == OnePlace /\ CutOffStays /\ RestartReplaysNothing

\* A drain that is over and has canceled nothing saw all runs of the request end.
Patient ==
    /\ drain = "canceling" \/ (canceling # {} /\ Alive) => late
    /\ Alive /\ ~late => \A t \in atRequest : run[t] # "none"
    /\ Alive /\ ~late /\ drain \in {"woken", "over"} => atRequest = {}
    /\ main \in {"exit", "ended"} => drain = "over" \/ again

ShutdownInv == ShutdownTypeOK /\ PlaceInv /\ Patient /\ RestartStrandsNothing

\* Each step keeps the types.
LEMMA ShutdownTypeStep ==
  ASSUME ShutdownTypeOK, [ShutdownNext]_shutdownVars
  PROVE  ShutdownTypeOK'
<1> USE WorkAssumption DEF ShutdownTypeOK, Terminal, Active, redisVars, taskVars, schedVars, jobVars, downVars
<1>1. ASSUME NEW t \in Work, Submit(t) PROVE ShutdownTypeOK'
  BY <1>1 DEF Submit
<1>2. ASSUME NEW t \in Work, SpawnChild(t) PROVE ShutdownTypeOK'
  BY <1>2 DEF SpawnChild, Enqueue
<1>3. ASSUME NEW t \in Work, Added(t) PROVE ShutdownTypeOK'
  BY <1>3 DEF Added, Enqueue
<1>4. ASSUME NEW t \in Work, HandlerDone(t) PROVE ShutdownTypeOK'
  BY <1>4 DEF HandlerDone, Erase
<1>5. ASSUME NEW t \in Work, Starts(t) PROVE ShutdownTypeOK'
  BY <1>5 DEF Starts
<1>6. ASSUME NEW t \in Work, Ends(t) PROVE ShutdownTypeOK'
  BY <1>6 DEF Ends, Leaves
<1>7. ASSUME NEW t \in Work, QueueAgain(t) PROVE ShutdownTypeOK'
  BY <1>7 DEF QueueAgain, Enqueue, Leaves
<1>8. ASSUME NEW t \in Work, CutOff(t) PROVE ShutdownTypeOK'
  BY <1>8 DEF CutOff, Leaves
<1>9. ASSUME NEW t \in Work, Pop(t) PROVE ShutdownTypeOK'
  BY <1>9 DEF Pop
<1>10. ASSUME NEW t \in Work, Readd(t) PROVE ShutdownTypeOK'
  BY <1>10 DEF Readd, Enqueue
<1>11. ASSUME NEW t \in Work, CancelPending(t) PROVE ShutdownTypeOK'
  BY <1>11 DEF CancelPending
<1>12. ASSUME NEW s \in {"signal", "webui"}, Ask(s) PROVE ShutdownTypeOK'
  BY <1>12 DEF Ask, Active
<1>13. ASSUME AskAgain PROVE ShutdownTypeOK'
  BY <1>13 DEF AskAgain
<1>14. ASSUME Wake PROVE ShutdownTypeOK'
  BY <1>14 DEF Wake
<1>15. ASSUME Dispatch PROVE ShutdownTypeOK'
  BY <1>15 DEF Dispatch
<1>16. ASSUME Defer PROVE ShutdownTypeOK'
  BY <1>16 DEF Defer
<1>17. ASSUME PassOver PROVE ShutdownTypeOK'
  BY <1>17 DEF PassOver
<1>18. ASSUME ReaddOver PROVE ShutdownTypeOK'
  BY <1>18 DEF ReaddOver
<1>19. ASSUME DeletePending PROVE ShutdownTypeOK'
  BY <1>19 DEF DeletePending, Erase
<1>20. ASSUME PendingOver PROVE ShutdownTypeOK'
  BY <1>20 DEF PendingOver, AllDone, Active
<1>21. ASSUME BecomesIdle PROVE ShutdownTypeOK'
  BY <1>21 DEF BecomesIdle, AllDone, Active
<1>22. ASSUME DrainEnds PROVE ShutdownTypeOK'
  BY <1>22 DEF DrainEnds
<1>23. ASSUME WindowOver PROVE ShutdownTypeOK'
  BY <1>23 DEF WindowOver, AllDone, Active
<1>24. ASSUME CancelingOver PROVE ShutdownTypeOK'
  BY <1>24 DEF CancelingOver
<1>25. ASSUME StopServers PROVE ShutdownTypeOK'
  BY <1>25 DEF StopServers
<1>26. ASSUME LoopCut PROVE ShutdownTypeOK'
  BY <1>26 DEF LoopCut
<1>27. ASSUME ServicesEnd PROVE ShutdownTypeOK'
  BY <1>27 DEF ServicesEnd
<1>28. ASSUME Exit PROVE ShutdownTypeOK'
  BY <1>28 DEF Exit
<1>29. ASSUME Recover PROVE ShutdownTypeOK'
  BY <1>29 DEF Recover, Restored
<1>30. ASSUME UNCHANGED shutdownVars PROVE ShutdownTypeOK'
  BY <1>30 DEF shutdownVars
<1> QED
  BY <1>1, <1>2, <1>3, <1>4, <1>5, <1>6, <1>7, <1>8, <1>9, <1>10, <1>11, <1>12, <1>13, <1>14, <1>15, <1>16, <1>17, <1>18, <1>19, <1>20, <1>21, <1>22, <1>23, <1>24, <1>25, <1>26, <1>27, <1>28, <1>29, <1>30
     DEF ShutdownNext, SchedulerActs, DrainActs, ExitActs

\* Each step keeps a task in one place, and what was cut off in none.
LEMMA PlaceStep ==
  ASSUME ShutdownTypeOK, PlaceInv, [ShutdownNext]_shutdownVars
  PROVE  PlaceInv'
<1> USE WorkAssumption DEF ShutdownTypeOK, PlaceInv, OnePlace, CutOffStays, Held, RestartReplaysNothing,
  Alive, redisVars, taskVars, schedVars, jobVars, downVars
<1>1. ASSUME NEW t \in Work, Submit(t) PROVE PlaceInv'
  BY <1>1 DEF Submit
<1>2. ASSUME NEW t \in Work, SpawnChild(t) PROVE PlaceInv'
  BY <1>2 DEF SpawnChild, Enqueue
<1>3. ASSUME NEW t \in Work, Added(t) PROVE PlaceInv'
  BY <1>3 DEF Added, Enqueue
<1>4. ASSUME NEW t \in Work, HandlerDone(t) PROVE PlaceInv'
  BY <1>4 DEF HandlerDone, Erase
<1>5. ASSUME NEW t \in Work, Starts(t) PROVE PlaceInv'
  BY <1>5 DEF Starts
<1>6. ASSUME NEW t \in Work, Ends(t) PROVE PlaceInv'
  BY <1>6 DEF Ends, Leaves
<1>7. ASSUME NEW t \in Work, QueueAgain(t) PROVE PlaceInv'
  BY <1>7 DEF QueueAgain, Enqueue, Leaves
<1>8. ASSUME NEW t \in Work, CutOff(t) PROVE PlaceInv'
  <2> USE <1>8 DEF CutOff, Leaves
  <2>1. CASE run[t] = "executing"
    BY <2>1
  <2>2. CASE run[t] # "executing"
    <3>1. PICK said \in {persisted[t], "running"} : persisted' = [persisted EXCEPT ![t] = said]
      BY <2>2
    <3>2. run[t] = "starting" /\ main # "next"
      BY <2>2 DEF Active
    <3> QED
      BY <2>2, <3>1, <3>2
  <2> QED
    BY <2>1, <2>2
<1>9. ASSUME NEW t \in Work, Pop(t) PROVE PlaceInv'
  BY <1>9 DEF Pop
<1>10. ASSUME NEW t \in Work, Readd(t) PROVE PlaceInv'
  BY <1>10 DEF Readd, Enqueue
<1>11. ASSUME NEW t \in Work, CancelPending(t) PROVE PlaceInv'
  BY <1>11 DEF CancelPending
<1>12. ASSUME NEW s \in {"signal", "webui"}, Ask(s) PROVE PlaceInv'
  BY <1>12 DEF Ask, Active
<1>13. ASSUME AskAgain PROVE PlaceInv'
  BY <1>13 DEF AskAgain
<1>14. ASSUME Wake PROVE PlaceInv'
  BY <1>14 DEF Wake
<1>15. ASSUME Dispatch PROVE PlaceInv'
  BY <1>15 DEF Dispatch
<1>16. ASSUME Defer PROVE PlaceInv'
  BY <1>16 DEF Defer
<1>17. ASSUME PassOver PROVE PlaceInv'
  BY <1>17 DEF PassOver
<1>18. ASSUME ReaddOver PROVE PlaceInv'
  BY <1>18 DEF ReaddOver
<1>19. ASSUME DeletePending PROVE PlaceInv'
  BY <1>19 DEF DeletePending, Erase
<1>20. ASSUME PendingOver PROVE PlaceInv'
  BY <1>20 DEF PendingOver, AllDone, Active
<1>21. ASSUME BecomesIdle PROVE PlaceInv'
  BY <1>21 DEF BecomesIdle, AllDone, Active
<1>22. ASSUME DrainEnds PROVE PlaceInv'
  BY <1>22 DEF DrainEnds
<1>23. ASSUME WindowOver PROVE PlaceInv'
  BY <1>23 DEF WindowOver, AllDone, Active
<1>24. ASSUME CancelingOver PROVE PlaceInv'
  BY <1>24 DEF CancelingOver
<1>25. ASSUME StopServers PROVE PlaceInv'
  BY <1>25 DEF StopServers
<1>26. ASSUME LoopCut PROVE PlaceInv'
  BY <1>26 DEF LoopCut
<1>27. ASSUME ServicesEnd PROVE PlaceInv'
  BY <1>27 DEF ServicesEnd
<1>28. ASSUME Exit PROVE PlaceInv'
  BY <1>28 DEF Exit
<1>29. ASSUME Recover PROVE PlaceInv'
  BY <1>29 DEF Recover, Restored
<1>30. ASSUME UNCHANGED shutdownVars PROVE PlaceInv'
  BY <1>30 DEF shutdownVars
<1> QED
  BY <1>1, <1>2, <1>3, <1>4, <1>5, <1>6, <1>7, <1>8, <1>9, <1>10, <1>11, <1>12, <1>13, <1>14, <1>15, <1>16, <1>17, <1>18, <1>19, <1>20, <1>21, <1>22, <1>23, <1>24, <1>25, <1>26, <1>27, <1>28, <1>29, <1>30
     DEF ShutdownNext, SchedulerActs, DrainActs, ExitActs

\* Each step keeps what is known of the drain.
LEMMA PatientStep ==
  ASSUME ShutdownTypeOK, Patient, [ShutdownNext]_shutdownVars
  PROVE  Patient'
<1> USE WorkAssumption DEF ShutdownTypeOK, Patient, Active, Alive, redisVars, taskVars, schedVars, jobVars, downVars
<1>1. ASSUME NEW t \in Work, Submit(t) PROVE Patient'
  BY <1>1 DEF Submit
<1>2. ASSUME NEW t \in Work, SpawnChild(t) PROVE Patient'
  BY <1>2 DEF SpawnChild, Enqueue
<1>3. ASSUME NEW t \in Work, Added(t) PROVE Patient'
  BY <1>3 DEF Added, Enqueue
<1>4. ASSUME NEW t \in Work, HandlerDone(t) PROVE Patient'
  BY <1>4 DEF HandlerDone, Erase
<1>5. ASSUME NEW t \in Work, Starts(t) PROVE Patient'
  BY <1>5 DEF Starts
<1>6. ASSUME NEW t \in Work, Ends(t) PROVE Patient'
  BY <1>6 DEF Ends, Leaves
<1>7. ASSUME NEW t \in Work, QueueAgain(t) PROVE Patient'
  BY <1>7 DEF QueueAgain, Enqueue, Leaves
<1>8. ASSUME NEW t \in Work, CutOff(t) PROVE Patient'
  BY <1>8 DEF CutOff, Leaves
<1>9. ASSUME NEW t \in Work, Pop(t) PROVE Patient'
  BY <1>9 DEF Pop
<1>10. ASSUME NEW t \in Work, Readd(t) PROVE Patient'
  BY <1>10 DEF Readd, Enqueue
<1>11. ASSUME NEW t \in Work, CancelPending(t) PROVE Patient'
  BY <1>11 DEF CancelPending
<1>12. ASSUME NEW s \in {"signal", "webui"}, Ask(s) PROVE Patient'
  BY <1>12 DEF Ask, Active
<1>13. ASSUME AskAgain PROVE Patient'
  BY <1>13 DEF AskAgain
<1>14. ASSUME Wake PROVE Patient'
  BY <1>14 DEF Wake
<1>15. ASSUME Dispatch PROVE Patient'
  BY <1>15 DEF Dispatch
<1>16. ASSUME Defer PROVE Patient'
  BY <1>16 DEF Defer
<1>17. ASSUME PassOver PROVE Patient'
  BY <1>17 DEF PassOver
<1>18. ASSUME ReaddOver PROVE Patient'
  BY <1>18 DEF ReaddOver
<1>19. ASSUME DeletePending PROVE Patient'
  BY <1>19 DEF DeletePending, Erase
<1>20. ASSUME PendingOver PROVE Patient'
  BY <1>20 DEF PendingOver, AllDone, Active
<1>21. ASSUME BecomesIdle PROVE Patient'
  BY <1>21 DEF BecomesIdle, AllDone, Active
<1>22. ASSUME DrainEnds PROVE Patient'
  BY <1>22 DEF DrainEnds
<1>23. ASSUME WindowOver PROVE Patient'
  BY <1>23 DEF WindowOver, AllDone, Active
<1>24. ASSUME CancelingOver PROVE Patient'
  BY <1>24 DEF CancelingOver
<1>25. ASSUME StopServers PROVE Patient'
  BY <1>25 DEF StopServers
<1>26. ASSUME LoopCut PROVE Patient'
  BY <1>26 DEF LoopCut
<1>27. ASSUME ServicesEnd PROVE Patient'
  BY <1>27 DEF ServicesEnd
<1>28. ASSUME Exit PROVE Patient'
  BY <1>28 DEF Exit
<1>29. ASSUME Recover PROVE Patient'
  BY <1>29 DEF Recover, Restored
<1>30. ASSUME UNCHANGED shutdownVars PROVE Patient'
  BY <1>30 DEF shutdownVars
<1> QED
  BY <1>1, <1>2, <1>3, <1>4, <1>5, <1>6, <1>7, <1>8, <1>9, <1>10, <1>11, <1>12, <1>13, <1>14, <1>15, <1>16, <1>17, <1>18, <1>19, <1>20, <1>21, <1>22, <1>23, <1>24, <1>25, <1>26, <1>27, <1>28, <1>29, <1>30
     DEF ShutdownNext, SchedulerActs, DrainActs, ExitActs

\* Each step strands nothing.
LEMMA StrandStep ==
  ASSUME ShutdownTypeOK, RestartStrandsNothing, [ShutdownNext]_shutdownVars
  PROVE  RestartStrandsNothing'
<1> USE WorkAssumption DEF ShutdownTypeOK, RestartStrandsNothing, Terminal, Alive, redisVars, taskVars, schedVars, jobVars, downVars
<1>1. ASSUME NEW t \in Work, Submit(t) PROVE RestartStrandsNothing'
  BY <1>1 DEF Submit
<1>2. ASSUME NEW t \in Work, SpawnChild(t) PROVE RestartStrandsNothing'
  BY <1>2 DEF SpawnChild, Enqueue
<1>3. ASSUME NEW t \in Work, Added(t) PROVE RestartStrandsNothing'
  BY <1>3 DEF Added, Enqueue
<1>4. ASSUME NEW t \in Work, HandlerDone(t) PROVE RestartStrandsNothing'
  BY <1>4 DEF HandlerDone, Erase
<1>5. ASSUME NEW t \in Work, Starts(t) PROVE RestartStrandsNothing'
  BY <1>5 DEF Starts
<1>6. ASSUME NEW t \in Work, Ends(t) PROVE RestartStrandsNothing'
  BY <1>6 DEF Ends, Leaves
<1>7. ASSUME NEW t \in Work, QueueAgain(t) PROVE RestartStrandsNothing'
  BY <1>7 DEF QueueAgain, Enqueue, Leaves
<1>8. ASSUME NEW t \in Work, CutOff(t) PROVE RestartStrandsNothing'
  BY <1>8 DEF CutOff, Leaves
<1>9. ASSUME NEW t \in Work, Pop(t) PROVE RestartStrandsNothing'
  BY <1>9 DEF Pop
<1>10. ASSUME NEW t \in Work, Readd(t) PROVE RestartStrandsNothing'
  BY <1>10 DEF Readd, Enqueue
<1>11. ASSUME NEW t \in Work, CancelPending(t) PROVE RestartStrandsNothing'
  BY <1>11 DEF CancelPending
<1>12. ASSUME NEW s \in {"signal", "webui"}, Ask(s) PROVE RestartStrandsNothing'
  BY <1>12 DEF Ask, Active
<1>13. ASSUME AskAgain PROVE RestartStrandsNothing'
  BY <1>13 DEF AskAgain
<1>14. ASSUME Wake PROVE RestartStrandsNothing'
  BY <1>14 DEF Wake
<1>15. ASSUME Dispatch PROVE RestartStrandsNothing'
  BY <1>15 DEF Dispatch
<1>16. ASSUME Defer PROVE RestartStrandsNothing'
  BY <1>16 DEF Defer
<1>17. ASSUME PassOver PROVE RestartStrandsNothing'
  BY <1>17 DEF PassOver
<1>18. ASSUME ReaddOver PROVE RestartStrandsNothing'
  BY <1>18 DEF ReaddOver
<1>19. ASSUME DeletePending PROVE RestartStrandsNothing'
  BY <1>19 DEF DeletePending, Erase
<1>20. ASSUME PendingOver PROVE RestartStrandsNothing'
  BY <1>20 DEF PendingOver, AllDone, Active
<1>21. ASSUME BecomesIdle PROVE RestartStrandsNothing'
  BY <1>21 DEF BecomesIdle, AllDone, Active
<1>22. ASSUME DrainEnds PROVE RestartStrandsNothing'
  BY <1>22 DEF DrainEnds
<1>23. ASSUME WindowOver PROVE RestartStrandsNothing'
  BY <1>23 DEF WindowOver, AllDone, Active
<1>24. ASSUME CancelingOver PROVE RestartStrandsNothing'
  BY <1>24 DEF CancelingOver
<1>25. ASSUME StopServers PROVE RestartStrandsNothing'
  BY <1>25 DEF StopServers
<1>26. ASSUME LoopCut PROVE RestartStrandsNothing'
  BY <1>26 DEF LoopCut
<1>27. ASSUME ServicesEnd PROVE RestartStrandsNothing'
  BY <1>27 DEF ServicesEnd
<1>28. ASSUME Exit PROVE RestartStrandsNothing'
  BY <1>28 DEF Exit
<1>29. ASSUME Recover PROVE RestartStrandsNothing'
  BY <1>29 DEF Recover, Restored
<1>30. ASSUME UNCHANGED shutdownVars PROVE RestartStrandsNothing'
  BY <1>30 DEF shutdownVars
<1> QED
  BY <1>1, <1>2, <1>3, <1>4, <1>5, <1>6, <1>7, <1>8, <1>9, <1>10, <1>11, <1>12, <1>13, <1>14, <1>15, <1>16, <1>17, <1>18, <1>19, <1>20, <1>21, <1>22, <1>23, <1>24, <1>25, <1>26, <1>27, <1>28, <1>29, <1>30
     DEF ShutdownNext, SchedulerActs, DrainActs, ExitActs

\* The inductive invariant holds in every state.
LEMMA ShutdownInvariance == ShutdownSpec => []ShutdownInv
<1>1. ShutdownInit => ShutdownInv
  BY WorkAssumption DEF ShutdownInit, ShutdownInv, ShutdownTypeOK, PlaceInv, OnePlace, CutOffStays, Held,
     RestartReplaysNothing, Patient, RestartStrandsNothing, Active, Alive, Terminal
<1>2. ShutdownInv /\ [ShutdownNext]_shutdownVars => ShutdownInv'
  BY ShutdownTypeStep, PlaceStep, PatientStep, StrandStep DEF ShutdownInv
<1> QED
  BY <1>1, <1>2, PTL DEF ShutdownSpec

\* Type correctness of the shutdown.
THEOREM ShutdownTypes == ShutdownSpec => []ShutdownTypeOK
<1>1. ShutdownInv => ShutdownTypeOK
  BY DEF ShutdownInv
<1> QED
  BY <1>1, ShutdownInvariance, PTL

\* recover_startup_tasks meets what graceful_shutdown, a cut loop and runs killed
\* with the event loop leave behind: nothing is stranded and nothing is run twice.
THEOREM RestartFaithful == ShutdownSpec => []RestartIsFaithful
<1>1. ShutdownInv => RestartIsFaithful
  BY DEF ShutdownInv, PlaceInv, RestartIsFaithful
<1> QED
  BY <1>1, ShutdownInvariance, PTL

\* graceful_shutdown waits for the runs that were active when it was asked for.
THEOREM DrainPatience == ShutdownSpec => DrainIsPatient
<1> DEFINE Waits == \A t \in atRequest \cap atRequest' :
                      (run[t] # "none" /\ run'[t] = "none") => late \/ again
<1>1. ShutdownInv /\ [ShutdownNext]_shutdownVars => [Waits]_shutdownVars
  <2> SUFFICES ASSUME ShutdownInv, ShutdownNext PROVE Waits
    OBVIOUS
  <2> USE WorkAssumption DEF ShutdownInv, ShutdownTypeOK, Patient, Active, Alive, redisVars, taskVars, schedVars, jobVars, downVars
  <2>1. ASSUME NEW t \in Work, Starts(t) PROVE Waits
    BY <2>1 DEF Starts
  <2>2. ASSUME NEW t \in Work, Ends(t) PROVE Waits
    BY <2>2 DEF Ends, Leaves
  <2>3. ASSUME NEW t \in Work, QueueAgain(t) PROVE Waits
    BY <2>3 DEF QueueAgain, Enqueue, Leaves
  <2>4. ASSUME NEW t \in Work, CutOff(t) PROVE Waits
    BY <2>4 DEF CutOff, Leaves
  <2>5. ASSUME Dispatch PROVE Waits
    BY <2>5 DEF Dispatch
  <2>6. ASSUME Exit PROVE Waits
    BY <2>6 DEF Exit
  <2>7. ASSUME NEW s \in {"signal", "webui"}, Ask(s) PROVE Waits
    BY <2>7 DEF Ask, Active
  <2>8. ASSUME run' = run PROVE Waits
    BY <2>8
  <2> QED
    BY <2>1, <2>2, <2>3, <2>4, <2>5, <2>6, <2>7, <2>8
       DEF ShutdownNext, SchedulerActs, DrainActs, ExitActs, Submit, SpawnChild, Added, HandlerDone, Pop, Readd, CancelPending, AskAgain, Wake, Defer, PassOver, ReaddOver, DeletePending, PendingOver, BecomesIdle, DrainEnds, WindowOver, CancelingOver, StopServers, LoopCut, ServicesEnd, Recover
<1> QED
  BY <1>1, ShutdownInvariance, PTL DEF ShutdownSpec, DrainIsPatient
==============================================================================
