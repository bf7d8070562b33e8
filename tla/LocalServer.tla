---------------------------- MODULE LocalServer ----------------------------
(***************************************************************************)
(* The llama.cpp server of one provider (core/local_server_manager.py):    *)
(* requests of the core process and the maintenance process's keep-alive   *)
(* start it, unloads, hooks and the shutdown stop it, and the operating    *)
(* system may end a process and give its pid to another program.  Every    *)
(* await is a step of its own; the state file and /proc are read and       *)
(* written between awaits.                                                 *)
(***************************************************************************)
EXTENDS Naturals, FiniteSets

CONSTANTS
    Starters,    \* calls of ensure_running in the core process
    CronPing,    \* {} or the one keep-alive call of the maintenance process
    Stoppers,    \* unloads and the shutdown: calls of stop
    Pids,        \* process ids the operating system hands out
    MaxStarts,   \* bound: processes started on these pids, so start ticks
    MaxRestarts, \* bound: crashes of the core process
    NoProcess

ASSUME LocalServerAssumption ==
    /\ Starters \cap CronPing = {} /\ Starters \cap Stoppers = {}
    /\ CronPing \cap Stoppers = {} /\ Stoppers # {}
    /\ MaxStarts \in Nat /\ MaxRestarts \in Nat
    /\ NoProcess \notin Starters

VARIABLES
    proc,      \* per pid: what runs there and its start ticks
    ticks,     \* the clock that stamps process starts
    record,    \* the ownership record in the state file
    lock,      \* who holds the core's asyncio.Lock of the provider
    failed,    \* the core keeps a startup error for the provider
    call,      \* per caller: where it awaits, its process, what follows a stop
    restarts

serverVars == <<proc, ticks, record, lock, failed, call, restarts>>

Callers   == Starters \cup CronPing \cup Stoppers
Identity  == [pid : Pids, ticks : 0 .. MaxStarts]
OwnStates == {"starting", "ready", "ending"}
Free      == [state |-> "free", ticks |-> 0]
Idle      == [at |-> "idle", mine |-> NoProcess, next |-> "idle"]

ServerTypeOK ==
    /\ proc \in [Pids -> [state : {"free", "other"} \cup OwnStates, ticks : 0 .. MaxStarts]]
    /\ ticks \in 0 .. MaxStarts
    /\ record \in Identity \cup {NoProcess}
    /\ lock \in Starters \cup {NoProcess}
    /\ failed \in BOOLEAN
    /\ call \in [Callers -> [at : {"idle", "probe", "queue", "recheck", "spawn", "store",
                                    "starting", "waiting", "cleanup", "adopt", "stopping"},
                             mine : Identity \cup {NoProcess},
                             next : {"idle", "fail", "probe"}]]
    /\ restarts \in 0 .. MaxRestarts

ServerInit ==
    /\ proc = [p \in Pids |-> Free]
    /\ ticks = 0
    /\ record = NoProcess
    /\ lock = NoProcess
    /\ failed = FALSE
    /\ call = [c \in Callers |-> Idle]
    /\ restarts = 0

-----------------------------------------------------------------------------
\* Helpers.

\* Mutant of Owned: the start ticks are not compared.
OwnedByPid(r) == r # NoProcess /\ proc[r.pid].state # "free"

\* A record is owned when its pid still runs the process with its start ticks.
Owned(r) == r # NoProcess /\ proc[r.pid].state # "free" /\ proc[r.pid].ticks = r.ticks

\* What GET /health may return: only a server that is up can answer (another
\* program may serve the URL too), and a busy one may miss the 2 s.
HealthAnswers == {FALSE} \cup {TRUE : p \in {q \in Pids : proc[q].state \in {"ready", "other"}}}

\* The core restarted and has not finished adopt_existing yet.
Adopting == \E c \in Stoppers : call[c].at = "adopt" \/ (call[c].at = "stopping" /\ call[c].next = "fail")

Goto(c, place) == call' = [call EXCEPT ![c].at = place]

Release(c) == lock' = IF lock = c THEN NoProcess ELSE lock

\* Mutant of Return: a failure leaves the lock taken.
ReturnKeepsLock(c, ok) ==
    /\ call' = [call EXCEPT ![c] = Idle]
    /\ failed' = IF c \in Starters THEN ~ok ELSE failed
    /\ lock' = IF ok /\ lock = c THEN NoProcess ELSE lock

\* ensure_running's outcome; only the core's manager lives on to remember it.
Return(c, ok) ==
    /\ call' = [call EXCEPT ![c] = Idle]
    /\ failed' = IF c \in Starters THEN ~ok ELSE failed
    /\ Release(c)

-----------------------------------------------------------------------------
\* ensure_running.

EnsureRunning(c) ==
    /\ call[c].at = "idle"
    /\ ~Adopting
    /\ Goto(c, "probe")
    /\ UNCHANGED <<proc, ticks, record, lock, failed, restarts>>

\* The first health check, or a provider without baseUrl or exec_cmd.
ProbeHealth(c) ==
    /\ call[c].at = "probe"
    /\ \E healthy \in HealthAnswers :
          IF healthy THEN Return(c, TRUE)
          ELSE \/ Return(c, FALSE)
               \/ Goto(c, IF c \in Starters THEN "queue" ELSE "recheck") /\ UNCHANGED <<lock, failed>>
    /\ UNCHANGED <<proc, ticks, record, restarts>>

\* The keep-alive builds a manager, and with it a lock, of its own.
AcquireLock(c) ==
    /\ call[c].at = "queue"
    /\ lock = NoProcess
    /\ lock' = c
    /\ Goto(c, "recheck")
    /\ UNCHANGED <<proc, ticks, record, failed, restarts>>

\* The second health check and, without an await between them, the decision to
\* wait for the recorded process, to start one, or to give up on the command.
Recheck(c) ==
    /\ call[c].at = "recheck"
    /\ \E healthy \in HealthAnswers :
          \/ healthy /\ Return(c, TRUE) /\ UNCHANGED record
          \/ /\ ~healthy /\ Owned(record)
             /\ call' = [call EXCEPT ![c].at = "waiting", ![c].mine = record]
             /\ UNCHANGED <<record, lock, failed>>
          \/ /\ ~healthy /\ ~Owned(record)
             /\ record' = NoProcess
             /\ \/ Goto(c, "spawn") /\ UNCHANGED <<lock, failed>>
                \/ Return(c, FALSE)
    /\ UNCHANGED <<proc, ticks, restarts>>

\* create_subprocess_exec: the process exists before the caller resumes.
Spawn(c) ==
    /\ call[c].at = "spawn"
    /\ \/ Return(c, FALSE) /\ UNCHANGED <<proc, ticks>>
       \/ \E p \in Pids :
             /\ proc[p].state = "free" /\ ticks < MaxStarts
             /\ ticks' = ticks + 1
             /\ proc' = [proc EXCEPT ![p] = [state |-> "starting", ticks |-> ticks + 1]]
             /\ call' = [call EXCEPT ![c].at = "store", ![c].mine = [pid |-> p, ticks |-> ticks + 1]]
             /\ UNCHANGED <<lock, failed>>
    /\ UNCHANGED <<record, restarts>>

StoreRecord(c) ==
    /\ call[c].at = "store"
    /\ record' = call[c].mine
    /\ Goto(c, "starting")
    /\ UNCHANGED <<proc, ticks, lock, failed, restarts>>

\* _wait_ready: ready, gone, or not ready in time; whoever started the process
\* stops the provider before it reports the failure.
WaitReady(c) ==
    /\ call[c].at \in {"starting", "waiting"}
    /\ \/ Owned(call[c].mine) /\ TRUE \in HealthAnswers /\ Return(c, TRUE)
       \/ call[c].at = "waiting" /\ Return(c, FALSE)
       \/ /\ call[c].at = "starting"
          /\ call' = [call EXCEPT ![c].at = "cleanup", ![c].next = "fail"]
          /\ UNCHANGED <<lock, failed>>
    /\ UNCHANGED <<proc, ticks, record, restarts>>

-----------------------------------------------------------------------------
\* stop: of a failed start, of an unload or the shutdown, of a hook's restart.

AfterStop(c) ==
    CASE call[c].next = "fail" /\ c \notin Stoppers -> Return(c, FALSE)
      [] call[c].next = "probe" -> call' = [call EXCEPT ![c] = [Idle EXCEPT !.at = "probe"]] /\ UNCHANGED <<lock, failed>>
      [] OTHER -> call' = [call EXCEPT ![c] = Idle] /\ UNCHANGED <<lock, failed>>

Stop(c, following) ==
    IF Owned(record)
    THEN /\ proc' = [proc EXCEPT ![record.pid] = IF @.state = "other" THEN Free ELSE [@ EXCEPT !.state = "ending"]]
         /\ call' = [call EXCEPT ![c] = [at |-> "stopping", mine |-> record, next |-> following]]
         /\ UNCHANGED <<record, lock, failed>>
    ELSE /\ record' = NoProcess
         /\ AfterStop(c)
         /\ UNCHANGED proc

StopProvider(c) ==
    /\ call[c].at = "idle" /\ ~Adopting
    /\ Stop(c, "idle")
    /\ UNCHANGED <<ticks, restarts>>

StopAfterFailedStart(c) ==
    /\ call[c].at = "cleanup"
    /\ Stop(c, "fail")
    /\ UNCHANGED <<ticks, restarts>>

RestartLocalLlamaCpp(c) ==
    /\ call[c].at = "idle" /\ ~Adopting
    /\ Owned(record)
    /\ Stop(c, "probe")
    /\ UNCHANGED <<ticks, restarts>>

\* A poll of the stopping process finds it gone: the record, whatever it names
\* by now, is removed.
StopPolled(c) ==
    /\ call[c].at = "stopping"
    /\ ~Owned(call[c].mine)
    /\ record' = NoProcess
    /\ AfterStop(c)
    /\ UNCHANGED <<proc, ticks, restarts>>

\* The 10 s are over: SIGKILL.  A pid is not handed out again within the 0.1 s
\* since the last poll.
StopKill(c) ==
    /\ call[c].at = "stopping"
    /\ Owned(call[c].mine)
    /\ proc' = [proc EXCEPT ![call[c].mine.pid] = Free]
    /\ record' = NoProcess
    /\ AfterStop(c)
    /\ UNCHANGED <<ticks, restarts>>

-----------------------------------------------------------------------------
\* The core process dies and starts again; its servers outlive it.

CoreRestart ==
    /\ restarts < MaxRestarts
    /\ restarts' = restarts + 1
    /\ lock' = NoProcess /\ failed' = FALSE
    /\ LET adopter == CHOOSE c \in Stoppers : TRUE
       IN call' = [c \in Callers |-> IF c \in CronPing THEN call[c]
                                     ELSE IF c = adopter THEN [Idle EXCEPT !.at = "adopt"] ELSE Idle]
    /\ UNCHANGED <<proc, ticks, record>>

\* adopt_existing keeps an owned server that answers and stops one that does not.
AdoptExisting(c) ==
    /\ call[c].at = "adopt"
    /\ \E healthy \in HealthAnswers :
          IF Owned(record) /\ ~healthy
          THEN Stop(c, "fail")
          ELSE call' = [call EXCEPT ![c] = Idle] /\ UNCHANGED <<proc, record, lock, failed>>
    /\ UNCHANGED <<ticks, restarts>>

-----------------------------------------------------------------------------
\* The operating system.

\* Only one process can listen on the provider's port.
BecomeReady(p) ==
    /\ proc[p].state = "starting"
    /\ \A q \in Pids : proc[q].state # "ready"
    /\ proc' = [proc EXCEPT ![p].state = "ready"]
    /\ UNCHANGED <<ticks, record, lock, failed, call, restarts>>

ProcessExit(p) ==
    /\ proc[p].state \in OwnStates
    /\ proc' = [proc EXCEPT ![p] = Free]
    /\ UNCHANGED <<ticks, record, lock, failed, call, restarts>>

\* Another program starts under a pid that was free.
OtherProgram(p) ==
    /\ proc[p].state = "free" /\ ticks < MaxStarts
    /\ ticks' = ticks + 1
    /\ proc' = [proc EXCEPT ![p] = [state |-> "other", ticks |-> ticks + 1]]
    /\ UNCHANGED <<record, lock, failed, call, restarts>>

CallStep(c) ==
    \/ ProbeHealth(c) \/ Recheck(c) \/ Spawn(c) \/ StoreRecord(c) \/ WaitReady(c)
    \/ StopAfterFailedStart(c) \/ StopPolled(c) \/ StopKill(c) \/ AdoptExisting(c)

ServerNext ==
    \/ \E c \in Callers : CallStep(c) \/ AcquireLock(c)
    \/ \E c \in Starters \cup CronPing : EnsureRunning(c)
    \/ \E c \in Stoppers : StopProvider(c)
    \/ \E c \in Starters : RestartLocalLlamaCpp(c)
    \/ CoreRestart
    \/ \E p \in Pids : BecomeReady(p) \/ ProcessExit(p) \/ OtherProgram(p)

\* Each call runs on: its awaits have time limits, and an asyncio.Lock is first
\* come, first served.
ServerFairness ==
    \A c \in Callers : WF_serverVars(CallStep(c)) /\ SF_serverVars(AcquireLock(c))

ServerSpec == ServerInit /\ [][ServerNext]_serverVars /\ ServerFairness

-----------------------------------------------------------------------------
\* Properties.

\* No step of aidir ends a program it did not start, whatever pid the stale
\* record of an earlier server names.
OtherProgramsSurvive ==
    [][\A p \in Pids : proc[p].state = "other" => proc'[p] = proc[p]]_serverVars

\* In the core at most one call is between its decision to start a server and
\* the verdict on that server, however the calls interleave.
StartsAreSerial ==
    \A c, d \in Starters :
        /\ call[c].at \in {"spawn", "store", "starting", "cleanup"}
        /\ call[d].at \in {"spawn", "store", "starting", "cleanup", "waiting"}
        => c = d

\* However calls interleave, the core starts one server at a time for the
\* provider, and aidir touches no other program.
OnlyOwnServer == []StartsAreSerial /\ OtherProgramsSurvive

\* A call never waits for ever: not for the lock behind a failed start, nor for
\* a process somebody stopped meanwhile.
CallsReturn == \A c \in Starters : []<>(call[c].at = "idle")

\* Every server aidir has started is named by the state file, or about to be.
\* (It does not hold: see the README.)
ServersAreRecorded ==
    \A p \in Pids : proc[p].state \in {"starting", "ready"} =>
        LET id == [pid |-> p, ticks |-> proc[p].ticks]
        IN record = id \/ \E c \in Callers : call[c].at = "store" /\ call[c].mine = id
=============================================================================
