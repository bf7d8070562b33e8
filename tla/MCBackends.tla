----------------------------- MODULE MCBackends -----------------------------
(***************************************************************************)
(* Components that only share a process, checked side by side: a behaviour *)
(* is one of a measured resource, of a routing decision with its affinity  *)
(* store, of a readiness history, of the process that is asked to end, or  *)
(* of a model that its tasks leave in memory.                              *)
(***************************************************************************)
EXTENDS SmartRouter, ResourceMonitor, ModelReadiness, Shutdown, KeepAlive, TLC

VARIABLE part   \* the component that moves

MCPolicy == [min |-> 512, max |-> 32768, short |-> 10240, medium |-> 20480, long |-> 102400,
             shortRatio |-> 900, mediumRatio |-> 500, longRatio |-> 100,
             ladder |-> {256, 512, 1024, 1536, 2048, 2560, 3072, 3584, 4096, 6144, 8192, 10240,
                         12288, 16384, 20480, 24576, 28672, 32768}]
MCFallbackPrio == [c \in Candidates |-> IF c = 1 THEN 2 ELSE c]

backendsVars == <<part, routerVars, monitorVars, readinessVars, shutdownVars, keepVars>>

BackendsInit ==
    /\ part \in {"router", "monitor", "readiness", "shutdown", "keepalive"}
    /\ RouterInit /\ MonitorInit /\ ReadinessInit /\ ShutdownInit /\ KeepInit
    /\ part # "monitor" => source = "command"
    /\ part # "router" => affinityOn /\ overImmediate
    /\ part # "keepalive" => ~managed

Router(A) ==
    part = "router" /\ A /\ UNCHANGED <<part, monitorVars, readinessVars, shutdownVars, keepVars>>
Monitor(A) ==
    part = "monitor" /\ A /\ UNCHANGED <<part, routerVars, readinessVars, shutdownVars, keepVars>>
Readiness(A) ==
    part = "readiness" /\ A /\ UNCHANGED <<part, routerVars, monitorVars, shutdownVars, keepVars>>
Down(A) ==
    part = "shutdown" /\ A /\ UNCHANGED <<part, routerVars, monitorVars, readinessVars, keepVars>>
Warm(A) ==
    part = "keepalive" /\ A /\ UNCHANGED <<part, routerVars, monitorVars, readinessVars, shutdownVars>>

BackendsNext ==
    \/ Router(RouterNext) \/ Monitor(MonitorNext) \/ Readiness(ReadinessNext)
    \/ Down(ShutdownNext) \/ Warm(KeepNext)

\* A shutdown takes its own steps and its time limits expire; no run and no pass
\* has to end.  Time passes for an idle model, what the core began is answered, and
\* cron is run again and again.
BackendsSpec ==
    /\ BackendsInit /\ [][BackendsNext]_backendsVars
    /\ WF_backendsVars(Down(DrainActs)) /\ WF_backendsVars(Down(ExitActs))
    /\ WF_backendsVars(Warm(Tick)) /\ WF_backendsVars(Warm(CoreEnds)) /\ WF_backendsVars(Warm(CronActs))
=============================================================================
