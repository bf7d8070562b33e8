----------------------------- MODULE TaskRetries -----------------------------
(***************************************************************************)
(* Where one task goes after a refusal or a failed run: the scheduler's    *)
(* refusals of remote candidates, the reject policy of a worker, the smart *)
(* fallback and the retries and cancellations that hooks request           *)
(* (core/scheduler.py 688-953, 1013-1092 and 1561-1620, core/hooks.py).    *)
(* The candidates of its alias are remote aidirs, without KV affinity.     *)
(***************************************************************************)
EXTENDS Naturals, FiniteSets, FiniteSetsExt

CONSTANTS
    Remotes,       \* 1 .. n: the candidates in the order of fallback_prio
    Policies,      \* reject policies: per reason an action
    RetryCount,
    Fallbacks,     \* length of the worker's fallback list
    Grace,         \* remote_refusal_grace_seconds, in passes
    MaxRefusals,   \* _MAX_REMOTE_REFUSALS
    MaxSmart,      \* bound: smart fallbacks
    MaxHookCalls,  \* bound: requests by hooks
    MaxChanges     \* bound: changes of what the remotes answer

ASSUME TaskRetriesAssumption ==
    /\ Remotes # {} /\ Remotes \subseteq Nat \ {0}
    /\ {RetryCount, Fallbacks, Grace, MaxSmart, MaxHookCalls, MaxChanges} \subseteq Nat
    /\ MaxRefusals \in Nat \ {0}

VARIABLES
    policy,     \* in force for this task
    answers,    \* what each remote answers to the probe
    changes,
    stage,      \* of the task
    route,      \* resolved candidate
    blocked, refusals, graceSince, passes, \* of the refusals
    retryAttempt, fallbackIndex,
    hookFlags,  \* pending requests in the task's hook metadata
    runs, smart, hookCalls                 \* counts (history)

retryVars == <<policy, answers, changes, stage, route, blocked, refusals, graceSince, passes,
               retryAttempt, fallbackIndex, hookFlags, runs, smart, hookCalls>>

Reasons == {"unavailable", "busy", "error"}
Ended   == {"completed", "failed", "canceled", "cannot_run"}
Unset   == 0

RetriesTypeOK ==
    /\ policy \in Policies
    /\ answers \in [Remotes -> {"runs", "capacity", "silent"}] /\ changes \in 0 .. MaxChanges
    /\ stage \in {"queued", "asking", "starting", "running", "delivering", "rejected"} \cup Ended
    /\ route \in Remotes /\ blocked \subseteq Remotes
    /\ refusals \in 0 .. MaxRefusals /\ graceSince \in 0 .. Grace + 2 /\ passes \in 0 .. Grace + 2
    /\ retryAttempt \in 0 .. RetryCount /\ fallbackIndex \in 0 .. Fallbacks
    /\ hookFlags \subseteq {"retry", "cancel"}
    /\ runs \in Nat /\ smart \in 0 .. MaxSmart /\ hookCalls \in 0 .. MaxHookCalls

RetriesInit ==
    /\ policy \in Policies
    /\ answers \in [Remotes -> {"runs", "capacity", "silent"}] /\ changes = 0
    /\ stage = "queued" /\ route \in Remotes
    /\ blocked = {} /\ refusals = 0 /\ graceSince = Unset /\ passes = 1
    /\ retryAttempt = 0 /\ fallbackIndex = 0 /\ hookFlags = {}
    /\ runs = 0 /\ smart = 0 /\ hookCalls = 0

policyVars == <<policy, retryAttempt, fallbackIndex, hookFlags, smart, hookCalls>>
remoteVars == <<answers, changes, blocked, refusals, graceSince, passes>>

\* Mutant of Resolved: a busy candidate is preferred.
ResolvedBusyFirst(excluded) ==
    LET open == Remotes \ excluded
        busy == {c \in open : answers[c] = "capacity"}
        free == {c \in open : answers[c] = "runs"}
    IN IF busy # {} THEN Min(busy) ELSE IF free # {} THEN Min(free) ELSE route

\* The candidate the router picks: the first that can run, else the first that
\* answers; none leaves the route as it was.
Resolved(excluded) ==
    LET open == Remotes \ excluded
        free == {c \in open : answers[c] = "runs"}
        busy == {c \in open : answers[c] = "capacity"}
    IN CASE free # {} -> Min(free)
         [] free = {} /\ busy # {} -> Min(busy)
         [] OTHER -> route

-----------------------------------------------------------------------------
\* The pass.

\* The task is popped and its route refreshed, with nothing excluded.
RefreshRoute ==
    /\ stage = "queued"
    /\ route' = Resolved({})
    /\ stage' = "asking"
    /\ passes' = Min({passes + 1, Grace + 2})
    /\ UNCHANGED <<policyVars, answers, changes, blocked, refusals, graceSince, runs>>

\* _remote_route_status says yes: the run starts.
StartRun ==
    /\ stage = "asking"
    /\ answers[route] = "runs"
    /\ stage' = "starting"
    /\ runs' = runs + 1
    /\ UNCHANGED <<policyVars, remoteVars, route>>

\* The task goes to another candidate, with the next pass; the count of its
\* refusals starts again.
Reroute(excluded) ==
    /\ Resolved(excluded) # route
    /\ route' = Resolved(excluded)
    /\ refusals' = 0
    /\ stage' = "queued"
    /\ UNCHANGED graceSince

RefusedUnreachable ==
    /\ stage = "asking" /\ answers[route] = "silent"
    /\ \/ Reroute(blocked \cup {route})
       \/ /\ Resolved(blocked \cup {route}) = route
          /\ stage' = "queued"
          /\ UNCHANGED <<route, refusals, graceSince>>
    /\ UNCHANGED <<policyVars, answers, changes, blocked, passes, runs>>

\* The candidate is excluded from its next refusal on.  In the grace period the
\* task waits; after it, the refusals are counted.
WithinGrace == Grace > 0 /\ passes - (IF graceSince = Unset THEN passes ELSE graceSince) < Grace

RefusedCapacity ==
    /\ stage = "asking" /\ answers[route] = "capacity"
    /\ \/ /\ Reroute(blocked)
          /\ blocked' = blocked \cup {route}
       \/ /\ Resolved(blocked) = route
          /\ route' = route
          /\ IF WithinGrace
             THEN /\ graceSince' = IF graceSince = Unset THEN passes ELSE graceSince
                  /\ stage' = "queued" /\ refusals' = refusals /\ blocked' = blocked \cup {route}
             ELSE IF refusals + 1 >= MaxRefusals
             THEN stage' = "cannot_run" /\ blocked' = {} /\ refusals' = 0 /\ graceSince' = Unset
             ELSE /\ stage' = "queued" /\ refusals' = refusals + 1
                  /\ blocked' = blocked \cup {route} /\ UNCHANGED graceSince
    /\ UNCHANGED <<policyVars, answers, changes, passes, runs>>

\* queue_timeout, which applies only before the first run.
QueueTimeout ==
    /\ stage = "queued" /\ runs = 0
    /\ stage' = "failed"
    /\ UNCHANGED <<policyVars, remoteVars, route, runs>>

-----------------------------------------------------------------------------
\* The run and its boundaries.

\* The finally block of a run.
EndRun == blocked' = {} /\ refusals' = 0 /\ graceSince' = Unset

\* A hook handler calls retry_task or cancel_task; a second retry is an error.
HookRequests(request) ==
    /\ stage \in {"starting", "running", "delivering"} /\ hookCalls < MaxHookCalls
    /\ request \notin hookFlags
    /\ hookFlags' = hookFlags \cup {request}
    /\ hookCalls' = hookCalls + 1
    /\ UNCHANGED <<policy, retryAttempt, fallbackIndex, smart, remoteVars, route, stage, runs>>

\* _apply_hook_control, at the boundaries before the request, after the result
\* and before delivery: a cancellation first, then a retry.
HookControl ==
    /\ stage \in {"starting", "running", "delivering"} /\ hookFlags # {}
    /\ IF "cancel" \in hookFlags
       THEN stage' = "canceled" /\ hookFlags' = hookFlags \ {"cancel"}
       ELSE stage' = "queued" /\ hookFlags' = {}
    /\ EndRun
    /\ UNCHANGED <<policy, retryAttempt, fallbackIndex, smart, hookCalls, answers, changes, passes, route, runs>>

\* Nothing was requested before the run, so worker.execute is called.
Execute ==
    /\ stage = "starting" /\ hookFlags = {}
    /\ stage' = "running"
    /\ UNCHANGED <<policyVars, remoteVars, route, runs>>

\* The worker succeeds: the counters of the policy start again.
WorkerOk ==
    /\ stage = "running" /\ hookFlags = {}
    /\ stage' = "delivering"
    /\ retryAttempt' = 0 /\ fallbackIndex' = 0
    /\ UNCHANGED <<policy, hookFlags, smart, hookCalls, remoteVars, route, runs>>

Complete ==
    /\ stage = "delivering" /\ hookFlags = {}
    /\ stage' = "completed"
    /\ EndRun
    /\ UNCHANGED <<policyVars, answers, changes, passes, route, runs>>

\* UPSTREAM_ERROR on a smart route: the next candidate but the one that failed.
SmartFallback ==
    /\ stage = "running" /\ hookFlags = {} /\ smart < MaxSmart
    /\ Resolved({route}) # route
    /\ route' = Resolved({route})
    /\ smart' = smart + 1
    /\ stage' = "queued"
    /\ EndRun
    /\ UNCHANGED <<policy, retryAttempt, fallbackIndex, hookFlags, hookCalls, answers, changes, passes, runs>>

\* The run fails, times out or raises; the last two leave a hook's request
\* pending for the first boundary of the next run.
WorkerFails ==
    /\ stage = "running"
    /\ stage' = "rejected"
    /\ UNCHANGED <<policyVars, remoteVars, route, runs>>

\* _handle_reject; a requeue that fails leaves the task failed.
Requeue ==
    /\ stage' = "queued"
    /\ EndRun
    /\ UNCHANGED <<policy, hookFlags, smart, hookCalls, answers, changes, passes, route, runs>>

RejectRetry(reason) ==
    /\ stage = "rejected" /\ policy[reason] = "retry" /\ retryAttempt < RetryCount
    /\ retryAttempt' = retryAttempt + 1 /\ UNCHANGED fallbackIndex
    /\ Requeue

RejectFallback(reason) ==
    /\ stage = "rejected" /\ policy[reason] \in {"fallback", "fallback-retry"}
    /\ fallbackIndex < Fallbacks
    /\ fallbackIndex' = fallbackIndex + 1 /\ UNCHANGED retryAttempt
    /\ Requeue

\* Mutant of RejectCycle: a new cycle of fallbacks is not counted.
RejectCycleUncounted(reason) ==
    /\ stage = "rejected" /\ policy[reason] = "fallback-retry"
    /\ Fallbacks > 0 /\ fallbackIndex = Fallbacks /\ retryAttempt < RetryCount
    /\ fallbackIndex' = 1 /\ UNCHANGED retryAttempt
    /\ Requeue

RejectCycle(reason) ==
    /\ stage = "rejected" /\ policy[reason] = "fallback-retry"
    /\ Fallbacks > 0 /\ fallbackIndex = Fallbacks /\ retryAttempt < RetryCount
    /\ retryAttempt' = retryAttempt + 1 /\ fallbackIndex' = 1
    /\ Requeue

RejectGivesUp ==
    /\ stage = "rejected"
    /\ stage' = "failed"
    /\ EndRun
    /\ UNCHANGED <<policyVars, answers, changes, passes, route, runs>>

\* A remote comes back, goes away or fills up.
RemoteChanges(c, answer) ==
    /\ changes < MaxChanges /\ answers[c] # answer
    /\ answers' = [answers EXCEPT ![c] = answer]
    /\ changes' = changes + 1
    /\ UNCHANGED <<policyVars, stage, route, blocked, refusals, graceSince, passes, runs>>

PassStep == RefreshRoute \/ StartRun \/ RefusedUnreachable \/ RefusedCapacity
RunStep  == HookControl \/ Execute \/ WorkerOk \/ Complete \/ WorkerFails \/ SmartFallback
              \/ RejectGivesUp
              \/ \E reason \in Reasons : RejectRetry(reason) \/ RejectFallback(reason) \/ RejectCycle(reason)

RetriesNext ==
    \/ PassStep \/ RunStep \/ QueueTimeout
    \/ \E request \in {"retry", "cancel"} : HookRequests(request)
    \/ \E c \in Remotes, answer \in {"runs", "capacity", "silent"} : RemoteChanges(c, answer)

\* The scheduler loop keeps passing and runs end; no timeout is relied on.
RetriesFairness == WF_retryVars(PassStep) /\ WF_retryVars(RunStep)

RetriesSpec == RetriesInit /\ [][RetriesNext]_retryVars /\ RetriesFairness

-----------------------------------------------------------------------------
\* Properties.

\* A failing task costs a bounded number of runs under every mix of policies by
\* reason: only a hook or a smart fallback adds runs to what the policy allows.
RunsBounded ==
    runs <= (1 + hookCalls) * (RetryCount + 1) * (Fallbacks + 1) + smart

\* A task that a pass has taken up gets to a run, or ends, once what the remotes
\* answer is settled and one of them can run, whatever refused it before.
FindsOpenRemote ==
    (stage = "asking" /\ [](\E c \in Remotes : answers[c] = "runs"))
        ~> stage \in {"starting"} \cup Ended

\* "When no candidate is left the task fails instead of waiting for its whole
\* queue timeout."  (It does not hold: see the README.)
RefusedEverywhereFails ==
    (stage = "asking" /\ [](\A c \in Remotes : answers[c] = "capacity")) ~> stage \in Ended
=============================================================================
