------------------------------- MODULE MCWork -------------------------------
(***************************************************************************)
(* Three components that act on separate state, checked side by side: a    *)
(* behaviour is one of a local server and its callers, of a task that is   *)
(* refused and retried, or of an agent run with its tool tasks.            *)
(***************************************************************************)
EXTENDS LocalServer, TaskRetries, AgentRun

VARIABLE part   \* the component that moves

workVars == <<part, serverVars, retryVars, agentVars>>

MCPolicies == [Reasons -> {"retry", "fallback", "fallback-retry"}]

WorkInit ==
    /\ part \in {"server", "retries", "agent"}
    /\ ServerInit /\ RetriesInit /\ AgentInit
    /\ part # "retries" =>
          /\ policy = [reason \in Reasons |-> "retry"]
          /\ answers = [c \in Remotes |-> "runs"] /\ route = 1

Server(A)  == part = "server" /\ A /\ UNCHANGED <<part, retryVars, agentVars>>
Retries(A) == part = "retries" /\ A /\ UNCHANGED <<part, serverVars, agentVars>>
Agent(A)   == part = "agent" /\ A /\ UNCHANGED <<part, serverVars, retryVars>>

WorkNext == Server(ServerNext) \/ Retries(RetriesNext) \/ Agent(AgentNext)

\* The fairness of each component, while it is the one that moves.
WorkFairness ==
    /\ \A c \in Callers : WF_workVars(Server(CallStep(c))) /\ SF_workVars(Server(AcquireLock(c)))
    /\ WF_workVars(Retries(PassStep)) /\ WF_workVars(Retries(RunStep))
    /\ WF_workVars(Agent(RunActs)) /\ WF_workVars(Agent(ToolCanceled /\ UNCHANGED runVars))

WorkSpec == WorkInit /\ [][WorkNext]_workVars /\ WorkFairness
=============================================================================
