----------------------------- MODULE ChildTask -----------------------------
(***************************************************************************)
(* The tool task an agent run starts and waits for: its Task_tool object,  *)
(* its entry in the registry, its hash and its place (queue, pass or run). *)
(* An internal task is not kept for a client: delete_task removes its hash *)
(* at once, whoever still holds the task.                                  *)
(***************************************************************************)
EXTENDS Naturals

CONSTANT MaxRequeues   \* bound: deferrals and retries of one tool task

VARIABLES
    child,       \* the status of the current tool task, or "none"
    answered,    \* its _done_event
    registered,  \* it is in the queue manager's _tasks
    hash,        \* its Redis hash: absent, whole, or partial (written after a delete)
    place,       \* who has it: nobody, the ZSET, a pass, or a run
    requeues

childVars == <<child, answered, registered, hash, place, requeues>>

Final == {"completed", "failed", "canceled"}
ChildTypeOK ==
    /\ child \in {"none", "queued", "running"} \cup Final
    /\ answered \in BOOLEAN /\ registered \in BOOLEAN
    /\ hash \in {"absent", "whole", "partial"}
    /\ place \in {"nobody", "zset", "pass", "dispatched", "run", "canceling"}
    /\ requeues \in 0 .. MaxRequeues

ChildInit ==
    /\ child = "none" /\ answered = FALSE /\ registered = FALSE
    /\ hash = "absent" /\ place = "nobody" /\ requeues = 0

\* HSET creates the hash when there is none.
Written == IF hash = "absent" THEN "partial" ELSE hash
Finished(status) == child' = status /\ answered' = TRUE /\ hash' = Written

-----------------------------------------------------------------------------
\* The queue operations.

\* The transaction is done, its answer has not arrived: not registered yet.
AddToQueue ==
    /\ child' = "queued" /\ answered' = FALSE /\ registered' = FALSE
    /\ hash' = "whole" /\ place' = "zset" /\ requeues' = 0

Register == registered' = TRUE /\ UNCHANGED <<child, answered, hash, place, requeues>>

MarkChildCanceled == Finished("canceled") /\ UNCHANGED <<registered, place, requeues>>

DeleteChild ==
    /\ registered' = FALSE /\ hash' = "absent"
    /\ place' = IF place = "zset" THEN "nobody" ELSE place
    /\ UNCHANGED <<child, answered, requeues>>

-----------------------------------------------------------------------------
\* The scheduler's side.

PassPops ==
    /\ place = "zset"
    /\ place' = IF registered THEN "pass" ELSE "nobody"
    /\ UNCHANGED <<child, answered, registered, hash, requeues>>

PassExpires ==
    /\ place = "pass" /\ place' = "nobody" /\ Finished("failed")
    /\ UNCHANGED <<registered, requeues>>

\* Waiting for its time, its worker or a resource; added again at the pass's end.
PassDefers ==
    /\ place = "pass" /\ requeues < MaxRequeues
    /\ child' = "queued" /\ registered' = TRUE /\ hash' = "whole" /\ place' = "zset"
    /\ requeues' = requeues + 1
    /\ UNCHANGED answered

PassDispatches ==
    /\ place = "pass" /\ place' = "dispatched"
    /\ UNCHANGED <<child, answered, registered, hash, requeues>>

\* mark_running goes by the id: an object that is not registered is not touched.
ToolStarts ==
    /\ place = "dispatched" /\ place' = "run"
    /\ child' = IF registered THEN "running" ELSE child
    /\ hash' = Written
    /\ UNCHANGED <<answered, registered, requeues>>

\* mark_completed or mark_failed, whatever has become of the task meanwhile.
ToolEnds ==
    /\ place = "run" /\ place' = "nobody"
    /\ \E status \in {"completed", "failed"} : Finished(status)
    /\ UNCHANGED <<registered, requeues>>

\* A reject policy queues the task again.
ToolRetries ==
    /\ place = "run" /\ requeues < MaxRequeues
    /\ child' = "queued" /\ registered' = TRUE /\ hash' = "whole" /\ place' = "zset"
    /\ requeues' = requeues + 1
    /\ UNCHANGED answered

\* The CancelledError reaches the run's handler.
ToolCanceled ==
    /\ place = "canceling" /\ place' = "nobody" /\ Finished("canceled")
    /\ UNCHANGED <<registered, requeues>>

ChildNext ==
    \/ PassPops \/ PassExpires \/ PassDefers \/ PassDispatches
    \/ ToolStarts \/ ToolEnds \/ ToolRetries \/ ToolCanceled
=============================================================================
