----------------------------- MODULE AgentRun ------------------------------
(***************************************************************************)
(* One run of the agent worker (workers/agent/openaix/app.py): the context *)
(* chain, then either a stream of chunks or the loop of model calls and    *)
(* internal tools; retries of one model call; and a cancellation of the    *)
(* run (operator, run_timeout, shutdown) at any of its awaits.             *)
(***************************************************************************)
EXTENDS ChildTask, Sequences, SequencesExt, FiniteSets

CONSTANTS
    Upstream,   \* upstream_retry_count
    Other,      \* error_retry_count
    MaxTurns,   \* tools max_turns
    MaxCalls    \* bound: tool calls in one reply

ASSUME AgentRunAssumption ==
    Upstream \in Nat /\ Other \in Nat /\ MaxTurns \in Nat /\ MaxCalls \in Nat /\ MaxRequeues \in Nat

VARIABLES
    at,         \* where the run is
    streaming,  \* the request is streamed and no tools were injected
    injected,   \* internal tools were injected
    turn,       \* model calls whose tools were executed
    attempt,    \* attempts of the current model call
    variants,   \* parser-compatibility payloads still to try
    asked,      \* the calls the last assistant message of the conversation asks for
    results,    \* the calls the tool messages after it answer
    todo,       \* calls of the last reply to execute
    sentTo,     \* history: the attempts whose chunks the client got
    outcome     \* "ok", an error class, or "none"

runVars == <<at, streaming, injected, turn, attempt, variants, asked, results, todo, sentTo, outcome>>
agentVars == <<runVars, childVars>>

UpstreamCodes == {"http_error", "invalid_json", "unreachable", "timeout"}
Errors == UpstreamCodes \cup {"exception"}
Limit(code) == IF code \in UpstreamCodes THEN Upstream ELSE Other

AgentTypeOK ==
    /\ ChildTypeOK
    /\ at \in {"context", "call", "sent", "compat", "stream", "tool", "register", "wait",
               "giveUp", "reap", "terminate", "terminated", "removed", "done"}
    /\ streaming \in BOOLEAN /\ injected \in BOOLEAN
    /\ turn \in 0 .. MaxTurns /\ attempt \in Nat /\ variants \in 0 .. 4
    /\ asked \in Seq(1 .. MaxCalls) /\ results \in Seq(1 .. MaxCalls) /\ todo \in Seq(1 .. MaxCalls)
    /\ sentTo \subseteq Nat /\ outcome \in Errors \cup {"none", "ok", "tool", "context", "cancelled"}

AgentInit ==
    /\ ChildInit
    /\ at = "context" /\ streaming = FALSE /\ injected = FALSE /\ turn = 0 /\ attempt = 0
    /\ variants = 0
    /\ asked = <<>> /\ results = <<>> /\ todo = <<>> /\ sentTo = {} /\ outcome = "none"

End(result) == at' = "done" /\ outcome' = result

-----------------------------------------------------------------------------
\* The context chain.

ApplyContext ==
    /\ at = "context"
    /\ \/ /\ at' = "call"
          /\ \E stream, tools \in BOOLEAN : injected' = tools /\ streaming' = (stream /\ ~tools)
          /\ UNCHANGED outcome
       \/ End("context") /\ UNCHANGED <<streaming, injected>>
    /\ UNCHANGED <<turn, attempt, variants, asked, results, todo, sentTo, childVars>>

-----------------------------------------------------------------------------
\* One model call.

BeginCall ==
    /\ at = "call"
    /\ at' = IF streaming THEN "stream" ELSE "sent"
    /\ attempt' = attempt + 1
    /\ UNCHANGED <<streaming, injected, turn, variants, asked, results, todo, sentTo, outcome, childVars>>

\* A call whose retries are used up ends the run, except the last one, without
\* tools, in place of which the reply of the turn before is returned.
Failed(code) ==
    IF attempt <= Limit(code) THEN at' = "call" /\ UNCHANGED <<attempt, outcome>>
    ELSE /\ attempt' = 0
         /\ IF ~streaming /\ turn = MaxTurns /\ turn > 0 THEN End("ok") ELSE End(code)

AttemptFails ==
    /\ at = "sent"
    /\ \E code \in Errors : Failed(code)
    /\ UNCHANGED <<streaming, injected, turn, variants, asked, results, todo, sentTo, childVars>>

\* The upstream's parser rejects the history: other payloads are tried first,
\* up to four, each with an entry of its own.
ParserRejects ==
    /\ at = "sent"
    /\ \E n \in 1 .. 4 : variants' = n
    /\ at' = "compat"
    /\ UNCHANGED <<streaming, injected, turn, attempt, asked, results, todo, sentTo, outcome, childVars>>

\* An error or invalid JSON: the next payload, then the first answer counts.
CompatFails ==
    /\ at = "compat" /\ variants' = variants - 1
    /\ IF variants > 1 THEN UNCHANGED <<at, attempt, outcome>> ELSE Failed("http_error")
    /\ UNCHANGED <<streaming, injected, turn, asked, results, todo, sentTo, childVars>>

CompatInterrupted ==
    /\ at = "compat" /\ variants' = 0
    /\ \E code \in {"unreachable", "timeout", "exception"} : Failed(code)
    /\ UNCHANGED <<streaming, injected, turn, asked, results, todo, sentTo, childVars>>

\* Tool calls are executed when all of them are internal and the limit allows;
\* else the reply goes to the client as it is.
Reply ==
    /\ attempt' = 0
    /\ \/ End("ok") /\ UNCHANGED <<asked, results, todo>>
       \/ \E n \in 1 .. MaxCalls :
            /\ turn < MaxTurns /\ injected
            /\ todo' = [i \in 1 .. n |-> i] /\ asked' = todo' /\ results' = <<>>
            /\ at' = "tool" /\ UNCHANGED outcome

CallSucceeds ==
    /\ at \in {"sent", "compat"} /\ variants' = 0 /\ Reply
    /\ UNCHANGED <<streaming, injected, turn, sentTo, childVars>>

-----------------------------------------------------------------------------
\* A stream.

EmitChunk ==
    /\ at = "stream" /\ sentTo' = sentTo \cup {attempt}
    /\ UNCHANGED <<at, streaming, injected, turn, attempt, variants, asked, results, todo, outcome, childVars>>

StreamEnds ==
    /\ at = "stream" /\ End("ok")
    /\ UNCHANGED <<streaming, injected, turn, attempt, variants, asked, results, todo, sentTo, childVars>>

\* Mutant of StreamFails: a stream is repeated after chunks were passed on.
StreamFailsAgain ==
    /\ at = "stream"
    /\ \E code \in Errors \ {"invalid_json"} : Failed(code)
    /\ UNCHANGED <<streaming, injected, turn, variants, asked, results, todo, sentTo, childVars>>

\* Only an attempt of which nothing was passed on is repeated.
StreamFails ==
    /\ at = "stream"
    /\ \E code \in Errors \ {"invalid_json"} :
         IF attempt \in sentTo THEN End(code) /\ UNCHANGED attempt ELSE Failed(code)
    /\ UNCHANGED <<streaming, injected, turn, variants, asked, results, todo, sentTo, childVars>>

-----------------------------------------------------------------------------
\* The internal tools of one reply, one after the other.

StartTool ==
    /\ at = "tool" /\ todo # <<>>
    /\ at' = "register" /\ AddToQueue /\ UNCHANGED outcome
    /\ UNCHANGED <<streaming, injected, turn, attempt, variants, asked, results, todo, sentTo>>

\* Unknown tool, chain too deep, or no Redis.
ToolNotQueued ==
    /\ at = "tool" /\ todo # <<>> /\ End("tool")
    /\ UNCHANGED <<streaming, injected, turn, attempt, variants, asked, results, todo, sentTo, childVars>>

ToolQueued ==
    /\ at = "register" /\ at' = "wait" /\ Register
    /\ UNCHANGED <<streaming, injected, turn, attempt, variants, asked, results, todo, sentTo, outcome>>

ToolAnswered ==
    /\ at = "wait" /\ answered /\ at' = "reap"
    /\ UNCHANGED <<streaming, injected, turn, attempt, variants, asked, results, todo, sentTo, outcome, childVars>>

\* Mutant of ToolTimesOut: only a tool that has started times out.
ToolTimesOutRunning ==
    /\ at = "wait" /\ ~answered /\ child = "running" /\ at' = "giveUp" /\ MarkChildCanceled
    /\ UNCHANGED <<streaming, injected, turn, attempt, variants, asked, results, todo, sentTo, outcome>>

\* queue_timeout + run_timeout are over.
ToolTimesOut ==
    /\ at = "wait" /\ ~answered /\ at' = "giveUp" /\ MarkChildCanceled
    /\ UNCHANGED <<streaming, injected, turn, attempt, variants, asked, results, todo, sentTo, outcome>>

ToolGivenUp ==
    /\ at = "giveUp" /\ DeleteChild /\ End("tool")
    /\ UNCHANGED <<streaming, injected, turn, attempt, variants, asked, results, todo, sentTo>>

\* Mutant of ToolReaped: a tool that failed is passed over.
ToolReapedSkips ==
    /\ at = "reap" /\ DeleteChild
    /\ results' = IF child = "completed" THEN Append(results, Head(todo)) ELSE results
    /\ todo' = Tail(todo) /\ at' = "tool"
    /\ UNCHANGED <<streaming, injected, turn, attempt, variants, asked, sentTo, outcome>>

ToolReaped ==
    /\ at = "reap" /\ DeleteChild
    /\ IF child = "completed"
       THEN /\ results' = Append(results, Head(todo)) /\ todo' = Tail(todo)
            /\ at' = "tool" /\ UNCHANGED outcome
       ELSE End("tool") /\ UNCHANGED <<results, todo>>
    /\ UNCHANGED <<streaming, injected, turn, attempt, variants, asked, sentTo>>

NextTurn ==
    /\ at = "tool" /\ todo = <<>>
    /\ turn' = turn + 1 /\ at' = "call"
    /\ UNCHANGED <<streaming, injected, attempt, variants, asked, results, todo, sentTo, outcome, childVars>>

-----------------------------------------------------------------------------
\* The run is canceled.  Waiting for a tool it terminates the tool first;
\* elsewhere it just ends.
Canceled ==
    /\ at \notin {"done", "terminate", "terminated", "removed"}
    /\ IF at = "wait" THEN at' = "terminate" /\ UNCHANGED outcome ELSE End("cancelled")
    /\ UNCHANGED <<streaming, injected, turn, attempt, variants, asked, results, todo, sentTo, childVars>>

\* terminate_task: a waiting task is marked, a running one has its run canceled
\* and waited for, a task that has ended is left as it is.
TerminateTool ==
    /\ at = "terminate"
    /\ CASE child = "queued" -> MarkChildCanceled /\ at' = "removed" /\ UNCHANGED outcome
         [] child = "running" ->
              /\ at' = "terminated" /\ UNCHANGED outcome
              /\ place' = IF place = "run" THEN "canceling" ELSE place
              /\ UNCHANGED <<child, answered, registered, hash, requeues>>
         [] OTHER -> End("cancelled") /\ UNCHANGED childVars
    /\ UNCHANGED <<streaming, injected, turn, attempt, variants, asked, results, todo, sentTo>>

ToolTerminated ==
    /\ at = "terminated" /\ place # "canceling" /\ at' = "removed"
    /\ UNCHANGED <<streaming, injected, turn, attempt, variants, asked, results, todo, sentTo, outcome, childVars>>

ToolRemoved ==
    /\ at = "removed" /\ DeleteChild /\ End("cancelled")
    /\ UNCHANGED <<streaming, injected, turn, attempt, variants, asked, results, todo, sentTo>>

RunActs ==
    \/ ApplyContext
    \/ BeginCall \/ AttemptFails \/ ParserRejects \/ CompatFails \/ CompatInterrupted
    \/ CallSucceeds
    \/ StreamEnds \/ StreamFails
    \/ StartTool \/ ToolNotQueued \/ ToolQueued \/ ToolAnswered \/ ToolTimesOut \/ ToolGivenUp \/ ToolReaped
    \/ NextTurn
    \/ TerminateTool \/ ToolTerminated \/ ToolRemoved

AgentNext ==
    \/ RunActs
    \/ EmitChunk
    \/ Canceled
    \/ ChildNext /\ UNCHANGED runVars

AgentSpec == AgentInit /\ [][AgentNext]_agentVars

\* The run's own steps and the delivery of a cancellation; nothing is assumed
\* of the scheduler or of the tools.
AgentFairness == WF_agentVars(RunActs) /\ WF_agentVars(ToolCanceled /\ UNCHANGED runVars)

-----------------------------------------------------------------------------
\* Properties.

\* A client never gets the chunks of two attempts: once something was passed
\* on, a failed stream is not repeated.
StreamNeverRepeats == Cardinality(sentTo) <= 1

\* Every model call is sent a conversation in which each tool call the model
\* asked for has its answer, in the order asked (the payloads tried on a parser
\* error cut the history and are left out).
CallsAreAnswered == at \in {"call", "sent", "stream"} => results = asked

\* A run that has begun ends, whatever becomes of its tool task: lost by a pass,
\* deferred for ever, or never finished by its worker.
RunsEnd == at # "context" ~> at = "done"

\* queue_manager.py:274, "internal tasks are fully deleted from Redis
\* immediately": nothing is left of a tool task when its run is over and
\* nobody holds the task.
NothingLeftOfTools == at = "done" /\ place = "nobody" => hash = "absent"
=============================================================================
