---------------------------- MODULE ClientRequest ---------------------------
(***************************************************************************)
(* One HTTP request at an OpenAI, Ollama or Anthropic endpoint and the     *)
(* task made of it: the checks before a task exists, the wait for the      *)
(* answer or the first chunk, the open stream, the deadline with the       *)
(* termination it asks for, and the removal of the task when the handler   *)
(* is through.  The run behind it emits chunks, fails, is sent back to the *)
(* queue with its chunks already delivered, or ends.                       *)
(*                                                                         *)
(* A chunk is native (its bytes speak the client's protocol and go through *)
(* unchanged), foreign (converted) or control (a foreign comment or blank  *)
(* line, which opens a stream but is not shown).  Bytes, headers and the   *)
(* wording of errors are left out; a queued task is one no mark is under   *)
(* way for (TaskLifecycle has the overlaps of marks).                      *)
(***************************************************************************)
EXTENDS Naturals, SequencesExt, Subsequences

CONSTANTS MaxRuns, MaxChunks   \* bounds: runs of the task, chunks they emit

VARIABLES
    hand,        \* where the handler is
    stage,       \* what it waits for: the answer, the first chunk, the stream
    request,
    http,        \* the HTTP status sent, 0 before
    out,         \* what the client has read of the stream
    ending,      \* how the handler came to its end
    status,      \* of the task, in memory
    failure,
    marking,     \* a terminal mark waits for Redis
    done,
    registered,  \* the task is in the queue manager's registry
    chunks,      \* task._chunk_queue
    made,        \* every chunk the runs have emitted
    run,         \* number of runs so far
    speaks,      \* what the current run emits
    canceling,
    deleting     \* delete_task has been scheduled

clientVars == <<hand, stage, request, http, out, ending>>
taskVars   == <<status, failure, marking, done, registered, chunks, made, run, speaks, canceling,
                deleting>>
requestVars == <<clientVars, taskVars>>

Requests ==
    [proto : {"openai", "ollama", "anthropic"}, embed : BOOLEAN, streaming : BOOLEAN,
     body : {"ok", "bad"}, fields : {"ok", "bad"}, token : {"none", "valid", "unknown"},
     envid : {"none", "allowed", "foreign", "missing"}, trace : {"ok", "refused"},
     model : {"chat", "embedding", "unknown", "unroutable"}, timeout : {"ok", "bad"}]

\* A request whose checks are behind it.
Checked(proto, streaming) ==
    [proto |-> proto, embed |-> FALSE, streaming |-> streaming, body |-> "ok", fields |-> "ok",
     token |-> "none", envid |-> "none", trace |-> "ok", model |-> "chat", timeout |-> "ok"]

Chunk(form) == [n |-> Len(made) + 1, form |-> form]
Sentinel    == [n |-> 0, form |-> "none"]
ErrorEvent  == [n |-> 0, form |-> "error"]
EndMarker   == [n |-> 0, form |-> "end"]

Shown(s)     == Subsequence(s, {i \in DOMAIN s : s[i].form \in {"native", "foreign"}})
SeenNative   == \E i \in DOMAIN out : out[i].form = "native"
Terminal     == status \in {"completed", "failed", "canceled"}
Event(chunk) == IF chunk.form = "control" THEN <<>> ELSE <<chunk>>
CutShort     == request.proto = "anthropic" /\ speaks = "native"

RequestInit ==
    /\ hand = "idle" /\ stage = "sync" /\ request = Checked("openai", FALSE) /\ http = 0
    /\ out = <<>> /\ ending = "none"
    /\ status = "created" /\ failure = "none" /\ marking = FALSE /\ done = FALSE
    /\ registered = FALSE /\ chunks = <<>> /\ made = <<>> /\ run = 0 /\ speaks = "native"
    /\ canceling = FALSE /\ deleting = FALSE

---------------------------------------------------------------------------
(* Before a task exists. *)

Arrive(r) ==
    /\ hand = "idle" /\ (r.embed => r.proto # "anthropic")
    /\ request' = r /\ hand' = "checking"
    /\ UNCHANGED <<stage, http, out, ending, taskVars>>

\* The token and the environment, which an anonymous request is not asked for.
Authorized(r) ==
    << <<r.token = "unknown", 401>>,
       <<r.token = "valid" /\ r.envid = "foreign", 403>>,
       <<r.token = "valid" /\ r.envid = "missing", 400>> >>

NotJson(r)    == << <<r.body = "bad", 400>> >>
TraceRefused(r) == << <<r.trace = "refused", 409>> >>

\* An embedding needs a model made for it.
EmbeddingRoute(r) == << <<r.model \in {"chat", "unknown"}, 422>> >>

\* A smart alias without a candidate, a timeout that is no number.
BadTimeout(r) == << <<r.timeout = "bad", 400>> >>
Routed(r)     == << <<r.model = "unroutable", 503>> >>

\* The checks of each handler in the order it makes them, with their statuses.
EmbedChecks(r) ==
    NotJson(r) \o << <<r.fields = "bad", 400>> >> \o Authorized(r) \o TraceRefused(r)
    \o EmbeddingRoute(r) \o Routed(r) \o BadTimeout(r)

OpenAIChecks(r) == NotJson(r) \o Authorized(r) \o TraceRefused(r) \o Routed(r) \o BadTimeout(r)
OllamaChecks(r) == NotJson(r) \o Authorized(r) \o TraceRefused(r) \o Routed(r) \o BadTimeout(r)

AnthropicChecks(r) ==
    NotJson(r) \o Authorized(r) \o << <<r.fields = "bad", 400>> >> \o TraceRefused(r) \o Routed(r)
    \o << <<r.timeout = "bad", 500>>, <<r.model = "unknown", 404>>, <<r.model = "embedding", 422>> >>

Checks(r) ==
    CASE r.embed -> EmbedChecks(r)
      [] r.proto = "anthropic" -> AnthropicChecks(r)
      [] r.proto = "openai" /\ ~r.embed -> OpenAIChecks(r)
      [] r.proto = "ollama" /\ ~r.embed -> OllamaChecks(r)

Refusals(r) == SelectSeq(Checks(r), LAMBDA check : check[1])

Refuse ==
    /\ hand = "checking" /\ Refusals(request) # <<>>
    /\ http' = Refusals(request)[1][2] /\ hand' = "gone" /\ ending' = "answered"
    /\ request' = Checked(request.proto, FALSE)
    /\ UNCHANGED <<stage, out, taskVars>>

\* on_task_added queues the task, or refuses it while a restart is under way.
Admit ==
    /\ hand = "checking" /\ Refusals(request) = <<>>
    /\ request' = Checked(request.proto, request.streaming)
    /\ \/ /\ status' = "queued" /\ registered' = TRUE /\ hand' = "waiting"
          /\ stage' = IF request.streaming /\ ~request.embed THEN "first" ELSE "sync"
          /\ UNCHANGED <<http, ending>>
       \/ /\ http' = 503 /\ hand' = "gone" /\ ending' = "answered"
          /\ UNCHANGED <<stage, status, registered>>
    /\ UNCHANGED <<out, failure, marking, done, chunks, made, run, speaks, canceling, deleting>>

---------------------------------------------------------------------------
(* The run of the task. *)

RunStarts ==
    /\ status = "queued" /\ run < MaxRuns
    /\ status' = "running" /\ run' = run + 1 /\ speaks' \in {"native", "foreign"}
    /\ UNCHANGED <<clientVars, failure, marking, done, registered, chunks, made, canceling, deleting>>

Put(form) == chunks' = Append(chunks, Chunk(form)) /\ made' = Append(made, Chunk(form))

Emit ==
    /\ status = "running" /\ ~canceling /\ Len(made) < MaxChunks
    /\ \E form \in IF speaks = "native" THEN {"native"} ELSE {"foreign", "control"} : Put(form)
    /\ UNCHANGED <<clientVars, status, failure, marking, done, registered, run, speaks, canceling,
                   deleting>>

Mark(outcome) == status' = outcome /\ marking' = TRUE

\* A Messages stream that ends without its stop event still gets a last chunk,
\* which carries no bytes of the provider.
RunCompletes ==
    /\ status = "running" /\ ~canceling /\ Mark("completed")
    /\ UNCHANGED <<chunks, made>> \/ (CutShort /\ Put("foreign"))
    /\ UNCHANGED <<clientVars, failure, done, registered, run, speaks, canceling, deleting>>

RunFails(kind) ==
    /\ status = "running" /\ ~canceling /\ Mark("failed") /\ failure' = kind
    /\ UNCHANGED <<clientVars, done, registered, chunks, made, run, speaks, canceling, deleting>>

\* A retry, a fallback or another smart candidate: add_task registers the task
\* again, whatever of the failed run is already with the client.
RunRequeued ==
    /\ status = "running" /\ ~canceling /\ run < MaxRuns
    /\ status' = "queued" /\ registered' = TRUE
    /\ UNCHANGED <<clientVars, failure, marking, done, chunks, made, run, speaks, canceling, deleting>>

RunCanceled ==
    /\ status = "running" /\ canceling /\ Mark("canceled") /\ canceling' = FALSE
    /\ UNCHANGED <<clientVars, failure, done, registered, chunks, made, run, speaks, deleting>>

QueueExpires ==
    /\ status = "queued" /\ Mark("failed") /\ failure' = "timeout"
    /\ UNCHANGED <<clientVars, done, registered, chunks, made, run, speaks, canceling, deleting>>

MarkCommits ==
    /\ marking /\ marking' = FALSE /\ done' = TRUE /\ chunks' = Append(chunks, Sentinel)
    /\ UNCHANGED <<clientVars, status, failure, registered, made, run, speaks, canceling, deleting>>

\* The detached delete_task: a task that still waits is canceled with it.
Delete ==
    /\ deleting /\ deleting' = FALSE /\ registered' = FALSE
    /\ status' = IF status = "queued" THEN "canceled" ELSE status
    /\ UNCHANGED <<clientVars, failure, marking, done, chunks, made, run, speaks, canceling>>

---------------------------------------------------------------------------
(* The handler. *)

\* The status of an answer without a stream.
OpenAIAnswer ==
    CASE status = "completed" -> 200
      [] status = "failed" /\ failure = "upstream" -> 429
      [] status = "failed" /\ failure \in {"timeout", "upstream_timeout"} -> 504
      [] status = "failed" /\ failure = "worker" -> 502
      [] status = "canceled" -> 503
      [] OTHER -> 500

\* Whatever is neither complete nor failed counts as canceled.
OllamaAnswer ==
    CASE status = "completed" -> 200
      [] status = "failed" /\ failure = "upstream" -> 429
      [] status = "failed" /\ failure = "timeout" -> 504
      [] status = "failed" /\ failure \in {"worker", "upstream_timeout"} -> 502
      [] OTHER -> 503

AnthropicAnswer == OpenAIAnswer

Answer ==
    CASE request.proto = "openai" -> OpenAIAnswer
      [] request.proto = "ollama" -> OllamaAnswer
      [] request.proto = "anthropic" -> AnthropicAnswer

Through(how) == hand' = "gone" /\ ending' = how

SyncAnswer ==
    /\ hand = "waiting" /\ stage = "sync" /\ done
    /\ http' = Answer /\ deleting' = TRUE /\ Through("answered")
    /\ UNCHANGED <<stage, request, out, status, failure, marking, done, registered, chunks, made,
                   run, speaks, canceling>>

\* A first chunk opens the stream whatever it is.
FirstChunkAnyway ==
    /\ hand = "waiting" /\ stage = "first" /\ chunks # <<>>
    /\ chunks' = Tail(chunks) /\ stage' = "stream" /\ http' = 200
    /\ out' = IF Head(chunks) = Sentinel THEN out ELSE Event(Head(chunks))
    /\ UNCHANGED <<hand, request, ending, status, failure, marking, done, registered, made, run,
                   speaks, canceling, deleting>>

\* The end of the task before any output falls back to an answer without a stream.
FirstChunk ==
    /\ hand = "waiting" /\ stage = "first" /\ chunks # <<>>
    /\ chunks' = Tail(chunks)
    /\ IF Head(chunks) = Sentinel /\ status # "completed"
       THEN stage' = "sync" /\ UNCHANGED <<http, out>>
       ELSE /\ stage' = "stream" /\ http' = 200
            /\ out' = IF Head(chunks) = Sentinel THEN out ELSE Event(Head(chunks))
    /\ UNCHANGED <<hand, request, ending, status, failure, marking, done, registered, made, run,
                   speaks, canceling, deleting>>

StreamChunk ==
    /\ hand = "waiting" /\ stage = "stream" /\ chunks # <<>> /\ chunks' = Tail(chunks)
    /\ IF Head(chunks) = Sentinel
       THEN /\ hand' = "closing"
            /\ out' = IF status = "failed" THEN Append(out, ErrorEvent) ELSE out
       ELSE out' = out \o Event(Head(chunks)) /\ UNCHANGED hand
    /\ UNCHANGED <<stage, request, http, ending, status, failure, marking, done, registered, made,
                   run, speaks, canceling, deleting>>

\* A stream that stops as soon as the task is complete, whatever is still queued.
StreamDrainedEarly ==
    /\ hand = "waiting" /\ stage = "stream" /\ status = "completed"
    /\ hand' = "closing"
    /\ UNCHANGED <<stage, request, http, out, ending, taskVars>>

StreamDrained ==
    /\ hand = "waiting" /\ stage = "stream" /\ status = "completed" /\ chunks = <<>>
    /\ hand' = "closing"
    /\ UNCHANGED <<stage, request, http, out, ending, taskVars>>

\* Each stream has its own end: [DONE] or the closing Messages events, unless the
\* provider sent its own, and none for Ollama.
OpenAIEnd    == IF SeenNative THEN <<>> ELSE <<EndMarker>>
OllamaEnd    == <<>>
AnthropicEnd == IF SeenNative \/ ending = "late" THEN <<>> ELSE <<EndMarker>>

StreamEnd ==
    CASE request.proto = "openai" -> OpenAIEnd
      [] request.proto = "ollama" -> OllamaEnd
      [] request.proto = "anthropic" -> AnthropicEnd

\* A stream that ended with the provider's own events forgets to remove the task.
StreamClosesNative ==
    /\ hand = "closing" /\ out' = out \o StreamEnd
    /\ hand' = "gone" /\ ending' = IF ending = "late" THEN "late" ELSE "answered"
    /\ deleting' = (deleting \/ ~SeenNative)
    /\ UNCHANGED <<stage, request, http, status, failure, marking, done, registered, chunks, made,
                   run, speaks, canceling>>

StreamCloses ==
    /\ hand = "closing" /\ out' = out \o StreamEnd
    /\ hand' = "gone" /\ ending' = IF ending = "late" THEN "late" ELSE "answered"
    /\ deleting' = TRUE
    /\ UNCHANGED <<stage, request, http, status, failure, marking, done, registered, chunks, made,
                   run, speaks, canceling>>

\* The client leaves: only an open stream notices.
Leave ==
    /\ hand = "waiting" /\ stage = "stream" /\ deleting' = TRUE /\ Through("left")
    /\ UNCHANGED <<stage, request, http, out, status, failure, marking, done, registered, chunks,
                   made, run, speaks, canceling>>

\* The deadline of the queue or of the run is seen, and the task terminated: a
\* waiting task is marked, a run canceled, an ended task left as it is.
Deadline ==
    /\ hand = "waiting" /\ ending = "none"
    /\ stage = "sync" => ~done
    /\ stage = "stream" => ~(status = "completed" /\ chunks = <<>>)
    /\ ending' = "late"
    /\ CASE status = "queued"  -> Mark("canceled") /\ hand' = "stopping" /\ UNCHANGED canceling
         [] status = "running" -> canceling' = TRUE /\ hand' = "stopping" /\ UNCHANGED <<status, marking>>
         [] OTHER -> hand' = "late" /\ UNCHANGED <<status, marking, canceling>>
    /\ UNCHANGED <<stage, request, http, out, failure, done, registered, chunks, made, run, speaks,
                   deleting>>

\* The termination ends with the mark, or after five seconds with the run still
\* there, and removes the task.
Terminated ==
    /\ hand = "stopping" /\ ~marking
    /\ hand' = "late" /\ registered' = FALSE
    /\ UNCHANGED <<stage, request, http, out, ending, status, failure, marking, done, chunks, made,
                   run, speaks, canceling, deleting>>

\* An open stream gets an error event.  Before it opened, the OpenAI and Anthropic
\* handlers say 504; the Ollama handler asks for the answer once more.
LateStream ==
    /\ hand = "late" /\ stage = "stream"
    /\ out' = Append(out, ErrorEvent) /\ hand' = "closing"
    /\ UNCHANGED <<stage, request, http, ending, taskVars>>

LateAnswer ==
    /\ hand = "late" /\ (stage = "first" => request.proto # "ollama") /\ stage # "stream"
    /\ http' = 504 /\ hand' = "gone"
    /\ UNCHANGED <<stage, request, out, ending, taskVars>>

OllamaLate ==
    /\ hand = "late" /\ stage = "first" /\ request.proto = "ollama"
    /\ http' = (IF done THEN OllamaAnswer ELSE 504) /\ deleting' = (deleting \/ done)
    /\ hand' = "gone"
    /\ UNCHANGED <<stage, request, out, ending, status, failure, marking, done, registered, chunks,
                   made, run, speaks, canceling>>

RunActs ==
    RunStarts \/ Emit \/ RunCompletes \/ RunRequeued \/ RunCanceled \/ QueueExpires
    \/ \E kind \in {"upstream", "timeout", "upstream_timeout", "worker"} : RunFails(kind)

HandlerActs ==
    Refuse \/ Admit \/ SyncAnswer \/ FirstChunk \/ StreamChunk \/ StreamDrained \/ StreamCloses
    \/ Terminated \/ LateStream \/ LateAnswer \/ OllamaLate

RequestNext ==
    \/ \E r \in Requests : Arrive(r)
    \/ HandlerActs \/ RunActs \/ MarkCommits \/ Delete \/ Leave \/ Deadline

RequestSpec == RequestInit /\ [][RequestNext]_requestVars

---------------------------------------------------------------------------
(* Properties. *)

\* The state of a request is well-typed, and a stream is open exactly from its 200 on.
RequestTypeOK ==
    /\ hand \in {"idle", "checking", "waiting", "stopping", "late", "closing", "gone"}
    /\ status \in {"created", "queued", "running", "completed", "failed", "canceled"}
    /\ ending \in {"none", "answered", "late", "left"} /\ request \in Requests
    /\ Len(made) <= MaxChunks + 1 /\ run \in 0..MaxRuns
    /\ stage = "stream" => http = 200

\* Whatever runs a task went through, a stream shows its chunks in the order they
\* were made, then at most one error and one end, and nothing after; and the
\* stream of a completed task that was not cut by a deadline shows them all.
StreamIsWhole ==
    /\ IsPrefix(Shown(out), Shown(made))
    /\ \A i, j \in DOMAIN out : i < j /\ out[i].form \in {"error", "end"} =>
          out[i].form = "error" /\ out[j].form = "end"
    /\ (hand = "gone" /\ ending = "answered" /\ stage = "stream" /\ status = "completed") =>
          Shown(out) = Shown(made)

\* A task that ends without having emitted anything never turns into a 200, even
\* when its end overtakes the wait for a first chunk.
EarlyFailureKeepsStatus ==
    (http = 200 /\ status \in {"failed", "canceled"} /\ ending # "left") => made # <<>>

\* A task whose client was answered in full does not stay in the registry, even
\* if it was sent back to the queue on the way.
AnsweredIsForgotten == (hand = "gone" /\ ending = "answered") ~> ~registered

\* A client sees a native stream or a converted one, never a mixture.
NeverMixture == \A i, j \in DOMAIN out : ~(out[i].form = "native" /\ out[j].form = "foreign")
=============================================================================
