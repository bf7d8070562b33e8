----------------------------- MODULE MCAnswers -----------------------------
(***************************************************************************)
(* What stands between a client and a task, checked side by side: a        *)
(* behaviour is one of a request and its answer, of the body limit, of a   *)
(* request that instances hand to each other, of a converted stream, of a  *)
(* converted conversation, or of the audit log of a task.                  *)
(***************************************************************************)
EXTENDS ClientRequest, RequestLimits, RouteTrace, MessagesStream, MessagesTurns, AuditLog

VARIABLE scene   \* the component that moves

answersVars ==
    <<scene, requestVars, limitVars, traceVars, streamVars, turnVars, auditVars>>

\* Three instances, two of them under one name, with limits of one to three hops.
MCNameOf  == [a |-> "x", b |-> "x", c |-> "y"]
MCMaxHops == [a |-> 3, b |-> 2, c |-> 1]

AnswersInit ==
    /\ scene \in {"request", "limit", "trace", "stream", "turns", "audit"}
    /\ RequestInit /\ LimitInit /\ TraceInit /\ MessagesInit /\ TurnsInit /\ AuditInit
    /\ scene # "trace" => at = "a" /\ visited = <<>>
    /\ scene # "stream" => way = "encode"
    /\ (scene # "stream" \/ way = "decode") => style = "whole" /\ showThinking
    /\ scene # "turns" => client = "openai"
    /\ scene # "audit" => policy = "best_effort"

Request(A) == scene = "request" /\ A
                /\ UNCHANGED <<scene, limitVars, traceVars, streamVars, turnVars, auditVars>>
Audit(A)   == scene = "audit" /\ A
                /\ UNCHANGED <<scene, requestVars, limitVars, traceVars, streamVars, turnVars>>
Limit(A)   == scene = "limit" /\ A
                /\ UNCHANGED <<scene, requestVars, traceVars, streamVars, turnVars, auditVars>>
Trace(A)   == scene = "trace" /\ A
                /\ UNCHANGED <<scene, requestVars, limitVars, streamVars, turnVars, auditVars>>
Stream(A)  == scene = "stream" /\ A
                /\ UNCHANGED <<scene, requestVars, limitVars, traceVars, turnVars, auditVars>>
Turns(A)   == scene = "turns" /\ A
                /\ UNCHANGED <<scene, requestVars, limitVars, traceVars, streamVars, auditVars>>

AnswersNext ==
    \/ Request(RequestNext) \/ Audit(AuditNext) \/ Limit(LimitNext)
    \/ Trace(TraceNext) \/ Stream(MessagesNext) \/ Turns(TurnsNext)

\* The event loop runs the handler, the run of the task and what they scheduled;
\* the audit log has its writer thread and its retention.  No client has to send
\* or to leave, and no deadline has to pass.
AnswersFairness ==
    /\ WF_answersVars(Request(HandlerActs)) /\ WF_answersVars(Request(RunActs))
    /\ WF_answersVars(Request(MarkCommits)) /\ WF_answersVars(Request(Delete))
    /\ WF_answersVars(Audit(WriterActs \/ WriterFaults)) /\ WF_answersVars(Audit(LoopActs))
    /\ WF_answersVars(Audit(SweepBegins))
    /\ \A s \in Sweepers : WF_answersVars(Audit(Unlink(s) \/ DropRows(s)))

AnswersSpec == AnswersInit /\ [][AnswersNext]_answersVars /\ AnswersFairness
=============================================================================
