--------------------------- MODULE Answers_proofs ----------------------------
(***************************************************************************)
(* What stands between a client and its task, for any bounds of the model: *)
(* the body an application is given, the stream and the status a client    *)
(* gets, the instances a request visits, and a stream that is converted.   *)
(***************************************************************************)
EXTENDS ClientRequest, RequestLimits, RouteTrace, MessagesStream, FoldTheorems,
        SequenceTheorems, FiniteSetTheorems, TLAPS

-----------------------------------------------------------------------------
(* The limit of a body. *)

LimitTypeOK ==
    /\ phase \in {"arriving", "reading", "replaying", "serving", "refused"}
    /\ received \in Nat /\ buffered \in Nat
    /\ whole \in BOOLEAN /\ channel \in {"sends", "waits", "gone"}
    /\ given \in Seq(Nat)

\* What a phase says of the bytes: everything read so far is held until it is
\* given, once, and only a whole body or one whose client has left is.
PhaseInv ==
    /\ buffered <= MaxRequestSize
    /\ phase \in {"arriving", "reading", "replaying"} => buffered = received
    /\ given = IF phase = "serving" THEN <<received>> ELSE <<>>
    /\ phase \in {"replaying", "serving"} => whole \/ channel = "gone"

LimitInv == LimitTypeOK /\ PhaseInv

\* Each step of a request keeps the types.
LEMMA LimitTypeStep ==
  ASSUME LimitTypeOK, [LimitNext]_limitVars
  PROVE  LimitTypeOK'
<1> USE LimitAssumption DEF LimitTypeOK
<1>1. ASSUME Declare PROVE LimitTypeOK'
  BY <1>1 DEF Declare
<1>2. ASSUME ReadDisconnect PROVE LimitTypeOK'
  BY <1>2 DEF ReadDisconnect
<1>3. ASSUME ClientLeaves PROVE LimitTypeOK'
  BY <1>3 DEF ClientLeaves
<1>4. ASSUME Replay PROVE LimitTypeOK'
  BY <1>4 DEF Replay
<1>5. ASSUME NEW size \in PieceSizes, NEW more \in BOOLEAN, ReadPiece(size, more) PROVE LimitTypeOK'
  <2>1. whole' \in BOOLEAN
    BY <1>5, Zenon DEF ReadPiece
  <2>2. size \in Nat
    OBVIOUS
  <2> QED
    BY <1>5, <2>1, <2>2 DEF ReadPiece
<1>6. ASSUME UNCHANGED limitVars PROVE LimitTypeOK'
  BY <1>6 DEF limitVars
<1> QED
  BY <1>1, <1>2, <1>3, <1>4, <1>5, <1>6 DEF LimitNext

\* Each step keeps what a phase says of the bytes.
LEMMA PhaseStep ==
  ASSUME LimitInv, [LimitNext]_limitVars
  PROVE  PhaseInv'
<1> USE LimitAssumption DEF LimitInv, LimitTypeOK, PhaseInv
<1>1. ASSUME Declare PROVE PhaseInv'
  BY <1>1 DEF Declare
<1>2. ASSUME ReadDisconnect PROVE PhaseInv'
  BY <1>2 DEF ReadDisconnect
<1>3. ASSUME ClientLeaves PROVE PhaseInv'
  BY <1>3 DEF ClientLeaves
<1>4. ASSUME Replay PROVE PhaseInv'
  BY <1>4 DEF Replay
<1>5. ASSUME NEW size \in PieceSizes, NEW more \in BOOLEAN, ReadPiece(size, more) PROVE PhaseInv'
  <2>1. size \in Nat
    OBVIOUS
  <2>2. CASE received + size > MaxRequestSize
    BY <1>5, <2>1, <2>2 DEF ReadPiece
  <2>3. CASE ~(received + size > MaxRequestSize)
    <3>1. /\ received' = received + size /\ buffered' = buffered + size
          /\ phase' = IF more THEN "reading" ELSE "replaying"
          /\ phase = "reading" /\ given' = given
      BY <1>5, <2>3 DEF ReadPiece
    <3>2. more \/ whole'
      BY <1>5, Zenon DEF ReadPiece
    <3> QED
      BY <2>1, <2>3, <3>1, <3>2
  <2> QED
    BY <2>2, <2>3
<1>6. ASSUME UNCHANGED limitVars PROVE PhaseInv'
  BY <1>6 DEF limitVars
<1> QED
  BY <1>1, <1>2, <1>3, <1>4, <1>5, <1>6 DEF LimitNext

\* BodyIsBounded (RequestSizeLimitMiddleware.__call__) for every limit: it is not
\* inductive, because what is given depends on what the phases have kept.
THEOREM BodyBounded == LimitSpec => []BodyIsBounded
<1>1. LimitInit => LimitInv
  <2>1. LimitInit => whole \in BOOLEAN
    BY Zenon DEF LimitInit
  <2> QED
    BY <2>1, LimitAssumption DEF LimitInit, LimitInv, LimitTypeOK, PhaseInv
<1>2. LimitInv /\ [LimitNext]_limitVars => LimitInv'
  BY LimitTypeStep, PhaseStep DEF LimitInv
<1>3. LimitInv => BodyIsBounded
  BY DEF LimitInv, LimitTypeOK, PhaseInv, BodyIsBounded
<1> QED
  BY <1>1, <1>2, <1>3, PTL DEF LimitSpec

-----------------------------------------------------------------------------
(* One request and its task. *)

Items    == [n : Nat, form : {"native", "foreign", "control", "error", "end", "none"}]
Visible  == {x \in Items : x.form \in {"native", "foreign"}}
Emitted  == {x \in Items : x.form \in {"native", "foreign", "control"}}
Readable == {x \in Items : x.form \in {"native", "foreign", "error", "end"}}

LEMMA ItemFacts ==
  /\ Sentinel \in Items /\ Sentinel \notin Visible /\ Sentinel \notin Emitted
  /\ ErrorEvent \in Readable /\ ErrorEvent \notin Visible /\ ErrorEvent.form = "error"
  /\ EndMarker \in Readable /\ EndMarker \notin Visible /\ EndMarker.form = "end"
  /\ Visible \subseteq Emitted /\ Visible \subseteq Readable
  /\ Emitted \subseteq Items /\ Readable \subseteq Items
  BY DEF Sentinel, ErrorEvent, EndMarker, Items, Visible, Emitted, Readable

LEMMA ShownIsKept == ASSUME NEW s \in Seq(Items) PROVE Shown(s) = Kept(s, Visible)
<1>1. {i \in DOMAIN s : s[i].form \in {"native", "foreign"}} = {i \in DOMAIN s : s[i] \in Visible}
  BY DEF Visible
<1> QED BY <1>1 DEF Shown, Kept

LEMMA ShownTyped ==
  /\ \A s \in Seq(Items) : Shown(s) \in Seq(Items)
  /\ Shown(<<>>) = <<>>
<1>1. ASSUME NEW s \in Seq(Items) PROVE Shown(s) \in Seq(Items) BY ShownIsKept, KeptType
<1>2. <<>> \in Seq(Items) OBVIOUS
<1> QED BY <1>1, <1>2, ShownIsKept, KeptEmpty

LEMMA ShownAppend ==
  ASSUME NEW s \in Seq(Items), NEW x \in Items
  PROVE  Shown(Append(s, x)) = IF x \in Visible THEN Append(Shown(s), x) ELSE Shown(s)
<1> DEFINE t == Append(s, x)
<1>1. t \in Seq(Items) OBVIOUS
<1>2. Kept(t, Visible) = IF x \in Visible THEN Append(Kept(s, Visible), x) ELSE Kept(s, Visible)
  BY KeptAppend
<1> HIDE DEF t
<1>3. Shown(t) = Kept(t, Visible) BY <1>1, ShownIsKept
<1>4. Shown(s) = Kept(s, Visible) BY ShownIsKept
<1>5. Shown(t) = IF x \in Visible THEN Append(Shown(s), x) ELSE Shown(s) BY <1>2, <1>3, <1>4
<1> QED BY <1>5 DEF t

(* What the client has read and what waits for it, before and after a chunk
   leaves the queue. *)
LEMMA ChunkMoves ==
  ASSUME NEW o \in Seq(Items), NEW c \in Seq(Items), c # <<>>, NEW p,
         p = IF Head(c) \in Visible THEN Append(o, Head(c)) ELSE o
  PROVE  Shown(p) \o Shown(Tail(c)) = Shown(o) \o Shown(c)
<1> DEFINE h == Head(c)
           r == Tail(c)
           v == Shown(r)
           w == Shown(o)
<1>1. h \in Items /\ r \in Seq(Items) BY HeadTailProperties
<1>2. Kept(c, Visible) = (IF h \in Visible THEN <<h>> ELSE <<>>) \o Kept(r, Visible) BY KeptFirst
<1>3. p = IF h \in Visible THEN Append(o, h) ELSE o OBVIOUS
<1> HIDE DEF h, r
<1>4. Shown(c) = (IF h \in Visible THEN <<h>> ELSE <<>>) \o v
  BY <1>1, <1>2, ShownIsKept
<1>5. Shown(p) = IF h \in Visible THEN Append(w, h) ELSE w BY <1>1, <1>3, ShownAppend
<1>6. v \in Seq(Items) /\ w \in Seq(Items) BY <1>1, ShownTyped
<1> HIDE DEF v, w
<1>7. Shown(p) \o v = w \o Shown(c)
  <2>1. CASE h \in Visible
    <3>1. Append(w, h) = w \o <<h>> BY <1>1, <1>6
    <3>2. (w \o <<h>>) \o v = w \o (<<h>> \o v) BY <1>1, <1>6
    <3> QED BY <1>4, <1>5, <2>1, <3>1, <3>2
  <2>2. CASE h \notin Visible
    <3>1. <<>> \o v = v BY <1>6
    <3> QED BY <1>4, <1>5, <2>2, <3>1
  <2> QED BY <2>1, <2>2
<1> QED BY <1>7 DEF v, w, r

(* The same when a chunk joins the queue. *)
LEMMA ChunkJoins ==
  ASSUME NEW o \in Seq(Items), NEW c \in Seq(Items), NEW x \in Items
  PROVE  Shown(o) \o Shown(Append(c, x)) =
           IF x \in Visible THEN Append(Shown(o) \o Shown(c), x) ELSE Shown(o) \o Shown(c)
<1> DEFINE u == Shown(o)
           v == Shown(c)
<1>1. u \in Seq(Items) /\ v \in Seq(Items) BY ShownTyped
<1>2. Shown(Append(c, x)) = (IF x \in Visible THEN Append(v, x) ELSE v) BY ShownAppend
<1> HIDE DEF u, v
<1>3. u \o Append(v, x) = Append(u \o v, x)
  <2>1. u \o v \in Seq(Items) BY <1>1, ConcatProperties
  <2>2. Append(v, x) = v \o <<x>> BY <1>1, AppendIsConcat
  <2>3. Append(u \o v, x) = (u \o v) \o <<x>> BY <2>1, AppendIsConcat
  <2>4. (u \o v) \o <<x>> = u \o (v \o <<x>>) BY <1>1, ConcatAssociative
  <2> QED BY <2>2, <2>3, <2>4
<1>4. u \o Shown(Append(c, x)) = IF x \in Visible THEN Append(u \o v, x) ELSE u \o v BY <1>2, <1>3
<1> QED BY <1>4 DEF u, v

RequestTypes ==
  /\ request \in Requests /\ out \in Seq(Readable) /\ made \in Seq(Emitted) /\ chunks \in Seq(Emitted \cup {Sentinel})

(* A task that is done or about to be is at its end and stays there, and the
   sentinel is the last thing in its queue. *)
EndInv ==
  /\ done \/ marking => Terminal
  /\ marking => ~done
  /\ \A i \in DOMAIN chunks : chunks[i] = Sentinel => i = Len(chunks) /\ done
  /\ (\E i \in DOMAIN chunks : chunks[i] # Sentinel) => made # <<>>

(* Where the handler is, and how it got there. *)
HandInv ==
  /\ hand \in {"idle", "checking"} => stage = "sync" /\ http = 0 /\ status = "created"
  /\ hand \in {"idle", "checking", "waiting"} => ending = "none"
  /\ hand \in {"stopping", "late"} => ending = "late"
  /\ hand = "closing" => ending \in {"none", "late"} /\ stage = "stream"
  /\ stage # "stream" => out = <<>>

(* The error and the end are the last things a client reads. *)
OutInv ==
  /\ hand \notin {"closing", "gone"} => \A i \in DOMAIN out : out[i] \in Visible
  /\ hand = "closing" => \A i \in DOMAIN out :
        out[i] \in Visible \/ (i = Len(out) /\ out[i].form = "error")
  /\ hand = "gone" => \A i, j \in DOMAIN out : i < j /\ out[i].form \in {"error", "end"} =>
        out[i].form = "error" /\ out[j].form = "end"

(* No chunk is lost or read out of its turn, and a stream that closes by itself
   has none left. *)
FlowInv ==
  /\ Shown(out) \o Shown(chunks) = Shown(made)
  /\ (hand = "closing" /\ ending = "none") \/ (hand = "gone" /\ ending = "answered" /\ stage = "stream") =>
        Terminal /\ Shown(chunks) = <<>>

StatusInv ==
  http = 200 => status \in {"created", "completed"} \/ made # <<>>

ClientInv == RequestTypes /\ EndInv /\ HandInv /\ OutInv /\ FlowInv /\ StatusInv

LEMMA ClientInitial == RequestInit => ClientInv
<1> SUFFICES ASSUME RequestInit PROVE ClientInv OBVIOUS
<1> USE DEF RequestInit
<1>1. RequestTypes BY DEF RequestTypes, Requests, Checked
<1>2. EndInv /\ HandInv /\ OutInv /\ StatusInv BY DEF EndInv, HandInv, OutInv, StatusInv
<1>3. FlowInv
  <2>1. <<>> \o <<>> = <<>> OBVIOUS
  <2> QED BY <2>1, ShownTyped DEF FlowInv
<1> QED BY <1>1, <1>2, <1>3 DEF ClientInv

LEMMA HandStep == ClientInv /\ [RequestNext]_requestVars => HandInv'
<1> SUFFICES ASSUME ClientInv, [RequestNext]_requestVars PROVE HandInv' OBVIOUS
<1> USE DEF ClientInv, HandInv, clientVars, taskVars, requestVars
<1>1. CASE RunActs
  BY <1>1 DEF RunActs, RunStarts, Emit, RunCompletes, RunRequeued, RunCanceled, QueueExpires, RunFails
<1>2. CASE UNCHANGED requestVars BY <1>2
<1>3. CASE MarkCommits \/ Delete BY <1>3 DEF MarkCommits, Delete
<1>4. CASE Leave \/ Deadline BY <1>4 DEF Leave, Deadline, Through
<1>5. CASE \E r \in Requests : Arrive(r) BY <1>5 DEF Arrive
<1>6. CASE Refuse \/ Admit BY <1>6 DEF Refuse, Admit
<1>7. CASE SyncAnswer \/ FirstChunk BY <1>7 DEF SyncAnswer, FirstChunk, Through
<1>8. CASE StreamChunk \/ StreamDrained \/ StreamCloses
  BY <1>8 DEF StreamChunk, StreamDrained, StreamCloses
<1>9. CASE Terminated \/ LateStream \/ LateAnswer \/ OllamaLate
  BY <1>9 DEF Terminated, LateStream, LateAnswer, OllamaLate
<1> QED BY <1>1, <1>2, <1>3, <1>4, <1>5, <1>6, <1>7, <1>8, <1>9 DEF RequestNext, HandlerActs

LEMMA StatusStep == ClientInv /\ [RequestNext]_requestVars => StatusInv'
<1> SUFFICES ASSUME ClientInv, [RequestNext]_requestVars PROVE StatusInv' OBVIOUS
<1> USE DEF ClientInv, HandInv, StatusInv, clientVars, taskVars, requestVars
<1>1. CASE RunActs
  BY <1>1 DEF RunActs, RunStarts, Emit, RunCompletes, RunRequeued, RunCanceled, QueueExpires, RunFails,
     Put, Mark
<1>2. CASE UNCHANGED requestVars BY <1>2
<1>3. CASE MarkCommits \/ Delete BY <1>3 DEF MarkCommits, Delete
<1>4. CASE Leave \/ Deadline BY <1>4 DEF Leave, Deadline, Through, Mark
<1>5. CASE \E r \in Requests : Arrive(r) BY <1>5 DEF Arrive
<1>6. CASE Refuse BY <1>6 DEF Refuse
<1>12. CASE Admit BY <1>12 DEF Admit
<1>7. CASE SyncAnswer
  <2>1. Answer = 200 => status = "completed"
    BY DEF Answer, RequestTypes, Requests, OpenAIAnswer, AnthropicAnswer, OllamaAnswer
  <2> QED BY <1>7, <2>1 DEF SyncAnswer
<1>10. CASE FirstChunk
  <2>1. Head(chunks) # Sentinel => made # <<>>
    <3>1. 1 \in DOMAIN chunks /\ Head(chunks) = chunks[1] BY <1>10 DEF FirstChunk, RequestTypes
    <3> QED BY <3>1 DEF EndInv
  <2> QED BY <1>10, <2>1 DEF FirstChunk
<1>8. CASE StreamChunk \/ StreamDrained \/ StreamCloses
  BY <1>8 DEF StreamChunk, StreamDrained, StreamCloses
<1>9. CASE Terminated \/ LateStream \/ LateAnswer BY <1>9 DEF Terminated, LateStream, LateAnswer
<1>11. CASE OllamaLate
  <2>1. OllamaAnswer = 200 => status = "completed" BY DEF OllamaAnswer
  <2> QED BY <1>11, <2>1 DEF OllamaLate
<1> QED BY <1>1, <1>2, <1>3, <1>4, <1>5, <1>6, <1>7, <1>8, <1>9, <1>10, <1>11, <1>12 DEF RequestNext, HandlerActs

LEMMA QueueTyped ==
  ASSUME RequestTypes
  PROVE  out \in Seq(Items) /\ chunks \in Seq(Items) /\ made \in Seq(Items)
<1>1. Emitted \cup {Sentinel} \subseteq Items BY ItemFacts
<1> DEFINE Q == Emitted \cup {Sentinel}
<1>2. chunks \in Seq(Q) BY DEF RequestTypes
<1> HIDE DEF Q
<1> QED BY <1>1, <1>2, ItemFacts, SeqMonotonic DEF RequestTypes, Q

(* What putting a chunk does. *)
LEMMA PutAdds ==
  ASSUME RequestTypes, NEW form \in {"native", "foreign", "control"}, Put(form)
  PROVE  \E x \in Emitted : /\ chunks' = Append(chunks, x) /\ made' = Append(made, x)
                            /\ x # Sentinel
<1>1. Len(made) \in Nat BY DEF RequestTypes
<1>2. Chunk(form) \in Emitted BY <1>1 DEF Chunk, Emitted, Items
<1> QED BY <1>2, ItemFacts DEF Put

LEMMA TypesStep == ClientInv /\ [RequestNext]_requestVars => RequestTypes'
<1> SUFFICES ASSUME ClientInv, [RequestNext]_requestVars PROVE RequestTypes' OBVIOUS
<1>0. RequestTypes BY DEF ClientInv
<1>1. ASSUME NEW form \in {"native", "foreign", "control"}, Put(form)
      PROVE  made' \in Seq(Emitted) /\ chunks' \in Seq(Emitted \cup {Sentinel})
  <2>1. PICK x \in Emitted : chunks' = Append(chunks, x) /\ made' = Append(made, x)
    BY <1>0, <1>1, PutAdds
  <2> DEFINE Q == Emitted \cup {Sentinel}
  <2>2. x \in Q /\ chunks \in Seq(Q) /\ made \in Seq(Emitted) BY <1>0 DEF RequestTypes
  <2> HIDE DEF Q
  <2>3. made' \in Seq(Emitted) /\ chunks' \in Seq(Q) BY <2>1, <2>2, AppendProperties
  <2> QED BY <2>3 DEF Q
<1>2. ASSUME chunks # <<>> PROVE Tail(chunks) \in Seq(Emitted \cup {Sentinel})
                              /\ Head(chunks) \in Emitted \cup {Sentinel}
  BY <1>0, <1>2 DEF RequestTypes
<1>3. ASSUME NEW x \in Emitted PROVE Event(x) = <<>> \/ (x \in Readable /\ Event(x) = <<x>>)
  BY DEF Event, Emitted, Readable
<1>16. ASSUME NEW x \in Readable PROVE Append(out, x) \in Seq(Readable) /\ <<x>> \in Seq(Readable)
                                     /\ out \o <<x>> = Append(out, x)
  <2>1. out \in Seq(Readable) BY <1>0 DEF RequestTypes
  <2> QED BY <2>1, AppendProperties, AppendIsConcat
<1>17. out \in Seq(Readable) /\ out \o <<>> = out /\ <<>> \in Seq(Readable)
  <2>1. out \in Seq(Readable) BY <1>0 DEF RequestTypes
  <2> QED BY <2>1, ConcatEmptySeq
<1>4. CASE FirstChunk
  <2>1. out' \in Seq(Readable)
    BY <1>2, <1>3, <1>4, <1>16, <1>17 DEF FirstChunk
  <2> QED BY <1>0, <1>2, <1>4, <2>1 DEF FirstChunk, RequestTypes
<1>5. CASE StreamChunk
  <2>1. Head(chunks) = Sentinel => out' \in Seq(Readable)
    BY <1>5, <1>16, <1>17, ItemFacts DEF StreamChunk
  <2>2. Head(chunks) # Sentinel => out' \in Seq(Readable)
    BY <1>2, <1>3, <1>5, <1>16, <1>17 DEF StreamChunk
  <2> QED BY <1>0, <1>2, <1>5, <2>1, <2>2 DEF StreamChunk, RequestTypes
<1>6. CASE StreamCloses
  <2>1. StreamEnd \in {<<>>, <<EndMarker>>}
    BY <1>0 DEF StreamEnd, OpenAIEnd, OllamaEnd, AnthropicEnd, RequestTypes, Requests
  <2>2. out' \in Seq(Readable) BY <1>6, <1>16, <1>17, <2>1, ItemFacts DEF StreamCloses
  <2> QED BY <1>0, <1>6, <2>2 DEF StreamCloses, RequestTypes
<1>7. CASE LateStream BY <1>0, <1>7, ItemFacts DEF LateStream, RequestTypes, taskVars
<1>8. CASE MarkCommits BY <1>0, <1>8 DEF MarkCommits, RequestTypes, clientVars
<1>9. CASE Emit
  <2>1. \E form \in {"native", "foreign", "control"} : Put(form) BY <1>9 DEF Emit
  <2> QED BY <1>0, <1>1, <1>9, <2>1 DEF Emit, RequestTypes, clientVars
<1>10. CASE RunCompletes BY <1>0, <1>1, <1>10 DEF RunCompletes, RequestTypes, clientVars
<1>11. CASE Refuse \/ Admit
  <2>1. \A b \in BOOLEAN : Checked(request.proto, b) \in Requests
    BY <1>0 DEF RequestTypes, Checked, Requests
  <2>2. request.streaming \in BOOLEAN BY <1>0 DEF RequestTypes, Requests
  <2>3. request' \in Requests BY <1>11, <2>1, <2>2 DEF Refuse, Admit
  <2> QED BY <1>0, <1>11, <2>3 DEF Refuse, Admit, RequestTypes, taskVars
<1>12. CASE RunStarts \/ RunRequeued \/ RunCanceled \/ QueueExpires \/ Delete
  BY <1>0, <1>12 DEF RunStarts, RunRequeued, RunCanceled, QueueExpires, Delete, clientVars, RequestTypes
<1>13. CASE (\E kind \in {"upstream", "timeout", "upstream_timeout", "worker"} : RunFails(kind))
            \/ \E r \in Requests : Arrive(r)
  BY <1>0, <1>13 DEF RunFails, Arrive, RequestTypes, clientVars, taskVars
<1>14. CASE SyncAnswer \/ StreamDrained \/ Terminated \/ LateAnswer \/ OllamaLate \/ Leave \/ Deadline
  BY <1>0, <1>14 DEF SyncAnswer, StreamDrained, Terminated, LateAnswer, OllamaLate, Leave, Deadline,
     RequestTypes, taskVars
<1>15. CASE UNCHANGED requestVars BY <1>0, <1>15 DEF requestVars, clientVars, taskVars, RequestTypes
<1> QED BY <1>4, <1>5, <1>6, <1>7, <1>8, <1>9, <1>10, <1>11, <1>12, <1>13, <1>14, <1>15
        DEF RequestNext, HandlerActs, RunActs

LEMMA EndStep == ClientInv /\ [RequestNext]_requestVars => EndInv'
<1> SUFFICES ASSUME ClientInv, [RequestNext]_requestVars PROVE EndInv' OBVIOUS
<1>0. RequestTypes /\ EndInv /\ HandInv BY DEF ClientInv
<1>1. CASE chunks # <<>> /\ chunks' = Tail(chunks) /\ UNCHANGED <<status, marking, done, made>>
  <2>1. Len(chunks) \in Nat \ {0} /\ DOMAIN chunks = 1 .. Len(chunks)
        /\ Len(chunks') = Len(chunks) - 1 /\ DOMAIN chunks' = 1 .. Len(chunks) - 1
        /\ \A i \in DOMAIN chunks' : chunks'[i] = chunks[i + 1]
    BY <1>0, <1>1 DEF RequestTypes
  <2>2. \A i \in DOMAIN chunks' : i + 1 \in DOMAIN chunks /\ (i + 1 = Len(chunks) => i = Len(chunks'))
    BY <2>1
  <2> QED BY <1>0, <1>1, <2>1, <2>2 DEF EndInv, Terminal
<1>2. CASE Emit \/ RunCompletes
  <2>1. ~done /\ ~marking /\ done' = done BY <1>0, <1>2 DEF EndInv, Terminal, Emit, RunCompletes
  <2>2. CASE UNCHANGED <<chunks, made>>
    BY <1>0, <1>2, <2>1, <2>2 DEF EndInv, Terminal, Emit, RunCompletes, Mark
  <2>3. ASSUME NEW form \in {"native", "foreign", "control"}, Put(form) PROVE EndInv'
    <3>1. PICK x \in Emitted : chunks' = Append(chunks, x) /\ made' = Append(made, x) /\ x # Sentinel
      BY <1>0, <2>3, PutAdds
    <3>2. made' # <<>> BY <1>0, <3>1, AppendProperties DEF RequestTypes
    <3>3. \A i \in DOMAIN chunks' : chunks'[i] # Sentinel
      <4>1. \A i \in DOMAIN chunks' : (i \in DOMAIN chunks /\ chunks'[i] = chunks[i]) \/ chunks'[i] = x
        BY <1>0, <3>1 DEF RequestTypes
      <4> QED BY <1>0, <2>1, <3>1, <4>1 DEF EndInv
    <3> QED BY <1>0, <1>2, <2>1, <3>2, <3>3 DEF EndInv, Terminal, Emit, RunCompletes, Mark
  <2> QED BY <1>2, <2>2, <2>3 DEF Emit, RunCompletes
<1>3. CASE MarkCommits
  <2>1. chunks' = Append(chunks, Sentinel) /\ done' /\ ~marking' /\ Terminal' /\ made' = made
    BY <1>0, <1>3 DEF MarkCommits, EndInv, Terminal
  <2>2. \A i \in DOMAIN chunks : chunks[i] # Sentinel BY <1>0, <1>3 DEF EndInv, MarkCommits
  <2>3. \A i \in DOMAIN chunks' : (i \in DOMAIN chunks /\ chunks'[i] = chunks[i])
                                 \/ (i = Len(chunks') /\ chunks'[i] = Sentinel)
    BY <1>0, <2>1 DEF RequestTypes
  <2> QED BY <1>0, <2>1, <2>2, <2>3 DEF EndInv
<1>4. CASE UNCHANGED <<chunks, made, done, marking, status>>
  BY <1>0, <1>4 DEF EndInv, Terminal
<1>5. CASE RunStarts \/ RunRequeued \/ RunCanceled \/ QueueExpires \/ Delete \/ Admit \/ Deadline
  BY <1>0, <1>5 DEF RunStarts, RunRequeued, RunCanceled, QueueExpires, Delete, Admit, Deadline, Mark,
     EndInv, HandInv, Terminal
<1>6. CASE \E kind \in {"upstream", "timeout", "upstream_timeout", "worker"} : RunFails(kind)
  BY <1>0, <1>6 DEF RunFails, Mark, EndInv, Terminal
<1>7. CASE FirstChunk \/ StreamChunk BY <1>1, <1>7 DEF FirstChunk, StreamChunk
<1>8. CASE (\E r \in Requests : Arrive(r)) \/ UNCHANGED requestVars \/ Refuse
  BY <1>4, <1>8 DEF Arrive, Refuse, requestVars, clientVars, taskVars
<1>9. CASE SyncAnswer \/ StreamDrained \/ StreamCloses \/ Terminated \/ LateStream \/ LateAnswer
           \/ OllamaLate \/ Leave
  BY <1>4, <1>9 DEF SyncAnswer, StreamDrained, StreamCloses, Terminated, LateStream, LateAnswer,
     OllamaLate, Leave, taskVars
<1> QED BY <1>2, <1>3, <1>5, <1>6, <1>7, <1>8, <1>9 DEF RequestNext, HandlerActs, RunActs

(* What one more thing to read does to what has been read. *)
LEMMA ReadsOne ==
  ASSUME NEW o \in Seq(Readable), NEW x \in Readable
  PROVE  /\ Append(o, x) \in Seq(Readable) /\ o \o <<x>> = Append(o, x) /\ o \o <<>> = o
         /\ \A i \in DOMAIN Append(o, x) :
              \/ i \in DOMAIN o /\ Append(o, x)[i] = o[i] /\ i # Len(Append(o, x))
              \/ i = Len(Append(o, x)) /\ Append(o, x)[i] = x
<1> DEFINE t == Append(o, x)
           n == Len(o)
<1>1. n \in Nat /\ DOMAIN o = 1 .. n /\ DOMAIN t = 1 .. n + 1 /\ Len(t) = n + 1 OBVIOUS
<1>2. (\A i \in 1 .. n : t[i] = o[i]) /\ t[n + 1] = x OBVIOUS
<1>3. t \in Seq(Readable) /\ o \o <<x>> = t /\ o \o <<>> = o BY AppendIsConcat, ConcatEmptySeq
<1> HIDE DEF t, n
<1>4. \A i \in DOMAIN t : (i \in DOMAIN o /\ i # Len(t)) \/ i = Len(t) BY <1>1
<1>5. \A i \in DOMAIN t : (i \in DOMAIN o /\ t[i] = o[i] /\ i # Len(t)) \/ (i = Len(t) /\ t[i] = x)
  BY <1>1, <1>2, <1>4
<1> QED BY <1>3, <1>5 DEF t

(* A chunk that the client is shown, or is not. *)
LEMMA EventReads ==
  ASSUME RequestTypes, chunks # <<>>, Head(chunks) # Sentinel
  PROVE  LET h == Head(chunks)
         IN  /\ h \in Visible => Event(h) = <<h>>
             /\ h \notin Visible => Event(h) = <<>>
<1> DEFINE Q == Emitted \cup {Sentinel}
<1>1. chunks \in Seq(Q) BY DEF RequestTypes
<1> HIDE DEF Q
<1>2. Head(chunks) \in Q BY <1>1
<1> QED BY <1>2 DEF Q, Event, Emitted, Visible

LEMMA OutStep == ClientInv /\ [RequestNext]_requestVars => OutInv'
<1> SUFFICES ASSUME ClientInv, [RequestNext]_requestVars PROVE OutInv' OBVIOUS
<1>0. RequestTypes /\ HandInv /\ OutInv /\ out \in Seq(Readable) BY DEF ClientInv, RequestTypes
<1>1. \A x \in Visible : x \in Readable /\ x.form \notin {"error", "end"} BY DEF Visible, Readable
<1>2. CASE UNCHANGED <<out, hand>> BY <1>0, <1>2 DEF OutInv
<1>3. CASE hand \notin {"closing", "gone"} /\ out' = out BY <1>0, <1>1, <1>3 DEF OutInv
<1>4. CASE (\E x \in Visible : out' = Append(out, x)) /\ hand = "waiting" /\ hand' = "waiting"
  <2>1. PICK x \in Visible : out' = Append(out, x) BY <1>4
  <2>2. \A i \in DOMAIN out' : (i \in DOMAIN out /\ out'[i] = out[i]) \/ out'[i] = x
    BY <1>0, <1>1, <2>1, ReadsOne
  <2> QED BY <1>0, <1>4, <2>2 DEF OutInv
<1>5. CASE out' = Append(out, ErrorEvent) /\ hand \notin {"closing", "gone"} /\ hand' = "closing"
  <2>1. \A i \in DOMAIN out' : (i \in DOMAIN out /\ out'[i] = out[i])
                              \/ (i = Len(out') /\ out'[i] = ErrorEvent)
    BY <1>0, <1>5, ItemFacts, ReadsOne
  <2> QED BY <1>0, <1>5, <2>1, ItemFacts DEF OutInv
<1>6. CASE FirstChunk
  <2>1. hand = "waiting" /\ hand' = hand /\ out = <<>> /\ chunks # <<>>
    BY <1>0, <1>6 DEF FirstChunk, HandInv
  <2>2. CASE Head(chunks) = Sentinel BY <1>3, <1>6, <2>1, <2>2 DEF FirstChunk
  <2>3. CASE Head(chunks) # Sentinel
    <3>1. Event(Head(chunks)) = <<>> \/ (Head(chunks) \in Visible /\ Event(Head(chunks)) = Append(out, Head(chunks)))
      BY <1>0, <2>1, <2>3, EventReads
    <3> QED BY <1>3, <1>4, <1>6, <2>1, <2>3, <3>1 DEF FirstChunk
  <2> QED BY <2>2, <2>3
<1>7. CASE StreamChunk
  <2>1. hand = "waiting" /\ chunks # <<>> BY <1>7 DEF StreamChunk
  <2>2. CASE Head(chunks) = Sentinel BY <1>3, <1>5, <1>7, <2>1, <2>2 DEF StreamChunk
  <2>3. CASE Head(chunks) # Sentinel
    <3>1. Event(Head(chunks)) = <<>> \/ (Head(chunks) \in Visible /\ Event(Head(chunks)) = <<Head(chunks)>>)
      BY <1>0, <2>1, <2>3, EventReads
    <3>2. out' = out \o Event(Head(chunks)) /\ hand' = hand BY <1>7, <2>3 DEF StreamChunk
    <3>3. out' = out \/ \E x \in Visible : out' = Append(out, x)
      BY <1>0, <1>1, <3>1, <3>2, ItemFacts, ReadsOne
    <3> QED BY <1>3, <1>4, <2>1, <3>2, <3>3
  <2> QED BY <2>2, <2>3
<1>8. CASE StreamCloses
  <2>1. StreamEnd \in {<<>>, <<EndMarker>>}
    BY <1>0 DEF StreamEnd, OpenAIEnd, OllamaEnd, AnthropicEnd, RequestTypes, Requests
  <2>2. out' = out \/ out' = Append(out, EndMarker)
    BY <1>0, <1>8, <2>1, ItemFacts, ReadsOne DEF StreamCloses
  <2>3. \A i \in DOMAIN out : out[i] \in Visible \/ (i = Len(out) /\ out[i].form = "error")
    BY <1>0, <1>8 DEF StreamCloses, OutInv
  <2>4. Len(out) \in Nat /\ DOMAIN out = 1 .. Len(out) BY <1>0
  <2>5. \A i, j \in DOMAIN out : i < j => i # Len(out) BY <2>4
  <2>6. CASE out' = out BY <1>1, <1>8, <2>3, <2>5, <2>6 DEF OutInv, StreamCloses
  <2>7. CASE out' = Append(out, EndMarker)
    <3>1. \A i \in DOMAIN out' : (i \in DOMAIN out /\ out'[i] = out[i])
                                \/ (i = Len(out') /\ out'[i] = EndMarker)
      BY <1>0, <2>7, ItemFacts, ReadsOne
    <3>2. Len(out') = Len(out) + 1 /\ DOMAIN out' = 1 .. Len(out) + 1 BY <1>0, <2>7
    <3>3. \A i, j \in DOMAIN out' : i < j => i # Len(out') BY <2>4, <3>2
    <3>4. ASSUME NEW i \in DOMAIN out', NEW j \in DOMAIN out', i < j, out'[i].form \in {"error", "end"}
          PROVE  out'[i].form = "error" /\ out'[j].form = "end"
      <4>1. i \in DOMAIN out /\ out'[i] = out[i] BY <3>1, <3>3, <3>4
      <4>2. i = Len(out) /\ out[i].form = "error" BY <1>1, <2>3, <3>4, <4>1
      <4>3. j \notin DOMAIN out BY <2>4, <3>4, <4>2
      <4> QED BY <3>1, <4>1, <4>2, <4>3, ItemFacts
    <3> QED BY <1>8, <3>4 DEF OutInv, StreamCloses
  <2> QED BY <2>2, <2>6, <2>7
<1>9. CASE LateStream BY <1>5, <1>9 DEF LateStream
<1>10. CASE RunActs \/ MarkCommits \/ Delete \/ UNCHANGED requestVars
  BY <1>2, <1>10 DEF RunActs, RunStarts, Emit, RunCompletes, RunRequeued, RunCanceled, QueueExpires,
     RunFails, MarkCommits, Delete, requestVars, clientVars
<1>11. CASE (\E r \in Requests : Arrive(r)) \/ Refuse \/ Admit \/ Leave \/ Deadline
  BY <1>3, <1>11 DEF Arrive, Refuse, Admit, Leave, Deadline
<1>12. CASE SyncAnswer \/ StreamDrained \/ Terminated \/ LateAnswer \/ OllamaLate
  BY <1>3, <1>12 DEF SyncAnswer, StreamDrained, Terminated, LateAnswer, OllamaLate
<1> QED BY <1>6, <1>7, <1>8, <1>9, <1>10, <1>11, <1>12 DEF RequestNext, HandlerActs


Closed == (hand = "closing" /\ ending = "none") \/ (hand = "gone" /\ ending = "answered" /\ stage = "stream")

LEMMA FlowStep == ClientInv /\ [RequestNext]_requestVars => FlowInv'
<1> SUFFICES ASSUME ClientInv, [RequestNext]_requestVars PROVE FlowInv' OBVIOUS
<1>0. RequestTypes /\ HandInv /\ EndInv /\ FlowInv BY DEF ClientInv
<1>a. out \in Seq(Readable) /\ out \in Seq(Items) /\ chunks \in Seq(Items) /\ made \in Seq(Items)
  BY <1>0, QueueTyped DEF RequestTypes
<1>b. Shown(out) \o Shown(chunks) = Shown(made) BY <1>0 DEF FlowInv
<1>c. Closed => Terminal /\ Shown(chunks) = <<>> BY <1>0 DEF FlowInv, Closed
<1>d. SUFFICES /\ Shown(out') \o Shown(chunks') = Shown(made')
               /\ Closed' => Terminal' /\ Shown(chunks') = <<>>
  BY DEF FlowInv, Closed
<1>e. \A x \in Readable : x \notin Visible => Shown(Append(out, x)) = Shown(out)
  BY <1>a, ItemFacts, ShownAppend
<1>f. Shown(Append(out, ErrorEvent)) = Shown(out) /\ Shown(Append(out, EndMarker)) = Shown(out)
  BY <1>e, ItemFacts
<1>1. CASE UNCHANGED <<out, chunks, made>> /\ (Terminal => Terminal') /\ (Closed' => Closed)
  BY <1>b, <1>c, <1>1
<1>2. CASE Emit \/ RunCompletes
  <2>1. UNCHANGED <<hand, ending, stage, out>> /\ ~Terminal
    BY <1>2 DEF Emit, RunCompletes, clientVars, Terminal
  <2>2. ~Closed' BY <1>c, <2>1 DEF Closed
  <2>3. CASE UNCHANGED <<chunks, made>> BY <1>b, <2>1, <2>2, <2>3
  <2>4. ASSUME NEW form \in {"native", "foreign", "control"}, Put(form)
        PROVE  Shown(out') \o Shown(chunks') = Shown(made')
    <3>1. PICK x \in Emitted : chunks' = Append(chunks, x) /\ made' = Append(made, x)
      BY <1>0, <2>4, PutAdds
    <3>2. x \in Items BY ItemFacts
    <3>3. Shown(out) \o Shown(chunks') = Shown(made')
      <4>1. Shown(out) \o Shown(Append(chunks, x)) =
              IF x \in Visible THEN Append(Shown(out) \o Shown(chunks), x) ELSE Shown(out) \o Shown(chunks)
        BY <1>a, <3>2, ChunkJoins
      <4>2. Shown(Append(made, x)) = IF x \in Visible THEN Append(Shown(made), x) ELSE Shown(made)
        BY <1>a, <3>2, ShownAppend
      <4> QED BY <1>b, <3>1, <4>1, <4>2
    <3> QED BY <2>1, <3>3
  <2> QED BY <1>2, <2>2, <2>3, <2>4 DEF Emit, RunCompletes
<1>3. CASE MarkCommits
  <2>1. UNCHANGED <<hand, ending, stage, out, made, status>> /\ chunks' = Append(chunks, Sentinel)
    BY <1>3 DEF MarkCommits, clientVars
  <2>2. Shown(chunks') = Shown(chunks) BY <1>a, <2>1, ItemFacts, ShownAppend
  <2> QED BY <1>b, <1>c, <2>1, <2>2 DEF Closed, Terminal
<1>4. ASSUME chunks # <<>>, chunks' = Tail(chunks), made' = made,
             out' = IF Head(chunks) \in Visible THEN Append(out, Head(chunks)) ELSE out
      PROVE  Shown(out') \o Shown(chunks') = Shown(made')
  BY <1>a, <1>b, <1>4, ChunkMoves
<1>5. CASE FirstChunk
  <2>1. hand = "waiting" /\ hand' = hand /\ out = <<>> /\ chunks # <<>> /\ chunks' = Tail(chunks) /\ made' = made
    BY <1>0, <1>5 DEF FirstChunk, HandInv
  <2>2. out' = IF Head(chunks) \in Visible THEN Append(out, Head(chunks)) ELSE out
    <3>1. CASE Head(chunks) = Sentinel BY <1>5, <3>1, ItemFacts DEF FirstChunk
    <3>2. CASE Head(chunks) # Sentinel
      <4>1. out' = Event(Head(chunks)) BY <1>5, <3>2 DEF FirstChunk
      <4> QED BY <1>0, <2>1, <3>2, <4>1, EventReads
    <3> QED BY <3>1, <3>2
  <2>3. ~Closed' BY <2>1 DEF Closed
  <2> QED BY <1>4, <2>1, <2>2, <2>3
<1>6. CASE StreamChunk
  <2>1. hand = "waiting" /\ chunks # <<>> /\ chunks' = Tail(chunks) /\ made' = made /\ status' = status
    BY <1>6 DEF StreamChunk
  <2>2. CASE Head(chunks) = Sentinel
    <3>1. 1 \in DOMAIN chunks /\ Head(chunks) = chunks[1] BY <1>0, <2>1 DEF RequestTypes
    <3>2. Len(chunks) = 1 /\ done BY <1>0, <2>2, <3>1 DEF EndInv
    <3>3. chunks' = <<>>
      <4>1. Tail(chunks) \in Seq(Items) /\ Len(Tail(chunks)) = 0 BY <1>a, <2>1, <3>2
      <4> QED BY <2>1, <4>1, EmptySeq
    <3>4. Terminal' BY <1>0, <2>1, <3>2 DEF EndInv, Terminal
    <3>5. Shown(out') = Shown(out) BY <1>6, <1>f, <2>2 DEF StreamChunk
    <3>6. Shown(out) \o Shown(Tail(chunks)) = Shown(made)
      <4>1. Head(chunks) \notin Visible BY <2>2, ItemFacts
      <4>2. Shown(out) \o Shown(Tail(chunks)) = Shown(out) \o Shown(chunks)
        BY <1>a, <2>1, <4>1, ChunkMoves
      <4> QED BY <1>b, <4>2
    <3> QED BY <2>1, <3>3, <3>4, <3>5, <3>6, ShownTyped
  <2>3. CASE Head(chunks) # Sentinel
    <3>1. out' = out \o Event(Head(chunks)) /\ hand' = hand BY <1>6, <2>3 DEF StreamChunk
    <3>2. out' = IF Head(chunks) \in Visible THEN Append(out, Head(chunks)) ELSE out
      <4>1. \A x \in Visible : out \o <<x>> = Append(out, x) BY <1>a, ItemFacts, ReadsOne
      <4>2. out \o <<>> = out BY <1>a, ConcatEmptySeq
      <4> QED BY <1>0, <2>1, <2>3, <3>1, <4>1, <4>2, EventReads
    <3> QED BY <1>4, <2>1, <3>1, <3>2 DEF Closed
  <2> QED BY <2>2, <2>3
<1>7. CASE StreamCloses
  <2>1. StreamEnd \in {<<>>, <<EndMarker>>}
    BY <1>0 DEF StreamEnd, OpenAIEnd, OllamaEnd, AnthropicEnd, RequestTypes, Requests
  <2>2. out' = out \/ out' = Append(out, EndMarker)
    BY <1>a, <1>7, <2>1, ItemFacts, ReadsOne DEF StreamCloses
  <2>3. Shown(out') = Shown(out) BY <1>f, <2>2
  <2>4. UNCHANGED <<chunks, made, status>> BY <1>7 DEF StreamCloses
  <2>5. Closed' => Closed BY <1>0, <1>7 DEF Closed, HandInv, StreamCloses
  <2> QED BY <1>b, <1>c, <2>3, <2>4, <2>5 DEF Terminal
<1>8. CASE LateStream
  <2>1. out' = Append(out, ErrorEvent) /\ UNCHANGED <<chunks, made, status>> /\ hand' = "closing" /\ ending' = "late"
    BY <1>0, <1>8 DEF LateStream, HandInv, taskVars
  <2>2. Shown(out') = Shown(out) BY <1>f, <2>1
  <2> QED BY <1>b, <2>1, <2>2 DEF Closed
<1>9. CASE StreamDrained
  <2>1. UNCHANGED <<out, chunks, made>> /\ chunks = <<>> /\ Terminal'
    BY <1>9 DEF StreamDrained, Terminal, taskVars
  <2> QED BY <1>b, <2>1, ShownTyped
<1>10. CASE RunStarts \/ RunRequeued \/ RunCanceled \/ QueueExpires \/ Delete \/ UNCHANGED requestVars
            \/ \E kind \in {"upstream", "timeout", "upstream_timeout", "worker"} : RunFails(kind)
  BY <1>1, <1>10 DEF RunStarts, RunRequeued, RunCanceled, QueueExpires, RunFails, Delete, Mark,
     requestVars, clientVars, taskVars, Closed, Terminal
<1>11. CASE (\E r \in Requests : Arrive(r)) \/ Refuse \/ Admit \/ Leave \/ Deadline
  BY <1>0, <1>1, <1>11 DEF Arrive, Refuse, Admit, Leave, Deadline, Mark, Through, taskVars, HandInv,
     Closed, Terminal
<1>12. CASE SyncAnswer \/ Terminated \/ LateAnswer \/ OllamaLate
  BY <1>0, <1>1, <1>12 DEF SyncAnswer, Terminated, LateAnswer, OllamaLate, Through, taskVars, HandInv,
     Closed, Terminal
<1> QED BY <1>2, <1>3, <1>5, <1>6, <1>7, <1>8, <1>9, <1>10, <1>11, <1>12
        DEF RequestNext, HandlerActs, RunActs

LEMMA ClientStep == ClientInv /\ [RequestNext]_requestVars => ClientInv'
  BY TypesStep, EndStep, HandStep, OutStep, FlowStep, StatusStep DEF ClientInv

(* For any number of runs and of chunks, whatever the client asked for and
   whenever its task is retried, late or canceled: what it reads of a stream is
   in order and ends at most once, and all of it is there when the task is
   complete and no deadline cut it (endpoint_openaix.py:2126-2257, and its like in
   the Ollama and Anthropic endpoints). *)
THEOREM StreamsAreWhole == RequestSpec => []StreamIsWhole
<1>1. ClientInv => StreamIsWhole
  <2> SUFFICES ASSUME ClientInv PROVE StreamIsWhole OBVIOUS
  <2>0. RequestTypes /\ HandInv /\ OutInv /\ FlowInv BY DEF ClientInv
  <2>1. out \in Seq(Items) /\ chunks \in Seq(Items) BY <2>0, QueueTyped
  <2>2. Shown(out) \in Seq(Items) /\ Shown(chunks) \in Seq(Items) BY <2>1, ShownTyped
  <2>3. IsPrefix(Shown(out), Shown(made))
    <3> DEFINE u == Shown(out)
               v == Shown(chunks)
               w == Shown(made)
    <3>1. u \in Seq(Items) /\ v \in Seq(Items) /\ u \o v = w BY <2>0, <2>2 DEF FlowInv
    <3> HIDE DEF u, v, w
    <3>2. Len(u) <= Len(w) /\ \A i \in 1 .. Len(u) : u[i] = w[i] BY <3>1
    <3>3. SubSeq(u, 1, Len(u)) = SubSeq(w, 1, Len(u)) BY <3>1, <3>2
    <3>4. IsPrefix(u, w) BY <3>2, <3>3 DEF IsPrefix
    <3> QED BY <3>4 DEF u, w
  <2>4. \A i, j \in DOMAIN out : i < j /\ out[i].form \in {"error", "end"} =>
           out[i].form = "error" /\ out[j].form = "end"
    <3>1. Len(out) \in Nat /\ DOMAIN out = 1 .. Len(out) BY <2>1
    <3>2. \A i, j \in DOMAIN out : i < j => i # Len(out) BY <3>1
    <3>3. \A x \in Visible : x.form \notin {"error", "end"} BY DEF Visible
    <3> QED BY <2>0, <3>2, <3>3 DEF OutInv
  <2>5. Shown(chunks) = <<>> => Shown(out) = Shown(made) BY <2>0, <2>2, ConcatEmptySeq DEF FlowInv
  <2> QED BY <2>0, <2>3, <2>4, <2>5 DEF StreamIsWhole, FlowInv
<1> QED BY <1>1, ClientInitial, ClientStep, PTL DEF RequestSpec

(* Nor does such a request turn the failure of a task that emitted nothing into
   a 200, even when the end overtakes the wait for the first chunk
   (endpoint_openaix.py:2149-2164). *)
THEOREM FailuresAreReported == RequestSpec => []EarlyFailureKeepsStatus
<1>1. ClientInv => EarlyFailureKeepsStatus BY DEF ClientInv, StatusInv, EarlyFailureKeepsStatus
<1> QED BY <1>1, ClientInitial, ClientStep, PTL DEF RequestSpec

-----------------------------------------------------------------------------
(* A request that instances hand on. *)

LEMMA DistinctNames ==
  ASSUME NEW S, NEW list \in Seq(S)
  PROVE  /\ Distinct(list) \in Seq(S) /\ NoneTwice(Distinct(list))
         /\ NoneTwice(list) => Distinct(list) = list
<1> DEFINE I == {i \in DOMAIN list : \A j \in DOMAIN list : list[j] = list[i] => i <= j}
<1>1. IsFiniteSet(I) /\ I \subseteq Nat /\ DOMAIN list \subseteq Nat
  <2>1. Len(list) \in Nat /\ DOMAIN list = 1 .. Len(list) OBVIOUS
  <2>2. IsFiniteSet(1 .. Len(list)) BY <2>1, FS_Interval
  <2>3. I \subseteq 1 .. Len(list) BY <2>1
  <2> QED BY <2>1, <2>2, <2>3, FS_Subset
<1>2. {list[i] : i \in I} \subseteq S OBVIOUS
<1>3. \A i, j \in I : list[i] = list[j] => i = j
  <2> SUFFICES ASSUME NEW i \in I, NEW j \in I, list[i] = list[j] PROVE i = j OBVIOUS
  <2>1. i <= j /\ j <= i OBVIOUS
  <2>2. i \in Nat /\ j \in Nat BY <1>1
  <2> QED BY <2>1, <2>2
<1>4. NoneTwice(list) => I = DOMAIN list
  <2>1. \A i \in DOMAIN list : i <= i BY <1>1
  <2> QED BY <2>1 DEF NoneTwice
<1> HIDE DEF I
<1>5. Subsequence(list, I) \in Seq({list[i] : i \in I}) BY <1>1, SubElements
<1>6. Subsequence(list, I) \in Seq(S) BY <1>2, <1>5, SeqMonotonic
<1>7. NoneTwice(Subsequence(list, I)) BY <1>1, <1>3, SubNoneTwice
<1>8. Subsequence(list, DOMAIN list) = list BY SubWhole
<1> QED BY <1>4, <1>6, <1>7, <1>8 DEF Distinct, I

LEMMA OneMore ==
  ASSUME NEW S, NEW s \in Seq(S), NEW x \in S, NoneTwice(s), \A i \in DOMAIN s : s[i] # x
  PROVE  NoneTwice(Append(s, x))
<1> DEFINE t == Append(s, x)
           n == Len(s)
<1>1. n \in Nat /\ DOMAIN s = 1 .. n /\ DOMAIN t = 1 .. n + 1 OBVIOUS
<1>2. (\A i \in 1 .. n : t[i] = s[i]) /\ t[n + 1] = x OBVIOUS
<1> HIDE DEF t, n
<1>3. \A i \in DOMAIN t : i \in 1 .. n \/ i = n + 1 BY <1>1
<1>4. NoneTwice(t) BY <1>1, <1>2, <1>3 DEF NoneTwice
<1> QED BY <1>4 DEF t

TraceTypes ==
  at \in Instances /\ visited \in Seq(Names) /\ path \in Seq(Instances)

(* While a request is under way the list has a place for each instance that made
   a task of it; the names the client has put there only make it longer. *)
ListHasPath ==
  /\ Len(path) <= Len(visited)
  /\ \A i \in DOMAIN path : \E k \in DOMAIN visited : visited[k] = NameOf[path[i]]

TraceInv ==
  /\ TraceTypes /\ NoneTwice(visited) /\ NoneTwice(path)
  /\ \A i \in DOMAIN path : i <= MaxHops[path[i]]
  /\ trail = "open" => ListHasPath

LEMMA TraceInitial == TraceInit => TraceInv
<1> SUFFICES ASSUME TraceInit PROVE TraceInv OBVIOUS
<1>0. PICK length \in 0..2 : \E list \in [1..length -> Names] : visited = Distinct(list) BY DEF TraceInit
<1>1. PICK list \in [1..length -> Names] : visited = Distinct(list) BY <1>0
<1>2. list \in Seq(Names) OBVIOUS
<1>3. visited \in Seq(Names) /\ NoneTwice(visited) BY <1>1, <1>2, DistinctNames
<1>4. path = <<>> /\ at \in Instances BY DEF TraceInit
<1>5. path \in Seq(Instances) /\ Len(path) = 0 /\ DOMAIN path = {} BY <1>4
<1> QED BY <1>3, <1>4, <1>5 DEF TraceInv, TraceTypes, NoneTwice, ListHasPath

(* The task an instance makes is within its limit and its only one. *)
LEMMA TaskFits ==
  ASSUME TraceInv, trail = "open", ~Loops, ~TooFar, path' = Append(path, at)
  PROVE  /\ path' \in Seq(Instances) /\ NoneTwice(path') /\ Len(path') = Len(path) + 1
         /\ \A i \in DOMAIN path' : i <= MaxHops[path'[i]]
         /\ \A i \in DOMAIN path' : (i \in DOMAIN path /\ path'[i] = path[i]) \/ path'[i] = at
<1> USE DEF TraceInv, TraceTypes
<1>1. ListHasPath OBVIOUS
<1>2. \A k \in DOMAIN visited : visited[k] # NameOf[at] BY DEF Loops, Contains
<1>3. \A i \in DOMAIN path : path[i] # at BY <1>1, <1>2 DEF ListHasPath
<1>4. NoneTwice(path') BY <1>3, OneMore
<1>5. Len(path) \in Nat /\ DOMAIN path = 1 .. Len(path) /\ DOMAIN path' = 1 .. Len(path) + 1
      /\ Len(path') = Len(path) + 1 /\ path' \in Seq(Instances)
  OBVIOUS
<1>6. (\A i \in 1 .. Len(path) : path'[i] = path[i]) /\ path'[Len(path) + 1] = at OBVIOUS
<1>7. Len(path) + 1 <= MaxHops[at]
  <2>1. Len(visited) \in Nat /\ MaxHops[at] \in Nat BY HopsAssumption
  <2>2. Len(visited) < MaxHops[at] BY <2>1 DEF TooFar
  <2> QED BY <1>1, <1>5, <2>1, <2>2 DEF ListHasPath
<1>8. \A i \in DOMAIN path' : i \in 1 .. Len(path) \/ i = Len(path) + 1 BY <1>5
<1>9. \A i \in DOMAIN path' : i <= MaxHops[path'[i]] BY <1>5, <1>6, <1>7, <1>8
<1>10. \A i \in DOMAIN path' : (i \in DOMAIN path /\ path'[i] = path[i]) \/ path'[i] = at
  BY <1>5, <1>6, <1>8
<1> QED BY <1>4, <1>5, <1>9, <1>10

LEMMA TraceStep == TraceInv /\ [TraceNext]_traceVars => TraceInv'
<1> SUFFICES ASSUME TraceInv, [TraceNext]_traceVars PROVE TraceInv' OBVIOUS
<1> USE DEF TraceInv, TraceTypes
<1>1. CASE RefuseTrace BY <1>1 DEF RefuseTrace
<1>2. CASE ServeHere
  <2>1. trail' = "served" /\ UNCHANGED <<at, visited>> BY <1>2 DEF ServeHere
  <2> QED BY <1>2, <2>1, TaskFits DEF ServeHere
<1>3. ASSUME NEW next \in Instances, Forward(next) PROVE TraceInv'
  <2>1. trail = "open" /\ ~Loops /\ ~TooFar /\ path' = Append(path, at) /\ at' = next /\ trail' = trail
        /\ visited' = Distinct(Outgoing)
    BY <1>3 DEF Forward
  <2>2. \A k \in DOMAIN visited : visited[k] # NameOf[at] BY <2>1 DEF Loops, Contains
  <2>3. NameOf[at] \in Names BY HopsAssumption
  <2>4. Outgoing = Append(visited, NameOf[at]) BY <2>1 DEF Outgoing, Loops
  <2>5. NoneTwice(Outgoing) /\ Outgoing \in Seq(Names) BY <2>2, <2>3, <2>4, OneMore
  <2>6. visited' = Append(visited, NameOf[at]) /\ NoneTwice(visited') /\ visited' \in Seq(Names)
    BY <2>1, <2>4, <2>5, DistinctNames
  <2>7. ListHasPath'
    <3>1. Len(visited) \in Nat /\ DOMAIN visited' = 1 .. Len(visited) + 1
          /\ Len(visited') = Len(visited) + 1 /\ DOMAIN visited = 1 .. Len(visited)
      BY <2>6
    <3>2. (\A k \in DOMAIN visited : visited'[k] = visited[k]) /\ visited'[Len(visited) + 1] = NameOf[at]
      BY <2>6
    <3>3. Len(path) \in Nat /\ Len(path') = Len(path) + 1 /\ ListHasPath BY <2>1, TaskFits
    <3>4. Len(path') <= Len(visited') BY <3>1, <3>3 DEF ListHasPath
    <3>5. ASSUME NEW i \in DOMAIN path' PROVE \E k \in DOMAIN visited' : visited'[k] = NameOf[path'[i]]
      <4>1. CASE path'[i] = at
        <5>1. Len(visited) + 1 \in DOMAIN visited' BY <3>1
        <5> QED BY <3>2, <4>1, <5>1
      <4>2. CASE i \in DOMAIN path /\ path'[i] = path[i]
        <5>1. PICK k \in DOMAIN visited : visited[k] = NameOf[path[i]] BY <3>3, <4>2 DEF ListHasPath
        <5>2. k \in DOMAIN visited' BY <3>1
        <5> QED BY <3>2, <4>2, <5>1, <5>2
      <4> QED BY <2>1, <4>1, <4>2, TaskFits
    <3> QED BY <3>4, <3>5 DEF ListHasPath
  <2> QED BY <2>1, <2>6, <2>7, TaskFits
<1>4. CASE UNCHANGED traceVars BY <1>4 DEF traceVars, ListHasPath
<1> QED BY <1>1, <1>2, <1>3, <1>4 DEF TraceNext

(* For any instances, names, limits of hops and headers: no instance makes two
   tasks of one request, and none makes a task of a request that has come further
   than it allows (endpoint_ollama.py:722-779, openaix/app.py:641-668). *)
THEOREM RequestsDoNotCircle == TraceSpec => []VisitsAreBounded
<1>1. TraceInv => VisitsAreBounded BY DEF TraceInv, NoneTwice, VisitsAreBounded
<1> QED BY <1>1, TraceInitial, TraceStep, PTL DEF TraceSpec

-----------------------------------------------------------------------------
(* One converted stream. *)

Blocks ==
  [type : {"message_start", "start", "delta", "signature", "stop", "message_delta", "message_stop"},
   kind : Kinds \cup {"none"}, i : Nat, part : Nat]
FrameBlocks == {b \in Blocks : b.type \in {"start", "stop"}}
EndBlocks   == {b \in Blocks : b.type \in {"message_delta", "message_stop"}}

Opening == Block("message_start", "none", 0)
LastWords == <<Block("message_delta", "none", 0), Block("message_stop", "none", 0)>>

(* The blocks f are numbered from 1 to nr, each closed before the next one starts;
   the last of them is closed or not. *)
Alternates(f, nr, closed) ==
  /\ f \in Seq(Blocks) /\ nr \in Nat /\ Len(f) = (IF closed THEN 2 * nr ELSE 2 * nr - 1)
  /\ \A k \in 1 .. nr : f[2 * k - 1].type = "start" /\ f[2 * k - 1].i = k
  /\ \A k \in 1 .. nr : 2 * k <= Len(f) => f[2 * k].type = "stop" /\ f[2 * k].i = k

(* What PiecesInPlace says, of the events s. *)
InPlace(s) ==
  \A k \in DOMAIN s : s[k].type \in {"delta", "signature"} =>
    /\ s[k - 1].type \in {"start", "delta", "signature"}
    /\ s[k - 1].i = s[k].i /\ s[k - 1].kind = s[k].kind
    /\ s[k].kind = "tool" => s[k - 1].part = s[k].part

(* The event b belongs to the open block. *)
OfOpen(b, nr, kind) == b.type \in {"start", "delta", "signature"} /\ b.i = nr /\ b.kind = kind

(* The events s are a message under way: its last block has the number nr, and
   kind says what of it is open; when tidy, every piece is in its place. *)
Told(s, nr, kind, tidy) ==
  /\ s \in Seq(Blocks) /\ s # <<>> /\ nr \in Nat
  /\ \A k \in DOMAIN s : (s[k].type = "message_start") <=> (k = 1)
  /\ Alternates(Kept(s, FrameBlocks), nr, kind = "none")
  /\ Kept(s, EndBlocks) = <<>>
  /\ tidy => InPlace(s) /\ (kind # "none" => OfOpen(s[Len(s)], nr, kind))

(* The event x may follow s. *)
Follows(x, s, nr, kind, tidy) ==
  /\ x \in Blocks /\ x.type \in {"start", "delta", "signature", "stop"} /\ x.kind # "none"
  /\ x.type = "start" => kind = "none" /\ x.i = nr + 1
  /\ x.type = "stop" => kind # "none" /\ x.i = nr
  /\ (x.type \in {"delta", "signature"} /\ tidy) =>
        /\ kind # "none" /\ x.i = nr /\ x.kind = kind
        /\ kind = "tool" => x.part = s[Len(s)].part

NrAfter(x, nr)     == IF x.type = "start" THEN nr + 1 ELSE nr
KindAfter(x, kind) == CASE x.type = "start" -> x.kind [] x.type = "stop" -> "none" [] OTHER -> kind

LEMMA AlternatesStart ==
  ASSUME NEW f, NEW nr, Alternates(f, nr, TRUE), NEW x \in Blocks, x.type = "start", x.i = nr + 1
  PROVE  Alternates(Append(f, x), nr + 1, FALSE)
<1> DEFINE g == Append(f, x)
<1>1. f \in Seq(Blocks) /\ nr \in Nat /\ Len(f) = 2 * nr BY DEF Alternates
<1>2. g \in Seq(Blocks) /\ Len(g) = 2 * nr + 1 /\ g[2 * nr + 1] = x /\ \A k \in 1 .. 2 * nr : g[k] = f[k]
  BY <1>1, AppendProperties
<1> HIDE DEF g
<1>3. \A k \in 1 .. nr + 1 : k \in 1 .. nr \/ k = nr + 1 BY <1>1
<1>4. \A k \in 1 .. nr : 2 * k - 1 \in 1 .. 2 * nr /\ 2 * k \in 1 .. 2 * nr BY <1>1
<1>5. 2 * (nr + 1) - 1 = 2 * nr + 1 /\ ~ (2 * (nr + 1) <= 2 * nr + 1) BY <1>1
<1>6. \A k \in 1 .. nr + 1 : g[2 * k - 1].type = "start" /\ g[2 * k - 1].i = k
  BY <1>2, <1>3, <1>4, <1>5 DEF Alternates
<1>7. \A k \in 1 .. nr + 1 : 2 * k <= Len(g) => g[2 * k].type = "stop" /\ g[2 * k].i = k
  <2>1. \A k \in 1 .. nr : 2 * k <= Len(f) BY <1>1
  <2> QED BY <1>2, <1>3, <1>4, <1>5, <2>1 DEF Alternates
<1>8. Alternates(g, nr + 1, FALSE) BY <1>1, <1>2, <1>5, <1>6, <1>7 DEF Alternates
<1> QED BY <1>8 DEF g

LEMMA AlternatesStop ==
  ASSUME NEW f, NEW nr, Alternates(f, nr, FALSE), NEW x \in Blocks, x.type = "stop", x.i = nr
  PROVE  Alternates(Append(f, x), nr, TRUE)
<1> DEFINE g == Append(f, x)
<1>1. f \in Seq(Blocks) /\ nr \in Nat /\ Len(f) = 2 * nr - 1 /\ Len(f) \in Nat BY DEF Alternates
<1>2. g \in Seq(Blocks) /\ Len(g) = 2 * nr /\ g[2 * nr] = x /\ \A k \in 1 .. Len(f) : g[k] = f[k]
  BY <1>1, AppendProperties
<1> HIDE DEF g
<1>3. \A k \in 1 .. nr : 2 * k - 1 \in 1 .. Len(f) BY <1>1
<1>4. \A k \in 1 .. nr : k = nr \/ (2 * k \in 1 .. Len(f) /\ 2 * k <= Len(f)) BY <1>1
<1>5. \A k \in 1 .. nr : g[2 * k - 1].type = "start" /\ g[2 * k - 1].i = k BY <1>2, <1>3 DEF Alternates
<1>6. ASSUME NEW k \in 1 .. nr PROVE g[2 * k].type = "stop" /\ g[2 * k].i = k
  <2>1. CASE k = nr BY <1>2, <2>1
  <2>2. CASE 2 * k \in 1 .. Len(f) /\ 2 * k <= Len(f)
    <3>1. f[2 * k].type = "stop" /\ f[2 * k].i = k BY <2>2 DEF Alternates
    <3>2. g[2 * k] = f[2 * k] BY <1>2, <2>2
    <3> QED BY <3>1, <3>2
  <2> QED BY <1>4, <2>1, <2>2
<1>7. Alternates(g, nr, TRUE) BY <1>1, <1>2, <1>5, <1>6 DEF Alternates
<1> QED BY <1>7 DEF g

LEMMA ToldFirst == ASSUME NEW tidy PROVE Told(<<Opening>>, 0, "none", tidy)
<1> DEFINE s == <<Opening>>
<1>1. s \in Seq(Blocks) /\ s # <<>> /\ Len(s) = 1 /\ DOMAIN s = {1} /\ s[1] = Opening
  BY DEF Opening, Block, Piece, Blocks
<1>2. Opening.type = "message_start" /\ Opening \notin FrameBlocks /\ Opening \notin EndBlocks
  BY DEF Opening, Block, Piece, FrameBlocks, EndBlocks
<1>3. \A K : Kept(<<Opening>>, K) = IF Opening \in K THEN <<Opening>> ELSE <<>> BY KeptOne
<1>4. Kept(s, FrameBlocks) = <<>> /\ Kept(s, EndBlocks) = <<>> BY <1>2, <1>3
<1> HIDE DEF s
<1>5. Alternates(<<>>, 0, TRUE) BY DEF Alternates
<1>6. InPlace(s) BY <1>1, <1>2 DEF InPlace
<1>7. Told(s, 0, "none", tidy) BY <1>1, <1>2, <1>4, <1>5, <1>6 DEF Told
<1> QED BY <1>7 DEF s

LEMMA ToldLess ==
  ASSUME NEW s, NEW nr, NEW kind, NEW tidy, NEW less, Told(s, nr, kind, tidy), less => tidy
  PROVE  Told(s, nr, kind, less)
BY DEF Told

LEMMA ToldNext ==
  ASSUME NEW s, NEW nr, NEW kind, NEW tidy, Told(s, nr, kind, tidy),
         NEW x, Follows(x, s, nr, kind, tidy)
  PROVE  Told(Append(s, x), NrAfter(x, nr), KindAfter(x, kind), tidy)
<1> DEFINE t == Append(s, x)
           n == Len(s)
           a == Kept(s, FrameBlocks)
           b == Kept(t, FrameBlocks)
<1>1. s \in Seq(Blocks) /\ x \in Blocks /\ nr \in Nat BY DEF Told, Follows
<1>2. n \in Nat \ {0} /\ DOMAIN s = 1 .. n /\ DOMAIN t = 1 .. n + 1 /\ Len(t) = n + 1 BY DEF Told
<1>3. (\A k \in 1 .. n : t[k] = s[k]) /\ t[n + 1] = x BY <1>1
<1>4. t \in Seq(Blocks) /\ t # <<>> BY <1>1, AppendProperties
<1>5. Alternates(a, nr, kind = "none") BY DEF Told
<1>6. b = IF x \in FrameBlocks THEN Append(a, x) ELSE a BY <1>1, KeptAppend
<1>7. Kept(t, EndBlocks) = <<>>
  <2>1. x \notin EndBlocks BY DEF Follows, EndBlocks
  <2> QED BY <1>1, <2>1, KeptAppend DEF Told
<1> HIDE DEF t, n, a, b
<1>8. Alternates(b, NrAfter(x, nr), KindAfter(x, kind) = "none")
  <2>1. CASE x.type = "start"
    <3>1. b = Append(a, x) /\ x.i = nr + 1 /\ kind = "none" /\ x.kind # "none"
      BY <1>1, <1>6, <2>1 DEF FrameBlocks, Follows
    <3>2. Alternates(a, nr, TRUE) BY <1>5, <3>1
    <3>3. Alternates(b, nr + 1, FALSE) BY <1>1, <2>1, <3>1, <3>2, AlternatesStart
    <3> QED BY <2>1, <3>1, <3>3 DEF NrAfter, KindAfter
  <2>2. CASE x.type = "stop"
    <3>1. b = Append(a, x) /\ x.i = nr /\ kind # "none" BY <1>1, <1>6, <2>2 DEF FrameBlocks, Follows
    <3>2. Alternates(a, nr, FALSE) BY <1>5, <3>1
    <3>3. Alternates(b, nr, TRUE) BY <1>1, <2>2, <3>1, <3>2, AlternatesStop
    <3> QED BY <2>2, <3>3 DEF NrAfter, KindAfter
  <2>3. CASE x.type \in {"delta", "signature"}
    <3>1. b = a BY <1>6, <2>3 DEF FrameBlocks
    <3> QED BY <1>5, <2>3, <3>1 DEF NrAfter, KindAfter
  <2> QED BY <2>1, <2>2, <2>3 DEF Follows
<1>9. \A k \in DOMAIN t : k \in 1 .. n \/ k = n + 1 BY <1>2
<1>10. \A k \in DOMAIN t : (t[k].type = "message_start") <=> (k = 1)
  <2>1. n + 1 # 1 /\ x.type # "message_start" BY <1>2 DEF Follows
  <2> QED BY <1>2, <1>3, <1>9, <2>1 DEF Told
<1>11. (n + 1) - 1 = n /\ n \in 1 .. n /\ t[n] = s[n] BY <1>2, <1>3
<1>12. ASSUME tidy PROVE InPlace(t)
  <2>1. InPlace(s) BY <1>12 DEF Told
  <2>2. SUFFICES ASSUME NEW k \in DOMAIN t, t[k].type \in {"delta", "signature"}
                 PROVE  /\ t[k - 1].type \in {"start", "delta", "signature"}
                        /\ t[k - 1].i = t[k].i /\ t[k - 1].kind = t[k].kind
                        /\ t[k].kind = "tool" => t[k - 1].part = t[k].part
    BY DEF InPlace
  <2>3. CASE k \in 1 .. n
    <3>1. k # 1 BY <1>10, <2>2
    <3>2. k - 1 \in 1 .. n BY <1>2, <2>3, <3>1
    <3>3. k \in DOMAIN s /\ t[k] = s[k] /\ t[k - 1] = s[k - 1] BY <1>2, <1>3, <2>3, <3>2
    <3> QED BY <2>1, <2>2, <3>3 DEF InPlace
  <2>4. CASE k = n + 1
    <3>1. t[k] = x /\ t[k - 1] = s[n] BY <1>3, <1>11, <2>4
    <3>2. kind # "none" /\ x.i = nr /\ x.kind = kind /\ (kind = "tool" => x.part = s[n].part)
      BY <1>12, <2>2, <3>1 DEF Follows, n
    <3>3. OfOpen(s[n], nr, kind) BY <1>12, <3>2 DEF Told, n
    <3> QED BY <3>1, <3>2, <3>3 DEF OfOpen
  <2> QED BY <1>9, <2>3, <2>4
<1>13. NrAfter(x, nr) \in Nat BY <1>1 DEF NrAfter
<1>14. t[Len(t)] = x BY <1>2, <1>3
<1>15. ASSUME tidy, KindAfter(x, kind) # "none" PROVE OfOpen(x, NrAfter(x, nr), KindAfter(x, kind))
  <2>1. x.type \in {"start", "delta", "signature"} BY <1>15 DEF Follows, KindAfter
  <2> QED BY <1>15, <2>1 DEF Follows, OfOpen, NrAfter, KindAfter
<1>16. Told(t, NrAfter(x, nr), KindAfter(x, kind), tidy)
  BY <1>4, <1>7, <1>8, <1>10, <1>12, <1>13, <1>14, <1>15 DEF Told, b
<1> QED BY <1>16 DEF t

(* A block stops, another one begins, a piece is added to the open one. *)
LEMMA ToldStop ==
  ASSUME NEW s, NEW nr, NEW kind \in Kinds, NEW tidy, Told(s, nr, kind, tidy)
  PROVE  Told(Append(s, Block("stop", kind, nr)), nr, "none", tidy)
<1> DEFINE x == Block("stop", kind, nr)
<1>1. Follows(x, s, nr, kind, tidy) /\ x.type = "stop"
  BY DEF Told, Follows, Block, Piece, Blocks, Kinds
<1> HIDE DEF x
<1>2. Told(Append(s, x), NrAfter(x, nr), KindAfter(x, kind), tidy) BY <1>1, ToldNext
<1>3. NrAfter(x, nr) = nr /\ KindAfter(x, kind) = "none" BY <1>1 DEF NrAfter, KindAfter
<1>4. Told(Append(s, x), nr, "none", tidy) BY <1>2, <1>3
<1> QED BY <1>4 DEF x

LEMMA ToldStart ==
  ASSUME NEW s, NEW nr, NEW tidy, Told(s, nr, "none", tidy), NEW kind \in Kinds, NEW n \in Nat
  PROVE  Told(Append(s, Piece("start", kind, nr + 1, n)), nr + 1, kind, tidy)
<1> DEFINE x == Piece("start", kind, nr + 1, n)
<1>1. Follows(x, s, nr, "none", tidy) /\ x.type = "start" /\ x.kind = kind
  BY DEF Told, Follows, Piece, Blocks, Kinds
<1> HIDE DEF x
<1>2. Told(Append(s, x), NrAfter(x, nr), KindAfter(x, "none"), tidy) BY <1>1, ToldNext
<1>3. NrAfter(x, nr) = nr + 1 /\ KindAfter(x, "none") = kind BY <1>1 DEF NrAfter, KindAfter
<1>4. Told(Append(s, x), nr + 1, kind, tidy) BY <1>2, <1>3
<1> QED BY <1>4 DEF x

LEMMA ToldMore ==
  ASSUME NEW s, NEW nr, NEW kind \in Kinds, NEW tidy, Told(s, nr, kind, tidy),
         NEW type \in {"delta", "signature"}, NEW n \in Nat,
         tidy /\ kind = "tool" => n = s[Len(s)].part
  PROVE  Told(Append(s, Piece(type, kind, nr, n)), nr, kind, tidy)
<1> DEFINE x == Piece(type, kind, nr, n)
<1>1. Follows(x, s, nr, kind, tidy) /\ x.type \in {"delta", "signature"}
  BY DEF Told, Follows, Piece, Blocks, Kinds
<1> HIDE DEF x
<1>2. Told(Append(s, x), NrAfter(x, nr), KindAfter(x, kind), tidy) BY <1>1, ToldNext
<1>3. NrAfter(x, nr) = nr /\ KindAfter(x, kind) = kind BY <1>1 DEF NrAfter, KindAfter
<1>4. Told(Append(s, x), nr, kind, tidy) BY <1>2, <1>3
<1> QED BY <1>4 DEF x

(* A piece of a call whose block is not the open one leaves the frame alone. *)
LEMMA ToldStray ==
  ASSUME NEW s, NEW nr, NEW kind, Told(s, nr, kind, FALSE), NEW n \in Nat
  PROVE  Told(Append(s, Piece("delta", "tool", nr, n)), nr, kind, FALSE)
<1> DEFINE x == Piece("delta", "tool", nr, n)
<1>1. Follows(x, s, nr, kind, FALSE) /\ x.type = "delta"
  BY DEF Told, Follows, Piece, Blocks, Kinds
<1> HIDE DEF x
<1>2. Told(Append(s, x), NrAfter(x, nr), KindAfter(x, kind), FALSE) BY <1>1, ToldNext
<1>3. NrAfter(x, nr) = nr /\ KindAfter(x, kind) = kind BY <1>1 DEF NrAfter, KindAfter
<1>4. Told(Append(s, x), nr, kind, FALSE) BY <1>2, <1>3
<1> QED BY <1>4 DEF x

(* What the encoder sends comes after the opening of the message. *)
Base == IF events = <<>> THEN <<Opening>> ELSE events

EncoderTells ==
  \/ events = <<>> /\ place = 0 /\ open = "none" /\ ~stopped
  \/ ~stopped /\ Told(events, place, open, ~crossed)
  \/ stopped /\ \E s : Told(s, place, "none", ~crossed) /\ events = s \o LastWords

LEMMA BaseIsTold ==
  ASSUME EncoderTells, ~stopped, NEW tidy, tidy => ~crossed
  PROVE  Told(Base, place, open, tidy)
<1>1. CASE events = <<>>
  <2>1. place = 0 /\ open = "none"
    <3>1. \A v : ~ Told(<<>>, place, open, v) BY DEF Told
    <3> QED BY <1>1, <3>1 DEF EncoderTells
  <2> QED BY <1>1, <2>1, ToldFirst DEF Base
<1>2. CASE events # <<>>
  <2>1. Told(events, place, open, ~crossed) BY <1>2 DEF EncoderTells
  <2> QED BY <1>2, <2>1, ToldLess DEF Base
<1> QED BY <1>1, <1>2

LEMMA SendFromBase ==
  ASSUME EncoderTells, ~stopped, NEW sent \in Seq(Blocks), Send(sent)
  PROVE  Base \in Seq(Blocks) /\ place \in Nat /\ events' = Base \o sent
<1>1. Told(Base, place, open, FALSE) BY BaseIsTold
<1>2. Base \in Seq(Blocks) /\ Base # <<>> /\ place \in Nat BY <1>1 DEF Told
<1>3. CASE events = <<>>
  <2>1. Opening \in Blocks BY DEF Opening, Block, Piece, Blocks
  <2>2. <<>> \o (<<Opening>> \o sent) = <<Opening>> \o sent /\ <<Opening>> \in Seq(Blocks) BY <2>1
  <2> QED BY <1>2, <1>3, <2>2 DEF Base, Send, Started, Opening
<1>4. CASE events # <<>> BY <1>2, <1>4 DEF Base, Send, Started
<1> QED BY <1>2, <1>3, <1>4

LEMMA TwoMore ==
  ASSUME NEW S, NEW s \in Seq(S), NEW v \in Seq(S), NEW a \in S, NEW b \in S
  PROVE  s \o (v \o <<a, b>>) = Append(Append(s \o v, a), b)
<1> DEFINE w == s \o v
           l == <<a>>
           r == <<b>>
           lr == <<a, b>>
<1>1. w \in Seq(S) /\ l \in Seq(S) /\ r \in Seq(S) /\ lr \in Seq(S) BY ConcatProperties
<1>2. lr = l \o r
  <2>1. lr = Append(l, b) OBVIOUS
  <2>2. Append(l, b) = l \o r
    <3> HIDE DEF l
    <3> QED BY <1>1, AppendIsConcat
  <2> QED BY <2>1, <2>2
<1>3. Append(w, a) = w \o l BY <1>1, AppendIsConcat
<1>4. Append(w, a) \in Seq(S) /\ Append(Append(w, a), b) = Append(w, a) \o r
  BY <1>1, AppendIsConcat, AppendProperties
<1>5. s \o (v \o lr) = w \o lr
  <2>1. lr \in Seq(S) BY <1>1
  <2> HIDE DEF w, l, r, lr
  <2>2. (s \o v) \o lr = s \o (v \o lr) BY <2>1, ConcatAssociative
  <2> QED BY <2>2 DEF w
<1> HIDE DEF w, l, r, lr
<1>6. (w \o l) \o r = w \o (l \o r) BY <1>1, ConcatAssociative
<1>7. s \o (v \o lr) = Append(Append(w, a), b) BY <1>2, <1>3, <1>4, <1>5, <1>6
<1> QED BY <1>7 DEF w, lr

LEMMA JustTwo ==
  ASSUME NEW S, NEW s \in Seq(S), NEW a \in S, NEW b \in S
  PROVE  s \o <<a, b>> = Append(Append(s, a), b)
<1> DEFINE e == <<>>
<1>1. e \in Seq(S) OBVIOUS
<1>2. s \o e = s /\ e \o <<a, b>> = <<a, b>> BY ConcatEmptySeq
<1> HIDE DEF e
<1>3. s \o (e \o <<a, b>>) = Append(Append(s \o e, a), b) BY <1>1, TwoMore
<1> QED BY <1>2, <1>3

(* The open block is closed, if there is one. *)
LEMMA ClosesBlock ==
  ASSUME NEW tidy, Told(Base, place, open, tidy), open \in Kinds \cup {"none"}
  PROVE  Closing \in Seq(Blocks) /\ Told(Base \o Closing, place, "none", tidy)
<1>1. Base \in Seq(Blocks) /\ place \in Nat BY DEF Told
<1>2. CASE open = "none"
  <2>1. Base \o <<>> = Base BY <1>1, ConcatEmptySeq
  <2>2. Closing = <<>> BY <1>2 DEF Closing
  <2> QED BY <1>2, <2>1, <2>2
<1>3. CASE open \in Kinds
  <2> DEFINE x == Block("stop", open, place)
  <2>1. x \in Blocks BY <1>1, <1>3 DEF Block, Piece, Blocks
  <2>2. Closing = <<x>> BY <1>3 DEF Closing, Kinds
  <2>3. Told(Append(Base, x), place, "none", tidy) BY <1>3, ToldStop
  <2> HIDE DEF x
  <2>4. Base \o <<x>> = Append(Base, x) BY <1>1, <2>1, AppendIsConcat
  <2>5. <<x>> \in Seq(Blocks) BY <2>1
  <2>6. Closing = <<x>> BY <2>2
  <2> QED BY <2>3, <2>4, <2>5, <2>6
<1> QED BY <1>2, <1>3

(* The last event is a piece of part n. *)
EndsWith(s, n) == s # <<>> /\ s[Len(s)].part = n

LEMMA AppendEnds ==
  ASSUME NEW s \in Seq(Blocks), NEW x \in Blocks PROVE EndsWith(Append(s, x), x.part)
BY AppendProperties DEF EndsWith

(* With the block before closed, the message goes on with a new one. *)
LEMMA SendsNewBlock ==
  ASSUME EncoderTells, ~stopped, open \in Kinds \cup {"none"}, NEW tidy, tidy => ~crossed,
         NEW p \in PartPieces, Send(Closing \o NewBlock(p))
  PROVE  Told(events', place + 1, p.kind, tidy) /\ EndsWith(events', p.n)
<1> DEFINE a == Piece("start", p.kind, place + 1, p.n)
           b == Piece("delta", p.kind, place + 1, p.n)
           sent == Closing \o <<a, b>>
<1>1. Told(Base, place, open, tidy) BY BaseIsTold
<1>2. Closing \in Seq(Blocks) /\ Told(Base \o Closing, place, "none", tidy) BY <1>1, ClosesBlock
<1>3. place \in Nat /\ Base \in Seq(Blocks) BY <1>1 DEF Told
<1>4. p.kind \in Kinds /\ p.n \in Nat BY ReplyAssumption DEF PartPieces
<1>5. a \in Blocks /\ b \in Blocks /\ a.part = p.n /\ b.part = p.n BY <1>3, <1>4 DEF Piece, Blocks
<1>6. sent \in Seq(Blocks) BY <1>2, <1>5
<1>7. Send(sent) BY DEF NewBlock
<1> DEFINE w == Base \o Closing
           u == Append(w, a)
<1>8. w \in Seq(Blocks) /\ Told(w, place, "none", tidy) BY <1>2 DEF Told
<1> HIDE DEF w
<1>9. Told(u, place + 1, p.kind, tidy) /\ u \in Seq(Blocks)
  <2>1. Told(u, place + 1, p.kind, tidy) BY <1>4, <1>8, ToldStart
  <2> QED BY <2>1 DEF Told
<1>10. u[Len(u)].part = p.n BY <1>5, <1>8, AppendEnds DEF EndsWith
<1> HIDE DEF u
<1>11. Told(Append(u, b), place + 1, p.kind, tidy)
  <2> DEFINE nr == place + 1
             kind == p.kind
  <2>1. b = Piece("delta", kind, nr, p.n) /\ "delta" \in {"delta", "signature"} /\ kind \in Kinds BY <1>4
  <2>2. Told(u, nr, kind, tidy) BY <1>9
  <2> HIDE DEF b, nr, kind
  <2>3. Told(Append(u, b), nr, kind, tidy) BY <1>4, <1>10, <2>1, <2>2, ToldMore
  <2> QED BY <2>3 DEF nr, kind
<1>12. EndsWith(Append(u, b), p.n) BY <1>5, <1>9, AppendEnds
<1> HIDE DEF a, b
<1>13. Base \o sent = Append(Append(Base \o Closing, a), b)
  <2>1. a \in Blocks /\ b \in Blocks /\ Closing \in Seq(Blocks) /\ Base \in Seq(Blocks) BY <1>2, <1>3, <1>5
  <2> QED BY <2>1, TwoMore
<1> HIDE DEF sent
<1>14. events' = Base \o sent BY <1>6, <1>7, SendFromBase
<1>15. events' = Append(u, b) BY <1>13, <1>14 DEF u, w
<1> QED BY <1>11, <1>12, <1>15

(* One more event for the open block. *)
LEMMA SendsMore ==
  ASSUME EncoderTells, ~stopped, open \in Kinds, NEW tidy, tidy => ~crossed,
         NEW type \in {"delta", "signature"}, NEW n \in Nat, Send(<<Piece(type, open, place, n)>>),
         tidy /\ open = "tool" => EndsWith(events, n)
  PROVE  Told(events', place, open, tidy) /\ EndsWith(events', n)
<1> DEFINE x == Piece(type, open, place, n)
<1>1. Told(events, place, open, ~crossed) BY DEF EncoderTells, Kinds
<1>2. Told(events, place, open, tidy) BY <1>1, ToldLess
<1>3. place \in Nat /\ events \in Seq(Blocks) /\ events # <<>> BY <1>2 DEF Told
<1>4. x \in Blocks /\ x.part = n BY <1>3 DEF Piece, Blocks
<1>5. Told(Append(events, x), place, open, tidy) BY <1>2, ToldMore DEF EndsWith
<1>6. events' = events \o <<x>> BY <1>3 DEF Send, Started
<1> HIDE DEF x
<1>7. events \o <<x>> = Append(events, x) BY <1>3, <1>4, AppendIsConcat
<1>8. EndsWith(Append(events, x), n) BY <1>3, <1>4, AppendEnds
<1> QED BY <1>5, <1>6, <1>7, <1>8

(* A piece that is not shown only opens the message. *)
LEMMA SendsNothing ==
  ASSUME EncoderTells, ~stopped, Send(<<>>), NEW tidy, tidy => ~crossed
  PROVE  Told(events', place, open, tidy) /\ (events # <<>> => events' = events)
<1> DEFINE e == <<>>
<1>1. e \in Seq(Blocks) /\ Send(e) OBVIOUS
<1> HIDE DEF e
<1>2. Base \in Seq(Blocks) /\ events' = Base \o e BY <1>1, SendFromBase
<1>3. Base \o <<>> = Base BY <1>2, ConcatEmptySeq
<1>4. events' = Base BY <1>2, <1>3 DEF e
<1>5. Told(Base, place, open, tidy) BY BaseIsTold
<1> QED BY <1>4, <1>5 DEF Base

(* A piece of a call that is not the open one: of the pieces nothing is said any
   more, and the frame stays. *)
LEMMA SendsStray ==
  ASSUME EncoderTells, ~stopped, open \in Kinds \cup {"none"}, NEW n \in Nat, NEW other \in BOOLEAN,
         Send((IF other THEN Closing ELSE <<>>) \o <<Piece("delta", "tool", place, n)>>)
  PROVE  Told(events', place, IF other THEN "none" ELSE open, FALSE)
<1> DEFINE x == Piece("delta", "tool", place, n)
           first == IF other THEN Closing ELSE <<>>
           kind == IF other THEN "none" ELSE open
           sent == first \o <<x>>
           w == Base \o first
<1>1. Told(Base, place, open, FALSE) BY BaseIsTold
<1>2. Base \in Seq(Blocks) /\ place \in Nat BY <1>1 DEF Told
<1>3. Closing \in Seq(Blocks) /\ Told(Base \o Closing, place, "none", FALSE) BY <1>1, ClosesBlock
<1>4. first \in Seq(Blocks) /\ Told(w, place, kind, FALSE)
  <2>1. CASE other BY <1>3, <2>1
  <2>2. CASE ~other
    <3>1. Base \o <<>> = Base BY <1>2, ConcatEmptySeq
    <3>2. first = <<>> /\ kind = open BY <2>2
    <3>3. w = Base /\ first \in Seq(Blocks)
      <4> HIDE DEF first
      <4>1. <<>> \in Seq(Blocks) OBVIOUS
      <4> QED BY <3>1, <3>2, <4>1
    <3> HIDE DEF w, first, kind
    <3> QED BY <1>1, <3>2, <3>3
  <2> QED BY <2>1, <2>2
<1>5. x \in Blocks BY <1>2 DEF Piece, Blocks, Kinds
<1> HIDE DEF w, kind
<1>6. Told(Append(w, x), place, kind, FALSE) BY <1>4, ToldStray
<1> HIDE DEF x, first
<1>7. <<x>> \in Seq(Blocks) BY <1>5
<1>8. sent \in Seq(Blocks) BY <1>4, <1>7, ConcatProperties
<1>9. w \in Seq(Blocks) BY <1>4 DEF Told
<1>10. Base \o sent = Append(w, x)
  <2> DEFINE l == <<x>>
  <2>1. l \in Seq(Blocks) BY <1>7
  <2>2. w \o l = Append(w, x) BY <1>5, <1>9, AppendIsConcat
  <2> HIDE DEF l
  <2>3. Base \o (first \o l) = (Base \o first) \o l BY <1>2, <1>4, <2>1, ConcatAssociative
  <2> QED BY <2>2, <2>3 DEF l, w
<1>11. Send(sent) BY DEF first, x
<1> HIDE DEF sent
<1>12. events' = Base \o sent BY <1>8, <1>11, SendFromBase
<1> QED BY <1>6, <1>10, <1>12 DEF kind

(* The end closes the block and the message. *)
LEMMA SendsEnd ==
  ASSUME EncoderTells, ~stopped, open \in Kinds \cup {"none"}, Send(Closing \o LastWords)
  PROVE  \E s : Told(s, place, "none", ~crossed) /\ events' = s \o LastWords
<1> DEFINE sent == Closing \o LastWords
           tidy == ~crossed
<1>1. Told(Base, place, open, tidy)
  <2>1. tidy => ~crossed OBVIOUS
  <2> HIDE DEF tidy
  <2> QED BY <2>1, BaseIsTold
<1>2. Closing \in Seq(Blocks) /\ Told(Base \o Closing, place, "none", tidy)
  <2> HIDE DEF tidy
  <2> QED BY <1>1, ClosesBlock
<1>3. LastWords \in Seq(Blocks) /\ Base \in Seq(Blocks) BY <1>1 DEF LastWords, Block, Piece, Blocks, Told
<1>4. sent \in Seq(Blocks) BY <1>2, <1>3, ConcatProperties
<1>5. Base \o (Closing \o LastWords) = (Base \o Closing) \o LastWords BY <1>2, <1>3, ConcatAssociative
<1>6. Send(sent) OBVIOUS
<1> HIDE DEF sent
<1>7. events' = Base \o sent BY <1>4, <1>6, SendFromBase
<1> QED BY <1>2, <1>5, <1>7 DEF sent

(* The parts the provider has begun, and the ids the encoder has seen: those of
   parts, or made up, and a made-up one never comes again. *)
PartsBegun ==
  /\ parts \in Seq([kind : Kinds, pieces : Nat]) /\ Len(parts) <= MaxParts
  /\ last \in 0 .. Len(parts)
  /\ \A k \in DOMAIN parts : parts[k].pieces >= 1

CallsKnown ==
  /\ style \in Styles /\ IsFiniteSet(calls) /\ calls \subseteq Nat
  /\ \A c \in calls : c <= Len(parts) \/ (c > MaxParts /\ c <= MaxParts + Cardinality(calls))

(* A call whose every piece bears its id is in the open block until a piece of
   another part is shown. *)
AtHand ==
  (~stopped /\ ~crossed /\ style = "id_always" /\ last # 0 /\ parts[last].kind = "tool") =>
    open = "tool" /\ openCall = last /\ EndsWith(events, last)

EncoderInv ==
  /\ EncoderTells /\ PartsBegun /\ CallsKnown /\ AtHand
  /\ open \in Kinds \cup {"none"} /\ (~stopped <=> speaking = "open")

(* A part begins or goes on. *)
LEMMA PartsGrow ==
  ASSUME PartsBegun, NEW p \in PartPieces, NextPiece(p), parts' = With(p), last' \in {last, p.n}
  PROVE  /\ PartsBegun' /\ Len(parts) <= Len(parts') /\ p.n \in DOMAIN parts'
         /\ parts'[p.n].kind = p.kind
         /\ \A k \in DOMAIN parts : k \in DOMAIN parts' /\ parts'[k].kind = parts[k].kind
<1> DEFINE S == [kind : Kinds, pieces : Nat]
<1>1. /\ p.kind \in Kinds /\ p.n \in Nat /\ p.n >= 1 /\ p.n <= MaxParts /\ p.pieces \in Nat /\ p.pieces >= 1
      /\ MaxParts \in Nat
  BY ReplyAssumption DEF PartPieces
<1>2. parts \in Seq(S) /\ Len(parts) \in Nat /\ DOMAIN parts = 1 .. Len(parts) BY DEF PartsBegun
<1>3. CASE Begins(p)
  <2> DEFINE x == [kind |-> p.kind, pieces |-> 1]
  <2>1. p.n = Len(parts) + 1 /\ p.n \notin DOMAIN parts BY <1>2, <1>3 DEF Begins
  <2>2. parts' = Append(parts, x) /\ x \in S /\ x.kind = p.kind /\ x.pieces = 1 BY <1>1, <2>1 DEF With
  <2> HIDE DEF x, S
  <2>3. /\ parts' \in Seq(S) /\ Len(parts') = Len(parts) + 1 /\ parts'[Len(parts) + 1] = x
        /\ \A k \in 1 .. Len(parts) : parts'[k] = parts[k]
    BY <1>2, <2>2, AppendProperties
  <2>4. DOMAIN parts' = 1 .. Len(parts) + 1 BY <2>3
  <2>5. \A k \in DOMAIN parts' : parts'[k].pieces >= 1
    <3>1. \A k \in DOMAIN parts' : k \in DOMAIN parts \/ k = Len(parts) + 1 BY <1>2, <2>4
    <3> QED BY <1>2, <2>2, <2>3, <3>1 DEF PartsBegun
  <2>6. last' \in 0 .. Len(parts') BY <1>1, <1>2, <2>1, <2>3 DEF PartsBegun
  <2>7. PartsBegun' BY <1>1, <2>1, <2>3, <2>5, <2>6 DEF PartsBegun, S
  <2> QED BY <1>2, <2>1, <2>2, <2>3, <2>4, <2>7
<1>4. CASE GoesOn(p)
  <2>1. p.n \in DOMAIN parts /\ p.kind = parts[p.n].kind BY <1>4 DEF GoesOn
  <2>2. parts' = [parts EXCEPT ![p.n].pieces = p.pieces] BY <2>1 DEF With
  <2>3. /\ parts' \in Seq(S) /\ Len(parts') = Len(parts) /\ DOMAIN parts' = DOMAIN parts
        /\ \A k \in DOMAIN parts : parts'[k].kind = parts[k].kind
    <3>1. \A k \in DOMAIN parts : parts[k] \in S
      <4> HIDE DEF S
      <4> QED BY <1>2
    <3>2. [parts[p.n] EXCEPT !.pieces = p.pieces] \in S BY <1>1, <2>1, <3>1
    <3>3. DOMAIN parts' = DOMAIN parts BY <2>2
    <3>4. \A k \in DOMAIN parts : parts'[k].kind = parts[k].kind /\ parts'[k] \in S
      BY <2>1, <2>2, <3>1, <3>2
    <3>5. parts' \in [1 .. Len(parts) -> S] BY <1>2, <2>2, <3>3, <3>4
    <3> HIDE DEF S
    <3>6. parts' \in Seq(S) /\ Len(parts') = Len(parts) BY <1>2, <3>5, SeqDef
    <3> QED BY <3>3, <3>4, <3>6
  <2>4. \A k \in DOMAIN parts : parts'[k].pieces = p.pieces \/ parts'[k].pieces = parts[k].pieces
    BY <1>2, <2>1, <2>2
  <2>5. \A k \in DOMAIN parts' : parts'[k].pieces >= 1 BY <1>1, <2>3, <2>4 DEF PartsBegun
  <2>6. last' \in 0 .. Len(parts') BY <1>1, <1>2, <2>1, <2>3 DEF PartsBegun
  <2>7. PartsBegun' BY <2>3, <2>5, <2>6 DEF PartsBegun
  <2> QED BY <1>2, <2>1, <2>3, <2>7
<1> QED BY <1>3, <1>4 DEF NextPiece

(* A piece of a call that has been seen crosses another part, or belongs to the
   open block, which ends with a piece of the same call. *)
LEMMA SeenIsOpen ==
  ASSUME PartsBegun, CallsKnown, AtHand, ~stopped, NEW p \in PartPieces, NextPiece(p), p.kind = "tool"
  PROVE  /\ CallId(p) \in calls /\ ~crossed /\ ~Crosses(p) =>
              open = "tool" /\ openCall = CallId(p) /\ EndsWith(events, p.n)
         /\ CallId(p) \in Nat /\ (style = "id_always" => CallId(p) = p.n)
         /\ CallId(p) = p.n \/ CallId(p) = MaxParts + Cardinality(calls) + 1
<1>1. Cardinality(calls) \in Nat BY FS_CardinalityType DEF CallsKnown
<1>2. /\ p.n \in Nat /\ p.n >= 1 /\ p.n <= MaxParts /\ p.pieces \in Nat /\ MaxParts \in Nat
      /\ Len(parts) \in Nat /\ DOMAIN parts = 1 .. Len(parts)
  BY ReplyAssumption DEF PartPieces, PartsBegun
<1>3. \A c \in calls : c <= Len(parts) \/ (c > MaxParts /\ c <= MaxParts + Cardinality(calls))
  BY DEF CallsKnown
<1>4. CASE style = "id_once" /\ p.pieces > 1
  <2>1. CallId(p) = MaxParts + Cardinality(calls) + 1 BY <1>4 DEF CallId, IdOf, NoId, Fresh
  <2>2. CallId(p) \notin calls
    <3>1. Len(parts) <= MaxParts BY DEF PartsBegun
    <3> QED BY <1>1, <1>2, <1>3, <2>1, <3>1
  <2> QED BY <1>1, <1>2, <1>4, <2>1, <2>2
<1>5. CASE ~(style = "id_once" /\ p.pieces > 1)
  <2>1. CallId(p) = p.n /\ IdOf(p) = p.n /\ IdOf(p) # NoId BY <1>2, <1>5 DEF CallId, IdOf, NoId
  <2>2. CASE Begins(p)
    <3>1. p.n \notin calls BY <1>2, <1>3, <2>2 DEF Begins
    <3> QED BY <1>2, <2>1, <3>1
  <2>3. CASE GoesOn(p)
    <3>1. p.n \in DOMAIN parts /\ parts[p.n].kind = "tool" /\ p.pieces = parts[p.n].pieces + 1
      BY <2>3 DEF GoesOn
    <3>2. parts[p.n].pieces \in Nat /\ parts[p.n].pieces >= 1
      <4> DEFINE S == [kind : Kinds, pieces : Nat]
      <4>1. parts \in Seq(S) BY DEF PartsBegun
      <4>2. \A k \in DOMAIN parts : parts[k] \in S
        <5> HIDE DEF S
        <5> QED BY <4>1
      <4> QED BY <3>1, <4>2 DEF PartsBegun
    <3>3. p.pieces > 1 BY <3>1, <3>2
    <3>4. style = "id_always" BY <1>5, <3>3 DEF CallsKnown, Styles, NextPiece
    <3>5. ~Crosses(p) => p.n = last BY <2>1, <3>3 DEF Crosses
    <3>6. ~crossed /\ ~Crosses(p) => open = "tool" /\ openCall = p.n /\ EndsWith(events, p.n)
      BY <1>2, <3>1, <3>4, <3>5 DEF AtHand
    <3> QED BY <1>2, <2>1, <3>6
  <2> QED BY <2>2, <2>3 DEF NextPiece
<1> QED BY <1>4, <1>5

LEMMA EncodeStep ==
  ASSUME EncoderInv, NEW p \in PartPieces, Encode(p) PROVE EncoderInv'
<1> DEFINE tidy == ~crossed'
<1>1. /\ speaking = "open" /\ ~stopped /\ ~stopped' /\ speaking' = speaking /\ style' = style
      /\ parts' = With(p) /\ NextPiece(p) /\ last' \in {last, p.n}
      /\ (tidy => ~crossed /\ ~Crosses(p))
  <2>1. speaking = "open" BY DEF Encode, NextPiece
  <2>2. ~stopped BY <2>1 DEF EncoderInv
  <2>3. UNCHANGED stopped BY DEF Encode, EncodeProse, EncodeHidden, EncodeTool, encoderVars
  <2>4. last' \in {last, p.n} BY DEF Encode, EncodeProse, EncodeHidden, EncodeTool
  <2>5. crossed' = (crossed \/ Crosses(p)) BY DEF Encode
  <2>6. tidy => ~crossed /\ ~Crosses(p) BY <2>5, Zenon
  <2>7. UNCHANGED <<speaking, style>> /\ parts' = With(p) /\ NextPiece(p) BY DEF Encode
  <2> QED BY <2>1, <2>2, <2>3, <2>4, <2>6, <2>7
<1> HIDE DEF tidy
<1>2. EncoderTells /\ PartsBegun /\ CallsKnown /\ AtHand /\ open \in Kinds \cup {"none"} BY DEF EncoderInv
<1>3. /\ PartsBegun' /\ Len(parts) <= Len(parts') /\ p.n \in DOMAIN parts' /\ parts'[p.n].kind = p.kind
      /\ \A k \in DOMAIN parts : k \in DOMAIN parts' /\ parts'[k].kind = parts[k].kind
  BY <1>1, <1>2, PartsGrow
<1>4. p.n \in Nat /\ Len(parts) \in Nat /\ Len(parts') \in Nat BY <1>2, <1>3, ReplyAssumption DEF PartPieces, PartsBegun
<1>5. SUFFICES Told(events', place', open', tidy) /\ CallsKnown' /\ AtHand' /\ open' \in Kinds \cup {"none"}
  BY <1>1, <1>3 DEF EncoderInv, EncoderTells, tidy
<1>6. UNCHANGED calls => CallsKnown'
  <2>1. ASSUME UNCHANGED calls, NEW c \in calls
        PROVE  c <= Len(parts') \/ (c > MaxParts /\ c <= MaxParts + Cardinality(calls))
    <3>1. c \in Nat /\ (c <= Len(parts) \/ (c > MaxParts /\ c <= MaxParts + Cardinality(calls)))
      BY <1>2 DEF CallsKnown
    <3> QED BY <1>3, <1>4, <3>1
  <2> QED BY <1>1, <1>2, <2>1 DEF CallsKnown
<1>7. CASE EncodeProse(p)
  <2>1. p.kind \in Kinds /\ p.kind # "tool" /\ UNCHANGED calls /\ last' = p.n
    BY <1>7 DEF EncodeProse, Kinds
  <2>2. AtHand' BY <1>3, <2>1 DEF AtHand
  <2>3. CASE open = p.kind
    <3>1. Send(<<Piece("delta", open, place, p.n)>>) /\ UNCHANGED <<place, open>>
      BY <1>7, <2>3 DEF EncodeProse
    <3>2. Told(events', place, open, tidy) BY <1>1, <1>2, <1>4, <2>1, <2>3, <3>1, SendsMore
    <3> QED BY <1>2, <1>6, <2>1, <2>2, <3>1, <3>2
  <2>4. CASE open # p.kind
    <3>1. Send(Closing \o NewBlock(p)) /\ place' = place + 1 /\ open' = p.kind
      BY <1>7, <2>4 DEF EncodeProse
    <3>2. Told(events', place + 1, p.kind, tidy) BY <1>1, <1>2, <3>1, SendsNewBlock
    <3> QED BY <1>6, <2>1, <2>2, <3>1, <3>2
  <2> QED BY <2>3, <2>4
<1>8. CASE EncodeHidden(p)
  <2>1. /\ Send(<<>>) /\ UNCHANGED <<last, place, open, openCall, calls>> /\ p.kind # "tool"
    BY <1>8 DEF EncodeHidden, encoderVars
  <2>2. Told(events', place, open, tidy) /\ (events # <<>> => events' = events)
    BY <1>1, <1>2, <2>1, SendsNothing
  <2>3. AtHand'
    <3>1. SUFFICES ASSUME ~crossed', style = "id_always", last # 0, parts'[last].kind = "tool"
                   PROVE  open = "tool" /\ openCall = last /\ EndsWith(events', last)
      BY <1>1, <2>1 DEF AtHand
    <3>2. last \in DOMAIN parts BY <1>2, <3>1 DEF PartsBegun
    <3>3. parts[last].kind = "tool" /\ ~crossed BY <1>1, <1>3, <3>1, <3>2 DEF tidy
    <3>4. open = "tool" /\ openCall = last /\ EndsWith(events, last) BY <1>1, <1>2, <3>1, <3>3 DEF AtHand
    <3> QED BY <2>2, <3>4 DEF EndsWith
  <2> QED BY <1>2, <1>6, <2>1, <2>2, <2>3
<1>9. CASE EncodeTool(p)
  <2> DEFINE id == CallId(p)
             other == open = "tool" /\ openCall # id
  <2>1. p.kind = "tool" /\ last' = p.n BY <1>9 DEF EncodeTool
  <2>2. /\ id \in calls /\ ~crossed /\ ~Crosses(p) =>
              open = "tool" /\ openCall = id /\ EndsWith(events, p.n)
        /\ id \in Nat /\ (style = "id_always" => id = p.n)
        /\ id = p.n \/ id = MaxParts + Cardinality(calls) + 1
    BY <1>1, <1>2, <2>1, SeenIsOpen
  <2>3. CASE id \in calls /\ tidy
    <3>1. open = "tool" /\ openCall = id /\ EndsWith(events, p.n) BY <1>1, <2>2, <2>3
    <3>2. /\ Send(<<>> \o <<Piece("delta", open, place, p.n)>>) /\ open' = open /\ openCall' = openCall
          /\ UNCHANGED <<place, calls>>
      BY <1>9, <2>3, <3>1 DEF EncodeTool
    <3>3. <<>> \o <<Piece("delta", open, place, p.n)>> = <<Piece("delta", open, place, p.n)>> OBVIOUS
    <3>4. open \in Kinds BY <3>1 DEF Kinds
    <3>5. Told(events', place, open, tidy) /\ EndsWith(events', p.n)
      BY <1>1, <1>2, <1>4, <3>1, <3>2, <3>3, <3>4, SendsMore
    <3>6. AtHand' BY <1>1, <2>1, <2>2, <3>1, <3>2, <3>5 DEF AtHand
    <3> QED BY <1>2, <1>6, <3>2, <3>5, <3>6
  <2>4. CASE id \in calls /\ ~tidy
    <3>1. /\ Send((IF other THEN Closing ELSE <<>>) \o <<Piece("delta", "tool", place, p.n)>>)
          /\ open' = (IF other THEN "none" ELSE open) /\ UNCHANGED <<place, calls>> /\ other \in BOOLEAN
      BY <1>9, <2>4 DEF EncodeTool
    <3> HIDE DEF other
    <3>2. Told(events', place, IF other THEN "none" ELSE open, FALSE)
      BY <1>1, <1>2, <1>4, <3>1, SendsStray
    <3>3. Told(events', place', open', tidy)
      <4>1. Told(events', place', open', FALSE) BY <3>1, <3>2
      <4>2. tidy => FALSE BY <2>4
      <4> QED BY <4>1, <4>2, ToldLess
    <3>4. AtHand' BY <2>4 DEF AtHand, tidy
    <3> QED BY <1>2, <1>6, <3>1, <3>3, <3>4
  <2>5. CASE id \notin calls
    <3>1. /\ Send(Closing \o NewBlock(p)) /\ place' = place + 1 /\ open' = "tool"
          /\ openCall' = id /\ calls' = calls \cup {id}
      BY <1>9, <2>5 DEF EncodeTool
    <3>2. Told(events', place + 1, "tool", tidy) /\ EndsWith(events', p.n)
      BY <1>1, <1>2, <2>1, <3>1, SendsNewBlock
    <3>3. IsFiniteSet(calls') /\ calls' \subseteq Nat /\ Cardinality(calls') = Cardinality(calls) + 1
      BY <1>2, <2>2, <2>5, <3>1, FS_AddElement DEF CallsKnown
    <3>4. Cardinality(calls) \in Nat /\ MaxParts \in Nat /\ p.n <= Len(parts')
      BY <1>2, <1>3, <1>4, ReplyAssumption, FS_CardinalityType DEF CallsKnown, PartsBegun
    <3>5. \A c \in calls' : c <= Len(parts') \/ (c > MaxParts /\ c <= MaxParts + Cardinality(calls'))
      <4>1. ASSUME NEW c \in calls
            PROVE  c <= Len(parts') \/ (c > MaxParts /\ c <= MaxParts + Cardinality(calls'))
        <5>1. c \in Nat /\ (c <= Len(parts) \/ (c > MaxParts /\ c <= MaxParts + Cardinality(calls)))
          BY <1>2 DEF CallsKnown
        <5> QED BY <1>3, <1>4, <3>3, <3>4, <5>1
      <4>2. id <= Len(parts') \/ (id > MaxParts /\ id <= MaxParts + Cardinality(calls'))
        BY <2>2, <3>3, <3>4
      <4> QED BY <3>1, <4>1, <4>2
    <3>6. CallsKnown' BY <1>1, <1>2, <3>3, <3>5 DEF CallsKnown
    <3>7. AtHand' BY <1>1, <2>1, <2>2, <3>1, <3>2 DEF AtHand
    <3>8. "tool" \in Kinds BY DEF Kinds
    <3> QED BY <3>1, <3>2, <3>6, <3>7, <3>8
  <2> QED BY <2>3, <2>4, <2>5
<1> QED BY <1>7, <1>8, <1>9 DEF Encode

LEMMA SignStep ==
  ASSUME EncoderInv, EncodeSigned PROVE EncoderInv'
<1> DEFINE tidy == ~crossed
<1>1. speaking = "open" /\ ~stopped /\ parts[last].kind = "thinking" BY DEF EncoderInv, EncodeSigned, EncodeSignature
<1>2. UNCHANGED <<place, open, openCall, calls, stopped, speaking, parts, last, crossed, style>>
  BY DEF EncodeSigned, EncodeSignature, replyVars
<1>3. EncoderTells /\ PartsBegun /\ CallsKnown /\ open \in Kinds \cup {"none"} /\ (tidy => ~crossed)
  BY DEF EncoderInv
<1> HIDE DEF tidy
<1>4. Told(events', place, open, tidy)
  <2>1. CASE open = "thinking" /\ ~signed
    <3>1. Send(<<Piece("signature", open, place, 0)>>) /\ open \in Kinds /\ open # "tool" /\ 0 \in Nat
      BY <2>1 DEF EncodeSigned, EncodeSignature, Block, Kinds
    <3> QED BY <1>1, <1>3, <3>1, SendsMore
  <2>2. CASE ~(open = "thinking" /\ ~signed)
    <3>1. Send(<<>>) BY <2>2 DEF EncodeSigned, EncodeSignature
    <3> QED BY <1>1, <1>3, <3>1, SendsNothing
  <2> QED BY <2>1, <2>2
<1>5. CallsKnown' /\ PartsBegun' /\ AtHand' BY <1>1, <1>2, <1>3 DEF CallsKnown, PartsBegun, AtHand
<1> QED BY <1>1, <1>2, <1>3, <1>4, <1>5 DEF EncoderInv, EncoderTells, tidy

LEMMA EncodeEndStep ==
  ASSUME EncoderInv, EncodeEnd PROVE EncoderInv'
<1>1. /\ ~stopped /\ stopped' /\ speaking' # "open" /\ open' = "none"
      /\ UNCHANGED <<place, calls, parts, last, crossed, style>> /\ Send(Closing \o LastWords)
  BY DEF EncodeEnd, LastWords
<1>2. EncoderTells /\ PartsBegun /\ CallsKnown /\ open \in Kinds \cup {"none"} BY DEF EncoderInv
<1>3. \E s : Told(s, place, "none", ~crossed) /\ events' = s \o LastWords BY <1>1, <1>2, SendsEnd
<1>4. CallsKnown' /\ PartsBegun' /\ AtHand' BY <1>1, <1>2 DEF CallsKnown, PartsBegun, AtHand
<1> QED BY <1>1, <1>3, <1>4 DEF EncoderInv, EncoderTells

(* What the decoder has put together, beside the events it was fed. *)
Results == [kind : {"text", "thinking", "opaque", "tool"}, n : Nat, pieces : Nat]

FedBlocks    == {b \in Blocks : b.type = "delta" /\ b.kind # "tool"}
ClosedBlocks == {b \in Blocks : b.type = "stop" /\ b.kind = "tool"}
ProseResults == {r \in Results : r.kind \in {"text", "thinking"}}
CallResults  == {r \in Results : r.kind = "tool"}

(* The results a are of the parts the events b are of, one by one. *)
Paired(a, b) ==
  /\ a \in Seq(Results) /\ b \in Seq(Blocks) /\ Len(a) = Len(b)
  /\ \A k \in DOMAIN a : a[k].n = b[k].part /\ a[k].kind = b[k].kind

FedParts == [kind : Kinds, pieces : Nat]

(* The blocks that are open are of parts that have begun; a call that was reported
   is not open any more and has all its pieces. *)
Gathered ==
  /\ parts \in Seq(FedParts) /\ blocks = [i \in DOMAIN blocks |-> blocks[i]]
  /\ DOMAIN blocks \subseteq DOMAIN parts
  /\ \A i \in DOMAIN blocks : blocks[i] \in Nat /\ (parts[i].kind = "tool" => blocks[i] = parts[i].pieces)
  /\ \A k \in DOMAIN result : result[k].kind = "tool" =>
        /\ result[k].n \in DOMAIN parts \ DOMAIN blocks
        /\ result[k].pieces = parts[result[k].n].pieces

DecoderInv ==
  /\ events \in Seq(Blocks) /\ result \in Seq(Results) /\ Gathered
  /\ Paired(Kept(result, ProseResults), Kept(events, FedBlocks))
  /\ Paired(Kept(result, CallResults), Kept(events, ClosedBlocks))

(* The positions of a sequence that has one more element. *)
LEMMA OneLonger ==
  ASSUME NEW S, NEW s \in Seq(S), NEW x \in S
  PROVE  /\ Append(s, x) \in Seq(S) /\ DOMAIN s \subseteq DOMAIN Append(s, x)
         /\ Len(s) + 1 \in DOMAIN Append(s, x) /\ Append(s, x)[Len(s) + 1] = x
         /\ \A i \in DOMAIN s : Append(s, x)[i] = s[i]
         /\ \A i \in DOMAIN Append(s, x) : i \in DOMAIN s \/ i = Len(s) + 1
<1>1. Len(s) \in Nat /\ DOMAIN s = 1 .. Len(s) /\ DOMAIN Append(s, x) = 1 .. Len(s) + 1 OBVIOUS
<1> QED BY <1>1

LEMMA PairedMore ==
  ASSUME NEW a, NEW b, Paired(a, b), NEW r \in Results, NEW e \in Blocks, r.n = e.part, r.kind = e.kind
  PROVE  Paired(Append(a, r), Append(b, e))
<1>1. a \in Seq(Results) /\ b \in Seq(Blocks) /\ Len(a) = Len(b) BY DEF Paired
<1>2. /\ Append(a, r) \in Seq(Results) /\ Len(Append(a, r)) = Len(a) + 1 /\ Append(a, r)[Len(a) + 1] = r
      /\ \A k \in 1 .. Len(a) : Append(a, r)[k] = a[k]
  BY <1>1, AppendProperties
<1>3. /\ Append(b, e) \in Seq(Blocks) /\ Len(Append(b, e)) = Len(a) + 1 /\ Append(b, e)[Len(a) + 1] = e
      /\ \A k \in 1 .. Len(a) : Append(b, e)[k] = b[k]
  BY <1>1, AppendProperties
<1>4. \A k \in DOMAIN Append(a, r) : k \in DOMAIN a \/ k = Len(a) + 1 BY <1>1, OneLonger
<1>5. DOMAIN a = 1 .. Len(a) BY <1>1
<1> QED BY <1>2, <1>3, <1>4, <1>5 DEF Paired

(* A block starts. *)
LEMMA DecodeStart ==
  ASSUME DecoderInv, NEW kind \in Kinds, FeedStart(kind) PROVE DecoderInv'
<1> DEFINE n == Len(parts) + 1
           e == Piece("start", kind, n, n)
           q == [kind |-> kind, pieces |-> 0]
<1>1. events \in Seq(Blocks) /\ result \in Seq(Results) /\ parts \in Seq(FedParts) /\ Len(parts) \in Nat
  BY DEF DecoderInv, Gathered
<1>2. e \in Blocks /\ e \notin FedBlocks /\ e \notin ClosedBlocks /\ q \in FedParts
  BY <1>1 DEF Piece, Blocks, FedBlocks, ClosedBlocks, FedParts
<1>3. /\ events' = Append(events, e) /\ parts' = Append(parts, q) /\ result' = result
      /\ blocks' = [i \in DOMAIN blocks \cup {n} |-> IF i = n THEN 0 ELSE blocks[i]]
  BY DEF FeedStart
<1>4. q.pieces = 0 OBVIOUS
<1> HIDE DEF e, q
<1>5. /\ events' \in Seq(Blocks) /\ Kept(events', FedBlocks) = Kept(events, FedBlocks)
      /\ Kept(events', ClosedBlocks) = Kept(events, ClosedBlocks)
  BY <1>1, <1>2, <1>3, KeptAppend, AppendProperties
<1>6. /\ parts' \in Seq(FedParts) /\ DOMAIN parts \subseteq DOMAIN parts' /\ n \in DOMAIN parts'
      /\ parts'[n] = q /\ (\A i \in DOMAIN parts : parts'[i] = parts[i]) /\ n \notin DOMAIN parts
  <2>1. n \notin DOMAIN parts BY <1>1
  <2> QED BY <1>1, <1>2, <1>3, <2>1, OneLonger
<1> HIDE DEF n
<1>7. Gathered'
  <2>1. DOMAIN blocks' = DOMAIN blocks \cup {n} /\ blocks' = [i \in DOMAIN blocks' |-> blocks'[i]] BY <1>3
  <2>2. DOMAIN blocks' \subseteq DOMAIN parts' BY <1>6, <2>1 DEF DecoderInv, Gathered
  <2>3. ASSUME NEW i \in DOMAIN blocks'
        PROVE  blocks'[i] \in Nat /\ (parts'[i].kind = "tool" => blocks'[i] = parts'[i].pieces)
    <3>1. CASE i = n BY <1>3, <1>4, <1>6, <2>1, <3>1
    <3>2. CASE i # n
      <4>1. i \in DOMAIN blocks /\ i \in DOMAIN parts /\ blocks'[i] = blocks[i] /\ parts'[i] = parts[i]
        BY <1>3, <1>6, <2>1, <3>2 DEF DecoderInv, Gathered
      <4> QED BY <4>1 DEF DecoderInv, Gathered
    <3> QED BY <3>1, <3>2
  <2>4. ASSUME NEW k \in DOMAIN result, result[k].kind = "tool"
        PROVE  /\ result[k].n \in DOMAIN parts' \ DOMAIN blocks'
               /\ result[k].pieces = parts'[result[k].n].pieces
    <3>1. result[k].n \in DOMAIN parts \ DOMAIN blocks /\ result[k].pieces = parts[result[k].n].pieces
      BY <2>4 DEF DecoderInv, Gathered
    <3> QED BY <1>6, <2>1, <3>1
  <2> QED BY <1>3, <1>6, <2>1, <2>2, <2>3, <2>4 DEF Gathered
<1> QED BY <1>1, <1>3, <1>5, <1>7 DEF DecoderInv

(* A piece: the arguments of a call gather, prose is passed on. *)
LEMMA DecodeDelta ==
  ASSUME DecoderInv, NEW n, FeedDelta(n) PROVE DecoderInv'
<1> DEFINE kind == parts[n].kind
           e == Piece("delta", kind, n, n)
           r == [kind |-> kind, n |-> n, pieces |-> 1]
<1>1. events \in Seq(Blocks) /\ result \in Seq(Results) /\ parts \in Seq(FedParts)
      /\ DOMAIN parts = 1 .. Len(parts) /\ Len(parts) \in Nat
  BY DEF DecoderInv, Gathered
<1>2. n \in DOMAIN blocks /\ n \in DOMAIN parts /\ n \in Nat BY <1>1 DEF FeedDelta, DecoderInv, Gathered
<1>3. parts[n] \in FedParts BY <1>1, <1>2
<1>4. kind \in Kinds /\ parts[n].pieces \in Nat BY <1>3 DEF FedParts
<1>5. /\ e \in Blocks /\ e.type = "delta" /\ e.kind = kind /\ e.part = n
      /\ (kind # "tool" => r \in Results) /\ r.kind = kind /\ r.n = n
  BY <1>2, <1>4 DEF Piece, Blocks, Results, Kinds
<1>6. /\ events' = Append(events, e) /\ parts' = [parts EXCEPT ![n].pieces = @ + 1]
      /\ kind = "tool" => result' = result /\ blocks' = [blocks EXCEPT ![n] = @ + 1]
      /\ kind # "tool" => result' = Append(result, r) /\ blocks' = blocks
  BY DEF FeedDelta
<1>7. /\ DOMAIN parts' = DOMAIN parts /\ parts'[n].kind = kind /\ parts'[n].pieces = parts[n].pieces + 1
      /\ \A i \in DOMAIN parts : i # n => parts'[i] = parts[i]
  BY <1>2, <1>3, <1>6 DEF FedParts
<1>8. parts' \in Seq(FedParts)
  <2>1. \A i \in DOMAIN parts : parts[i] \in FedParts BY <1>1
  <2>2. [parts[n] EXCEPT !.pieces = @ + 1] \in FedParts BY <1>3 DEF FedParts
  <2>3. \A i \in DOMAIN parts : parts'[i] \in FedParts BY <1>2, <1>6, <2>1, <2>2
  <2>4. parts' \in [1 .. Len(parts) -> FedParts] BY <1>1, <1>6, <2>3
  <2> QED BY <1>1, <2>4, SeqDef
<1> HIDE DEF kind, e, r
<1>9. /\ events' \in Seq(Blocks) /\ Kept(events', ClosedBlocks) = Kept(events, ClosedBlocks)
      /\ Kept(events', FedBlocks) = IF kind = "tool" THEN Kept(events, FedBlocks)
                                    ELSE Append(Kept(events, FedBlocks), e)
  <2>1. e \notin ClosedBlocks /\ (e \in FedBlocks <=> kind # "tool") BY <1>5 DEF FedBlocks, ClosedBlocks
  <2> QED BY <1>1, <1>5, <1>6, <2>1, KeptAppend, AppendProperties
<1>10. \A i \in DOMAIN parts : i \notin DOMAIN blocks => parts'[i] = parts[i] BY <1>2, <1>7
<1>11. CASE kind = "tool"
  <2>1. result' = result /\ blocks' = [blocks EXCEPT ![n] = @ + 1] BY <1>6, <1>11
  <2>2. DOMAIN blocks' = DOMAIN blocks /\ blocks' = [i \in DOMAIN blocks' |-> blocks'[i]]
        /\ blocks'[n] = blocks[n] + 1 /\ \A i \in DOMAIN blocks : i # n => blocks'[i] = blocks[i]
    BY <1>2, <2>1 DEF DecoderInv, Gathered
  <2>3. ASSUME NEW i \in DOMAIN blocks
        PROVE  blocks'[i] \in Nat /\ (parts'[i].kind = "tool" => blocks'[i] = parts'[i].pieces)
    <3>1. blocks[i] \in Nat /\ (parts[i].kind = "tool" => blocks[i] = parts[i].pieces) /\ i \in DOMAIN parts
      BY DEF DecoderInv, Gathered
    <3>2. CASE i = n BY <1>7, <1>11, <2>2, <3>1, <3>2 DEF kind
    <3>3. CASE i # n BY <1>7, <2>2, <3>1, <3>3
    <3> QED BY <3>2, <3>3
  <2>4. Gathered' BY <1>7, <1>8, <1>10, <2>1, <2>2, <2>3 DEF DecoderInv, Gathered
  <2> QED BY <1>1, <1>9, <1>11, <2>1, <2>4 DEF DecoderInv
<1>12. CASE kind # "tool"
  <2>1. result' = Append(result, r) /\ blocks' = blocks /\ r \in Results BY <1>5, <1>6, <1>12
  <2>2. /\ result' \in Seq(Results) /\ DOMAIN result \subseteq DOMAIN result'
        /\ \A k \in DOMAIN result' : (k \in DOMAIN result /\ result'[k] = result[k]) \/ result'[k] = r
    BY <1>1, <2>1, OneLonger
  <2>3. /\ Kept(result', ProseResults) = Append(Kept(result, ProseResults), r)
        /\ Kept(result', CallResults) = Kept(result, CallResults)
    <3>1. r \in ProseResults /\ r \notin CallResults
      BY <1>4, <1>5, <1>12, <2>1 DEF ProseResults, CallResults, Kinds
    <3> QED BY <1>1, <2>1, <3>1, KeptAppend
  <2>4. Paired(Kept(result', ProseResults), Kept(events', FedBlocks))
    BY <1>5, <1>9, <1>12, <2>1, <2>3, PairedMore DEF DecoderInv
  <2>5. ASSUME NEW i \in DOMAIN blocks
        PROVE  blocks[i] \in Nat /\ (parts'[i].kind = "tool" => blocks[i] = parts'[i].pieces)
    <3>1. blocks[i] \in Nat /\ (parts[i].kind = "tool" => blocks[i] = parts[i].pieces) /\ i \in DOMAIN parts
      BY DEF DecoderInv, Gathered
    <3>2. i = n => parts'[i].kind # "tool" BY <1>7, <1>12
    <3> QED BY <1>7, <3>1, <3>2
  <2>6. ASSUME NEW k \in DOMAIN result', result'[k].kind = "tool"
        PROVE  /\ result'[k].n \in DOMAIN parts' \ DOMAIN blocks
               /\ result'[k].pieces = parts'[result'[k].n].pieces
    <3>1. k \in DOMAIN result /\ result'[k] = result[k] BY <1>5, <1>12, <2>2, <2>6
    <3>2. result[k].n \in DOMAIN parts \ DOMAIN blocks /\ result[k].pieces = parts[result[k].n].pieces
      BY <2>6, <3>1 DEF DecoderInv, Gathered
    <3> QED BY <1>7, <1>10, <3>1, <3>2
  <2>7. Gathered' BY <1>7, <1>8, <2>1, <2>5, <2>6 DEF DecoderInv, Gathered
  <2> QED BY <1>9, <2>2, <2>3, <2>4, <2>7 DEF DecoderInv
<1> QED BY <1>11, <1>12

(* A block stops: a call is reported, a thought is kept. *)
LEMMA DecodeStop ==
  ASSUME DecoderInv, NEW n, FeedStop(n) PROVE DecoderInv'
<1> DEFINE kind == parts[n].kind
           e == Piece("stop", kind, n, n)
           r == [kind |-> IF kind = "tool" THEN "tool" ELSE "opaque", n |-> n, pieces |-> blocks[n]]
<1>1. events \in Seq(Blocks) /\ result \in Seq(Results) /\ parts \in Seq(FedParts)
      /\ DOMAIN parts = 1 .. Len(parts) /\ Len(parts) \in Nat
  BY DEF DecoderInv, Gathered
<1>2. n \in DOMAIN blocks /\ n \in DOMAIN parts /\ n \in Nat /\ blocks[n] \in Nat
  BY <1>1 DEF FeedStop, DecoderInv, Gathered
<1>3. parts[n] \in FedParts BY <1>1, <1>2
<1>4. kind \in Kinds BY <1>3 DEF FedParts
<1>5. /\ e \in Blocks /\ e.type = "stop" /\ e.kind = kind /\ e.part = n
      /\ r \in Results /\ r.kind = (IF kind = "tool" THEN "tool" ELSE "opaque") /\ r.n = n /\ r.pieces = blocks[n]
  BY <1>2, <1>4 DEF Piece, Blocks, Results, Kinds
<1>6. /\ events' = Append(events, e) /\ parts' = parts /\ blocks' = [i \in DOMAIN blocks \ {n} |-> blocks[i]]
      /\ \/ kind = "text" /\ result' = result
         \/ kind # "text" /\ result' = Append(result, r)
  <2>1. kind = "text" => result' = result BY DEF FeedStop
  <2>2. kind = "thinking" => result' = Append(result, r) BY DEF FeedStop
  <2>3. kind = "tool" => result' = Append(result, r) BY DEF FeedStop
  <2> QED BY <1>4, <2>1, <2>2, <2>3 DEF FeedStop, replyVars, Kinds
<1>7. kind = "tool" => blocks[n] = parts[n].pieces BY <1>2 DEF DecoderInv, Gathered
<1> HIDE DEF kind, e, r
<1>8. /\ events' \in Seq(Blocks) /\ Kept(events', FedBlocks) = Kept(events, FedBlocks)
      /\ Kept(events', ClosedBlocks) = IF kind = "tool" THEN Append(Kept(events, ClosedBlocks), e)
                                       ELSE Kept(events, ClosedBlocks)
  <2>1. e \notin FedBlocks /\ (e \in ClosedBlocks <=> kind = "tool") BY <1>5 DEF FedBlocks, ClosedBlocks
  <2> QED BY <1>1, <1>5, <1>6, <2>1, KeptAppend, AppendProperties
<1>9. /\ result' \in Seq(Results)
      /\ \A k \in DOMAIN result' : (k \in DOMAIN result /\ result'[k] = result[k])
                                   \/ (result'[k] = r /\ kind # "text")
  <2>1. CASE result' = result BY <1>1, <2>1
  <2>2. CASE kind # "text" /\ result' = Append(result, r) BY <1>1, <1>5, <2>2, OneLonger
  <2> QED BY <1>6, <2>1, <2>2
<1>10. /\ Kept(result', ProseResults) = Kept(result, ProseResults)
       /\ Kept(result', CallResults) = IF kind = "tool" THEN Append(Kept(result, CallResults), r)
                                       ELSE Kept(result, CallResults)
  <2>1. r \notin ProseResults /\ (r \in CallResults <=> kind = "tool") BY <1>5 DEF ProseResults, CallResults
  <2>2. CASE kind = "text" /\ result' = result BY <2>2
  <2>3. CASE kind # "text" /\ result' = Append(result, r) BY <1>1, <1>5, <2>1, <2>3, KeptAppend
  <2> QED BY <1>6, <2>2, <2>3
<1>11. Paired(Kept(result', CallResults), Kept(events', ClosedBlocks))
  <2>1. Paired(Kept(result, CallResults), Kept(events, ClosedBlocks)) BY DEF DecoderInv
  <2>2. CASE kind = "tool"
    <3>1. r.n = e.part /\ r.kind = e.kind BY <1>5, <2>2
    <3> QED BY <1>5, <1>8, <1>10, <2>1, <2>2, <3>1, PairedMore
  <2>3. CASE kind # "tool" BY <1>8, <1>10, <2>1, <2>3
  <2> QED BY <2>2, <2>3
<1>12. Gathered'
  <2>1. DOMAIN blocks' = DOMAIN blocks \ {n} /\ blocks' = [i \in DOMAIN blocks' |-> blocks'[i]]
        /\ \A i \in DOMAIN blocks' : blocks'[i] = blocks[i]
    BY <1>6
  <2>2. ASSUME NEW k \in DOMAIN result', result'[k].kind = "tool"
        PROVE  /\ result'[k].n \in DOMAIN parts \ DOMAIN blocks'
               /\ result'[k].pieces = parts[result'[k].n].pieces
    <3>1. CASE k \in DOMAIN result /\ result'[k] = result[k]
      <4>1. result[k].n \in DOMAIN parts \ DOMAIN blocks /\ result[k].pieces = parts[result[k].n].pieces
        BY <2>2, <3>1 DEF DecoderInv, Gathered
      <4> QED BY <2>1, <3>1, <4>1
    <3>2. CASE result'[k] = r
      <4>1. kind = "tool" BY <1>5, <2>2, <3>2
      <4> QED BY <1>2, <1>5, <1>7, <2>1, <3>2, <4>1
    <3> QED BY <1>9, <3>1, <3>2
  <2> QED BY <1>1, <1>6, <2>1, <2>2 DEF DecoderInv, Gathered
<1> QED BY <1>8, <1>9, <1>10, <1>11, <1>12 DEF DecoderInv

LEMMA DecodeEnd == ASSUME DecoderInv, FeedEnd PROVE DecoderInv'
<1>1. UNCHANGED <<parts, events, blocks, result>> BY DEF FeedEnd, decoderVars
<1> QED BY <1>1 DEF DecoderInv, Gathered

ReplyInv ==
  way \in {"encode", "decode"} /\ (way = "encode" => EncoderInv) /\ (way = "decode" => DecoderInv)

LEMMA ReplyInitial == MessagesInit => ReplyInv
<1> SUFFICES ASSUME MessagesInit PROVE ReplyInv OBVIOUS
<1>1. /\ way \in {"encode", "decode"} /\ style \in Styles /\ parts = <<>> /\ last = 0 /\ events = <<>> /\ place = 0
      /\ open = "none" /\ calls = {} /\ ~stopped /\ speaking = "open" /\ blocks = <<>> /\ result = <<>>
  BY DEF MessagesInit
<1>2. EncoderInv
  <2>1. IsFiniteSet(calls) BY <1>1, FS_EmptySet
  <2>2. PartsBegun
    <3> DEFINE S == [kind : Kinds, pieces : Nat]
    <3>1. parts \in Seq(S)
      <4> HIDE DEF S
      <4> QED BY <1>1
    <3>2. Len(parts) = 0 /\ DOMAIN parts = {} BY <1>1
    <3> QED BY <1>1, <3>1, <3>2, ReplyAssumption DEF PartsBegun
  <2> QED BY <1>1, <2>1, <2>2 DEF EncoderInv, EncoderTells, CallsKnown, AtHand
<1>3. DecoderInv
  <2>1. DOMAIN result = {} /\ DOMAIN blocks = {} /\ result \in Seq(Results) /\ events \in Seq(Blocks)
        /\ parts \in Seq(FedParts) /\ blocks = [i \in DOMAIN blocks |-> blocks[i]]
    BY <1>1
  <2>2. Gathered BY <2>1 DEF Gathered
  <2>3. Paired(<<>>, <<>>) BY DEF Paired
  <2> QED BY <1>1, <2>1, <2>2, <2>3, KeptEmpty DEF DecoderInv
<1> QED BY <1>1, <1>2, <1>3 DEF ReplyInv

LEMMA ReplyStep == ReplyInv /\ [MessagesNext]_streamVars => ReplyInv'
<1> SUFFICES ASSUME ReplyInv, [MessagesNext]_streamVars PROVE ReplyInv' OBVIOUS
<1> USE DEF ReplyInv
<1>1. ASSUME NEW p \in PartPieces, Encode(p) PROVE ReplyInv'
  BY <1>1, EncodeStep DEF Encode
<1>2. CASE EncodeSigned BY <1>2, SignStep DEF EncodeSigned, replyVars
<1>3. CASE EncodeEnd BY <1>3, EncodeEndStep DEF EncodeEnd
<1>4. ASSUME NEW kind \in Kinds, FeedStart(kind) PROVE ReplyInv'
  BY <1>4, DecodeStart DEF FeedStart
<1>5. ASSUME NEW n, FeedDelta(n) PROVE ReplyInv'
  BY <1>5, DecodeDelta DEF FeedDelta
<1>6. ASSUME NEW n, FeedStop(n) PROVE ReplyInv'
  BY <1>6, DecodeStop DEF FeedStop, replyVars
<1>7. CASE FeedEnd BY <1>7, DecodeEnd DEF FeedEnd
<1>8. CASE UNCHANGED streamVars
  <2>1. UNCHANGED <<way, style, showThinking, parts, last, crossed, speaking, events, place, open, openCall,
                    calls, signed, stopped, blocks, result>>
    BY <1>8 DEF streamVars, replyVars, encoderVars, decoderVars
  <2>2. EncoderInv => EncoderInv'
    BY <2>1 DEF EncoderInv, EncoderTells, PartsBegun, CallsKnown, AtHand
  <2>3. DecoderInv => DecoderInv' BY <2>1 DEF DecoderInv, Gathered
  <2> QED BY <2>1, <2>2, <2>3
<1> QED BY <1>1, <1>2, <1>3, <1>4, <1>5, <1>6, <1>7, <1>8 DEF MessagesNext

LEMMA FramesAndEnds ==
  ASSUME events \in Seq(Blocks)
  PROVE  Frames = Kept(events, FrameBlocks) /\ Ends = Kept(events, EndBlocks)
<1>1. {k \in DOMAIN events : events[k].type \in {"start", "stop"}}
      = {k \in DOMAIN events : events[k] \in FrameBlocks}
  BY DEF FrameBlocks
<1>2. {k \in DOMAIN events : events[k].type \in {"message_delta", "message_stop"}}
      = {k \in DOMAIN events : events[k] \in EndBlocks}
  BY DEF EndBlocks
<1> QED BY <1>1, <1>2 DEF Frames, Ends, Kept

LEMMA Halves ==
  ASSUME NEW k \in Nat
  PROVE  /\ (k + 1) \div 2 \in Int
         /\ k % 2 = 1 => k = 2 * ((k + 1) \div 2) - 1
         /\ k % 2 # 1 => k = 2 * ((k + 1) \div 2)
<1>1. (k + 1) \div 2 \in Int OBVIOUS
<1>2. k % 2 = 1 => k = 2 * ((k + 1) \div 2) - 1 OBVIOUS
<1>3. k % 2 # 1 => k = 2 * ((k + 1) \div 2) OBVIOUS
<1> QED BY <1>1, <1>2, <1>3

(* Odd places start a block, even ones stop it. *)
LEMMA FramesAlternate ==
  ASSUME NEW nr, NEW closed, Alternates(Frames, nr, closed)
  PROVE  /\ \A k \in DOMAIN Frames : Frames[k].type = (IF k % 2 = 1 THEN "start" ELSE "stop")
                                     /\ Frames[k].i = (k + 1) \div 2
         /\ closed => Len(Frames) % 2 = 0
<1> DEFINE f == Frames
<1>1. f \in Seq(Blocks) /\ nr \in Nat /\ Len(f) = (IF closed THEN 2 * nr ELSE 2 * nr - 1) /\ Len(f) \in Nat
      /\ DOMAIN f = 1 .. Len(f)
  BY DEF Alternates
<1>2. /\ \A k \in 1 .. nr : f[2 * k - 1].type = "start" /\ f[2 * k - 1].i = k
      /\ \A k \in 1 .. nr : 2 * k <= Len(f) => f[2 * k].type = "stop" /\ f[2 * k].i = k
  BY DEF Alternates
<1> HIDE DEF f
<1>3. ASSUME NEW k \in DOMAIN f
      PROVE  f[k].type = (IF k % 2 = 1 THEN "start" ELSE "stop") /\ f[k].i = (k + 1) \div 2
  <2> DEFINE j == (k + 1) \div 2
  <2>1. k \in Nat /\ k >= 1 /\ k <= Len(f) /\ Len(f) <= 2 * nr BY <1>1
  <2>5. (k % 2 = 1 => k = 2 * j - 1) /\ (k % 2 # 1 => k = 2 * j) /\ j \in Int BY <2>1, Halves
  <2>2. j \in 1 .. nr
    <3> HIDE DEF j
    <3> QED BY <1>1, <2>1, <2>5
  <2> HIDE DEF j
  <2>3. f[k].type = (IF k % 2 = 1 THEN "start" ELSE "stop") /\ f[k].i = j
    <3>1. CASE k % 2 = 1 BY <1>2, <2>2, <2>5, <3>1
    <3>2. CASE k % 2 # 1 BY <1>2, <2>1, <2>2, <2>5, <3>2
    <3> QED BY <3>1, <3>2
  <2> QED BY <2>3 DEF j
<1>4. closed => Len(f) % 2 = 0 BY <1>1
<1> QED BY <1>3, <1>4 DEF f

(* An open message is one so far, and the last two events end it. *)
LEMMA ToldIsOne ==
  ASSUME ~stopped, Told(events, place, open, ~crossed)
  PROVE  OneMessage /\ (~crossed => PiecesInPlace)
<1>1. events \in Seq(Blocks) BY DEF Told
<1>2. Alternates(Frames, place, open = "none") BY <1>1, FramesAndEnds DEF Told
<1>3. OneMessage BY <1>2, FramesAlternate DEF OneMessage, Told
<1> QED BY <1>3 DEF Told, InPlace, PiecesInPlace

LEMMA EndedIsOne ==
  ASSUME NEW s, Told(s, place, "none", ~crossed), events = s \o LastWords
  PROVE  OneMessage /\ (~crossed => PiecesInPlace)
<1> DEFINE a == Block("message_delta", "none", 0)
           b == Block("message_stop", "none", 0)
           n == Len(s)
<1>1. s \in Seq(Blocks) /\ n \in Nat \ {0} /\ place \in Nat BY DEF Told
<1>2. /\ a \in Blocks /\ a.type = "message_delta" /\ b \in Blocks /\ b.type = "message_stop"
      /\ a \in EndBlocks /\ b \in EndBlocks /\ a \notin FrameBlocks /\ b \notin FrameBlocks
  BY DEF Block, Piece, Blocks, FrameBlocks, EndBlocks
<1>3. events = s \o <<a, b>> BY DEF LastWords
<1> HIDE DEF a, b, n
<1>4. events = Append(Append(s, a), b)
  <2>1. s \in Seq(Blocks) /\ a \in Blocks /\ b \in Blocks BY <1>1, <1>2
  <2>2. s \o <<a, b>> = Append(Append(s, a), b) BY <2>1, JustTwo
  <2> QED BY <1>3, <2>2
<1> DEFINE t == Append(s, a)
<1>5. t \in Seq(Blocks) /\ Len(t) = n + 1 /\ t[n + 1] = a /\ \A k \in 1 .. n : t[k] = s[k]
  BY <1>1, <1>2, AppendProperties DEF n
<1>6. \A K : Kept(t, K) = IF a \in K THEN Append(Kept(s, K), a) ELSE Kept(s, K)
  BY <1>1, <1>2, KeptAppend
<1> HIDE DEF t
<1>7. events = Append(t, b) BY <1>4 DEF t
<1>8. \A K : Kept(events, K) = IF b \in K THEN Append(Kept(t, K), b) ELSE Kept(t, K)
  BY <1>2, <1>5, <1>7, KeptAppend
<1>9. events \in Seq(Blocks) /\ Len(events) = n + 2 /\ events[n + 2] = b /\ events[n + 1] = a
      /\ \A k \in 1 .. n : events[k] = s[k]
  <2>1. events \in Seq(Blocks) /\ Len(events) = Len(t) + 1 /\ events[Len(t) + 1] = b
        /\ \A k \in 1 .. Len(t) : events[k] = t[k]
    BY <1>2, <1>5, <1>7, AppendProperties
  <2>2. n + 1 \in 1 .. Len(t) /\ \A k \in 1 .. n : k \in 1 .. Len(t) BY <1>1, <1>5
  <2>3. Len(t) + 1 = n + 2 BY <1>1, <1>5
  <2> QED BY <1>5, <2>1, <2>2, <2>3
<1>10. Alternates(Frames, place, TRUE)
  <2>1. Frames = Kept(s, FrameBlocks) BY <1>2, <1>6, <1>8, <1>9, FramesAndEnds
  <2> QED BY <2>1 DEF Told
<1>11. Len(Ends) = 2
  <2>1. Kept(s, EndBlocks) = <<>> BY DEF Told
  <2>2. Kept(t, EndBlocks) = Append(Kept(s, EndBlocks), a) BY <1>2, <1>6
  <2>3. Kept(events, EndBlocks) = Append(Append(Kept(s, EndBlocks), a), b) BY <1>2, <1>8, <2>2
  <2>4. Ends = Append(Append(<<>>, a), b) BY <1>9, <2>1, <2>3, FramesAndEnds
  <2> QED BY <2>4
<1>12. \A k \in DOMAIN events : k \in 1 .. n \/ k = n + 1 \/ k = n + 2
  <2>1. DOMAIN events = 1 .. n + 2 BY <1>9, LenProperties
  <2>2. \A k \in 1 .. n + 2 : k \in 1 .. n \/ k = n + 1 \/ k = n + 2 BY <1>1
  <2> QED BY <2>1, <2>2
<1>13. DOMAIN s = 1 .. n BY <1>1 DEF n
<1>14. \A k \in DOMAIN events : (events[k].type = "message_start") <=> (k = 1)
  <2>1. n + 1 # 1 /\ n + 2 # 1 BY <1>1
  <2> QED BY <1>2, <1>9, <1>12, <1>13, <2>1 DEF Told
<1>15. ASSUME ~crossed PROVE PiecesInPlace
  <2>1. InPlace(s) BY <1>15 DEF Told
  <2>2. SUFFICES ASSUME NEW k \in DOMAIN events, events[k].type \in {"delta", "signature"}
                 PROVE  /\ events[k - 1].type \in {"start", "delta", "signature"}
                        /\ events[k - 1].i = events[k].i /\ events[k - 1].kind = events[k].kind
                        /\ events[k].kind = "tool" => events[k - 1].part = events[k].part
    BY DEF PiecesInPlace
  <2>3. k \in 1 .. n /\ k # 1 BY <1>2, <1>9, <1>12, <1>14, <2>2
  <2>4. k - 1 \in 1 .. n BY <1>1, <2>3
  <2>5. k \in DOMAIN s /\ events[k] = s[k] /\ events[k - 1] = s[k - 1] BY <1>9, <1>13, <2>3, <2>4
  <2> QED BY <2>1, <2>2, <2>5 DEF InPlace
<1>16. Last(events).type = "message_stop" BY <1>2, <1>9 DEF Last
<1>17. OneMessage BY <1>10, <1>11, <1>14, <1>16, FramesAlternate DEF OneMessage
<1> QED BY <1>15, <1>17

(* The four subsequences of ResultIsWhole. *)
LEMMA ResultsKept ==
  ASSUME events \in Seq(Blocks), result \in Seq(Results)
  PROVE  /\ Subsequence(events, {k \in DOMAIN events : events[k].type = "delta" /\ events[k].kind # "tool"})
              = Kept(events, FedBlocks)
         /\ Subsequence(events, {k \in DOMAIN events : events[k].type = "stop" /\ events[k].kind = "tool"})
              = Kept(events, ClosedBlocks)
         /\ Subsequence(result, {k \in DOMAIN result : result[k].kind \in {"text", "thinking"}})
              = Kept(result, ProseResults)
         /\ Subsequence(result, {k \in DOMAIN result : result[k].kind = "tool"}) = Kept(result, CallResults)
<1>1. (\A k \in DOMAIN events : events[k] \in Blocks) /\ (\A k \in DOMAIN result : result[k] \in Results)
  OBVIOUS
<1>2. {k \in DOMAIN events : events[k].type = "delta" /\ events[k].kind # "tool"}
      = {k \in DOMAIN events : events[k] \in FedBlocks}
  BY <1>1 DEF FedBlocks
<1>3. {k \in DOMAIN events : events[k].type = "stop" /\ events[k].kind = "tool"}
      = {k \in DOMAIN events : events[k] \in ClosedBlocks}
  BY <1>1 DEF ClosedBlocks
<1>4. {k \in DOMAIN result : result[k].kind \in {"text", "thinking"}}
      = {k \in DOMAIN result : result[k] \in ProseResults}
  BY <1>1 DEF ProseResults
<1>5. {k \in DOMAIN result : result[k].kind = "tool"} = {k \in DOMAIN result : result[k] \in CallResults}
  BY <1>1 DEF CallResults
<1> QED BY <1>2, <1>3, <1>4, <1>5 DEF Kept

LEMMA DecodedIsWhole == ASSUME DecoderInv PROVE ResultIsWhole
<1> DEFINE called == Kept(result, CallResults)
<1>1. events \in Seq(Blocks) /\ result \in Seq(Results) /\ called \in Seq(Results)
  BY KeptType DEF DecoderInv
<1>2. Paired(Kept(result, ProseResults), Kept(events, FedBlocks))
      /\ Paired(called, Kept(events, ClosedBlocks))
  BY DEF DecoderInv
<1>3. ASSUME NEW k \in DOMAIN called PROVE called[k].pieces = parts[called[k].n].pieces
  <2>1. called[k] \in Range(called) BY DEF Range
  <2>2. called[k] \in Range(result) \cap CallResults BY <1>1, <2>1, KeptElements
  <2>3. PICK i \in DOMAIN result : result[i] = called[k] BY <2>2 DEF Range
  <2>4. result[i].kind = "tool" BY <2>2, <2>3 DEF CallResults
  <2> QED BY <2>3, <2>4 DEF DecoderInv, Gathered
<1> QED BY <1>1, <1>2, <1>3, ResultsKept DEF ResultIsWhole, Paired

(* For any number of parts and of pieces, however the provider streams them, in
   whatever order it goes back to its calls, and wherever it breaks off: the events
   of an encoded stream frame one message, and each piece is in its place unless a
   call went on, under its id, after a piece of another part; a decoded stream
   passes on and reports what it was fed (messages_protocol.py:780-1067). *)
THEOREM StreamsConvertWhole == MessagesSpec => []ConvertedStreamIsWhole
<1>1. ReplyInv => ConvertedStreamIsWhole
  <2> SUFFICES ASSUME ReplyInv PROVE ConvertedStreamIsWhole OBVIOUS
  <2>1. CASE way = "encode"
    <3>1. EncoderTells BY <2>1 DEF ReplyInv, EncoderInv
    <3>2. events = <<>> /\ ~stopped => OneMessage /\ PiecesInPlace
      <4> SUFFICES ASSUME events = <<>>, ~stopped PROVE OneMessage /\ PiecesInPlace OBVIOUS
      <4>1. DOMAIN events = {} OBVIOUS
      <4>2. Frames = <<>>
        <5>1. {k \in DOMAIN events : events[k].type \in {"start", "stop"}} = {} BY <4>1
        <5> QED BY <5>1, SubEmpty DEF Frames
      <4> QED BY <4>1, <4>2 DEF OneMessage, PiecesInPlace
    <3>3. OneMessage /\ (~crossed => PiecesInPlace) BY <3>1, <3>2, ToldIsOne, EndedIsOne DEF EncoderTells
    <3> QED BY <2>1, <3>3 DEF ConvertedStreamIsWhole
  <2>2. CASE way = "decode"
    <3>1. ResultIsWhole BY <2>2, DecodedIsWhole DEF ReplyInv
    <3> QED BY <2>2, <3>1 DEF ConvertedStreamIsWhole
  <2> QED BY <2>1, <2>2 DEF ReplyInv
<1> QED BY <1>1, ReplyInitial, ReplyStep, PTL DEF MessagesSpec
==============================================================================
