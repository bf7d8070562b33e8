--------------------------- MODULE MessagesStream ---------------------------
(***************************************************************************)
(* The two converters of Anthropic streams.  The encoder turns the chunks  *)
(* of another provider into Messages events for an Anthropic client; the   *)
(* decoder turns the Messages events of a provider into chunks and a final *)
(* result.  What the model says is a sequence of parts: a text, a thought  *)
(* with its signature, a tool call.  A provider streams each part in one   *)
(* or more pieces and may break off; it may go back to a tool call after   *)
(* it began another part, and Messages blocks may be open side by side.  A *)
(* tool call in pieces carries its id in each of them or, as OpenAI does,  *)
(* in the first only.                                                      *)
(*                                                                         *)
(* The wording is left out: a part is its number in the reply.             *)
(***************************************************************************)
EXTENDS Naturals, SequencesExt, Subsequences

\* Bounds: parts of a reply to encode, blocks of one to decode, pieces of a part.
CONSTANTS MaxParts, MaxFed, MaxPieces

ASSUME ReplyAssumption == MaxParts \in Nat /\ MaxFed \in Nat /\ MaxPieces \in Nat

Kinds  == {"text", "thinking", "tool"}
Styles == {"whole", "id_once", "id_always"}
NoId   == 0   \* a piece without an id
Fresh  == MaxParts   \* ids above are made up by the encoder

VARIABLES
    way,        \* encode or decode
    style,      \* how the provider streams a tool call
    parts,      \* what the provider has begun: the kind and the pieces so far of each part
    last,       \* the part of the last piece that was shown
    crossed,    \* a call went on under its id after a piece of another part
    speaking,   \* open, ended, broken
    showThinking,
    events,     \* the Messages events, sent by the encoder or fed to the decoder
    place,      \* of the last block
    open,       \* kind of the open block, or none
    openCall,
    calls,      \* ids of tool calls the encoder has seen
    signed,     \* the signature of the open thought has been sent
    stopped,
    blocks,     \* the blocks the decoder has open, with what it has of their calls
    result      \* what it has put together: texts, thoughts, calls, opaque blocks

replyVars   == <<way, style, showThinking, parts, last, crossed, speaking>>
encoderVars == <<place, open, openCall, calls, signed, stopped>>
decoderVars == <<blocks, result>>
streamVars  == <<replyVars, events, encoderVars, decoderVars>>

MessagesInit ==
    /\ way \in {"encode", "decode"} /\ style \in Styles /\ showThinking \in BOOLEAN
    /\ parts = <<>> /\ last = 0 /\ crossed = FALSE /\ speaking = "open" /\ events = <<>>
    /\ place = 0 /\ open = "none" /\ openCall = NoId /\ calls = {} /\ signed = FALSE
    /\ stopped = FALSE /\ blocks = <<>> /\ result = <<>>

---------------------------------------------------------------------------
(* The provider. *)

\* The next piece begins a part, or goes on with the last one or with any call.
Begins(p) == p.n = Len(parts) + 1 /\ p.pieces = 1
GoesOn(p) ==
    /\ p.n \in DOMAIN parts /\ p.kind = parts[p.n].kind /\ p.pieces = parts[p.n].pieces + 1
    /\ p.n = last \/ p.kind = "tool"

NextPiece(p) ==
    /\ speaking = "open"
    /\ Begins(p) \/ GoesOn(p)
    /\ (p.kind = "tool" /\ style = "whole") => p.pieces = 1

With(p) == IF p.n \in DOMAIN parts THEN [parts EXCEPT ![p.n].pieces = p.pieces]
           ELSE Append(parts, [kind |-> p.kind, pieces |-> 1])

\* The id a piece of a tool call carries.
IdOf(p) == IF style = "id_once" /\ p.pieces > 1 THEN NoId ELSE p.n

\* The piece takes up, by its id, a call that another part has followed.
Crosses(p) == p.kind = "tool" /\ p.pieces > 1 /\ p.n # last /\ IdOf(p) # NoId

---------------------------------------------------------------------------
(* The encoder: each operator yields its state and the events it sends. *)

\* An event of block i; a piece also says of which part it is.
Piece(type, kind, i, n) == [type |-> type, kind |-> kind, i |-> i, part |-> n]
Block(type, kind, i)    == Piece(type, kind, i, 0)
Started(sent) == IF events = <<>> THEN <<Block("message_start", "none", 0)>> \o sent ELSE sent

Closing == IF open = "none" THEN <<>> ELSE <<Block("stop", open, place)>>

NewBlock(p) ==
    <<Piece("start", p.kind, place + 1, p.n), Piece("delta", p.kind, place + 1, p.n)>>

Send(sent) == events' = events \o Started(sent)

\* A new block opens without closing the one before.
EncodeProseUnclosed(p) ==
    /\ p.kind = "text" \/ (p.kind = "thinking" /\ showThinking)
    /\ IF open = p.kind
       THEN /\ Send(<<Piece("delta", p.kind, place, p.n)>>)
            /\ UNCHANGED <<place, open, openCall, signed>>
       ELSE /\ Send(NewBlock(p))
            /\ place' = place + 1 /\ open' = p.kind /\ openCall' = NoId /\ signed' = FALSE
    /\ last' = p.n /\ UNCHANGED <<calls, stopped>>

\* A text or a thought goes to the open block of its kind, or to a new one.
EncodeProse(p) ==
    /\ p.kind = "text" \/ (p.kind = "thinking" /\ showThinking)
    /\ IF open = p.kind
       THEN /\ Send(<<Piece("delta", p.kind, place, p.n)>>)
            /\ UNCHANGED <<place, open, openCall, signed>>
       ELSE /\ Send(Closing \o NewBlock(p))
            /\ place' = place + 1 /\ open' = p.kind /\ openCall' = NoId /\ signed' = FALSE
    /\ last' = p.n /\ UNCHANGED <<calls, stopped>>

\* A thought the client has not asked for only opens the message.
EncodeHidden(p) ==
    /\ p.kind = "thinking" /\ ~showThinking /\ Send(<<>>) /\ UNCHANGED <<last, encoderVars>>

\* The signature closes what is said of a thought; it is sent once, and only
\* while its block is open.
EncodeSignature ==
    /\ last # 0 /\ parts[last].kind = "thinking"
    /\ IF open = "thinking" /\ ~signed
       THEN Send(<<Block("signature", "thinking", place)>>) /\ signed' = TRUE
       ELSE Send(<<>>) /\ UNCHANGED signed
    /\ UNCHANGED <<place, open, openCall, calls, stopped>>

\* A piece of a tool call: an id seen for the first time opens a block, a missing
\* id is replaced by a new one, and the block of another call is closed before.  A
\* call that was seen opens none, whatever block is open or closed by then.
CallId(p) == IF IdOf(p) # NoId THEN IdOf(p) ELSE Fresh + Cardinality(calls) + 1

EncodeTool(p) ==
    /\ p.kind = "tool"
    /\ LET id    == CallId(p)
           other == open = "tool" /\ openCall # id
       IN IF id \in calls
          THEN /\ Send((IF other THEN Closing ELSE <<>>) \o <<Piece("delta", "tool", place, p.n)>>)
               /\ open' = (IF other THEN "none" ELSE open)
               /\ openCall' = (IF other THEN NoId ELSE openCall)
               /\ UNCHANGED <<place, calls, signed>>
          ELSE /\ Send(Closing \o NewBlock(p))
               /\ place' = place + 1 /\ open' = "tool" /\ openCall' = id
               /\ calls' = calls \cup {id} /\ signed' = FALSE
    /\ last' = p.n /\ UNCHANGED stopped

Encode(p) ==
    /\ way = "encode" /\ NextPiece(p) /\ parts' = With(p) /\ crossed' = (crossed \/ Crosses(p))
    /\ EncodeProse(p) \/ EncodeHidden(p) \/ EncodeTool(p)
    /\ UNCHANGED <<way, style, showThinking, speaking, decoderVars>>

EncodeSigned ==
    /\ way = "encode" /\ speaking = "open" /\ EncodeSignature
    /\ UNCHANGED <<replyVars, decoderVars>>

\* The last chunk, or finish() after a stream without one; what follows is ignored.
EncodeEnd ==
    /\ way = "encode" /\ ~stopped /\ speaking' \in {"ended", "broken"} /\ speaking = "open"
    /\ Send(Closing \o <<Block("message_delta", "none", 0), Block("message_stop", "none", 0)>>)
    /\ stopped' = TRUE /\ open' = "none" /\ openCall' = NoId
    /\ UNCHANGED <<way, style, showThinking, parts, last, crossed, place, calls, signed, decoderVars>>

---------------------------------------------------------------------------
(* The decoder.  A block starts and stops around its pieces, and several may *)
(* be open; the chunk of a tool call is only passed on at its stop.          *)

FeedStart(kind) ==
    /\ way = "decode" /\ speaking = "open" /\ Len(parts) < MaxFed
    /\ LET n == Len(parts) + 1
       IN /\ parts' = Append(parts, [kind |-> kind, pieces |-> 0])
          /\ blocks' = [i \in DOMAIN blocks \cup {n} |-> IF i = n THEN 0 ELSE blocks[i]]
          /\ events' = Append(events, Piece("start", kind, n, n))
    /\ UNCHANGED <<way, style, showThinking, last, crossed, speaking, encoderVars, result>>

\* The arguments of a call gather in its block; prose is passed on at once.
FeedDelta(n) ==
    /\ way = "decode" /\ speaking = "open" /\ n \in DOMAIN blocks /\ parts[n].pieces < MaxPieces
    /\ parts' = [parts EXCEPT ![n].pieces = @ + 1]
    /\ events' = Append(events, Piece("delta", parts[n].kind, n, n))
    /\ IF parts[n].kind = "tool"
       THEN blocks' = [blocks EXCEPT ![n] = @ + 1] /\ UNCHANGED result
       ELSE /\ result' = Append(result, [kind |-> parts[n].kind, n |-> n, pieces |-> 1])
            /\ UNCHANGED blocks
    /\ UNCHANGED <<way, style, showThinking, last, crossed, speaking, encoderVars>>

\* A thought is kept as its block began, with the signature: its text is not there.
FeedStop(n) ==
    /\ way = "decode" /\ speaking = "open" /\ n \in DOMAIN blocks
    /\ events' = Append(events, Piece("stop", parts[n].kind, n, n))
    /\ blocks' = [i \in DOMAIN blocks \ {n} |-> blocks[i]]
    /\ result' = CASE parts[n].kind = "text"     -> result
                   [] parts[n].kind = "thinking" ->
                          Append(result, [kind |-> "opaque", n |-> n, pieces |-> blocks[n]])
                   [] parts[n].kind = "tool"     ->
                          Append(result, [kind |-> "tool", n |-> n, pieces |-> blocks[n]])
    /\ UNCHANGED <<replyVars, encoderVars>>

\* message_stop makes a closing chunk that repeats nothing; a stream that breaks
\* off gets the same chunk, and the worker reports it as complete.
FeedEnd ==
    /\ way = "decode" /\ speaking = "open"
    /\ speaking' \in (IF DOMAIN blocks = {} THEN {"ended", "broken"} ELSE {"broken"})
    /\ stopped' = TRUE
    /\ UNCHANGED <<way, style, showThinking, parts, last, crossed, events, place, open, openCall,
                   calls, signed, decoderVars>>

PartPieces == [kind : Kinds, n : 1..MaxParts, pieces : 1..MaxPieces]

MessagesNext ==
    \/ \E p \in PartPieces : Encode(p)
    \/ EncodeSigned \/ EncodeEnd
    \/ \E kind \in Kinds : FeedStart(kind)
    \/ \E n \in 1..MaxFed : FeedDelta(n) \/ FeedStop(n)
    \/ FeedEnd

MessagesSpec == MessagesInit /\ [][MessagesNext]_streamVars

---------------------------------------------------------------------------
(* Properties. *)

Frames == Subsequence(events, {k \in DOMAIN events : events[k].type \in {"start", "stop"}})
Ends   == Subsequence(events, {k \in DOMAIN events : events[k].type \in {"message_delta", "message_stop"}})

\* The events an Anthropic client reads frame one message: it starts once, its
\* blocks are numbered from 1 and each is closed before the next one starts, and
\* the message ends once, with every block closed.
OneMessage ==
    /\ \A k \in DOMAIN events : (events[k].type = "message_start") <=> (k = 1)
    /\ \A k \in DOMAIN Frames : Frames[k].type = (IF k % 2 = 1 THEN "start" ELSE "stop")
                               /\ Frames[k].i = (k + 1) \div 2
    /\ stopped => Len(Ends) = 2 /\ Last(events).type = "message_stop" /\ Len(Frames) % 2 = 0

\* Each piece follows the start or another piece of the open block of its kind,
\* and a tool block carries the pieces of one call.
PiecesInPlace ==
    \A k \in DOMAIN events : events[k].type \in {"delta", "signature"} =>
        /\ events[k - 1].type \in {"start", "delta", "signature"}
        /\ events[k - 1].i = events[k].i /\ events[k - 1].kind = events[k].kind
        /\ events[k].kind = "tool" => events[k - 1].part = events[k].part

\* What the decoder passes on and reports at the end is what it was fed, with any
\* number of blocks open: each piece of prose once and in order, and each call that
\* was closed once, in the order in which they were closed, with all its pieces.
ResultIsWhole ==
    LET fed    == Subsequence(events, {k \in DOMAIN events : events[k].type = "delta" /\ events[k].kind # "tool"})
        prose  == Subsequence(result, {k \in DOMAIN result : result[k].kind \in {"text", "thinking"}})
        closed == Subsequence(events, {k \in DOMAIN events : events[k].type = "stop" /\ events[k].kind = "tool"})
        called == Subsequence(result, {k \in DOMAIN result : result[k].kind = "tool"})
    IN /\ Len(prose) = Len(fed)
       /\ \A k \in DOMAIN prose : prose[k].n = fed[k].part /\ prose[k].kind = fed[k].kind
       /\ Len(called) = Len(closed)
       /\ \A k \in DOMAIN called : /\ called[k].n = closed[k].part
                                  /\ called[k].pieces = parts[called[k].n].pieces

\* A stream that is converted, in either direction, is one message and loses
\* nothing.  Of the pieces of a stream in which a call goes on, under its id, after
\* a piece of another part, the encoder may put some outside their block.
ConvertedStreamIsWhole ==
    /\ way = "encode" => OneMessage /\ (~crossed => PiecesInPlace)
    /\ way = "decode" => ResultIsWhole

\* What "a valid Anthropic SSE event sequence" (messages_protocol.py:905) asks for,
\* and the encoder does not give when crossed: no run checks it.
EveryPieceInPlace == way = "encode" => PiecesInPlace

\* A tool call of the model is one tool_use block for the client.
ToolCallsStayWhole ==
    (way = "encode" /\ stopped) =>
        Len(SelectSeq(events, LAMBDA e : e.type = "start" /\ e.kind = "tool"))
            <= Cardinality({n \in DOMAIN parts : parts[n].kind = "tool"})
=============================================================================
