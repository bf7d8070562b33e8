---------------------------- MODULE MessagesTurns ---------------------------
(***************************************************************************)
(* A conversation whose turns are converted between Anthropic Messages and *)
(* the internal, OpenAI-shaped form: the request of an Anthropic or OpenAI *)
(* client on its way to an Anthropic provider, and the provider's reply on *)
(* its way back.  A turn is a sequence of blocks: text, image, thinking, a *)
(* use of a tool, the result of one.  Texts, arguments and generation      *)
(* options are left out: a block is its kind and its number.               *)
(***************************************************************************)
EXTENDS Naturals, SequencesExt, Subsequences

CONSTANTS MaxTurns, MaxBlocks   \* bounds: turns of the conversation, blocks of a turn

ASSUME TurnsAssumption == MaxTurns \in Nat /\ MaxBlocks \in Nat

VARIABLES
    client,    \* the protocol of the client
    history,   \* the turns as the client has them
    replies    \* the turns the provider has sent, by their place in history

turnVars == <<client, history, replies>>

Of(blocks, kinds) == Subsequence(blocks, {i \in DOMAIN blocks : blocks[i].kind \in kinds})
Opaque == {"thinking", "use"}

TurnsInit == client \in {"anthropic", "openai"} /\ history = <<>> /\ replies = <<>>

---------------------------------------------------------------------------
(* messages_request_to_internal: a turn becomes one message, or one for each *)
(* result of a tool and one for the text beside them.                        *)

Message(role, content, calls, opaque) ==
    [role |-> role, content |-> content, calls |-> calls, opaque |-> opaque]

\* The text beside the results goes first.
ResultMessagesTextFirst(turn) ==
    LET results == Of(turn.blocks, {"result"})
        texts == Of(turn.blocks, IF client = "anthropic" THEN {"text"} ELSE {"text", "image"})
    IN (IF texts = <<>> THEN <<>> ELSE <<Message("user", texts, <<>>, <<>>)>>)
       \o [i \in DOMAIN results |-> Message("tool", <<results[i]>>, <<>>, <<>>)]

ResultMessages(turn) ==
    LET results == Of(turn.blocks, {"result"})
        texts == Of(turn.blocks, IF client = "anthropic" THEN {"text"} ELSE {"text", "image"})
    IN [i \in DOMAIN results |-> Message("tool", <<results[i]>>, <<>>, <<>>)]
       \o (IF texts = <<>> THEN <<>> ELSE <<Message("user", texts, <<>>, <<>>)>>)

\* An OpenAI client has sent its messages in the internal form, which knows calls
\* but no opaque blocks.
Internal(turn) ==
    IF Of(turn.blocks, {"result"}) # <<>> THEN ResultMessages(turn)
    ELSE << Message(turn.role, Of(turn.blocks, {"text", "image"}), Of(turn.blocks, {"use"}),
                    IF client = "anthropic" THEN Of(turn.blocks, Opaque) ELSE <<>>) >>

Messages == FoldLeft(LAMBDA sent, turn : sent \o Internal(turn), <<>>, history)

(* internal_request_to_messages: results of tools wait until a message of      *)
(* another role comes and are then one user turn; opaque blocks, where there   *)
(* are any, are the whole assistant turn.                                      *)

Flush(acc) ==
    IF acc.pending = <<>> THEN acc
    ELSE [turns |-> Append(acc.turns, [role |-> "user", blocks |-> acc.pending]), pending |-> <<>>]

Turn(m) == [role |-> m.role, blocks |-> IF m.opaque # <<>> THEN m.opaque ELSE m.content \o m.calls]

Convert(acc, m) ==
    IF m.role = "tool" THEN [acc EXCEPT !.pending = @ \o m.content]
    ELSE LET flushed == Flush(acc) IN [flushed EXCEPT !.turns = Append(@, Turn(m))]

\* The turns the provider is sent.
Upstream == Flush(FoldLeft(Convert, [turns |-> <<>>, pending |-> <<>>], Messages)).turns

\* A reply on its way to the client: messages_response_to_internal keeps thinking
\* and uses as opaque blocks, and internal_result_to_messages sends only those
\* where there are any.  The turn an OpenAI client gets has text and calls.
Delivered(blocks) ==
    IF client = "openai" THEN Of(blocks, {"text"}) \o Of(blocks, {"use"})
    ELSE IF Of(blocks, Opaque) # <<>> THEN Of(blocks, Opaque) ELSE blocks

---------------------------------------------------------------------------
BlockOf(kind, i) == [kind |-> kind, n |-> MaxBlocks * Len(history) + i]

\* Who spoke last; before the first turn it is the client's to speak.
Speaker == IF history = <<>> THEN "nobody" ELSE Last(history).role

\* The results a client owes: one for each use of the last turn, in its order.
Owed ==
    IF Speaker # "assistant" THEN <<>>
    ELSE LET uses == Of(Last(history).blocks, {"use"})
         IN [i \in DOMAIN uses |-> [kind |-> "result", n |-> uses[i].n]]

\* The client speaks, with text or an image before or after the results.
UserTurn(before, after) ==
    /\ Len(history) < MaxTurns /\ Speaker # "user"
    /\ LET own(kinds, start) == [i \in DOMAIN kinds |-> BlockOf(kinds[i], start + i)]
           blocks == own(before, 0) \o Owed \o own(after, Len(before))
       IN blocks # <<>> /\ history' = Append(history, [role |-> "user", blocks |-> blocks])
    /\ UNCHANGED <<client, replies>>

\* The provider answers; its reply, converted or as it is, becomes the client's
\* next turn.
Reply(kinds) ==
    /\ Len(history) < MaxTurns /\ Speaker = "user"
    /\ LET blocks == [i \in DOMAIN kinds |-> BlockOf(kinds[i], i)]
       IN /\ \E shown \in {Delivered(blocks)} \cup (IF client = "anthropic" THEN {blocks} ELSE {}) :
                history' = Append(history, [role |-> "assistant", blocks |-> shown])
          /\ replies' = Append(replies, blocks)
    /\ UNCHANGED client

TurnsNext ==
    \/ \E before, after \in BoundedSeq({"text", "image"}, 1) : UserTurn(before, after)
    \/ \E kinds \in BoundedSeq({"text", "thinking", "use"}, MaxBlocks) :
          kinds # <<>> /\ Reply(kinds)

TurnsSpec == TurnsInit /\ [][TurnsNext]_turnVars

---------------------------------------------------------------------------
(* Properties. *)

AssistantTurns(turns) ==
    Subsequence(turns, {i \in DOMAIN turns : turns[i].role = "assistant"})

Uses(blocks)    == {b.n : b \in ToSet(Of(blocks, {"use"}))}
Answered(blocks) == {b.n : b \in ToSet(Of(blocks, {"result"}))}

\* However a conversation goes, the provider finds the results of an assistant
\* turn's tools in the very next turn, all of them, in a turn of their own, and
\* no result anywhere else.
ResultsFollowTheirUses ==
    \A i \in DOMAIN Upstream :
        LET before == IF i = 1 THEN {} ELSE Uses(Upstream[i - 1].blocks)
        IN /\ Answered(Upstream[i].blocks) = before
           /\ before # {} => Uses(Upstream[i].blocks) = {} /\ Of(Upstream[i].blocks, {"text"}) = <<>>

\* The provider gets back each use of a tool it made, and from an Anthropic client
\* each thought, in the order it made them.
OwnBlocksComeBack ==
    LET mine  == IF client = "anthropic" THEN Opaque ELSE {"use"}
        turns == AssistantTurns(Upstream)
    IN /\ Len(turns) = Len(replies)
       /\ \A i \in DOMAIN turns : Of(turns[i].blocks, mine) = Of(replies[i], mine)

\* A conversation with tools survives the way to the inner form and back, from
\* each kind of client and however it goes on.
ConversationComesBack == ResultsFollowTheirUses /\ OwnBlocksComeBack

\* An assistant turn comes back as it was sent, its text included.
TurnsComeBack ==
    LET turns == AssistantTurns(Upstream)
    IN client = "anthropic" => \A i \in DOMAIN turns : turns[i].blocks = replies[i]
=============================================================================
