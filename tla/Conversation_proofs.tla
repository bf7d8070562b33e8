------------------------- MODULE Conversation_proofs -------------------------
(***************************************************************************)
(* A conversation survives the way to the inner form and back, from each   *)
(* kind of client, for any number of turns and of blocks in a turn.        *)
(*                                                                         *)
(* The conversion is two folds over the whole history.  Both are shown to  *)
(* be the folds of FoldTheorems, so that a further turn only adds its own  *)
(* messages to what has been converted, and the invariant is about what    *)
(* the provider would be sent now.                                         *)
(***************************************************************************)
EXTENDS MessagesTurns, FoldTheorems, TLAPS

-----------------------------------------------------------------------------
(* The blocks of the wanted kinds are a subsequence that keeps its order under
   concatenation. *)

Block == [kind : {"text", "image", "thinking", "use", "result"}, n : Nat]
OfKind(kinds) == {b \in Block : b.kind \in kinds}
HasOnly(blocks, kinds) == \A i \in DOMAIN blocks : blocks[i].kind \in kinds

LEMMA OfIsKept ==
  ASSUME NEW s \in Seq(Block), NEW kinds PROVE Of(s, kinds) = Kept(s, OfKind(kinds))
<1> DEFINE I == {i \in DOMAIN s : s[i].kind \in kinds}
           J == {i \in DOMAIN s : s[i] \in OfKind(kinds)}
<1>1. \A i \in DOMAIN s : s[i] \in Block OBVIOUS
<1>2. I = J BY <1>1, Zenon DEF OfKind
<1> QED BY <1>2 DEF Of, Kept

LEMMA OfType ==
  ASSUME NEW s \in Seq(Block), NEW kinds
  PROVE  Of(s, kinds) \in Seq(Block) /\ HasOnly(Of(s, kinds), kinds)
<1> DEFINE K == OfKind(kinds)
           t == Kept(s, K)
<1>1. t \in Seq(Block) BY KeptType
<1>2. Range(t) = Range(s) \cap K BY KeptElements
<1>3. Of(s, kinds) = t BY OfIsKept
<1> HIDE DEF t
<1>4. \A i \in DOMAIN t : t[i] \in K BY <1>2 DEF Range
<1> QED BY <1>1, <1>3, <1>4 DEF HasOnly, OfKind

LEMMA OfConcat ==
  ASSUME NEW s \in Seq(Block), NEW t \in Seq(Block), NEW kinds
  PROVE  s \o t \in Seq(Block) /\ Of(s \o t, kinds) = Of(s, kinds) \o Of(t, kinds)
<1>1. s \o t \in Seq(Block) BY ConcatProperties
<1>2. Of(s, kinds) = Kept(s, OfKind(kinds)) BY OfIsKept
<1>3. Of(t, kinds) = Kept(t, OfKind(kinds)) BY OfIsKept
<1> DEFINE u == s \o t
<1>4. u \in Seq(Block) BY <1>1
<1>5. Kept(u, OfKind(kinds)) = Kept(s, OfKind(kinds)) \o Kept(t, OfKind(kinds)) BY KeptConcat
<1> HIDE DEF u
<1>6. Of(u, kinds) = Kept(u, OfKind(kinds)) BY <1>4, OfIsKept
<1>7. Of(u, kinds) = Of(s, kinds) \o Of(t, kinds) BY <1>2, <1>3, <1>5, <1>6
<1> QED BY <1>4, <1>7 DEF u

LEMMA OfOf ==
  ASSUME NEW s \in Seq(Block), NEW kinds, NEW others
  PROVE  Of(Of(s, kinds), others) = Of(s, kinds \cap others)
<1> DEFINE u == Of(s, kinds)
<1>1. u \in Seq(Block) BY OfType
<1>2. u = Kept(s, OfKind(kinds)) BY OfIsKept
<1> HIDE DEF u
<1>3. Of(u, others) = Kept(u, OfKind(others)) BY <1>1, OfIsKept
<1>4. Kept(Kept(s, OfKind(kinds)), OfKind(others)) = Kept(s, OfKind(kinds) \cap OfKind(others))
  BY KeptKept
<1>5. Of(s, kinds \cap others) = Kept(s, OfKind(kinds \cap others)) BY OfIsKept
<1>6. OfKind(kinds) \cap OfKind(others) = OfKind(kinds \cap others) BY DEF OfKind
<1> QED BY <1>2, <1>3, <1>4, <1>5, <1>6 DEF u

LEMMA OfNone ==
  ASSUME NEW s, NEW kinds, NEW others, HasOnly(s, others), kinds \cap others = {}
  PROVE  Of(s, kinds) = <<>>
<1>1. {i \in DOMAIN s : s[i].kind \in kinds} = {} BY DEF HasOnly
<1> QED BY <1>1, SubEmpty DEF Of

LEMMA OfAll ==
  ASSUME NEW s \in Seq(Block), NEW kinds, HasOnly(s, kinds) PROVE Of(s, kinds) = s
<1>1. {i \in DOMAIN s : s[i].kind \in kinds} = DOMAIN s BY DEF HasOnly
<1> QED BY <1>1, SubWhole DEF Of

(* Numbers of blocks. *)

LEMMA Numbers ==
  /\ \A s, t : Of(s, {"use"}) = Of(t, {"use"}) => Uses(s) = Uses(t)
  /\ \A s : Of(s, {"use"}) = <<>> => Uses(s) = {}
  /\ \A s, t : Of(s, {"result"}) = Of(t, {"result"}) => Answered(s) = Answered(t)
  /\ \A s : Of(s, {"result"}) = <<>> => Answered(s) = {}
<1>1. ToSet(<<>>) = {} BY DEF ToSet
<1> QED BY <1>1 DEF Uses, Answered

(* The turns the provider is sent, up to some place of the conversation. *)

TurnType == [role : {"user", "assistant"}, blocks : Seq(Block)]
LastUses(turns) == IF turns = <<>> THEN {} ELSE Uses(turns[Len(turns)].blocks)

\* A turn can follow one whose uses are U.
Follows(turn, U) ==
  /\ Answered(turn.blocks) = U
  /\ U # {} => Uses(turn.blocks) = {} /\ Of(turn.blocks, {"text"}) = <<>>

TurnsGood(turns) ==
  \A i \in DOMAIN turns :
    Follows(turns[i], IF i = 1 THEN {} ELSE Uses(turns[i - 1].blocks))

LEMMA GoodAppend ==
  ASSUME NEW turns \in Seq(TurnType), NEW turn \in TurnType,
         TurnsGood(turns), Follows(turn, LastUses(turns))
  PROVE  /\ Append(turns, turn) \in Seq(TurnType) /\ TurnsGood(Append(turns, turn))
         /\ LastUses(Append(turns, turn)) = Uses(turn.blocks)
<1> DEFINE t == Append(turns, turn)
           n == Len(turns)
<1>1. /\ n \in Nat /\ DOMAIN turns = 1 .. n /\ DOMAIN t = 1 .. n + 1 /\ Len(t) = n + 1
      /\ t \in Seq(TurnType)
  OBVIOUS
<1>2. (\A i \in 1 .. n : t[i] = turns[i]) /\ t[n + 1] = turn OBVIOUS
<1>3. n = 0 <=> turns = <<>> BY EmptySeq
<1>4. LastUses(turns) = IF n = 0 THEN {} ELSE Uses(turns[n].blocks) BY <1>3 DEF LastUses
<1>5. t # <<>> BY <1>1, EmptySeq
<1> HIDE DEF t
<1>6. LastUses(t) = Uses(turn.blocks) BY <1>1, <1>2, <1>5 DEF LastUses
<1>7. ASSUME NEW i \in DOMAIN t
      PROVE  Follows(t[i], IF i = 1 THEN {} ELSE Uses(t[i - 1].blocks))
  <2>1. CASE i = n + 1
    <3>1. t[i] = turn BY <1>2, <2>1
    <3>2. CASE n = 0 BY <1>4, <2>1, <3>1, <3>2
    <3>3. CASE n # 0
      <4>1. i # 1 /\ i - 1 = n /\ n \in 1 .. n BY <1>1, <2>1, <3>3
      <4>2. t[i - 1] = turns[n] BY <1>2, <4>1
      <4> QED BY <1>4, <3>1, <3>3, <4>1, <4>2
    <3> QED BY <3>2, <3>3
  <2>2. CASE i # n + 1
    <3>1. i \in 1 .. n /\ (i # 1 => i - 1 \in 1 .. n) BY <1>1, <2>2
    <3>2. t[i] = turns[i] /\ (i # 1 => t[i - 1] = turns[i - 1]) BY <1>2, <3>1
    <3>3. Follows(turns[i], IF i = 1 THEN {} ELSE Uses(turns[i - 1].blocks))
      BY <1>1, <3>1 DEF TurnsGood
    <3> QED BY <3>2, <3>3
  <2> QED BY <2>1, <2>2
<1> QED BY <1>1, <1>6, <1>7 DEF TurnsGood, t

(* The blocks of some kinds in the assistant's turns. *)

OwnBlocks(turns, kinds) ==
  LET own == AssistantTurns(turns) IN [i \in DOMAIN own |-> Of(own[i].blocks, kinds)]

Assistants == {x \in TurnType : x.role = "assistant"}

LEMMA OwnTyped ==
  ASSUME NEW s \in Seq(TurnType)
  PROVE  AssistantTurns(s) = Kept(s, Assistants) /\ AssistantTurns(s) \in Seq(TurnType)
<1>1. \A i \in DOMAIN s : s[i] \in TurnType OBVIOUS
<1>2. {i \in DOMAIN s : s[i].role = "assistant"} = {i \in DOMAIN s : s[i] \in Assistants}
  BY <1>1 DEF Assistants
<1>3. AssistantTurns(s) = Kept(s, Assistants) BY <1>2 DEF AssistantTurns, Kept
<1> QED BY <1>3, KeptType

LEMMA OwnAppend ==
  ASSUME NEW turns \in Seq(TurnType), NEW turn \in TurnType, NEW kinds
  PROVE  OwnBlocks(Append(turns, turn), kinds)
           = IF turn.role = "assistant" THEN Append(OwnBlocks(turns, kinds), Of(turn.blocks, kinds))
             ELSE OwnBlocks(turns, kinds)
<1> DEFINE K == Assistants
           t == Append(turns, turn)
<1>1. ASSUME NEW s \in Seq(TurnType) PROVE AssistantTurns(s) = Kept(s, K) BY OwnTyped
<1>2. t \in Seq(TurnType) OBVIOUS
<1>3. Kept(t, K) = IF turn \in K THEN Append(Kept(turns, K), turn) ELSE Kept(turns, K)
  BY KeptAppend
<1> DEFINE own == AssistantTurns(turns)
<1>4. own \in Seq(TurnType) BY OwnTyped
<1>5. AssistantTurns(t) = IF turn.role = "assistant" THEN Append(own, turn) ELSE own
  BY <1>1, <1>2, <1>3 DEF Assistants
<1> HIDE DEF t, own, K
<1>6. CASE turn.role # "assistant" BY <1>4, <1>5, <1>6 DEF OwnBlocks, own, t
<1>7. CASE turn.role = "assistant"
  <2> DEFINE n == Len(own)
             a == Append(own, turn)
             f == [i \in DOMAIN own |-> Of(own[i].blocks, kinds)]
             g == [i \in DOMAIN a |-> Of(a[i].blocks, kinds)]
             v == Of(turn.blocks, kinds)
  <2>1. n \in Nat /\ DOMAIN own = 1 .. n /\ DOMAIN a = 1 .. n + 1 BY <1>4
  <2>2. (\A i \in 1 .. n : a[i] = own[i]) /\ a[n + 1] = turn BY <1>4
  <2> HIDE DEF a, v, n
  <2>3. f = [i \in 1 .. n |-> Of(own[i].blocks, kinds)] BY <2>1
  <2>4. g = [i \in 1 .. n + 1 |-> Of(a[i].blocks, kinds)] BY <2>1
  <2>5. (\A i \in 1 .. n : g[i] = f[i]) /\ g[n + 1] = v BY <2>1, <2>2, <2>3, <2>4 DEF v
  <2> HIDE DEF f, g
  <2>6. Len(f) = n /\ f = [i \in 1 .. n |-> f[i]] BY <2>1, <2>3
  <2>7. Append(f, v) = [i \in 1 .. n + 1 |-> IF i = n + 1 THEN v ELSE f[i]] BY <2>6, <2>1
  <2>8. g = Append(f, v)
    <3>1. ASSUME NEW i \in 1 .. n + 1
          PROVE  Of(a[i].blocks, kinds) = IF i = n + 1 THEN v ELSE f[i]
      <4>1. CASE i = n + 1 BY <2>2, <4>1 DEF v
      <4>2. CASE i # n + 1
        <5>1. i \in 1 .. n BY <2>1, <4>2
        <5>2. g[i] = Of(a[i].blocks, kinds) BY <2>4
        <5> QED BY <2>5, <4>2, <5>1, <5>2
      <4> QED BY <4>1, <4>2
    <3> QED BY <2>4, <2>7, <3>1, Zenon
  <2>9. OwnBlocks(turns, kinds) = f BY DEF OwnBlocks, f, own
  <2>10. OwnBlocks(t, kinds) = g BY <1>5, <1>7 DEF OwnBlocks, g, a
  <2>11. own = AssistantTurns(turns) BY DEF own
  <2> QED BY <1>4, <1>7, <2>8, <2>9, <2>10, <2>11 DEF v, t
<1> QED BY <1>4, <1>6, <1>7 DEF own

(* The conversion, as a fold that can be reasoned about. *)

Msg == [role : {"user", "assistant", "tool"}, content : Seq(Block), calls : Seq(Block),
        opaque : Seq(Block)]
Acc == [turns : Seq(TurnType), pending : Seq(Block)]
Start == [turns |-> <<>>, pending |-> <<>>]

ConvertStep == [p \in Acc \X Msg |-> Convert(p[1], p[2])]

LEMMA FlushTyped == ASSUME NEW acc \in Acc PROVE Flush(acc) \in Acc
<1> DEFINE turn == [role |-> "user", blocks |-> acc.pending]
<1>1. turn \in TurnType BY DEF TurnType, Acc
<1>2. Append(acc.turns, turn) \in Seq(TurnType) BY <1>1 DEF Acc
<1>3. <<>> \in Seq(Block) OBVIOUS
<1> QED BY <1>2, <1>3 DEF Flush, Acc

LEMMA ConvertTyped ==
  ASSUME NEW acc \in Acc, NEW m \in Msg
  PROVE  /\ Flush(acc) \in Acc /\ (m.role # "tool" => Turn(m) \in TurnType)
         /\ Convert(acc, m) \in Acc /\ ConvertStep[<<acc, m>>] = Convert(acc, m)
<1>1. Flush(acc) \in Acc BY FlushTyped
<1>2. m.role # "tool" => Turn(m) \in TurnType
  <2>1. m.content \o m.calls \in Seq(Block) BY ConcatProperties DEF Msg
  <2> QED BY <2>1 DEF Turn, TurnType, Msg
<1>3. Convert(acc, m) \in Acc
  <2>1. acc.pending \o m.content \in Seq(Block) BY ConcatProperties DEF Acc, Msg
  <2>2. CASE m.role = "tool" BY <2>1, <2>2 DEF Convert, Acc
  <2>3. CASE m.role # "tool"
    <3> DEFINE f == Flush(acc)
    <3>1. f \in Acc BY <1>1
    <3> HIDE DEF f
    <3>2. Append(f.turns, Turn(m)) \in Seq(TurnType) BY <1>2, <2>3, <3>1 DEF Acc
    <3>3. Convert(acc, m) = [f EXCEPT !.turns = Append(@, Turn(m))] BY <2>3 DEF Convert, f
    <3> QED BY <3>1, <3>2, <3>3 DEF Acc
  <2> QED BY <2>2, <2>3
<1> QED BY <1>1, <1>2, <1>3 DEF ConvertStep

LEMMA MaxIsLast ==
  ASSUME NEW I, IsFiniteSet(I), I \subseteq Nat, I # {} PROVE Max(I) = LastOf(I)
<1>1. LastOf(I) \in I /\ \A k \in I : k <= LastOf(I) BY LastIn
<1>2. Max(I) \in I /\ \A k \in I : Max(I) >= k BY <1>1 DEF Max
<1> DEFINE l == LastOf(I)
           m == Max(I)
<1>3. l \in Nat /\ m \in Nat /\ l <= m /\ m <= l BY <1>1, <1>2
<1> HIDE DEF l, m
<1>4. l = m BY <1>3
<1> QED BY <1>4 DEF l, m

ConvertOne(base, s, g, J) == IF J = {} THEN base ELSE Convert(g[J \ {Max(J)}], s[Max(J)])
ConvertIter(base, s, I) == CHOOSE g : g = [J \in SUBSET I |-> ConvertOne(base, s, g, J)]

LEMMA ConvertFold ==
  ASSUME NEW s \in Seq(Msg), NEW base \in Acc
  PROVE  FoldLeft(Convert, base, s) = Folded(ConvertStep, base, s) /\ Folded(ConvertStep, base, s) \in Acc
<1> DEFINE I == DOMAIN s
           h == Folding(ConvertStep, base, s, I)
           f == [J \in SUBSET I |-> h[J]]
           e == ConvertIter(base, s, I)
<1>1. IsFiniteSet(I) /\ I \subseteq Nat BY Positions
<1>2. \A i \in I : s[i] \in Msg OBVIOUS
<1>3. FoldLeft(Convert, base, s) = e[I]
  BY DEF FoldLeft, MapThenFoldSet, ConvertIter, ConvertOne
<1>4. IsFold(ConvertStep, base, s, I, h) BY <1>1, FoldingIs
<1>5. \A J \in SUBSET I : h[J] \in Acc
  <2>1. Keeps(ConvertStep, base, s, I, Acc) BY <1>1, <1>2, ConvertTyped DEF Keeps
  <2> QED BY <2>1, FoldTyped
<1>6. Folded(ConvertStep, base, s) = h[I] BY DEF Folded
<1> HIDE DEF h, I
<1>7. ASSUME NEW J \in SUBSET I PROVE f[J] = ConvertOne(base, s, f, J)
  <2>1. CASE J = {} BY <1>4, <2>1 DEF IsFold, ConvertOne
  <2>2. CASE J # {}
    <3> DEFINE m == LastOf(J)
    <3>1. m \in J BY <1>1, <2>2, WithoutLastOf
    <3>2. h[J] = ConvertStep[<<h[J \ {m}], s[m]>>] BY <1>4, <2>2 DEF IsFold
    <3>3. Max(J) = m
      <4>1. IsFiniteSet(J) /\ J \subseteq Nat BY <1>1, FS_Subset
      <4> QED BY <2>2, <4>1, MaxIsLast
    <3> HIDE DEF m
    <3>4. h[J \ {m}] \in Acc /\ s[m] \in Msg BY <1>2, <1>5, <3>1
    <3>5. h[J] = Convert(h[J \ {m}], s[m]) BY <3>2, <3>4, ConvertTyped
    <3> QED BY <2>2, <3>3, <3>5 DEF ConvertOne
  <2> QED BY <2>1, <2>2
<1>8. f = [J \in SUBSET I |-> ConvertOne(base, s, f, J)]
  <2>1. f = [J \in SUBSET I |-> f[J]] OBVIOUS
  <2> HIDE DEF f
  <2> QED BY <1>7, <2>1
<1> HIDE DEF f
<1>9. e = [J \in SUBSET I |-> ConvertOne(base, s, e, J)] BY <1>8 DEF ConvertIter
<1> HIDE DEF e
<1>10. ASSUME NEW J \in SUBSET I PROVE e[J] = ConvertOne(base, s, e, J) BY <1>9
<1> DEFINE F == {J \in SUBSET I : e[J] = h[J]}
<1>11. {} \in F BY <1>4, <1>10 DEF IsFold, ConvertOne
<1>12. ASSUME NEW J \in SUBSET I, J # {}, \A x \in J : J \ {x} \in F PROVE J \in F
  <2> DEFINE m == LastOf(J)
  <2>1. m \in J BY <1>1, <1>12, WithoutLastOf
  <2>2. h[J] = ConvertStep[<<h[J \ {m}], s[m]>>] BY <1>4, <1>12 DEF IsFold
  <2>3. Max(J) = m
    <3>1. IsFiniteSet(J) /\ J \subseteq Nat BY <1>1, FS_Subset
    <3> QED BY <1>12, <3>1, MaxIsLast
  <2> HIDE DEF m
  <2>4. h[J \ {m}] \in Acc /\ s[m] \in Msg BY <1>2, <1>5, <2>1
  <2>5. h[J] = Convert(h[J \ {m}], s[m]) BY <2>2, <2>4, ConvertTyped
  <2>6. e[J] = Convert(e[J \ {m}], s[m]) BY <1>10, <1>12, <2>3 DEF ConvertOne
  <2> QED BY <1>12, <2>1, <2>5, <2>6
<1>13. SUBSET I \subseteq F
  <2> HIDE DEF F
  <2> QED BY <1>1, <1>11, <1>12, SubsetInduction
<1> QED BY <1>3, <1>5, <1>6, <1>13

(* The messages of a conversation, in the same way. *)

LEMMA ResultMessagesTyped ==
  ASSUME NEW turn \in TurnType
  PROVE  /\ ResultMessages(turn) \in Seq(Msg) /\ Internal(turn) \in Seq(Msg)
<1> DEFINE b == turn.blocks
           results == Of(b, {"result"})
           texts == Of(b, IF client = "anthropic" THEN {"text"} ELSE {"text", "image"})
           tools == [i \in DOMAIN results |-> Message("tool", <<results[i]>>, <<>>, <<>>)]
           rest == IF texts = <<>> THEN <<>> ELSE <<Message("user", texts, <<>>, <<>>)>>
<1>1. b \in Seq(Block) /\ turn.role \in {"user", "assistant"} BY DEF TurnType
<1>2. /\ results \in Seq(Block) /\ texts \in Seq(Block) /\ Of(b, {"text", "image"}) \in Seq(Block)
      /\ Of(b, {"use"}) \in Seq(Block) /\ Of(b, Opaque) \in Seq(Block)
  BY <1>1, OfType
<1>3. <<>> \in Seq(Block) OBVIOUS
<1>4. ResultMessages(turn) = tools \o rest BY DEF ResultMessages
<1>5. Internal(turn) = IF results # <<>> THEN ResultMessages(turn)
        ELSE << Message(turn.role, Of(b, {"text", "image"}), Of(b, {"use"}),
                        IF client = "anthropic" THEN Of(b, Opaque) ELSE <<>>) >>
  BY DEF Internal
<1> HIDE DEF b, results, texts
<1>6. tools \in Seq(Msg)
  <2>1. Len(results) \in Nat /\ DOMAIN results = 1 .. Len(results) BY <1>2
  <2>2. ASSUME NEW i \in DOMAIN results
        PROVE  Message("tool", <<results[i]>>, <<>>, <<>>) \in Msg
    <3>1. results[i] \in Block BY <1>2
    <3>2. <<results[i]>> \in Seq(Block) BY <3>1
    <3> QED BY <1>3, <3>2 DEF Message, Msg
  <2> QED BY <2>1, <2>2
<1>7. rest \in Seq(Msg)
  <2>1. Message("user", texts, <<>>, <<>>) \in Msg BY <1>2, <1>3 DEF Message, Msg
  <2> QED BY <2>1
<1> HIDE DEF tools, rest
<1>8. tools \o rest \in Seq(Msg) BY <1>6, <1>7, ConcatProperties
<1>9. Message(turn.role, Of(b, {"text", "image"}), Of(b, {"use"}),
              IF client = "anthropic" THEN Of(b, Opaque) ELSE <<>>) \in Msg
  BY <1>1, <1>2, <1>3 DEF Message, Msg
<1> QED BY <1>4, <1>5, <1>8, <1>9

MessagesStep == [p \in Seq(Msg) \X TurnType |-> p[1] \o Internal(p[2])]

LEMMA MessagesTyped ==
  ASSUME NEW sent \in Seq(Msg), NEW turn \in TurnType
  PROVE  /\ sent \o Internal(turn) \in Seq(Msg)
         /\ MessagesStep[<<sent, turn>>] = sent \o Internal(turn)
<1>1. sent \o Internal(turn) \in Seq(Msg) BY ResultMessagesTyped, ConcatProperties
<1> QED BY <1>1 DEF MessagesStep

MessagesOne(s, g, J) == IF J = {} THEN <<>> ELSE g[J \ {Max(J)}] \o Internal(s[Max(J)])
MessagesIter(s, I) == CHOOSE g : g = [J \in SUBSET I |-> MessagesOne(s, g, J)]

LEMMA MessagesFold ==
  ASSUME history \in Seq(TurnType)
  PROVE  Messages = Folded(MessagesStep, <<>>, history) /\ Messages \in Seq(Msg)
<1> DEFINE I == DOMAIN history
           h == Folding(MessagesStep, <<>>, history, I)
           f == [J \in SUBSET I |-> h[J]]
           e == MessagesIter(history, I)
<1>1. IsFiniteSet(I) /\ I \subseteq Nat BY Positions
<1>2. \A i \in I : history[i] \in TurnType OBVIOUS
<1>3. Messages = e[I] BY DEF Messages, FoldLeft, MapThenFoldSet, MessagesIter, MessagesOne
<1>4. IsFold(MessagesStep, <<>>, history, I, h) BY <1>1, FoldingIs
<1>5. \A J \in SUBSET I : h[J] \in Seq(Msg)
  <2>0. \A i \in I : \A a \in Seq(Msg) : MessagesStep[<<a, history[i]>>] \in Seq(Msg)
    <3> SUFFICES ASSUME NEW i \in I, NEW a \in Seq(Msg)
                 PROVE  MessagesStep[<<a, history[i]>>] \in Seq(Msg)
      OBVIOUS
    <3>1. history[i] \in TurnType BY <1>2
    <3> QED BY <3>1, MessagesTyped
  <2>1. Keeps(MessagesStep, <<>>, history, I, Seq(Msg))
    <3>1. <<>> \in Seq(Msg) OBVIOUS
    <3> QED BY <1>1, <2>0, <3>1 DEF Keeps
  <2> QED BY <2>1, FoldTyped
<1>6. Folded(MessagesStep, <<>>, history) = h[I] BY DEF Folded
<1> HIDE DEF h, I
<1>7. ASSUME NEW J \in SUBSET I PROVE f[J] = MessagesOne(history, f, J)
  <2>1. CASE J = {} BY <1>4, <2>1 DEF IsFold, MessagesOne
  <2>2. CASE J # {}
    <3> DEFINE m == LastOf(J)
    <3>1. m \in J BY <1>1, <2>2, WithoutLastOf
    <3>2. h[J] = MessagesStep[<<h[J \ {m}], history[m]>>] BY <1>4, <2>2 DEF IsFold
    <3>3. Max(J) = m
      <4>1. IsFiniteSet(J) /\ J \subseteq Nat BY <1>1, FS_Subset
      <4> QED BY <2>2, <4>1, MaxIsLast
    <3> HIDE DEF m
    <3>4. h[J \ {m}] \in Seq(Msg) /\ history[m] \in TurnType BY <1>2, <1>5, <3>1
    <3>5. h[J] = h[J \ {m}] \o Internal(history[m]) BY <3>2, <3>4, MessagesTyped
    <3> QED BY <2>2, <3>3, <3>5 DEF MessagesOne
  <2> QED BY <2>1, <2>2
<1>8. f = [J \in SUBSET I |-> MessagesOne(history, f, J)]
  <2>1. f = [J \in SUBSET I |-> f[J]] OBVIOUS
  <2> HIDE DEF f
  <2> QED BY <1>7, <2>1
<1> HIDE DEF f
<1>9. e = [J \in SUBSET I |-> MessagesOne(history, e, J)] BY <1>8 DEF MessagesIter
<1> HIDE DEF e
<1>10. ASSUME NEW J \in SUBSET I PROVE e[J] = MessagesOne(history, e, J) BY <1>9
<1> DEFINE F == {J \in SUBSET I : e[J] = h[J]}
<1>11. {} \in F BY <1>4, <1>10 DEF IsFold, MessagesOne
<1>12. ASSUME NEW J \in SUBSET I, J # {}, \A x \in J : J \ {x} \in F PROVE J \in F
  <2> DEFINE m == LastOf(J)
  <2>1. m \in J BY <1>1, <1>12, WithoutLastOf
  <2>2. h[J] = MessagesStep[<<h[J \ {m}], history[m]>>] BY <1>4, <1>12 DEF IsFold
  <2>3. Max(J) = m
    <3>1. IsFiniteSet(J) /\ J \subseteq Nat BY <1>1, FS_Subset
    <3> QED BY <1>12, <3>1, MaxIsLast
  <2> HIDE DEF m
  <2>4. h[J \ {m}] \in Seq(Msg) /\ history[m] \in TurnType BY <1>2, <1>5, <2>1
  <2>5. h[J] = h[J \ {m}] \o Internal(history[m]) BY <2>2, <2>4, MessagesTyped
  <2>6. e[J] = e[J \ {m}] \o Internal(history[m]) BY <1>10, <1>12, <2>3 DEF MessagesOne
  <2> QED BY <1>12, <2>1, <2>5, <2>6
<1>13. SUBSET I \subseteq F
  <2> HIDE DEF F
  <2> QED BY <1>1, <1>11, <1>12, SubsetInduction
<1> QED BY <1>3, <1>5, <1>6, <1>13

(* What has been converted of a conversation. *)

Converted(turns) == Folded(ConvertStep, Start, Folded(MessagesStep, <<>>, turns))

LEMMA UpstreamIs ==
  ASSUME history \in Seq(TurnType)
  PROVE  Converted(history) \in Acc /\ Upstream = Flush(Converted(history)).turns
<1> DEFINE s == Messages
<1>1. s = Folded(MessagesStep, <<>>, history) /\ s \in Seq(Msg) BY MessagesFold
<1>2. Start \in Acc BY DEF Start, Acc
<1>3. Upstream = Flush(FoldLeft(Convert, Start, s)).turns BY DEF Upstream, Start
<1> HIDE DEF s
<1>4. FoldLeft(Convert, Start, s) = Folded(ConvertStep, Start, s) /\ Folded(ConvertStep, Start, s) \in Acc
  BY <1>1, <1>2, ConvertFold
<1> QED BY <1>1, <1>3, <1>4 DEF Converted

(* What a further turn adds. *)

\* The blocks of its own that the provider is owed.
Mine == IF client = "anthropic" THEN Opaque ELSE {"use"}

LEMMA ConvertedStays ==
  ASSUME client' = client PROVE Converted(history)' = Converted(history') /\ Mine' = Mine
<1>1. MessagesStep' = MessagesStep BY DEF MessagesStep, Internal, ResultMessages
<1>2. Mine' = Mine BY DEF Mine
<1> QED BY <1>1, <1>2 DEF Converted

LEMMA ConvertedAppend ==
  ASSUME NEW turns \in Seq(TurnType), NEW turn \in TurnType
  PROVE  Converted(Append(turns, turn)) = Folded(ConvertStep, Converted(turns), Internal(turn))
<1> DEFINE before == Folded(MessagesStep, <<>>, turns)
           s == Internal(turn)
           t == Append(turns, turn)
<1>1. Folded(MessagesStep, <<>>, t) = MessagesStep[<<before, turn>>] BY FoldedAppend
<1>2. before \in Seq(Msg)
  <2> DEFINE I == DOMAIN turns
  <2>1. IsFiniteSet(I) /\ I \subseteq Nat BY Positions
  <2>2. ASSUME NEW i \in I, NEW a \in Seq(Msg) PROVE MessagesStep[<<a, turns[i]>>] \in Seq(Msg)
    <3>1. turns[i] \in TurnType OBVIOUS
    <3> QED BY <3>1, MessagesTyped
  <2>3. before = Folding(MessagesStep, <<>>, turns, I)[I] BY DEF Folded
  <2> HIDE DEF I, before
  <2>4. <<>> \in Seq(Msg) OBVIOUS
  <2>5. Keeps(MessagesStep, <<>>, turns, I, Seq(Msg)) BY <2>1, <2>2, <2>4 DEF Keeps
  <2> QED BY <2>3, <2>5, FoldTyped
<1>3. s \in Seq(Msg) BY ResultMessagesTyped
<1>4. Converted(turns) = Folded(ConvertStep, Start, before) BY DEF Converted
<1>5. Converted(t) = Folded(ConvertStep, Start, Folded(MessagesStep, <<>>, t)) BY DEF Converted
<1> HIDE DEF before, s, t
<1>6. MessagesStep[<<before, turn>>] = before \o s BY <1>2, MessagesTyped DEF s
<1>7. Folded(ConvertStep, Start, before \o s) = Folded(ConvertStep, Folded(ConvertStep, Start, before), s)
  BY <1>2, <1>3, FoldedConcat
<1> QED BY <1>1, <1>4, <1>5, <1>6, <1>7 DEF s, t

(* A single message that is not a result. *)
LEMMA OneMessage ==
  ASSUME NEW acc \in Acc, NEW m \in Msg, m.role # "tool"
  PROVE  /\ Folded(ConvertStep, acc, <<m>>) = [turns |-> Append(Flush(acc).turns, Turn(m)), pending |-> <<>>]
         /\ Flush(acc) \in Acc /\ Turn(m) \in TurnType
<1> DEFINE e == <<>>
<1>1. e \in Seq(Msg) /\ Append(e, m) = <<m>> OBVIOUS
<1>2. Folded(ConvertStep, acc, e) = acc BY FoldedEmpty
<1> HIDE DEF e
<1>3. Folded(ConvertStep, acc, Append(e, m)) = ConvertStep[<<Folded(ConvertStep, acc, e), m>>]
  BY <1>1, FoldedAppend
<1>4. Folded(ConvertStep, acc, <<m>>) = Convert(acc, m) BY <1>1, <1>2, <1>3, ConvertTyped
<1> DEFINE f == Flush(acc)
<1>5. f \in Acc /\ Turn(m) \in TurnType BY ConvertTyped
<1>6. f.pending = <<>> BY DEF Flush
<1>7. Convert(acc, m) = [f EXCEPT !.turns = Append(@, Turn(m))] BY DEF Convert
<1> HIDE DEF f
<1>8. Convert(acc, m) = [turns |-> Append(f.turns, Turn(m)), pending |-> <<>>]
  BY <1>5, <1>6, <1>7 DEF Acc
<1> QED BY <1>4, <1>5, <1>8 DEF f

LEMMA Except ==
  ASSUME NEW acc \in Acc, NEW p
  PROVE  [acc EXCEPT !.pending = p] = [turns |-> acc.turns, pending |-> p]
BY DEF Acc

(* Results of tools are collected. *)
Results(results) == [i \in DOMAIN results |-> Message("tool", <<results[i]>>, <<>>, <<>>)]

LEMMA Collected ==
  ASSUME NEW acc \in Acc, NEW results \in Seq(Block)
  PROVE  /\ Results(results) \in Seq(Msg)
         /\ Folded(ConvertStep, acc, Results(results)) = [acc EXCEPT !.pending = @ \o results]
<1> DEFINE P(r) == /\ Results(r) \in Seq(Msg)
                   /\ Folded(ConvertStep, acc, Results(r)) = [acc EXCEPT !.pending = @ \o r]
           N == {n \in Nat : \A r \in Seq(Block) : Len(r) = n => P(r)}
<1>0. acc.pending \in Seq(Block) /\ acc.turns \in Seq(TurnType)
      /\ acc = [turns |-> acc.turns, pending |-> acc.pending]
  BY DEF Acc
<1>1. 0 \in N
  <2> SUFFICES ASSUME NEW r \in Seq(Block), Len(r) = 0 PROVE P(r) OBVIOUS
  <2>1. r = <<>> BY EmptySeq
  <2>2. Results(r) = <<>> BY <2>1 DEF Results
  <2>3. acc.pending \o <<>> = acc.pending BY <1>0, ConcatEmptySeq
  <2>4. Folded(ConvertStep, acc, <<>>) = acc BY FoldedEmpty
  <2>5. [acc EXCEPT !.pending = @ \o r] = acc BY <1>0, <2>1, <2>3
  <2>6. <<>> \in Seq(Msg) OBVIOUS
  <2> QED BY <2>2, <2>4, <2>5, <2>6
<1>2. ASSUME NEW n \in Nat, n \in N PROVE n + 1 \in N
  <2> SUFFICES ASSUME NEW r \in Seq(Block), Len(r) = n + 1 PROVE P(r) OBVIOUS
  <2>1. PICK v \in Seq(Block), x \in Block : r = Append(v, x)
    <3>1. r # <<>> BY EmptySeq
    <3> QED BY <3>1, SequenceEmptyOrAppend
  <2>2. Len(v) = n
    <3>1. Len(r) = Len(v) + 1 /\ Len(v) \in Nat BY <2>1
    <3> QED BY <3>1
  <2>3. P(v) BY <1>2, <2>2
  <2> DEFINE w == Results(v)
             m == Message("tool", <<x>>, <<>>, <<>>)
             a == [acc EXCEPT !.pending = @ \o v]
  <2>4. Results(r) = Append(w, m)
    <3>1. DOMAIN r = 1 .. n + 1 /\ DOMAIN v = 1 .. n /\ r[n + 1] = x /\ \A i \in 1 .. n : r[i] = v[i]
      BY <2>1, <2>2
    <3>2. Results(r) = [i \in 1 .. n + 1 |-> Message("tool", <<r[i]>>, <<>>, <<>>)] BY <3>1 DEF Results
    <3>3. w = [i \in 1 .. n |-> Message("tool", <<v[i]>>, <<>>, <<>>)] BY <3>1 DEF Results
    <3> HIDE DEF w
    <3>4. Append(w, m) = [i \in 1 .. n + 1 |-> IF i = n + 1 THEN m ELSE w[i]] BY <3>3
    <3>5. ASSUME NEW i \in 1 .. n + 1
          PROVE  Message("tool", <<r[i]>>, <<>>, <<>>) = IF i = n + 1 THEN m ELSE w[i]
      <4>1. CASE i = n + 1 BY <3>1, <4>1
      <4>2. CASE i # n + 1
        <5>1. i \in 1 .. n BY <4>2
        <5> QED BY <3>1, <3>3, <4>2, <5>1
      <4> QED BY <4>1, <4>2
    <3> QED BY <3>2, <3>4, <3>5, Zenon
  <2>5. m \in Msg /\ m.role = "tool" /\ m.content = <<x>>
    <3>1. <<x>> \in Seq(Block) /\ <<>> \in Seq(Block) OBVIOUS
    <3> QED BY <3>1 DEF Message, Msg
  <2>6. a \in Acc /\ a.pending = acc.pending \o v /\ a.turns = acc.turns
    <3>1. acc.pending \o v \in Seq(Block) BY <1>0, ConcatProperties
    <3> QED BY <1>0, <3>1 DEF Acc
  <2>7. w \in Seq(Msg) /\ Folded(ConvertStep, acc, w) = a BY <2>3
  <2> HIDE DEF w, m, a
  <2>8. Folded(ConvertStep, acc, Append(w, m)) = ConvertStep[<<a, m>>] BY <2>5, <2>7, FoldedAppend
  <2>9. ConvertStep[<<a, m>>] = Convert(a, m) BY <2>5, <2>6, ConvertTyped
  <2>10. Convert(a, m) = [a EXCEPT !.pending = @ \o m.content] BY <2>5 DEF Convert
  <2>11. a.pending \o m.content = acc.pending \o r
    <3>1. (acc.pending \o v) \o <<x>> = acc.pending \o (v \o <<x>>) BY <1>0, ConcatAssociative
    <3>2. v \o <<x>> = r BY <2>1, AppendIsConcat
    <3> QED BY <2>5, <2>6, <3>1, <3>2
  <2>12. [a EXCEPT !.pending = @ \o m.content] = [turns |-> a.turns, pending |-> a.pending \o m.content]
    BY <2>6, Except
  <2>13. [acc EXCEPT !.pending = @ \o r] = [turns |-> acc.turns, pending |-> acc.pending \o r]
    BY Except
  <2>14. Folded(ConvertStep, acc, Results(r)) = [acc EXCEPT !.pending = @ \o r]
    BY <2>4, <2>6, <2>8, <2>9, <2>10, <2>11, <2>12, <2>13
  <2>15. Results(r) \in Seq(Msg) BY <2>4, <2>5, <2>7
  <2> QED BY <2>14, <2>15
<1>3. Nat \subseteq N
  <2> HIDE DEF N
  <2> QED BY <1>1, <1>2, SetInduction
<1>4. Len(results) \in N BY <1>3
<1> QED BY <1>4

(* A turn of the assistant. *)

LEMMA OfNothing == ASSUME NEW s PROVE Of(s, {}) = <<>>
<1>1. {i \in DOMAIN s : s[i].kind \in {}} = {} OBVIOUS
<1> QED BY <1>1, SubEmpty DEF Of

LEMMA OfFree ==
  ASSUME NEW kinds PROVE Of(<<>>, kinds) = <<>>
<1>1. {i \in DOMAIN <<>> : <<>>[i].kind \in kinds} = {} OBVIOUS
<1> QED BY <1>1, SubEmpty DEF Of

WholeMessage(turn) ==
  Message(turn.role, Of(turn.blocks, {"text", "image"}), Of(turn.blocks, {"use"}),
          IF client = "anthropic" THEN Of(turn.blocks, Opaque) ELSE <<>>)

LEMMA AssistantBlocks ==
  ASSUME NEW turn \in TurnType
  PROVE  /\ WholeMessage(turn) \in Msg /\ WholeMessage(turn).role = turn.role
         /\ Of(Turn(WholeMessage(turn)).blocks, Mine) = Of(turn.blocks, Mine)
         /\ Of(Turn(WholeMessage(turn)).blocks, {"use"}) = Of(turn.blocks, {"use"})
         /\ Of(Turn(WholeMessage(turn)).blocks, {"result"}) = <<>>
         /\ Turn(WholeMessage(turn)).role = turn.role
<1> DEFINE b == turn.blocks
           opaque == IF client = "anthropic" THEN Of(b, Opaque) ELSE <<>>
           m == WholeMessage(turn)
           out == Turn(m).blocks
<1>1. b \in Seq(Block) /\ turn.role \in {"user", "assistant"} BY DEF TurnType
<1>2. /\ Of(b, {"text", "image"}) \in Seq(Block) /\ Of(b, {"use"}) \in Seq(Block)
      /\ Of(b, Opaque) \in Seq(Block)
  BY <1>1, OfType
<1>3. <<>> \in Seq(Block) OBVIOUS
<1>4. m \in Msg /\ m.role = turn.role BY <1>1, <1>2, <1>3 DEF WholeMessage, Message, Msg
<1>5. out = IF opaque # <<>> THEN opaque ELSE Of(b, {"text", "image"}) \o Of(b, {"use"})
  BY DEF WholeMessage, Message, Turn
<1>6. Turn(m).role = turn.role BY <1>4 DEF Turn
<1> HIDE DEF b, m, out
<1>7. Opaque \cap Opaque = Opaque /\ Opaque \cap {"use"} = {"use"} /\ Opaque \cap {"result"} = {}
  BY DEF Opaque
<1>8. CASE opaque # <<>>
  <2>1. client = "anthropic" /\ out = Of(b, Opaque) /\ Mine = Opaque BY <1>5, <1>8 DEF Mine
  <2>2. /\ Of(out, Opaque) = Of(b, Opaque \cap Opaque)
        /\ Of(out, {"use"}) = Of(b, Opaque \cap {"use"})
        /\ Of(out, {"result"}) = Of(b, Opaque \cap {"result"})
    BY <1>1, <2>1, OfOf
  <2>3. Of(b, {}) = <<>> BY OfNothing
  <2> QED BY <1>4, <1>6, <1>7, <2>1, <2>2, <2>3 DEF b, m, out
<1>9. CASE opaque = <<>>
  <2> DEFINE both == Of(b, {"text", "image"}) \o Of(b, {"use"})
             none == <<>>
  <2>1. out = both BY <1>5, <1>9
  <2>2. /\ {"text", "image"} \cap {"use"} = {} /\ {"use"} \cap {"use"} = {"use"}
        /\ {"text", "image"} \cap {"result"} = {} /\ {"use"} \cap {"result"} = {}
        /\ {"text", "image"} \cap Opaque = {} /\ {"use"} \cap Opaque = {"use"}
    BY DEF Opaque
  <2>3. /\ Of(both, {"use"}) = Of(b, {"text", "image"} \cap {"use"}) \o Of(b, {"use"} \cap {"use"})
        /\ Of(both, {"result"}) = Of(b, {"text", "image"} \cap {"result"}) \o Of(b, {"use"} \cap {"result"})
        /\ Of(both, Opaque) = Of(b, {"text", "image"} \cap Opaque) \o Of(b, {"use"} \cap Opaque)
    <3>1. ASSUME NEW kinds
          PROVE  Of(both, kinds) = Of(b, {"text", "image"} \cap kinds) \o Of(b, {"use"} \cap kinds)
      <4> DEFINE s == Of(b, {"text", "image"})
                 u == Of(b, {"use"})
      <4>1. s \in Seq(Block) /\ u \in Seq(Block) BY <1>1, OfType
      <4>2. Of(s, kinds) = Of(b, {"text", "image"} \cap kinds) BY <1>1, OfOf
      <4>3. Of(u, kinds) = Of(b, {"use"} \cap kinds) BY <1>1, OfOf
      <4> HIDE DEF s, u
      <4>4. Of(s \o u, kinds) = Of(s, kinds) \o Of(u, kinds) BY <4>1, OfConcat
      <4> QED BY <4>2, <4>3, <4>4 DEF s, u
    <3> HIDE DEF both
    <3> QED BY <3>1
  <2>4. Of(b, {}) = none BY OfNothing
  <2>5. none \o Of(b, {"use"}) = Of(b, {"use"}) /\ none \o none = none BY <1>2, ConcatEmptySeq
  <2> HIDE DEF both
  <2>6. Of(both, {"use"}) = Of(b, {"use"}) /\ Of(both, {"result"}) = none /\ Of(both, Opaque) = Of(b, {"use"})
    BY <2>2, <2>3, <2>4, <2>5
  <2>7. Of(both, Mine) = Of(b, Mine)
    <3>1. CASE client = "anthropic"
      <4>1. Of(b, Opaque) = <<>> /\ Mine = Opaque BY <1>9, <3>1 DEF Mine
      <4>2. Of(Of(b, Opaque), {"use"}) = Of(b, {"use"}) BY <1>1, <1>7, OfOf
      <4>3. Of(b, {"use"}) = <<>> BY <4>1, <4>2, OfFree
      <4> QED BY <2>6, <4>1, <4>3
    <3>2. CASE client # "anthropic" BY <2>6, <3>2 DEF Mine
    <3> QED BY <3>1, <3>2
  <2> QED BY <1>4, <1>6, <2>1, <2>6, <2>7 DEF b, m, out
<1> QED BY <1>8, <1>9

LEMMA AssistantConverted ==
  ASSUME NEW acc \in Acc, NEW turn \in TurnType, turn.role = "assistant",
         Of(turn.blocks, {"result"}) = <<>>,
         TurnsGood(Flush(acc).turns), LastUses(Flush(acc).turns) = {}
  PROVE  LET new == Folded(ConvertStep, acc, Internal(turn))
         IN /\ new \in Acc /\ new.pending = <<>> /\ Flush(new) = new /\ TurnsGood(new.turns)
            /\ LastUses(new.turns) = Uses(turn.blocks)
            /\ OwnBlocks(new.turns, Mine) = Append(OwnBlocks(Flush(acc).turns, Mine), Of(turn.blocks, Mine))
<1> DEFINE m == WholeMessage(turn)
           out == Turn(m)
           sent == Flush(acc).turns
           new == Folded(ConvertStep, acc, Internal(turn))
<1>1. Internal(turn) = <<m>> BY DEF Internal, WholeMessage
<1>2. /\ m \in Msg /\ m.role = "assistant"
      /\ Of(out.blocks, Mine) = Of(turn.blocks, Mine) /\ Of(out.blocks, {"use"}) = Of(turn.blocks, {"use"})
      /\ Of(out.blocks, {"result"}) = <<>> /\ out.role = "assistant"
  BY AssistantBlocks
<1> HIDE DEF m
<1>3. m.role # "tool" BY <1>2
<1>4. /\ Folded(ConvertStep, acc, <<m>>) = [turns |-> Append(sent, out), pending |-> <<>>]
      /\ Flush(acc) \in Acc /\ out \in TurnType
  BY <1>2, <1>3, OneMessage
<1>5. sent \in Seq(TurnType) BY <1>4 DEF Acc
<1>6. new = [turns |-> Append(sent, out), pending |-> <<>>] BY <1>1, <1>4
<1>7. TurnsGood(sent) /\ LastUses(sent) = {} OBVIOUS
<1> HIDE DEF out, sent, new
<1>8. Follows(out, {}) BY <1>2, Numbers DEF Follows
<1>9. /\ Append(sent, out) \in Seq(TurnType) /\ TurnsGood(Append(sent, out))
      /\ LastUses(Append(sent, out)) = Uses(out.blocks)
  BY <1>4, <1>5, <1>7, <1>8, GoodAppend
<1>10. Uses(out.blocks) = Uses(turn.blocks) BY <1>2, Numbers
<1>11. OwnBlocks(Append(sent, out), Mine) = Append(OwnBlocks(sent, Mine), Of(turn.blocks, Mine))
  <2> DEFINE kinds == Mine
  <2> HIDE DEF kinds
  <2>1. OwnBlocks(Append(sent, out), kinds) = Append(OwnBlocks(sent, kinds), Of(out.blocks, kinds))
    BY <1>2, <1>4, <1>5, OwnAppend
  <2> QED BY <1>2, <2>1 DEF kinds
<1>12. new \in Acc /\ new.pending = <<>> /\ Flush(new) = new /\ new.turns = Append(sent, out)
  <2>1. <<>> \in Seq(Block) OBVIOUS
  <2> QED BY <1>6, <1>9, <2>1 DEF Acc, Flush
<1> QED BY <1>9, <1>10, <1>11, <1>12 DEF new, sent

(* A turn of the user. *)

LEMMA UserConverted ==
  ASSUME NEW acc \in Acc, acc.pending = <<>>, NEW turn \in TurnType, turn.role = "user",
         HasOnly(turn.blocks, {"text", "image", "result"}),
         TurnsGood(acc.turns), Answered(turn.blocks) = LastUses(acc.turns)
  PROVE  LET new == Folded(ConvertStep, acc, Internal(turn))
         IN /\ new \in Acc /\ TurnsGood(Flush(new).turns) /\ LastUses(Flush(new).turns) = {}
            /\ OwnBlocks(Flush(new).turns, Mine) = OwnBlocks(acc.turns, Mine)
<1> DEFINE b == turn.blocks
           new == Folded(ConvertStep, acc, Internal(turn))
<1>1. b \in Seq(Block) BY DEF TurnType
<1>2. acc.turns \in Seq(TurnType) /\ Flush(acc) = acc
      /\ acc = [turns |-> acc.turns, pending |-> <<>>]
  BY DEF Acc, Flush
<1>3. <<>> \in Seq(Block) OBVIOUS
<1>4. ASSUME NEW kinds, kinds \subseteq {"text", "image"}, NEW s \in Seq(TurnType),
             NEW more \in TurnType, more.role = "user", more.blocks = Of(b, kinds),
             TurnsGood(s), LastUses(s) = {}
      PROVE  /\ Append(s, more) \in Seq(TurnType) /\ TurnsGood(Append(s, more))
             /\ LastUses(Append(s, more)) = {} /\ OwnBlocks(Append(s, more), Mine) = OwnBlocks(s, Mine)
  <2>1. Of(Of(b, kinds), {"use"}) = Of(b, kinds \cap {"use"})
        /\ Of(Of(b, kinds), {"result"}) = Of(b, kinds \cap {"result"})
    BY <1>1, OfOf
  <2>2. kinds \cap {"use"} = {} /\ kinds \cap {"result"} = {} BY <1>4
  <2>3. Of(more.blocks, {"use"}) = <<>> /\ Of(more.blocks, {"result"}) = <<>>
    BY <1>4, <2>1, <2>2, OfNothing
  <2>4. Uses(more.blocks) = {} /\ Follows(more, {}) BY <2>3, Numbers DEF Follows
  <2>5. /\ Append(s, more) \in Seq(TurnType) /\ TurnsGood(Append(s, more))
        /\ LastUses(Append(s, more)) = Uses(more.blocks)
    BY <1>4, <2>4, GoodAppend
  <2>6. OwnBlocks(Append(s, more), Mine) = OwnBlocks(s, Mine)
    <3>1. more.role # "assistant" BY <1>4
    <3> QED BY <3>1, OwnAppend
  <2> QED BY <2>4, <2>5, <2>6
<1>5. CASE Of(b, {"result"}) = <<>>
  <2> DEFINE m == WholeMessage(turn)
             out == Turn(m)
  <2>1. Internal(turn) = <<m>> BY <1>5 DEF Internal, WholeMessage
  <2>2. m \in Msg /\ m.role = "user" /\ out.role = "user" BY AssistantBlocks
  <2>3. Of(b, {"use"}) = <<>> /\ Of(b, Opaque) = <<>>
    <3>1. {"use"} \cap {"text", "image", "result"} = {} /\ Opaque \cap {"text", "image", "result"} = {}
      BY DEF Opaque
    <3> QED BY <3>1, OfNone
  <2>4. Of(b, {"text", "image"}) \o <<>> = Of(b, {"text", "image"})
    <3>1. Of(b, {"text", "image"}) \in Seq(Block) BY <1>1, OfType
    <3> QED BY <3>1, ConcatEmptySeq
  <2>5. out.blocks = Of(b, {"text", "image"})
    BY <2>3, <2>4 DEF WholeMessage, Message, Turn
  <2> HIDE DEF m
  <2>6. m.role # "tool" BY <2>2
  <2>7. /\ Folded(ConvertStep, acc, <<m>>) = [turns |-> Append(Flush(acc).turns, out), pending |-> <<>>]
        /\ out \in TurnType
    BY <2>2, <2>6, OneMessage
  <2>8. new = [turns |-> Append(acc.turns, out), pending |-> <<>>] BY <1>2, <2>1, <2>7
  <2>9. LastUses(acc.turns) = {} BY <1>5, Numbers
  <2> HIDE DEF out, new
  <2>10. /\ Append(acc.turns, out) \in Seq(TurnType) /\ TurnsGood(Append(acc.turns, out))
         /\ LastUses(Append(acc.turns, out)) = {}
         /\ OwnBlocks(Append(acc.turns, out), Mine) = OwnBlocks(acc.turns, Mine)
    BY <1>2, <1>4, <2>2, <2>5, <2>7, <2>9
  <2>11. new \in Acc /\ Flush(new).turns = Append(acc.turns, out)
    BY <1>3, <2>8, <2>10 DEF Acc, Flush
  <2> QED BY <2>10, <2>11 DEF new
<1>6. CASE Of(b, {"result"}) # <<>>
  <2> DEFINE results == Of(b, {"result"})
             kinds == IF client = "anthropic" THEN {"text"} ELSE {"text", "image"}
             texts == Of(b, kinds)
             rest == IF texts = <<>> THEN <<>> ELSE <<Message("user", texts, <<>>, <<>>)>>
             a == [turns |-> acc.turns, pending |-> results]
             first == [role |-> "user", blocks |-> results]
             t == Append(acc.turns, first)
  <2>1. Internal(turn) = Results(results) \o rest BY <1>6 DEF Internal, ResultMessages, Results
  <2>2. results \in Seq(Block) /\ texts \in Seq(Block) BY <1>1, OfType
  <2>3. first \in TurnType BY <2>2 DEF TurnType
  <2>4. Follows(first, LastUses(acc.turns)) /\ Uses(results) = {}
    <3>1. /\ Of(results, {"result"}) = Of(b, {"result"} \cap {"result"})
          /\ Of(results, {"use"}) = Of(b, {"result"} \cap {"use"})
          /\ Of(results, {"text"}) = Of(b, {"result"} \cap {"text"})
      BY <1>1, OfOf
    <3>2. {"result"} \cap {"result"} = {"result"} /\ {"result"} \cap {"use"} = {}
          /\ {"result"} \cap {"text"} = {}
      OBVIOUS
    <3>3. Of(results, {"result"}) = Of(b, {"result"}) /\ Of(results, {"use"}) = <<>>
          /\ Of(results, {"text"}) = <<>>
      BY <3>1, <3>2, OfNothing
    <3>4. Answered(results) = LastUses(acc.turns) /\ Uses(results) = {} BY <3>3, Numbers
    <3> QED BY <3>3, <3>4 DEF Follows
  <2>5. t \in Seq(TurnType) /\ TurnsGood(t) /\ LastUses(t) = {}
        /\ OwnBlocks(t, Mine) = OwnBlocks(acc.turns, Mine)
    <3>1. first.role # "assistant" /\ first.blocks = results OBVIOUS
    <3> HIDE DEF first
    <3> QED BY <1>2, <2>3, <2>4, <3>1, GoodAppend, OwnAppend
  <2>6. a \in Acc /\ Flush(a).turns = t BY <1>2, <1>6, <2>2 DEF Acc, Flush
  <2>7. Folded(ConvertStep, acc, Results(results)) = a /\ Results(results) \in Seq(Msg)
    <3>1. /\ Results(results) \in Seq(Msg)
          /\ Folded(ConvertStep, acc, Results(results)) = [acc EXCEPT !.pending = @ \o results]
      BY <2>2, Collected
    <3>2. acc.pending \o results = results BY <2>2, ConcatEmptySeq
    <3> QED BY <3>1, <3>2, Except
  <2> DEFINE m == Message("user", texts, <<>>, <<>>)
  <2>8. m \in Msg /\ m.role # "tool" /\ Turn(m) = [role |-> "user", blocks |-> texts]
    <3>1. texts \o <<>> = texts BY <2>2, ConcatEmptySeq
    <3> QED BY <1>3, <2>2, <3>1 DEF Message, Msg, Turn
  <2>9. rest \in Seq(Msg) BY <2>8
  <2>10. new = Folded(ConvertStep, a, rest)
    <3> DEFINE w == Results(results)
    <3> HIDE DEF w, rest, a, new
    <3>1. Folded(ConvertStep, acc, w \o rest) = Folded(ConvertStep, Folded(ConvertStep, acc, w), rest)
      BY <2>7, <2>9, FoldedConcat DEF w
    <3> QED BY <2>1, <2>7, <3>1 DEF w, new
  <2>11. CASE texts = <<>>
    <3>1. rest = <<>> BY <2>11
    <3>2. new = a BY <2>10, <3>1, FoldedEmpty
    <3> HIDE DEF a, t, new
    <3> QED BY <2>5, <2>6, <3>2 DEF new
  <2>12. CASE texts # <<>>
    <3> DEFINE out == Turn(m)
    <3>1. rest = <<m>> BY <2>12
    <3>2. kinds \subseteq {"text", "image"} OBVIOUS
    <3>3. out.role = "user" /\ out.blocks = Of(b, kinds) BY <2>8
    <3> HIDE DEF m, a, t, new, rest, kinds, texts
    <3>4. /\ Folded(ConvertStep, a, <<m>>) = [turns |-> Append(Flush(a).turns, out), pending |-> <<>>]
          /\ out \in TurnType
      BY <2>6, <2>8, OneMessage
    <3>5. new = [turns |-> Append(t, out), pending |-> <<>>] BY <2>6, <2>10, <3>1, <3>4
    <3> HIDE DEF out
    <3>6. /\ Append(t, out) \in Seq(TurnType) /\ TurnsGood(Append(t, out))
          /\ LastUses(Append(t, out)) = {}
          /\ OwnBlocks(Append(t, out), Mine) = OwnBlocks(t, Mine)
      BY <1>4, <2>5, <3>2, <3>3, <3>4
    <3>7. new \in Acc /\ Flush(new).turns = Append(t, out)
      BY <1>3, <3>5, <3>6 DEF Acc, Flush
    <3> QED BY <2>5, <3>6, <3>7 DEF new
  <2> QED BY <2>11, <2>12
<1> QED BY <1>5, <1>6

(* A conversation. *)

TurnsInv ==
  /\ client \in {"anthropic", "openai"}
  /\ history \in Seq(TurnType) /\ replies \in Seq(Seq(Block))
  /\ LET acc == Converted(history)
         sent == Flush(acc).turns
     IN /\ TurnsGood(sent)
        /\ OwnBlocks(sent, Mine) = [i \in DOMAIN replies |-> Of(replies[i], Mine)]
        /\ Speaker = "assistant" => LastUses(sent) = Uses(Last(history).blocks)
        /\ Speaker # "assistant" => LastUses(sent) = {}
        /\ Speaker # "user" => acc.pending = <<>>

LEMMA BoundedIsSeq ==
  ASSUME NEW K, NEW n \in Nat, NEW kinds \in BoundedSeq(K, n) PROVE kinds \in Seq(K)
<1>1. PICK m \in 0 .. n : kinds \in [1 .. m -> K] BY DEF BoundedSeq, SeqOf
<1> QED BY <1>1

\* The blocks somebody makes of kinds.
Made(kinds, start) == [i \in DOMAIN kinds |-> BlockOf(kinds[i], start + i)]

LEMMA MadeTyped ==
  ASSUME history \in Seq(TurnType), NEW K, K \subseteq {"text", "image", "thinking", "use", "result"},
         NEW kinds \in Seq(K), NEW start \in Nat
  PROVE  Made(kinds, start) \in Seq(Block) /\ HasOnly(Made(kinds, start), K)
<1> DEFINE n == Len(kinds)
           l == Len(history)
<1>1. n \in Nat /\ DOMAIN kinds = 1 .. n /\ \A i \in 1 .. n : kinds[i] \in K OBVIOUS
<1>2. l \in Nat OBVIOUS
<1>3. MaxBlocks \in Nat BY TurnsAssumption DEF TurnsAssumption
<1>4. Made(kinds, start) = [i \in 1 .. n |-> BlockOf(kinds[i], start + i)] BY <1>1 DEF Made
<1> HIDE DEF n
<1>5. ASSUME NEW i \in 1 .. n PROVE BlockOf(kinds[i], start + i) \in Block
  <2> HIDE DEF l
  <2>1. MaxBlocks * l \in Nat BY <1>2, <1>3
  <2>2. MaxBlocks * l + (start + i) \in Nat BY <1>1, <2>1
  <2>3. kinds[i] \in {"text", "image", "thinking", "use", "result"} BY <1>1
  <2> QED BY <2>2, <2>3 DEF BlockOf, Block, l
<1>6. Made(kinds, start) \in Seq(Block) BY <1>1, <1>4, <1>5
<1>7. HasOnly(Made(kinds, start), K) BY <1>1, <1>4 DEF HasOnly, BlockOf
<1> QED BY <1>6, <1>7

LEMMA OwedTyped ==
  ASSUME history \in Seq(TurnType)
  PROVE  /\ Owed \in Seq(Block) /\ HasOnly(Owed, {"result"})
         /\ Answered(Owed) = IF Speaker = "assistant" THEN Uses(Last(history).blocks) ELSE {}
         /\ Speaker = "assistant" => Last(history) \in TurnType
<1>1. CASE Speaker # "assistant"
  <2>1. Owed = <<>> BY <1>1 DEF Owed
  <2>2. Of(Owed, {"result"}) = <<>> BY <2>1, OfFree
  <2>3. Answered(Owed) = {} BY <2>2, Numbers
  <2> QED BY <1>1, <2>1, <2>3 DEF HasOnly
<1>2. CASE Speaker = "assistant"
  <2> DEFINE turn == Last(history)
             uses == Of(turn.blocks, {"use"})
             n == Len(uses)
  <2>1. history # <<>> BY <1>2 DEF Speaker
  <2>2. turn \in TurnType
    <3>1. Len(history) \in Nat /\ Len(history) # 0 BY <2>1, EmptySeq
    <3>2. Len(history) \in DOMAIN history BY <3>1
    <3> QED BY <3>2 DEF Last
  <2>3. uses \in Seq(Block) BY <2>2, OfType DEF TurnType
  <2>4. Owed = [i \in DOMAIN uses |-> [kind |-> "result", n |-> uses[i].n]] BY <1>2 DEF Owed
  <2>5. Uses(turn.blocks) = {b.n : b \in ToSet(uses)} BY DEF Uses
  <2> HIDE DEF turn, uses
  <2>6. n \in Nat /\ DOMAIN uses = 1 .. n /\ \A i \in 1 .. n : uses[i] \in Block BY <2>3
  <2> HIDE DEF n
  <2>7. ASSUME NEW i \in 1 .. n PROVE [kind |-> "result", n |-> uses[i].n] \in Block
    <3>1. uses[i] \in Block BY <2>6
    <3>2. uses[i].n \in Nat BY <3>1 DEF Block
    <3> QED BY <3>2 DEF Block
  <2>8. Owed = [i \in 1 .. n |-> [kind |-> "result", n |-> uses[i].n]] BY <2>4, <2>6
  <2>9. Owed \in Seq(Block) BY <2>6, <2>7, <2>8
  <2>10. HasOnly(Owed, {"result"}) BY <2>8 DEF HasOnly
  <2>11. DOMAIN Owed = 1 .. n /\ \A i \in 1 .. n : Owed[i].n = uses[i].n BY <2>8
  <2>12. Of(Owed, {"result"}) = Owed BY <2>9, <2>10, OfAll
  <2>13. Answered(Owed) = {b.n : b \in ToSet(Owed)} BY <2>12 DEF Answered
  <2>14. {b.n : b \in ToSet(Owed)} = {b.n : b \in ToSet(uses)} BY <2>6, <2>11 DEF ToSet
  <2> QED BY <1>2, <2>2, <2>5, <2>9, <2>10, <2>13, <2>14 DEF turn
<1> QED BY <1>1, <1>2

LEMMA HasOnlyMore ==
  ASSUME NEW s, NEW j, NEW k, HasOnly(s, j), j \subseteq k PROVE HasOnly(s, k)
BY DEF HasOnly

LEMMA HasOnlyBoth ==
  ASSUME NEW s \in Seq(Block), NEW t \in Seq(Block), NEW k, HasOnly(s, k), HasOnly(t, k)
  PROVE  s \o t \in Seq(Block) /\ HasOnly(s \o t, k)
<1> DEFINE u == s \o t
<1>1. /\ u \in Seq(Block) /\ Len(u) = Len(s) + Len(t)
      /\ \A i \in 1 .. Len(u) : u[i] = IF i <= Len(s) THEN s[i] ELSE t[i - Len(s)]
  BY ConcatProperties
<1>2. /\ Len(s) \in Nat /\ Len(t) \in Nat /\ DOMAIN s = 1 .. Len(s) /\ DOMAIN t = 1 .. Len(t)
      /\ DOMAIN u = 1 .. Len(u)
  BY <1>1
<1> HIDE DEF u
<1>3. ASSUME NEW i \in DOMAIN u PROVE u[i].kind \in k
  <2>1. CASE i <= Len(s)
    <3>1. i \in DOMAIN s /\ u[i] = s[i] BY <1>1, <1>2, <2>1
    <3> QED BY <3>1 DEF HasOnly
  <2>2. CASE ~ (i <= Len(s))
    <3>1. i - Len(s) \in DOMAIN t /\ u[i] = t[i - Len(s)] BY <1>1, <1>2, <2>2
    <3> QED BY <3>1 DEF HasOnly
  <2> QED BY <2>1, <2>2
<1> QED BY <1>1, <1>3 DEF HasOnly, u

LEMMA UserBlocks ==
  ASSUME history \in Seq(TurnType),
         NEW before \in BoundedSeq({"text", "image"}, 1), NEW after \in BoundedSeq({"text", "image"}, 1)
  PROVE  LET blocks == Made(before, 0) \o Owed \o Made(after, Len(before))
         IN /\ blocks \in Seq(Block) /\ HasOnly(blocks, {"text", "image", "result"})
            /\ Answered(blocks) = IF Speaker = "assistant" THEN Uses(Last(history).blocks) ELSE {}
<1> DEFINE K == {"text", "image"}
           R == {"result"}
           A == {"text", "image", "result"}
           s == Made(before, 0)
           u == Made(after, Len(before))
           o == Owed
<1>1. before \in Seq(K) /\ after \in Seq(K) BY BoundedIsSeq
<1>2. Len(before) \in Nat /\ 0 \in Nat BY <1>1
<1>3. s \in Seq(Block) /\ u \in Seq(Block) /\ HasOnly(s, K) /\ HasOnly(u, K)
  <2>1. K \subseteq {"text", "image", "thinking", "use", "result"} OBVIOUS
  <2> HIDE DEF K
  <2> QED BY <1>1, <1>2, <2>1, MadeTyped
<1>4. o \in Seq(Block) /\ HasOnly(o, R)
      /\ Answered(o) = IF Speaker = "assistant" THEN Uses(Last(history).blocks) ELSE {}
  BY OwedTyped
<1>5. K \subseteq A /\ R \subseteq A /\ R \cap K = {} OBVIOUS
<1> HIDE DEF K, R, A, s, u, o
<1>6. HasOnly(s, A) /\ HasOnly(u, A) /\ HasOnly(o, A) BY <1>3, <1>4, <1>5, HasOnlyMore
<1>7. s \o o \in Seq(Block) /\ HasOnly(s \o o, A) BY <1>3, <1>4, <1>6, HasOnlyBoth
<1> DEFINE so == s \o o
<1>8. Of(so, R) = Of(s, R) \o Of(o, R) BY <1>3, <1>4, OfConcat
<1> HIDE DEF so
<1>9. so \in Seq(Block) /\ HasOnly(so, A) BY <1>7 DEF so
<1>10. so \o u \in Seq(Block) /\ HasOnly(so \o u, A) BY <1>3, <1>6, <1>9, HasOnlyBoth
<1>11. Of(so \o u, R) = Of(so, R) \o Of(u, R) BY <1>3, <1>9, OfConcat
<1>12. Of(s, R) = <<>> /\ Of(u, R) = <<>> BY <1>3, <1>5, OfNone
<1>13. Of(o, R) = o BY <1>4, OfAll
<1>14. <<>> \o o = o /\ o \o <<>> = o BY <1>4, ConcatEmptySeq
<1>15. Of(so \o u, R) = Of(o, R) BY <1>8, <1>11, <1>12, <1>13, <1>14
<1>16. Answered(so \o u) = Answered(o) BY <1>15, Numbers DEF R
<1> QED BY <1>4, <1>10, <1>16 DEF so, s, u, o, A

LEMMA TurnsInvInit == TurnsInit => TurnsInv
<1> SUFFICES ASSUME TurnsInit PROVE TurnsInv OBVIOUS
<1>1. history = <<>> /\ replies = <<>> /\ client \in {"anthropic", "openai"} BY DEF TurnsInit
<1>2. Converted(<<>>) = Start
  <2>1. Folded(MessagesStep, <<>>, <<>>) = <<>> BY FoldedEmpty
  <2>2. Folded(ConvertStep, Start, <<>>) = Start BY FoldedEmpty
  <2> QED BY <2>1, <2>2 DEF Converted
<1>3. Flush(Start) = Start /\ Start.turns = <<>> /\ Start.pending = <<>> BY DEF Flush, Start
<1>4. Speaker = "nobody" BY <1>1 DEF Speaker
<1>5. LastUses(<<>>) = {} /\ TurnsGood(<<>>) BY DEF LastUses, TurnsGood
<1>6. OwnBlocks(<<>>, Mine) = [i \in DOMAIN <<>> |-> Of(<<>>[i], Mine)]
  <2>1. AssistantTurns(<<>>) = <<>>
    <3>1. {i \in DOMAIN <<>> : <<>>[i].role = "assistant"} = {} OBVIOUS
    <3> QED BY <3>1, SubEmpty DEF AssistantTurns
  <2> QED BY <2>1 DEF OwnBlocks
<1> QED BY <1>1, <1>2, <1>3, <1>4, <1>5, <1>6 DEF TurnsInv

LEMMA SpeakerAfter ==
  ASSUME history \in Seq(TurnType), NEW CONSTANT turn \in TurnType, history' = Append(history, turn)
  PROVE  history' \in Seq(TurnType) /\ Speaker' = turn.role /\ Last(history)' = turn
<1> DEFINE h == history'
<1>1. h = Append(history, turn) OBVIOUS
<1>2. h \in Seq(TurnType) /\ Len(h) = Len(history) + 1 /\ Len(history) \in Nat /\ h[Len(history) + 1] = turn
  BY <1>1
<1> HIDE DEF h
<1>3. h # <<>> BY <1>2, EmptySeq
<1>4. Last(h) = turn BY <1>2 DEF Last
<1> QED BY <1>2, <1>3, <1>4 DEF h, Speaker

LEMMA UserTurnKeeps ==
  ASSUME TurnsInv, NEW before \in BoundedSeq({"text", "image"}, 1),
         NEW after \in BoundedSeq({"text", "image"}, 1), UserTurn(before, after)
  PROVE  TurnsInv'
<1> DEFINE blocks == Made(before, 0) \o Owed \o Made(after, Len(before))
           turn == [role |-> "user", blocks |-> blocks]
           acc == Converted(history)
           new == Folded(ConvertStep, acc, Internal(turn))
<1>1. history' = Append(history, turn) /\ Speaker # "user" /\ client' = client /\ replies' = replies
  BY DEF UserTurn, Made
<1>2. /\ history \in Seq(TurnType) /\ TurnsGood(Flush(acc).turns) /\ acc.pending = <<>>
      /\ OwnBlocks(Flush(acc).turns, Mine) = [i \in DOMAIN replies |-> Of(replies[i], Mine)]
      /\ Speaker = "assistant" => LastUses(Flush(acc).turns) = Uses(Last(history).blocks)
      /\ Speaker # "assistant" => LastUses(Flush(acc).turns) = {}
  BY <1>1 DEF TurnsInv
<1>3. Flush(acc) = acc BY <1>2 DEF Flush
<1>4. acc \in Acc BY <1>2, UpstreamIs
<1>5. /\ blocks \in Seq(Block) /\ HasOnly(blocks, {"text", "image", "result"})
      /\ Answered(blocks) = LastUses(acc.turns)
  <2>1. /\ blocks \in Seq(Block) /\ HasOnly(blocks, {"text", "image", "result"})
        /\ Answered(blocks) = IF Speaker = "assistant" THEN Uses(Last(history).blocks) ELSE {}
    BY <1>2, UserBlocks
  <2> HIDE DEF blocks, acc
  <2> QED BY <1>2, <1>3, <2>1
<1> HIDE DEF blocks, acc
<1>6. turn \in TurnType /\ turn.role = "user" /\ turn.blocks = blocks BY <1>5 DEF TurnType
<1> HIDE DEF turn
<1>7. /\ new \in Acc /\ TurnsGood(Flush(new).turns) /\ LastUses(Flush(new).turns) = {}
      /\ OwnBlocks(Flush(new).turns, Mine) = OwnBlocks(acc.turns, Mine)
  BY <1>2, <1>3, <1>4, <1>5, <1>6, UserConverted
<1>8. Converted(history)' = new /\ Mine' = Mine
  <2>1. Converted(Append(history, turn)) = new BY <1>2, <1>6, ConvertedAppend DEF acc
  <2> QED BY <1>1, <2>1, ConvertedStays
<1>9. history' \in Seq(TurnType) /\ Speaker' = "user" BY <1>1, <1>2, <1>6, SpeakerAfter
<1> HIDE DEF new
<1>10. OwnBlocks(Flush(new).turns, Mine) = [i \in DOMAIN replies |-> Of(replies[i], Mine)]
  BY <1>2, <1>3, <1>7
<1>11. client' \in {"anthropic", "openai"} /\ replies' \in Seq(Seq(Block)) BY <1>1 DEF TurnsInv
<1> QED BY <1>1, <1>7, <1>8, <1>9, <1>10, <1>11 DEF TurnsInv

LEMMA MineOf ==
  ASSUME client \in {"anthropic", "openai"}, NEW blocks \in Seq(Block),
         HasOnly(blocks, {"text", "thinking", "use"}),
         NEW shown \in {Delivered(blocks)} \cup (IF client = "anthropic" THEN {blocks} ELSE {})
  PROVE  /\ shown \in Seq(Block) /\ Of(shown, {"result"}) = <<>> /\ Of(shown, Mine) = Of(blocks, Mine)
<1>1. /\ {"result"} \cap {"text", "thinking", "use"} = {} /\ Opaque \cap {"result"} = {}
      /\ Opaque \cap Opaque = Opaque
  BY DEF Opaque
<1>2. Of(blocks, {"result"}) = <<>> BY <1>1, OfNone
<1>3. CASE shown = blocks BY <1>2, <1>3
<1>4. CASE shown = Of(blocks, Opaque) /\ client = "anthropic"
  <2>1. Of(shown, {"result"}) = Of(blocks, Opaque \cap {"result"}) /\ Of(shown, Opaque) = Of(blocks, Opaque \cap Opaque)
    BY <1>4, OfOf
  <2>2. Of(shown, {"result"}) = <<>> BY <1>1, <2>1, OfNothing
  <2>3. Mine = Opaque BY <1>4 DEF Mine
  <2>4. shown \in Seq(Block) BY <1>4, OfType
  <2> QED BY <1>1, <2>1, <2>2, <2>3, <2>4
<1>5. CASE client = "openai"
  <2> DEFINE s == Of(blocks, {"text"})
             u == Of(blocks, {"use"})
  <2>1. shown = s \o u BY <1>5 DEF Delivered
  <2>2. s \in Seq(Block) /\ u \in Seq(Block) BY OfType
  <2>3. ASSUME NEW kinds PROVE Of(s, kinds) = Of(blocks, {"text"} \cap kinds) BY OfOf
  <2>4. ASSUME NEW kinds PROVE Of(u, kinds) = Of(blocks, {"use"} \cap kinds) BY OfOf
  <2>5. /\ {"text"} \cap {"result"} = {} /\ {"use"} \cap {"result"} = {}
        /\ {"text"} \cap {"use"} = {} /\ {"use"} \cap {"use"} = {"use"}
    OBVIOUS
  <2>6. Of(blocks, {}) = <<>> BY OfNothing
  <2>7. Of(s, {"result"}) = <<>> /\ Of(u, {"result"}) = <<>> /\ Of(s, {"use"}) = <<>> /\ Of(u, {"use"}) = u
    BY <2>3, <2>4, <2>5, <2>6
  <2>8. u = Of(blocks, {"use"}) OBVIOUS
  <2> HIDE DEF s, u
  <2>9. Of(s \o u, {"result"}) = Of(s, {"result"}) \o Of(u, {"result"}) BY <2>2, OfConcat
  <2>12. Of(s \o u, {"use"}) = Of(s, {"use"}) \o Of(u, {"use"}) BY <2>2, OfConcat
  <2>13. s \o u \in Seq(Block) BY <2>2, OfConcat
  <2>10. <<>> \o u = u /\ <<>> \o <<>> = <<>> BY <2>2, ConcatEmptySeq
  <2>11. Mine = {"use"} BY <1>5 DEF Mine
  <2> QED BY <2>1, <2>7, <2>8, <2>9, <2>12, <2>13, <2>10, <2>11
<1> QED BY <1>3, <1>4, <1>5 DEF Delivered

LEMMA RepliesAppend ==
  ASSUME NEW r \in Seq(Seq(Block)), NEW blocks \in Seq(Block), NEW kinds
  PROVE  [i \in DOMAIN Append(r, blocks) |-> Of(Append(r, blocks)[i], kinds)]
           = Append([i \in DOMAIN r |-> Of(r[i], kinds)], Of(blocks, kinds))
<1> DEFINE n == Len(r)
           a == Append(r, blocks)
           f == [i \in DOMAIN r |-> Of(r[i], kinds)]
           v == Of(blocks, kinds)
<1>1. n \in Nat /\ DOMAIN r = 1 .. n /\ DOMAIN a = 1 .. n + 1 OBVIOUS
<1>2. (\A i \in 1 .. n : a[i] = r[i]) /\ a[n + 1] = blocks OBVIOUS
<1> HIDE DEF a, n
<1>3. f = [i \in 1 .. n |-> Of(r[i], kinds)] BY <1>1
<1> HIDE DEF f
<1>4. Append(f, v) = [i \in 1 .. n + 1 |-> IF i = n + 1 THEN v ELSE f[i]] BY <1>1, <1>3
<1>5. ASSUME NEW i \in 1 .. n + 1 PROVE Of(a[i], kinds) = IF i = n + 1 THEN v ELSE f[i]
  <2>1. CASE i = n + 1 BY <1>2, <2>1
  <2>2. CASE i # n + 1
    <3>1. i \in 1 .. n BY <1>1, <2>2
    <3> QED BY <1>2, <1>3, <2>2, <3>1
  <2> QED BY <2>1, <2>2
<1>6. [i \in 1 .. n + 1 |-> Of(a[i], kinds)] = Append(f, v) BY <1>4, <1>5, Zenon
<1> QED BY <1>1, <1>6 DEF a, f

LEMMA ReplyKeeps ==
  ASSUME TurnsInv, NEW kinds \in BoundedSeq({"text", "thinking", "use"}, MaxBlocks), Reply(kinds)
  PROVE  TurnsInv'
<1> DEFINE blocks == Made(kinds, 0)
           acc == Converted(history)
<1>1. /\ Speaker = "user" /\ client' = client /\ replies' = Append(replies, blocks)
      /\ \E shown \in {Delivered(blocks)} \cup (IF client = "anthropic" THEN {blocks} ELSE {}) :
            history' = Append(history, [role |-> "assistant", blocks |-> shown])
  <2>1. blocks = [i \in DOMAIN kinds |-> BlockOf(kinds[i], i)]
    <3>1. kinds \in Seq({"text", "thinking", "use"}) BY BoundedIsSeq, TurnsAssumption DEF TurnsAssumption
    <3>2. \A i \in DOMAIN kinds : 0 + i = i BY <3>1
    <3> QED BY <3>2 DEF Made
  <2> HIDE DEF blocks
  <2> QED BY <2>1 DEF Reply
<1>2. /\ history \in Seq(TurnType) /\ TurnsGood(Flush(acc).turns)
      /\ client \in {"anthropic", "openai"} /\ replies \in Seq(Seq(Block))
      /\ OwnBlocks(Flush(acc).turns, Mine) = [i \in DOMAIN replies |-> Of(replies[i], Mine)]
      /\ LastUses(Flush(acc).turns) = {}
  BY <1>1 DEF TurnsInv
<1>3. acc \in Acc BY <1>2, UpstreamIs
<1>4. blocks \in Seq(Block) /\ HasOnly(blocks, {"text", "thinking", "use"})
  <2> DEFINE K == {"text", "thinking", "use"}
  <2>1. kinds \in Seq(K) BY BoundedIsSeq, TurnsAssumption DEF TurnsAssumption
  <2>2. K \subseteq {"text", "image", "thinking", "use", "result"} OBVIOUS
  <2> HIDE DEF K
  <2>3. blocks \in Seq(Block) /\ HasOnly(blocks, K) BY <1>2, <2>1, <2>2, MadeTyped
  <2> QED BY <2>3 DEF K
<1> HIDE DEF blocks, acc
<1>5. PICK shown \in {Delivered(blocks)} \cup (IF client = "anthropic" THEN {blocks} ELSE {}) :
        history' = Append(history, [role |-> "assistant", blocks |-> shown])
  BY <1>1
<1> DEFINE turn == [role |-> "assistant", blocks |-> shown]
           new == Folded(ConvertStep, acc, Internal(turn))
<1>6. shown \in Seq(Block) /\ Of(shown, {"result"}) = <<>> /\ Of(shown, Mine) = Of(blocks, Mine)
  BY <1>2, <1>4, <1>5, MineOf
<1>7. turn \in TurnType /\ turn.role = "assistant" /\ turn.blocks = shown /\ history' = Append(history, turn)
  BY <1>5, <1>6 DEF TurnType
<1> HIDE DEF turn
<1>8. /\ new \in Acc /\ new.pending = <<>> /\ Flush(new) = new /\ TurnsGood(new.turns)
      /\ LastUses(new.turns) = Uses(shown)
      /\ OwnBlocks(new.turns, Mine) = Append(OwnBlocks(Flush(acc).turns, Mine), Of(shown, Mine))
  BY <1>2, <1>3, <1>6, <1>7, AssistantConverted
<1>9. Converted(history)' = new /\ Mine' = Mine
  <2>1. Converted(Append(history, turn)) = new BY <1>2, <1>7, ConvertedAppend DEF acc
  <2> QED BY <1>1, <1>7, <2>1, ConvertedStays
<1>10. history' \in Seq(TurnType) /\ Speaker' = "assistant" /\ Last(history)' = turn
  BY <1>2, <1>7, SpeakerAfter
<1>11. client' \in {"anthropic", "openai"} /\ replies' \in Seq(Seq(Block)) BY <1>1, <1>2, <1>4
<1> HIDE DEF new
<1>12. OwnBlocks(new.turns, Mine) = [i \in DOMAIN replies' |-> Of(replies'[i], Mine)]
  <2> DEFINE k == Mine
  <2> HIDE DEF k
  <2>1. [i \in DOMAIN Append(replies, blocks) |-> Of(Append(replies, blocks)[i], k)]
          = Append([i \in DOMAIN replies |-> Of(replies[i], k)], Of(blocks, k))
    BY <1>2, <1>4, RepliesAppend
  <2> QED BY <1>1, <1>2, <1>6, <1>8, <2>1 DEF k
<1> QED BY <1>7, <1>8, <1>9, <1>10, <1>11, <1>12 DEF TurnsInv

LEMMA TurnsInvStep == TurnsInv /\ [TurnsNext]_turnVars => TurnsInv'
<1> SUFFICES ASSUME TurnsInv, [TurnsNext]_turnVars PROVE TurnsInv' OBVIOUS
<1>1. ASSUME NEW before \in BoundedSeq({"text", "image"}, 1),
             NEW after \in BoundedSeq({"text", "image"}, 1), UserTurn(before, after)
      PROVE  TurnsInv'
  BY <1>1, UserTurnKeeps
<1>2. ASSUME NEW kinds \in BoundedSeq({"text", "thinking", "use"}, MaxBlocks), Reply(kinds)
      PROVE  TurnsInv'
  BY <1>2, ReplyKeeps
<1>3. CASE UNCHANGED turnVars
  <2>1. client' = client /\ history' = history /\ replies' = replies BY <1>3 DEF turnVars
  <2>2. Converted(history)' = Converted(history) /\ Mine' = Mine BY <2>1, ConvertedStays
  <2> QED BY <2>1, <2>2 DEF TurnsInv, Speaker
<1> QED BY <1>1, <1>2, <1>3 DEF TurnsNext

LEMMA ComesBack == TurnsInv => ConversationComesBack
<1> SUFFICES ASSUME TurnsInv PROVE ConversationComesBack OBVIOUS
<1> DEFINE sent == Flush(Converted(history)).turns
<1>1. /\ history \in Seq(TurnType) /\ replies \in Seq(Seq(Block)) /\ TurnsGood(sent)
      /\ OwnBlocks(sent, Mine) = [i \in DOMAIN replies |-> Of(replies[i], Mine)]
  BY DEF TurnsInv
<1>2. Upstream = sent /\ Converted(history) \in Acc BY <1>1, UpstreamIs
<1>3. sent \in Seq(TurnType) BY <1>2, FlushTyped DEF Acc
<1> HIDE DEF sent
<1>4. ResultsFollowTheirUses BY <1>1, <1>2 DEF ResultsFollowTheirUses, TurnsGood, Follows
<1>5. OwnBlocksComeBack
  <2> DEFINE own == AssistantTurns(sent)
  <2>1. own \in Seq(TurnType) BY <1>3, OwnTyped
  <2>2. [i \in DOMAIN own |-> Of(own[i].blocks, Mine)] = [i \in DOMAIN replies |-> Of(replies[i], Mine)]
    BY <1>1 DEF OwnBlocks
  <2> HIDE DEF own
  <2>3. DOMAIN own = DOMAIN replies /\ \A i \in DOMAIN own : Of(own[i].blocks, Mine) = Of(replies[i], Mine)
    BY <2>2, Zenon
  <2>4. Len(own) = Len(replies) BY <1>1, <2>1, <2>3
  <2> QED BY <1>2, <2>3, <2>4 DEF OwnBlocksComeBack, Mine, own
<1> QED BY <1>4, <1>5 DEF ConversationComesBack

(* For any number of turns and blocks, either kind of client and however it
   speaks: the provider finds the results right after the uses they answer, and
   the blocks it gave itself come back to it as they were
   (messages_protocol.py:328-534, 660-760). *)
THEOREM ConversationsComeBack == TurnsSpec => []ConversationComesBack
<1>1. TurnsInit => TurnsInv BY TurnsInvInit
<1>2. TurnsInv /\ [TurnsNext]_turnVars => TurnsInv' BY TurnsInvStep
<1>3. TurnsInv => ConversationComesBack BY ComesBack
<1> QED BY <1>1, <1>2, <1>3, PTL DEF TurnsSpec
==============================================================================
