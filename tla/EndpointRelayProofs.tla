-------------------------- MODULE EndpointRelayProofs --------------------------
(***************************************************************************)
(* Proofs about EndpointRelay, for answers of any length and any number of *)
(* tool calls.                                                             *)
(*                                                                         *)
(* Typed is TypeOK with what keeps the numbers of chunks in bounds.        *)
(* Closing says where an end of a stream stands and that it is there once  *)
(* the handler is past the SDK call: StreamTerminated.  Answering relates  *)
(* the wire, what the client read of it and what the handler remembers:    *)
(* chunks are written in order and no text is left out, the client has     *)
(* read up to some chunk, the handler remembers at least what was written: *)
(* TurnMatchesAnswer.  CallsApart is CallsKeptApart in two parts, over     *)
(* what mergeToolCallDeltas does to a list of calls (MergeEffect).         *)
(***************************************************************************)
EXTENDS EndpointRelay, SequenceTheorems, TLAPS

LEMMA AppendFacts ==
  ASSUME NEW S, NEW s \in Seq(S), NEW x \in S
  PROVE  /\ Append(s, x) \in Seq(S)
         /\ Len(Append(s, x)) = Len(s) + 1
         /\ DOMAIN Append(s, x) = 1..Len(s) + 1
         /\ \A i \in 1..Len(s) : Append(s, x)[i] = s[i]
         /\ Append(s, x)[Len(s) + 1] = x
  OBVIOUS

(* Numbers listed in order stay so when a larger one is appended.          *)
LEMMA ListGrows ==
  ASSUME NEW s \in Seq(Nat), NEW S \in SUBSET Nat, Lists(s, S), NEW n \in Nat, \A i \in S : i < n
  PROVE  Lists(Append(s, n), S \cup {n})
<1>1. /\ DOMAIN Append(s, n) = 1..Len(s) + 1 /\ DOMAIN s = 1..Len(s) /\ Len(s) \in Nat
      /\ \A i \in 1..Len(s) : Append(s, n)[i] = s[i]
      /\ Append(s, n)[Len(s) + 1] = n
  BY AppendFacts
<1>2. \A i \in 1..Len(s) : s[i] \in S
  BY <1>1 DEF Lists, Range
<1>3. Range(Append(s, n)) = S \cup {n}
  <2>1. Range(Append(s, n)) \subseteq S \cup {n}
    BY <1>1, <1>2 DEF Range
  <2>2. ASSUME NEW x \in S PROVE x \in Range(Append(s, n))
    <3>1. PICK i \in 1..Len(s) : s[i] = x
      BY <1>1 DEF Lists, Range
    <3> QED
      BY <1>1, <3>1 DEF Range
  <2>3. n \in Range(Append(s, n))
    BY <1>1 DEF Range
  <2> QED
    BY <2>1, <2>2, <2>3
<1>4. \A i, j \in 1..Len(s) + 1 : i < j => Append(s, n)[i] < Append(s, n)[j]
  <2> TAKE i, j \in 1..Len(s) + 1
  <2> HAVE i < j
  <2>1. i \in 1..Len(s)
    BY <1>1
  <2>2. CASE j \in 1..Len(s)
    BY <1>1, <2>1, <2>2 DEF Lists
  <2>3. CASE j = Len(s) + 1
    BY <1>1, <1>2, <2>1, <2>3
  <2> QED
    BY <1>1, <2>2, <2>3
<1> QED
  BY <1>1, <1>3, <1>4 DEF Lists

LEMMA NothingListed == Lists(<<>>, {})
  BY DEF Lists, Range
-----------------------------------------------------------------------------
(* What mergeToolCallDeltas does to the calls gathered so far.             *)
LEMMA MergedType ==
  ASSUME NEW call \in Call, NEW d \in Fragments, NEW n \in Positions
  PROVE  Merged(call, d, n) \in Call
<1>1. Append(call.args, n) \in Seq(Positions)
  BY AppendFacts DEF Call
<1>2. d.index \in NoIndex..MaxIndex /\ d.named \in BOOLEAN
  BY DEF Fragments
<1> QED
  BY <1>1, <1>2 DEF Merged, Call

LEMMA NoCallIsCall == NoCall \in Call
<1>1. NoIndex \in NoIndex..MaxIndex
  BY RelayAssumption DEF NoIndex
<1>2. 0 \in Positions
  BY RelayAssumption DEF Positions
<1> QED
  BY <1>1, <1>2, EmptySeq DEF NoCall, Call

LEMMA MergeEffect ==
  ASSUME NEW calls \in Seq(Call), NEW d \in Fragments, NEW n \in Positions, d.index # NoIndex
  PROVE  /\ MergeToolCallDeltas(calls, d, n) \in Seq(Call)
         /\ \A i \in Nat : CallAt(MergeToolCallDeltas(calls, d, n), i)
                 = IF i = d.index THEN Merged(CallAt(calls, i), d, n) ELSE CallAt(calls, i)
<1> DEFINE slot == d.index + 1
           k == IF slot > Len(calls) THEN slot - Len(calls) ELSE 0
           pad == [i \in 1..(slot - Len(calls)) |-> NoCall]
           padded == calls \o pad
           merged == [padded EXCEPT ![slot] = Merged(@, d, n)]
<1>1. d.index \in Nat /\ slot \in Nat /\ slot >= 1 /\ Len(calls) \in Nat /\ k \in Nat
  BY RelayAssumption DEF Fragments, NoIndex
<1>2. 1..(slot - Len(calls)) = 1..k
  BY <1>1
<1>3. pad \in Seq(Call) /\ Len(pad) = k
  <2>1. pad = [i \in 1..k |-> NoCall]
    BY <1>2
  <2> HIDE DEF pad, k
  <2> QED
    BY <1>1, <2>1, NoCallIsCall
<1>4. /\ padded \in Seq(Call) /\ Len(padded) = Len(calls) + k
      /\ \A i \in 1..Len(calls) : padded[i] = calls[i]
      /\ \A i \in Len(calls) + 1..Len(calls) + k : padded[i] = NoCall
  <2> HIDE DEF k
  <2>1. \A i \in 1..k : pad[i] = NoCall
    BY <1>2
  <2> HIDE DEF pad
  <2>2. /\ padded \in Seq(Call) /\ Len(padded) = Len(calls) + k
        /\ \A i \in 1..Len(calls) + k : padded[i] = IF i <= Len(calls) THEN calls[i] ELSE pad[i - Len(calls)]
    BY <1>1, <1>3, ConcatProperties
  <2> HIDE DEF padded
  <2>3. \A i \in Len(calls) + 1..Len(calls) + k : padded[i] = NoCall
    <3> TAKE i \in Len(calls) + 1..Len(calls) + k
    <3>1. i - Len(calls) \in 1..k /\ ~(i <= Len(calls)) /\ i \in 1..Len(calls) + k
      BY <1>1
    <3> QED
      BY <2>1, <2>2, <3>1
  <2> QED
    BY <1>1, <2>2, <2>3
<1>5. slot \in 1..Len(calls) + k
  BY <1>1
<1> HIDE DEF k, padded
<1>6. padded[slot] = CallAt(calls, d.index)
  BY <1>1, <1>4, <1>5 DEF CallAt
<1>7. padded[slot] \in Call
  BY <1>4, <1>5, <1>1
<1>8. Merged(padded[slot], d, n) \in Call
  BY <1>7, MergedType
<1>9. /\ merged \in Seq(Call) /\ Len(merged) = Len(calls) + k
      /\ merged[slot] = Merged(padded[slot], d, n)
      /\ \A i \in 1..Len(calls) + k : i # slot => merged[i] = padded[i]
  BY <1>1, <1>4, <1>5, <1>8
<1>10. MergeToolCallDeltas(calls, d, n) = merged
  BY DEF MergeToolCallDeltas, padded
<1> HIDE DEF merged
<1>11. ASSUME NEW i \in Nat PROVE CallAt(merged, i)
                 = IF i = d.index THEN Merged(CallAt(calls, i), d, n) ELSE CallAt(calls, i)
  <2>1. DOMAIN merged = 1..Len(calls) + k /\ DOMAIN calls = 1..Len(calls)
    BY <1>9
  <2>2. CASE i = d.index
    BY <1>5, <1>6, <1>9, <2>1, <2>2 DEF CallAt
  <2>3. CASE i # d.index /\ i + 1 \in 1..Len(calls) + k
    <3>1. i + 1 # slot
      BY <1>1, <2>3
    <3>2. CallAt(merged, i) = padded[i + 1]
      BY <1>9, <2>1, <2>3, <3>1 DEF CallAt
    <3>3. padded[i + 1] = CallAt(calls, i)
      BY <1>1, <1>4, <2>1, <2>3 DEF CallAt
    <3> QED
      BY <2>3, <3>2, <3>3
  <2>4. CASE i # d.index /\ i + 1 \notin 1..Len(calls) + k
    <3>1. i + 1 \notin 1..Len(calls)
      BY <1>1, <2>4
    <3> QED
      BY <2>1, <2>4, <3>1 DEF CallAt
  <2> QED
    BY <2>2, <2>3, <2>4
<1> QED
  BY <1>9, <1>10, <1>11

LEMMA MergeType ==
  ASSUME NEW calls \in Seq(Call), NEW d \in Fragments, NEW n \in Positions
  PROVE  MergeToolCallDeltas(calls, d, n) \in Seq(Call)
<1>1. CASE d.index = NoIndex
  BY <1>1, NoCallIsCall, MergedType, AppendFacts DEF MergeToolCallDeltas
<1> QED
  BY <1>1, MergeEffect
-----------------------------------------------------------------------------
(* The inductive form of TypeOK: numbers of chunks stay within the bound,  *)
(* and before the provider is asked, or answers in one piece, it has sent  *)
(* nothing.                                                                *)
NothingSent == pc \in {"resolve", "inbound"} \/ (pc = "sdk" /\ ~request.stream) => sent = <<>>

Typed == TypeOK /\ Len(sent) <= MaxChunks /\ NothingSent

AnyChunk == ChatChunks \cup {Chunk("vectors")}

LEMMA CallsAreFragments ==
  ASSUME NEW c \in AnyChunk, c.kind = "call"
  PROVE  c \in Fragments
  BY DEF AnyChunk, ChatChunks, Chunk

(* A chunk comes with the next number, and is remembered, or its number    *)
(* is, or nothing.                                                         *)
LEMMA ChunkSent ==
  ASSUME Typed, NEW c \in ChunksOf(request.endpoint), ProviderChunk(c) \/ ProviderAnswers(c)
  PROVE  /\ pc = "sdk" /\ c \in AnyChunk
         /\ sent' = Append(sent, c)
         /\ Len(sent) + 1 \in 1..MaxChunks
         /\ \/ acc' = acc
            \/ acc' = [acc EXCEPT !.last = Len(sent) + 1]
            \/ acc' = Remembered(c, Len(sent) + 1)
         /\ UNCHANGED <<request, received, client, stored, unsaved>>
         /\ UNCHANGED wire \/ wire' = Append(wire, Event("chunk", Len(sent) + 1))
<1>1. c \in AnyChunk
  BY DEF ChunksOf, AnyChunk
<1>2. sent \in Seq(AnyChunk) /\ Len(sent) \in Nat /\ Len(sent) <= MaxChunks
  BY DEF Typed, TypeOK, AnyChunk
<1>3. wire \in Seq([what : {"chunk", "error", "[DONE]"}, chunk : Positions])
  BY DEF Typed, TypeOK
<1>4. \A e : wire \o <<e>> = Append(wire, e)
  BY <1>3
<1>5. CASE ProviderChunk(c)
  <2>1. Len(sent) + 1 \in 1..MaxChunks
    BY <1>2, <1>5, RelayAssumption DEF ProviderChunk
  <2>2. CASE RelayChunk(c, Len(sent) + 1)
    BY <1>1, <1>4, <1>5, <2>1, <2>2 DEF ProviderChunk, RelayChunk, Written
  <2>3. CASE RelayFails(c, Len(sent) + 1)
    BY <1>1, <1>5, <2>1, <2>3 DEF ProviderChunk, RelayFails, WriteError
  <2> QED
    BY <1>5, <2>2, <2>3 DEF ProviderChunk
<1>6. CASE ProviderAnswers(c)
  <2>1. pc = "sdk" /\ sent = <<>>
    BY <1>6 DEF ProviderAnswers, Typed, NothingSent
  <2>2. Len(sent) = 0 /\ Append(sent, c) = <<c>>
    BY <2>1
  <2>3. Len(sent) + 1 = 1 /\ 1 \in 1..MaxChunks
    BY <2>2, RelayAssumption
  <2> QED
    BY <1>1, <1>6, <2>1, <2>2, <2>3 DEF ProviderAnswers
<1> QED
  BY <1>5, <1>6

AccType == [text : Seq(Positions), calls : Seq(Call), finish : BOOLEAN, last : Positions]

LEMMA RememberedType ==
  ASSUME acc \in AccType, NEW c \in AnyChunk, NEW n \in Positions
  PROVE  Remembered(c, n) \in AccType
<1>1. acc.text \in Seq(Positions) /\ Append(acc.text, n) \in Seq(Positions)
  BY AppendFacts DEF AccType
<1>2. acc.calls \in Seq(Call) /\ (c.kind = "call" => CallsAfter(c, n) \in Seq(Call))
  <2>1. acc.calls \in Seq(Call)
    BY DEF AccType
  <2>2. ASSUME c.kind = "call" PROVE CallsAfter(c, n) \in Seq(Call)
    <3>1. MergeToolCallDeltas(acc.calls, c, n) \in Seq(Call) /\ Merged(NoCall, c, n) \in Call
      BY <2>1, <2>2, CallsAreFragments, MergeType, NoCallIsCall, MergedType
    <3> QED
      BY <3>1 DEF CallsAfter
  <2> QED
    BY <2>1, <2>2
<1> QED
  BY <1>1, <1>2 DEF Remembered, AccType

WireType == Seq([what : {"chunk", "error", "[DONE]"}, chunk : Positions])

(* What the handler writes is typed, and adds to what was written.         *)
LEMMA WriteType ==
  ASSUME wire \in WireType, NEW events \in WireType, Written(events) \/ WriteError \/ UNCHANGED wire
  PROVE  wire' \in WireType /\ Len(wire') >= Len(wire)
<1>1. Len(wire) \in Nat /\ Len(events) \in Nat
  BY DEF WireType
<1>2. wire \o events \in WireType /\ Len(wire \o events) = Len(wire) + Len(events)
  BY ConcatProperties DEF WireType
<1>3. CASE wire' = wire
  BY <1>1, <1>3
<1>4. CASE wire' = wire \o events
  BY <1>1, <1>2, <1>4
<1> QED
  BY <1>3, <1>4 DEF Written, WriteError

LEMMA EventTypes ==
  /\ <<Event("error", 0)>> \in WireType
  /\ ErrorEvents \in WireType
  /\ <<Event("[DONE]", 0)>> \in WireType
  /\ \A n \in Positions : <<Event("chunk", n)>> \in WireType
<1>1. 0 \in Positions
  BY RelayAssumption DEF Positions
<1> QED
  BY <1>1 DEF Event, WireType, ErrorEvents

StoredType == Seq([role : {"user", "tool", "assistant"}, text : Seq(Positions), calls : Seq(Call)])

LEMMA TypedStep == Typed /\ [Next]_relayVars => Typed'
<1> SUFFICES ASSUME Typed, [Next]_relayVars PROVE Typed'
  OBVIOUS
<1>0. /\ request \in [endpoint : {"chat", "completions", "embeddings"}, stream : BOOLEAN]
      /\ pc \in {"resolve", "inbound", "sdk", "returned", "persist", "reply", "done"}
      /\ sent \in Seq(AnyChunk) /\ Len(sent) \in Nat /\ Len(sent) <= MaxChunks
      /\ result \in {"none", "ok", "error"}
      /\ acc \in AccType /\ writeFailed \in BOOLEAN /\ wire \in WireType
      /\ received \in 0..Len(wire) /\ Len(wire) \in Nat
      /\ client \in {"reading", "gone"} /\ stored \in StoredType /\ unsaved \in BOOLEAN
      /\ NothingSent
  BY DEF Typed, TypeOK, AnyChunk, AccType, WireType, StoredType
<1> DEFINE Rest == /\ request' \in [endpoint : {"chat", "completions", "embeddings"}, stream : BOOLEAN]
                   /\ pc' \in {"resolve", "inbound", "sdk", "returned", "persist", "reply", "done"}
                   /\ result' \in {"none", "ok", "error"}
                   /\ writeFailed' \in BOOLEAN
                   /\ client' \in {"reading", "gone"}
           SentOK == sent' \in Seq(AnyChunk) /\ Len(sent') <= MaxChunks /\ NothingSent'
           AccOK == acc' \in AccType
           WireOK == wire' \in WireType /\ received' \in 0..Len(wire')
           StoredOK == stored' \in StoredType /\ unsaved' \in BOOLEAN
<1>1. SUFFICES Rest /\ SentOK /\ AccOK /\ WireOK /\ StoredOK
  BY DEF Typed, TypeOK, AnyChunk, AccType, WireType, StoredType
<1>2. UNCHANGED <<pc, request, sent>> => SentOK
  BY <1>0 DEF NothingSent
<1>3. pc' \notin {"resolve", "inbound", "sdk"} /\ UNCHANGED sent => SentOK
  BY <1>0 DEF NothingSent
<1>4. UNCHANGED acc => AccOK
  BY <1>0
<1>5. ASSUME NEW events \in WireType, Written(events) \/ WriteError \/ UNCHANGED wire,
             UNCHANGED received
      PROVE  WireOK
  <2>1. wire' \in WireType /\ Len(wire') >= Len(wire)
    BY <1>0, <1>5, WriteType
  <2>2. Len(wire') \in Nat
    BY <2>1 DEF WireType
  <2> QED
    BY <1>0, <1>5, <2>1, <2>2
<1>6. UNCHANGED <<wire, received>> => WireOK
  BY <1>0
<1>7. UNCHANGED <<stored, unsaved>> => StoredOK
  BY <1>0
<1> USE EventTypes
<1>8. CASE Receive
  <2>1. WireOK
    BY <1>0, <1>8 DEF Receive
  <2> QED
    BY <1>0, <1>2, <1>4, <1>7, <1>8, <2>1 DEF Receive
<1>9. CASE ClientLeaves
  BY <1>0, <1>2, <1>4, <1>6, <1>7, <1>9 DEF ClientLeaves
<1>10. CASE ResolveSession
  <2>1. SentOK
    BY <1>0, <1>10 DEF ResolveSession, NothingSent
  <2>2. WireOK
    BY <1>5, <1>6, <1>10 DEF ResolveSession
  <2> QED
    BY <1>0, <1>4, <1>7, <1>10, <2>1, <2>2 DEF ResolveSession
<1>11. CASE PersistInbound
  <2>1. SentOK
    BY <1>0, <1>11 DEF PersistInbound, NothingSent
  <2>3. \A role \in {"user", "tool"} : Row(role, <<>>, <<>>)
             \in [role : {"user", "tool", "assistant"}, text : Seq(Positions), calls : Seq(Call)]
    BY EmptySeq DEF Row
  <2>4. \A role \in {"user", "tool"} : <<Row(role, <<>>, <<>>)>> \in StoredType
    BY <2>3 DEF StoredType
  <2>5. stored' \in {<<>>, <<Row("user", <<>>, <<>>)>>, <<Row("tool", <<>>, <<>>)>>}
    BY <1>11 DEF PersistInbound
  <2>2. StoredOK
    BY <1>0, <1>11, <2>4, <2>5, EmptySeq DEF StoredType, PersistInbound
  <2> QED
    BY <1>0, <1>4, <1>6, <1>11, <2>1, <2>2 DEF PersistInbound
<1>12. ASSUME NEW c \in ChunksOf(request.endpoint), ProviderChunk(c) \/ ProviderAnswers(c)
       PROVE  Rest /\ SentOK /\ AccOK /\ WireOK /\ StoredOK
  <2>1. Len(sent) + 1 \in Positions
    BY ChunkSent, <1>12, RelayAssumption DEF Positions
  <2>2. SentOK
    <3>1. sent' \in Seq(AnyChunk) /\ Len(sent') <= MaxChunks
      <4>1. c \in AnyChunk /\ sent' = Append(sent, c) /\ Len(sent) + 1 \in 1..MaxChunks
        BY <1>12, ChunkSent
      <4> QED
        BY <1>0, <4>1, AppendFacts, RelayAssumption
    <3>2. NothingSent'
      BY <1>12 DEF ProviderChunk, ProviderAnswers, NothingSent
    <3> QED
      BY <3>1, <3>2
  <2>3. AccOK
    <3>1. [acc EXCEPT !.last = Len(sent) + 1] \in AccType
      BY <1>0, <2>1 DEF AccType
    <3>2. Remembered(c, Len(sent) + 1) \in AccType
      BY <1>0, <1>12, <2>1, ChunkSent, RememberedType
    <3> QED
      BY <1>0, <1>12, <3>1, <3>2, ChunkSent
  <2>4. WireOK
    <3>1. UNCHANGED received /\ (UNCHANGED wire \/ Written(<<Event("chunk", Len(sent) + 1)>>))
      <4>1. \A e : wire \o <<e>> = Append(wire, e)
        BY <1>0 DEF WireType
      <4> QED
        BY <1>12, <4>1, ChunkSent DEF Written
    <3> QED
      BY <1>5, <2>1, <3>1
  <2>5. Rest
    BY <1>0, <1>12 DEF ProviderChunk, ProviderAnswers
  <2> QED
    BY <1>7, <1>12, <2>2, <2>3, <2>4, <2>5, ChunkSent
<1>13. CASE ProviderEnds
  <2>1. WireOK
    BY <1>5, <1>6, <1>13 DEF ProviderEnds
  <2> QED
    BY <1>0, <1>3, <1>4, <1>7, <1>13, <2>1 DEF ProviderEnds
<1>14. CASE SdkFails
  BY <1>0, <1>3, <1>4, <1>6, <1>7, <1>14 DEF SdkFails
<1>15. CASE StreamReturned
  <2>1. WireOK
    BY <1>5, <1>6, <1>15 DEF StreamReturned
  <2> QED
    BY <1>0, <1>3, <1>4, <1>7, <1>15, <2>1 DEF StreamReturned
<1>16. CASE AnswerReturned
  <2>1. WireOK
    BY <1>5, <1>6, <1>16 DEF AnswerReturned
  <2> QED
    BY <1>0, <1>3, <1>4, <1>7, <1>16, <2>1 DEF AnswerReturned
<1>17. CASE Persist
  <2>1. Row("assistant", acc.text, acc.calls)
            \in [role : {"user", "tool", "assistant"}, text : Seq(Positions), calls : Seq(Call)]
    BY <1>0 DEF Row, AccType
  <2>2. StoredOK
    <3>1. Append(stored, Row("assistant", acc.text, acc.calls)) \in StoredType
      BY <1>0, <2>1, AppendFacts DEF StoredType
    <3> QED
      BY <1>0, <1>17, <3>1 DEF Persist
  <2> QED
    BY <1>0, <1>3, <1>4, <1>6, <1>17, <2>2 DEF Persist
<1>18. CASE Reply
  <2>1. acc.last \in Positions
    BY <1>0 DEF AccType
  <2>2. WireOK
    BY <1>5, <1>18, <2>1 DEF Reply
  <2> QED
    BY <1>0, <1>3, <1>4, <1>7, <1>18, <2>2 DEF Reply
<1>19. CASE UNCHANGED relayVars
  BY <1>0, <1>2, <1>4, <1>6, <1>7, <1>19 DEF relayVars
<1> QED
  BY <1>8, <1>9, <1>10, <1>11, <1>12, <1>13, <1>14, <1>15, <1>16, <1>17, <1>18, <1>19
     DEF Next, Handler, ProviderFails, ContextCancelled

LEMMA InitTyped == Init => Typed
<1> SUFFICES ASSUME Init PROVE Typed
  OBVIOUS
<1>1. 0 \in Positions
  BY RelayAssumption DEF Positions
<1>2. [text |-> <<>>, calls |-> <<>>, finish |-> FALSE, last |-> 0] \in AccType
  BY <1>1, EmptySeq DEF AccType
<1>3. <<>> \in Seq(AnyChunk) /\ <<>> \in WireType /\ <<>> \in StoredType /\ Len(<<>>) = 0
  BY EmptySeq DEF WireType, StoredType
<1>4. Len(sent) <= MaxChunks /\ received \in 0..Len(wire)
  BY <1>3, RelayAssumption DEF Init
<1>5. request \in [endpoint : {"chat", "completions", "embeddings"}, stream : BOOLEAN]
  BY DEF Init
<1> QED
  BY <1>2, <1>3, <1>4, <1>5
     DEF Init, Typed, TypeOK, NothingSent, AccType, WireType, StoredType, AnyChunk

LEMMA SpecTyped == Spec => []Typed
  BY InitTyped, TypedStep, PTL DEF Spec

(* Every variable keeps to its type, whatever the provider sends, and the  *)
(* client never has read more than was written.                            *)
THEOREM TypeCorrect == Spec => []TypeOK
<1>1. Typed => TypeOK
  BY DEF Typed
<1> QED
  BY <1>1, SpecTyped, PTL
-----------------------------------------------------------------------------
(* The end of an event stream.                                             *)
Says(what) == \E i \in DOMAIN wire : wire[i].what = what

AnswerOver == pc \in {"persist", "done"} \/ (pc = "returned" /\ result = "ok")

Closing ==
    /\ pc \in {"resolve", "inbound", "sdk"} => result = "none"
    /\ pc \in {"returned", "persist", "reply"} => result # "none"
    /\ pc = "reply" => ~request.stream
    /\ writeFailed => client = "gone"
    /\ pc \in {"resolve", "inbound", "sdk", "returned"} => ~Says("error")
    /\ Says("[DONE]") => request.stream /\ AnswerOver
    /\ \A i \in DOMAIN wire : wire[i].what = "[DONE]" => i = Len(wire)
    /\ request.stream /\ client = "reading" /\ AnswerOver /\ result # "none" =>
          /\ wire # <<>> /\ wire[Len(wire)].what = "[DONE]"
          /\ (result = "error" <=> Len(wire) > 1 /\ wire[Len(wire) - 1].what = "error")

(* What is read off the wire after one event more, or two.                 *)
LEMMA OneMore ==
  ASSUME wire \in WireType, NEW e, wire' = wire \o <<e>>
  PROVE  /\ Len(wire) \in Nat /\ Len(wire') = Len(wire) + 1
         /\ DOMAIN wire = 1..Len(wire) /\ DOMAIN wire' = 1..Len(wire) + 1
         /\ \A i \in 1..Len(wire) : wire'[i] = wire[i]
         /\ wire'[Len(wire) + 1] = e
         /\ wire' # <<>>
  BY DEF WireType

LEMMA TwoMore ==
  ASSUME wire \in WireType, NEW d, NEW e, wire' = wire \o <<d, e>>
  PROVE  /\ Len(wire) \in Nat /\ Len(wire') = Len(wire) + 2
         /\ DOMAIN wire = 1..Len(wire) /\ DOMAIN wire' = 1..Len(wire) + 2
         /\ \A i \in 1..Len(wire) : wire'[i] = wire[i]
         /\ wire'[Len(wire) + 1] = d /\ wire'[Len(wire) + 2] = e
         /\ wire' # <<>>
  BY DEF WireType

LEMMA SaysOneMore ==
  ASSUME wire \in WireType, NEW e, wire' = wire \o <<e>>, NEW what
  PROVE  Says(what)' <=> Says(what) \/ e.what = what
<1>1. /\ Len(wire) \in Nat /\ DOMAIN wire = 1..Len(wire) /\ DOMAIN wire' = 1..Len(wire) + 1
      /\ \A i \in 1..Len(wire) : wire'[i] = wire[i]
      /\ wire'[Len(wire) + 1] = e
  BY OneMore
<1> QED
  BY <1>1 DEF Says

LEMMA ClosingStep == Typed /\ Closing /\ [Next]_relayVars => Closing'
<1> SUFFICES ASSUME Typed, Closing, [Next]_relayVars PROVE Closing'
  OBVIOUS
<1>0. wire \in WireType /\ DOMAIN wire = 1..Len(wire) /\ Len(wire) \in Nat
  BY DEF Typed, TypeOK, WireType
<1>12. UNCHANGED wire => Says("error")' = Says("error") /\ Says("[DONE]")' = Says("[DONE]")
  BY DEF Says
<1>13. ~Says("[DONE]")' => \A i \in DOMAIN wire' : wire'[i].what = "[DONE]" => i = Len(wire')
  BY DEF Says
<1>1. CASE Receive \/ ClientLeaves \/ UNCHANGED relayVars
  BY <1>12, <1>1 DEF Closing, AnswerOver, Receive, ClientLeaves, relayVars
<1>2. CASE ResolveSession
  <2>1. CASE UNCHANGED wire
    BY <1>12, <1>2, <2>1 DEF Closing, AnswerOver, ResolveSession
  <2>2. CASE pc' = "done" /\ wire' = wire \o <<Event("error", 0)>>
    <3>1. ~Says("[DONE]")
      BY <1>2 DEF Closing, AnswerOver, ResolveSession
    <3>2. ~Says("[DONE]")'
      BY <1>0, <2>2, <3>1, SaysOneMore DEF Event
    <3> QED
      BY <1>2, <1>13, <2>2, <3>2 DEF Closing, AnswerOver, ResolveSession
  <2> QED
    BY <1>2, <2>1, <2>2 DEF ResolveSession, Written, WriteError
<1>3. CASE PersistInbound
  BY <1>12, <1>3 DEF Closing, AnswerOver, PersistInbound
<1>4. ASSUME NEW c \in ChunksOf(request.endpoint), ProviderChunk(c) PROVE Closing'
  <2>1. ~Says("[DONE]") /\ ~Says("error") /\ result = "none"
    BY <1>4 DEF Closing, AnswerOver, ProviderChunk
  <2>2. UNCHANGED wire \/ wire' = wire \o <<Event("chunk", Len(sent) + 1)>>
    BY <1>4 DEF ProviderChunk, RelayChunk, RelayFails, Written, WriteError
  <2>3. ~Says("[DONE]")' /\ ~Says("error")'
    BY <1>0, <1>12, <2>1, <2>2, SaysOneMore DEF Event
  <2>4. CASE UNCHANGED <<pc, result, writeFailed>>
    BY <1>4, <1>13, <2>1, <2>3, <2>4 DEF Closing, AnswerOver, ProviderChunk
  <2>5. CASE RelayFails(c, Len(sent) + 1) /\ result' = "error" /\ pc' = "returned"
    BY <1>4, <1>13, <2>1, <2>3, <2>5 DEF Closing, AnswerOver, ProviderChunk, RelayFails, WriteError
  <2> QED
    BY <1>4, <2>4, <2>5 DEF ProviderChunk
<1>5. ASSUME NEW c \in ChunksOf(request.endpoint), ProviderAnswers(c) PROVE Closing'
  <2>1. ~Says("[DONE]") /\ ~Says("error")
    BY <1>5 DEF Closing, AnswerOver, ProviderAnswers
  <2> QED
    BY <1>5, <1>12, <1>13, <2>1 DEF Closing, AnswerOver, ProviderAnswers
<1>6. CASE ProviderEnds
  <2>1. ~Says("[DONE]") /\ ~Says("error")
    BY <1>6 DEF Closing, AnswerOver, ProviderEnds
  <2>2. CASE UNCHANGED wire
    BY <1>6, <1>12, <1>13, <2>1, <2>2
       DEF Closing, AnswerOver, ProviderEnds, Written, WriteError, Typed, TypeOK
  <2>3. CASE request.stream /\ wire' = wire \o <<Event("[DONE]", 0)>>
    <3>1. /\ Len(wire') = Len(wire) + 1 /\ DOMAIN wire' = 1..Len(wire) + 1 /\ wire' # <<>>
          /\ \A i \in 1..Len(wire) : wire'[i] = wire[i]
          /\ wire'[Len(wire')].what = "[DONE]"
      BY <1>0, <2>3, OneMore DEF Event
    <3>2. ~Says("error")'
      BY <1>0, <2>1, <2>3, SaysOneMore DEF Event
    <3>3. Len(wire') > 1 => wire'[Len(wire') - 1].what # "error"
      <4>1. Len(wire') > 1 => Len(wire') - 1 \in DOMAIN wire'
        BY <1>0, <3>1
      <4> QED
        BY <3>2, <4>1 DEF Says
    <3>4. \A i \in DOMAIN wire' : wire'[i].what = "[DONE]" => i = Len(wire')
      BY <1>0, <2>1, <3>1 DEF Says
    <3> QED
      BY <1>6, <2>1, <2>3, <3>1, <3>2, <3>3, <3>4 DEF Closing, AnswerOver, ProviderEnds
  <2> QED
    BY <1>6, <2>2, <2>3 DEF ProviderEnds, Written, WriteError
<1>7. CASE SdkFails
  BY <1>7, <1>12 DEF Closing, AnswerOver, SdkFails
<1>8. CASE StreamReturned
  <2>1. CASE UNCHANGED wire
    <3>1. client = "gone" \/ result = "ok"
      <4>1. ASSUME Written(ErrorEvents) PROVE FALSE
        <5>1. wire' = wire \o <<Event("error", 0), Event("[DONE]", 0)>>
          BY <4>1 DEF Written, ErrorEvents
        <5>2. Len(wire') = Len(wire) + 2
          BY <1>0, <5>1, TwoMore
        <5> QED
          BY <1>0, <2>1, <5>2
      <4> QED
        BY <1>8, <4>1 DEF StreamReturned, Closing, WriteError, Typed, TypeOK
    <3> QED
      BY <1>8, <1>12, <2>1, <3>1 DEF Closing, AnswerOver, StreamReturned
  <2>2. CASE result = "error" /\ wire' = wire \o <<Event("error", 0), Event("[DONE]", 0)>>
    <3>1. ~Says("[DONE]")
      BY <1>8, <2>2 DEF Closing, AnswerOver, StreamReturned
    <3>2. /\ Len(wire') = Len(wire) + 2 /\ DOMAIN wire' = 1..Len(wire) + 2 /\ wire' # <<>>
          /\ \A i \in 1..Len(wire) : wire'[i] = wire[i]
          /\ wire'[Len(wire) + 1].what = "error" /\ wire'[Len(wire) + 2].what = "[DONE]"
      BY <1>0, <2>2, TwoMore DEF Event
    <3>3. Len(wire') > 1 /\ Len(wire') - 1 = Len(wire) + 1
      BY <1>0, <3>2
    <3>4. \A i \in DOMAIN wire' : wire'[i].what = "[DONE]" => i = Len(wire')
      BY <1>0, <3>1, <3>2 DEF Says
    <3> QED
      BY <1>8, <2>2, <3>2, <3>3, <3>4 DEF Closing, AnswerOver, StreamReturned
  <2> QED
    BY <1>8, <2>1, <2>2 DEF StreamReturned, Written, WriteError, ErrorEvents
<1>9. CASE AnswerReturned
  <2>1. ~Says("[DONE]")
    BY <1>9 DEF Closing, AnswerReturned
  <2>2. UNCHANGED wire \/ wire' = wire \o <<Event("error", 0)>>
    BY <1>9 DEF AnswerReturned, Written, WriteError
  <2>3. ~Says("[DONE]")'
    BY <1>0, <1>12, <2>1, <2>2, SaysOneMore DEF Event
  <2> QED
    BY <1>9, <1>13, <2>3 DEF Closing, AnswerOver, AnswerReturned
<1>10. CASE Persist
  BY <1>10, <1>12 DEF Closing, AnswerOver, Persist
<1>11. CASE Reply
  <2>1. ~Says("[DONE]") /\ ~request.stream
    BY <1>11 DEF Closing, Reply
  <2>2. UNCHANGED wire \/ wire' = wire \o <<Event("chunk", acc.last)>>
    BY <1>11 DEF Reply, Written, WriteError
  <2>3. ~Says("[DONE]")'
    BY <1>0, <1>12, <2>1, <2>2, SaysOneMore DEF Event
  <2> QED
    BY <1>11, <1>13, <2>1, <2>3 DEF Closing, AnswerOver, Reply
<1> QED
  BY <1>1, <1>2, <1>3, <1>4, <1>5, <1>6, <1>7, <1>8, <1>9, <1>10, <1>11
     DEF Next, Handler, ProviderFails, ContextCancelled

LEMMA SpecClosing == Spec => []Closing
<1>1. Init => Closing
  BY EmptySeq DEF Init, Closing, Says, AnswerOver
<1> QED
  BY <1>1, ClosingStep, SpecTyped, PTL DEF Spec

(* A stream that no write error cut off ends with one [DONE], and an error *)
(* is told before it, wherever the provider or the client break off.       *)
THEOREM StreamsEnd == Spec => []StreamTerminated
<1>1. Typed /\ Closing => StreamTerminated
  <2> SUFFICES ASSUME Typed, Closing, pc = "done" /\ result # "none" /\ request.stream /\ client = "reading"
               PROVE  Last(wire) = wire[Len(wire)]
    BY DEF Closing, StreamTerminated, AnswerOver
  <2> QED
    BY DEF Last
<1> QED
  BY <1>1, SpecTyped, SpecClosing, PTL
-----------------------------------------------------------------------------
(* What was written, read and remembered of the provider's chunks.         *)
IsWritten(n) == \E i \in DOMAIN wire : wire[i].what = "chunk" /\ wire[i].chunk = n

Early == pc \in {"resolve", "inbound", "sdk"}

InOrder == \A i, j \in DOMAIN wire :
              i < j /\ wire[i].what = "chunk" /\ wire[j].what = "chunk" => wire[i].chunk < wire[j].chunk

Numbered == \A n \in Positions : IsWritten(n) => n \in 1..Len(sent)

(* No text is left out on the way to the client.                           *)
Gapless == \A n \in Positions : IsWritten(n) => \A k \in Texts(n) : IsWritten(k)

AllWritten == pc = "sdk" /\ request.stream => \A k \in Texts(Len(sent)) : IsWritten(k)

ReadUpTo ==
    \E m \in 0..Len(sent) :
        /\ m = 0 \/ IsWritten(m)
        /\ \A i \in DOMAIN wire : wire[i].what = "chunk" => (i <= received <=> wire[i].chunk <= m)

(* What is remembered is all that was written, at least.                   *)
AllRemembered ==
    \E n \in 0..Len(sent) :
        /\ Lists(acc.text, Texts(n))
        /\ \A k \in Positions : IsWritten(k) => k <= n
        /\ Early \/ ~request.stream => n = Len(sent)

OneAnswer ==
    ~request.stream =>
        /\ pc # "done" => wire = <<>>
        /\ Len(sent) <= 1 /\ acc.last <= Len(sent)
        /\ pc = "reply" \/ pc = "persist" => acc.last # 0

Saved ==
    /\ acc.text # <<>> /\ ~unsaved
    /\ pc = "reply" \/ (pc = "done" /\ \E n \in Positions : IsWritten(n))
    => stored # <<>> /\ Last(stored) = Row("assistant", acc.text, acc.calls)

Relayed == InOrder /\ Numbered /\ Gapless /\ AllWritten /\ ReadUpTo /\ AllRemembered

Answering == Relayed /\ OneAnswer /\ Saved

LEMMA RelayFacts ==
  ASSUME Typed
  PROVE  /\ sent \in Seq(AnyChunk) /\ Len(sent) \in Nat /\ Len(sent) <= MaxChunks
         /\ DOMAIN sent = 1..Len(sent)
         /\ acc \in AccType /\ acc.text \in Seq(Positions)
         /\ wire \in WireType /\ Len(wire) \in Nat /\ DOMAIN wire = 1..Len(wire)
         /\ \A i \in DOMAIN wire : wire[i].chunk \in Positions
         /\ received \in 0..Len(wire)
         /\ stored \in StoredType
         /\ 0..Len(sent) \subseteq Positions
<1>1. /\ sent \in Seq(AnyChunk) /\ Len(sent) <= MaxChunks
      /\ acc \in AccType /\ wire \in WireType /\ received \in 0..Len(wire) /\ stored \in StoredType
  BY DEF Typed, TypeOK, AnyChunk, AccType, WireType, StoredType
<1>2. Len(sent) \in Nat /\ DOMAIN sent = 1..Len(sent)
  BY <1>1
<1>3. Len(wire) \in Nat /\ DOMAIN wire = 1..Len(wire)
  BY <1>1 DEF WireType
<1>4. \A i \in DOMAIN wire : wire[i].chunk \in Positions
  <2> DEFINE E == [what : {"chunk", "error", "[DONE]"}, chunk : Positions]
  <2>1. \A i \in 1..Len(wire) : wire[i] \in E
    <3>1. wire \in Seq(E)
      BY <1>1 DEF WireType
    <3> HIDE DEF E
    <3> QED
      BY <3>1, ElementOfSeq
  <2> QED
    BY <1>3, <2>1
<1>5. 0..Len(sent) \subseteq Positions
  BY <1>1, <1>2, RelayAssumption DEF Positions
<1> QED
  BY <1>1, <1>2, <1>3, <1>4, <1>5 DEF AccType

LEMMA PositionsAreNat == Positions \subseteq Nat /\ 0 \in Positions
  BY RelayAssumption DEF Positions

(* A step that neither sends nor remembers nor reads, and writes at most   *)
(* the end of a stream or an error.                                        *)
QuietWire ==
    /\ DOMAIN wire \subseteq DOMAIN wire'
    /\ \A i \in DOMAIN wire : wire'[i] = wire[i]
    /\ \A i \in DOMAIN wire' : i \notin DOMAIN wire => wire'[i].what # "chunk"

LEMMA QuietSame ==
  ASSUME QuietWire, NEW n
  PROVE  IsWritten(n)' <=> IsWritten(n)
  BY DEF QuietWire, IsWritten

LEMMA QuietWrites ==
  ASSUME Typed, NEW what \in {"error", "[DONE]"},
         \/ UNCHANGED wire \/ WriteError
         \/ Written(<<Event(what, 0)>>) \/ Written(ErrorEvents)
  PROVE  QuietWire
<1>0. wire \in WireType
  BY RelayFacts
<1>1. CASE UNCHANGED wire
  BY <1>1 DEF QuietWire
<1>2. CASE wire' = wire \o <<Event(what, 0)>>
  <2>1. /\ Len(wire) \in Nat /\ DOMAIN wire = 1..Len(wire) /\ DOMAIN wire' = 1..Len(wire) + 1
        /\ \A i \in 1..Len(wire) : wire'[i] = wire[i]
        /\ wire'[Len(wire) + 1].what # "chunk"
    BY <1>0, <1>2, OneMore DEF Event
  <2> QED
    BY <2>1 DEF QuietWire
<1>3. CASE wire' = wire \o <<Event("error", 0), Event("[DONE]", 0)>>
  <2>1. /\ Len(wire) \in Nat /\ DOMAIN wire = 1..Len(wire) /\ DOMAIN wire' = 1..Len(wire) + 2
        /\ \A i \in 1..Len(wire) : wire'[i] = wire[i]
        /\ wire'[Len(wire) + 1].what # "chunk" /\ wire'[Len(wire) + 2].what # "chunk"
    BY <1>0, <1>3, TwoMore DEF Event
  <2>2. \A i \in DOMAIN wire' : i \notin DOMAIN wire => i = Len(wire) + 1 \/ i = Len(wire) + 2
    BY <2>1
  <2> QED
    BY <2>1, <2>2 DEF QuietWire
<1> QED
  BY <1>1, <1>2, <1>3 DEF Written, WriteError, ErrorEvents

LEMMA QuietStep ==
  ASSUME Typed, Answering, QuietWire, UNCHANGED <<request, sent, received, acc>>, Early' => Early,
         pc' = "sdk" => pc = "sdk" \/ sent = <<>>
  PROVE  Relayed'
<1> USE DEF Answering, Relayed
<1>0. \A n : IsWritten(n)' <=> IsWritten(n)
  BY QuietSame
<1>1. \A n : Texts(n)' = Texts(n)
  BY DEF Texts
<1>2. InOrder'
  BY DEF InOrder, QuietWire
<1>3. Numbered' /\ Gapless'
  BY <1>0, <1>1 DEF Numbered, Gapless
<1>4. AllWritten'
  <2>1. CASE pc = "sdk"
    BY <1>0, <1>1, <2>1 DEF AllWritten
  <2>2. CASE sent = <<>>
    <3>1. Texts(Len(sent)) = {}
      BY <2>2, EmptySeq DEF Texts
    <3> QED
      BY <1>1, <3>1 DEF AllWritten
  <2> QED
    BY <2>1, <2>2 DEF AllWritten
<1>5. ReadUpTo'
  <2>1. PICK m \in 0..Len(sent) :
           /\ m = 0 \/ IsWritten(m)
           /\ \A i \in DOMAIN wire : wire[i].what = "chunk" => (i <= received <=> wire[i].chunk <= m)
    BY DEF ReadUpTo
  <2>2. \A i \in DOMAIN wire' : wire'[i].what = "chunk" => (i <= received <=> wire'[i].chunk <= m)
    BY <2>1 DEF QuietWire
  <2> QED
    BY <1>0, <2>1, <2>2 DEF ReadUpTo
<1>6. AllRemembered'
  BY <1>0, <1>1 DEF AllRemembered
<1> QED
  BY <1>2, <1>3, <1>4, <1>5, <1>6

(* The texts sent so far, when the provider sends one chunk more.  The     *)
(* numbers are names of their own, for they must not change with the step. *)
LEMMA TextsGrow ==
  ASSUME Typed, NEW c \in AnyChunk, sent' = Append(sent, c),
         NEW M, M = Len(sent), NEW N, N = M + 1
  PROVE  /\ M \in Nat /\ N \in Nat /\ Len(sent') = N
         /\ \A n \in 0..M : Texts(n)' = Texts(n)
         /\ Texts(N)' = IF c.kind = "text" THEN Texts(M) \cup {N} ELSE Texts(M)
<1>1. /\ M \in Nat /\ N \in Nat /\ Len(sent') = N
      /\ \A i \in 1..M : sent'[i] = sent[i]
      /\ sent'[N] = c
  BY RelayFacts, AppendFacts
<1>2. \A n \in 0..M : Texts(n)' = Texts(n)
  BY <1>1 DEF Texts
<1>3. \A i : i \in 1..N <=> i \in 1..M \/ i = N
  BY <1>1
<1>4. N \notin 1..M
  BY <1>1
<1>5. \A i : i \in Texts(N)' <=> i \in Texts(M) \/ (i = N /\ c.kind = "text")
  BY <1>1, <1>3, <1>4 DEF Texts
<1>6. Texts(N)' = IF c.kind = "text" THEN Texts(M) \cup {N} ELSE Texts(M)
  <2>1. CASE c.kind = "text"
    BY <1>5, <2>1
  <2>2. CASE c.kind # "text"
    BY <1>5, <2>2
  <2> QED
    BY <2>1, <2>2
<1> QED
  BY <1>1, <1>2, <1>6

LEMMA TextRemembered ==
  ASSUME Typed, NEW c \in AnyChunk, sent' = Append(sent, c),
         NEW M, M = Len(sent), NEW N, N = M + 1, Lists(acc.text, Texts(M)),
         acc'.text = IF c.kind = "text" THEN Append(acc.text, N) ELSE acc.text
  PROVE  Lists(acc'.text, Texts(N)')
<1>0. M \in Nat /\ N \in Nat
  BY TextsGrow
<1>1. CASE c.kind = "text"
  <2>1. acc.text \in Seq(Nat)
    <3>1. acc.text \in [1..Len(acc.text) -> Positions] /\ Len(acc.text) \in Nat
      BY RelayFacts
    <3>2. acc.text \in [1..Len(acc.text) -> Nat]
      BY <3>1, PositionsAreNat
    <3> QED
      BY <3>1, <3>2, RelayFacts, SMTT(30)
  <2>2. Texts(M) \in SUBSET Nat /\ \A i \in Texts(M) : i < N
    BY <1>0 DEF Texts
  <2>3. Lists(Append(acc.text, N), Texts(M) \cup {N})
    BY <1>0, <2>1, <2>2, ListGrows
  <2> QED
    BY <1>1, <2>3, TextsGrow
<1>2. CASE c.kind # "text"
  BY <1>2, TextsGrow
<1> QED
  BY <1>1, <1>2

(* The ways a step may add to what was sent: the chunk is written and      *)
(* remembered, it is dropped or lost, or it is the whole answer.           *)
LEMMA WrittenChunk ==
  ASSUME Typed, Answering, NEW c \in AnyChunk, sent' = Append(sent, c), pc = "sdk",
         request.stream, UNCHANGED <<request, received, pc>>,
         wire' = wire \o <<Event("chunk", Len(sent) + 1)>>,
         acc'.text = IF c.kind = "text" THEN Append(acc.text, Len(sent) + 1) ELSE acc.text
  PROVE  Relayed'
<1> USE DEF Answering, Relayed
<1>a. PICK M : M = Len(sent)
  OBVIOUS
<1>b. PICK N : N = M + 1
  OBVIOUS
<1>0. /\ M \in Nat /\ N \in Nat /\ Len(sent') = N /\ received \in 0..Len(wire)
      /\ \A n \in 0..M : Texts(n)' = Texts(n)
      /\ Texts(N)' \subseteq Texts(M) \cup {N}
  BY <1>a, <1>b, RelayFacts, TextsGrow
<1>1. /\ Len(wire) \in Nat /\ DOMAIN wire = 1..Len(wire) /\ DOMAIN wire' = 1..Len(wire) + 1
      /\ \A i \in 1..Len(wire) : wire'[i] = wire[i]
      /\ wire'[Len(wire) + 1] = Event("chunk", N)
  BY <1>a, <1>b, RelayFacts, OneMore
<1>2. \A i \in DOMAIN wire' : i \in DOMAIN wire \/ i = Len(wire) + 1
  BY <1>1
<1>3. \A n : IsWritten(n)' <=> IsWritten(n) \/ n = N
  <2> TAKE n
  <2>1. IsWritten(n) => IsWritten(n)'
    BY <1>1 DEF IsWritten
  <2>2. n = N => IsWritten(n)'
    BY <1>1, SMTT(30) DEF IsWritten, Event
  <2>3. IsWritten(n)' => IsWritten(n) \/ n = N
    BY <1>1, <1>2 DEF IsWritten, Event
  <2> QED
    BY <2>1, <2>2, <2>3
<1>4. \A i \in DOMAIN wire : wire[i].what = "chunk" => wire[i].chunk \in 1..M
  BY <1>a, RelayFacts DEF IsWritten, Numbered
<1>6. InOrder'
  <2> SUFFICES ASSUME NEW i \in DOMAIN wire', NEW j \in DOMAIN wire', i < j,
                      wire'[i].what = "chunk", wire'[j].what = "chunk"
               PROVE  wire'[i].chunk < wire'[j].chunk
    BY DEF InOrder
  <2>1. i \in DOMAIN wire
    BY <1>1
  <2>2. CASE j \in DOMAIN wire
    BY <1>1, <2>1, <2>2 DEF InOrder
  <2>3. CASE j = Len(wire) + 1
    <3>1. wire'[i].chunk \in 1..M /\ wire'[j].chunk = N
      BY <1>1, <1>4, <2>1, <2>3 DEF Event
    <3> QED
      BY <1>0, <1>b, <3>1
  <2> QED
    BY <1>2, <2>2, <2>3
<1>7. Numbered'
  <2>1. 1..M \subseteq 1..N /\ N \in 1..N
    BY <1>0, <1>b
  <2> QED
    BY <1>0, <1>3, <1>a, <2>1 DEF Numbered
<1>8. \A k \in Texts(M) : IsWritten(k)
  BY <1>a DEF AllWritten
<1>9. \A k \in Texts(N)' : IsWritten(k)'
  BY <1>0, <1>3, <1>8
<1>10. Gapless'
  <2> SUFFICES ASSUME NEW n \in Positions, IsWritten(n)', NEW k \in Texts(n)' PROVE IsWritten(k)'
    BY DEF Gapless
  <2>1. CASE n = N
    BY <1>9, <2>1
  <2>2. CASE IsWritten(n)
    <3>1. n \in 0..M
      BY <1>0, <1>a, <2>2 DEF Numbered
    <3>2. k \in Texts(n)
      BY <1>0, <3>1
    <3> QED
      BY <1>3, <2>2, <3>2 DEF Gapless
  <2> QED
    BY <1>3, <2>1, <2>2
<1>11. AllWritten'
  <2>1. Texts(Len(sent))' = Texts(N)'
    BY <1>0 DEF Texts
  <2> QED
    BY <1>9, <2>1 DEF AllWritten
<1>12. ReadUpTo'
  <2>1. PICK m \in 0..M :
           /\ m = 0 \/ IsWritten(m)
           /\ \A i \in DOMAIN wire : wire[i].what = "chunk" => (i <= received <=> wire[i].chunk <= m)
    BY <1>a DEF ReadUpTo
  <2>2. ~(Len(wire) + 1 <= received) /\ ~(N <= m)
    BY <1>0, <1>1, <1>b
  <2>3. \A i \in DOMAIN wire' : wire'[i].what = "chunk" => (i <= received' <=> wire'[i].chunk <= m)
    <3> SUFFICES ASSUME NEW i \in DOMAIN wire', wire'[i].what = "chunk"
                 PROVE  i <= received' <=> wire'[i].chunk <= m
      OBVIOUS
    <3>1. CASE i \in DOMAIN wire
      BY <1>1, <2>1, <3>1
    <3>2. CASE i = Len(wire) + 1
      <4>1. wire'[i].chunk = N
        BY <1>1, <3>2 DEF Event
      <4> QED
        BY <2>2, <3>2, <4>1
    <3> QED
      BY <1>2, <3>1, <3>2
  <2>4. m \in 0..Len(sent')
    BY <1>0, <1>b
  <2> QED
    BY <1>3, <2>1, <2>3, <2>4 DEF ReadUpTo
<1>13. AllRemembered'
  <2>1. Lists(acc.text, Texts(M))
    BY <1>a DEF AllRemembered, Early
  <2>2. Lists(acc'.text, Texts(N)')
    BY <1>a, <1>b, <2>1, TextRemembered
  <2>3. \A k \in 1..M : k <= N
    BY <1>0, <1>b
  <2>4. \A k \in Positions : IsWritten(k)' => k <= N
    <3>1. N <= N
      BY <1>0
    <3> QED
      BY <1>3, <1>a, <2>3, <3>1 DEF Numbered
  <2>5. N \in 0..Len(sent') /\ N = Len(sent')
    BY <1>0
  <2> QED
    BY <2>2, <2>4, <2>5 DEF AllRemembered
<1> QED
  BY <1>6, <1>7, <1>10, <1>11, <1>12, <1>13

LEMMA UnwrittenChunk ==
  ASSUME Typed, Answering, NEW c \in AnyChunk, sent' = Append(sent, c), pc = "sdk",
         UNCHANGED <<request, received, wire>>,
         \/ c.kind # "text" /\ acc'.text = acc.text
         \/ pc' = "returned" /\ request.stream /\ acc'.text = acc.text
         \/ /\ pc' = "returned"
            /\ acc'.text = IF c.kind = "text" THEN Append(acc.text, Len(sent) + 1) ELSE acc.text
  PROVE  Relayed'
<1> USE DEF Answering, Relayed
<1>a. PICK M : M = Len(sent)
  OBVIOUS
<1>b. PICK N : N = M + 1
  OBVIOUS
<1>0. /\ M \in Nat /\ N \in Nat /\ Len(sent') = N
      /\ \A n \in 0..M : Texts(n)' = Texts(n)
      /\ c.kind # "text" => Texts(N)' = Texts(M)
  BY <1>a, <1>b, TextsGrow
<1>c. /\ 0..M \subseteq 0..N /\ 1..M \subseteq 1..N /\ 1..M \subseteq 0..M
      /\ M \in 0..M /\ N \in 0..N
      /\ \A k \in 1..M : k <= M /\ k <= N
  BY <1>0, <1>b
<1>1. \A n : IsWritten(n)' <=> IsWritten(n)
  BY DEF IsWritten
<1>2. InOrder'
  BY DEF InOrder
<1>3. Numbered'
  BY <1>0, <1>1, <1>a, <1>c DEF Numbered
<1>4. Gapless'
  <2> SUFFICES ASSUME NEW n \in Positions, IsWritten(n), NEW k \in Texts(n)' PROVE IsWritten(k)'
    BY <1>1 DEF Gapless
  <2>1. n \in 0..M
    BY <1>a, <1>c DEF Numbered
  <2>2. k \in Texts(n)
    BY <1>0, <2>1
  <2> QED
    BY <1>1, <2>2 DEF Gapless
<1>5. AllWritten'
  <2> SUFFICES ASSUME pc' = "sdk", request.stream PROVE \A k \in Texts(N)' : IsWritten(k)'
    <3>1. Texts(Len(sent))' = Texts(N)'
      BY <1>0 DEF Texts
    <3> QED
      BY <3>1 DEF AllWritten
  <2> QED
    BY <1>0, <1>1, <1>a DEF AllWritten
<1>6. ReadUpTo'
  BY <1>0, <1>1, <1>a, <1>c DEF ReadUpTo
<1>7. Lists(acc.text, Texts(M))
  BY <1>a DEF AllRemembered, Early
<1>8. \A k \in Positions : IsWritten(k)' => k <= M /\ k <= N
  BY <1>1, <1>a, <1>c DEF Numbered
<1>9. ASSUME Lists(acc'.text, Texts(N)') PROVE AllRemembered'
  BY <1>0, <1>8, <1>9, <1>c DEF AllRemembered
<1>10. CASE c.kind # "text" /\ acc'.text = acc.text
  <2>1. Lists(acc'.text, Texts(N)')
    BY <1>0, <1>7, <1>10
  <2> QED
    BY <1>2, <1>3, <1>4, <1>5, <1>6, <1>9, <2>1
<1>11. CASE pc' = "returned" /\ request.stream /\ acc'.text = acc.text
  <2>1. M \in 0..Len(sent') /\ Lists(acc'.text, Texts(M)')
    BY <1>0, <1>7, <1>11, <1>c
  <2>2. ~(Early' \/ ~request'.stream)
    BY <1>11 DEF Early
  <2>3. AllRemembered'
    BY <1>8, <2>1, <2>2 DEF AllRemembered
  <2> QED
    BY <1>2, <1>3, <1>4, <1>5, <1>6, <2>3
<1>12. CASE acc'.text = IF c.kind = "text" THEN Append(acc.text, Len(sent) + 1) ELSE acc.text
  <2>1. Lists(acc'.text, Texts(N)')
    BY <1>7, <1>12, <1>a, <1>b, TextRemembered
  <2> QED
    BY <1>2, <1>3, <1>4, <1>5, <1>6, <1>9, <2>1
<1> QED
  BY <1>10, <1>11, <1>12

(* The client reads on: up to the chunk it has just read.                  *)
LEMMA ReceiveStep ==
  ASSUME Typed, Answering, Receive
  PROVE  Relayed'
<1> USE DEF Answering, Relayed
<1>0. /\ received \in 0..Len(wire) /\ Len(wire) \in Nat /\ DOMAIN wire = 1..Len(wire)
      /\ \A i \in DOMAIN wire : wire[i].chunk \in Positions
      /\ received < Len(wire) /\ received' = received + 1
      /\ UNCHANGED <<request, pc, sent, acc, wire>>
  BY RelayFacts DEF Receive
<1>1. \A n : IsWritten(n)' <=> IsWritten(n)
  BY <1>0 DEF IsWritten
<1>2. \A n : Texts(n)' = Texts(n)
  BY <1>0 DEF Texts
<1>3. InOrder' /\ Numbered' /\ Gapless' /\ AllWritten' /\ AllRemembered'
  BY <1>0, <1>1, <1>2 DEF InOrder, Numbered, Gapless, AllWritten, AllRemembered, Early
<1>4. PICK m \in 0..Len(sent) :
         /\ m = 0 \/ IsWritten(m)
         /\ \A i \in DOMAIN wire : wire[i].what = "chunk" => (i <= received <=> wire[i].chunk <= m)
  BY DEF ReadUpTo
<1>5. PICK r : r = received + 1
  OBVIOUS
<1>6. r \in DOMAIN wire /\ r \in Nat /\ \A i \in DOMAIN wire : i <= r <=> i <= received \/ i = r
  BY <1>0, <1>5
<1>7. CASE wire[r].what # "chunk"
  <2>1. \A i \in DOMAIN wire : wire[i].what = "chunk" => (i <= received' <=> wire[i].chunk <= m)
    BY <1>0, <1>4, <1>5, <1>6, <1>7
  <2> QED
    BY <1>0, <1>1, <1>3, <1>4, <2>1 DEF ReadUpTo
<1>8. CASE wire[r].what = "chunk"
  <2>1. IsWritten(wire[r].chunk) /\ wire[r].chunk \in Positions
    BY <1>0, <1>6, <1>8 DEF IsWritten
  <2>2. Len(sent) \in Nat
    BY RelayFacts
  <2>3. wire[r].chunk \in 0..Len(sent)
    BY <2>1, <2>2 DEF Numbered
  <2>4. ASSUME NEW i \in DOMAIN wire, wire[i].what = "chunk" PROVE i <= r <=> wire[i].chunk <= wire[r].chunk
    <3>1. wire[i].chunk \in Nat /\ wire[r].chunk \in Nat
      BY <1>0, <1>6, PositionsAreNat
    <3>2. i < r => wire[i].chunk < wire[r].chunk
      BY <1>6, <1>8, <2>4 DEF InOrder
    <3>3. r < i => wire[r].chunk < wire[i].chunk
      BY <1>6, <1>8, <2>4 DEF InOrder
    <3>4. i \in Nat /\ (i < r \/ i = r \/ r < i)
      BY <1>0, <1>6
    <3> QED
      BY <1>6, <3>1, <3>2, <3>3, <3>4
  <2> QED
    BY <1>0, <1>1, <1>3, <1>5, <2>1, <2>3, <2>4 DEF ReadUpTo
<1> QED
  BY <1>7, <1>8

(* An answer in one piece is the only thing written of it.                 *)
LEMMA ReplyStep ==
  ASSUME Typed, Closing, Answering, Reply, wire' = wire \o <<Event("chunk", acc.last)>>
  PROVE  Relayed'
<1> USE DEF Answering, Relayed
<1>1. /\ ~request.stream /\ wire = <<>> /\ received = 0 /\ acc.last = 1 /\ Len(sent) = 1
      /\ UNCHANGED <<request, sent, acc, received>> /\ pc' = "done"
  <2>1. /\ ~request.stream /\ wire = <<>> /\ Len(sent) <= 1 /\ acc.last <= Len(sent) /\ acc.last # 0
        /\ UNCHANGED <<request, sent, acc, received>> /\ pc' = "done"
    <3>1. ~request.stream
      BY DEF Reply, Closing
    <3> QED
      BY <3>1 DEF Reply, OneAnswer
  <2>2. Len(sent) \in Nat /\ acc.last \in Nat /\ received \in 0..Len(wire)
    BY RelayFacts, PositionsAreNat DEF AccType
  <2>3. \A a, b \in Nat : a <= 1 /\ b <= a /\ b # 0 => a = 1 /\ b = 1
    OBVIOUS
  <2>4. received = 0
    BY <2>1, <2>2
  <2> QED
    BY <2>1, <2>2, <2>3, <2>4
<1>2. DOMAIN wire' = {1} /\ wire'[1] = Event("chunk", 1)
  BY <1>1
<1>3. \A n : IsWritten(n)' <=> n = 1
  BY <1>2 DEF IsWritten, Event
<1>4. Texts(1)' \subseteq {1}
  BY DEF Texts
<1>5. \A n : Texts(n)' = Texts(n)
  BY <1>1 DEF Texts
<1>6. InOrder' /\ Numbered' /\ Gapless' /\ AllWritten'
  BY <1>1, <1>2, <1>3, <1>4 DEF InOrder, Numbered, Gapless, AllWritten
<1>7. ReadUpTo'
  <2>1. \A i \in DOMAIN wire' : i <= received' <=> wire'[i].chunk <= 0
    BY <1>1, <1>2 DEF Event
  <2>2. 0 \in 0..Len(sent')
    BY <1>1
  <2> QED
    BY <2>1, <2>2 DEF ReadUpTo
<1>8. AllRemembered'
  <2>1. PICK n \in 0..Len(sent) : Lists(acc.text, Texts(n)) /\ n = Len(sent)
    BY <1>1 DEF AllRemembered
  <2>2. Lists(acc'.text, Texts(n)') /\ n \in 0..Len(sent') /\ n = Len(sent')
    BY <1>1, <1>5, <2>1
  <2>3. \A k \in Positions : IsWritten(k)' => k <= n
    BY <1>1, <1>3, <2>1
  <2> QED
    BY <2>2, <2>3 DEF AllRemembered
<1> QED
  BY <1>6, <1>7, <1>8

(* The provider sends a chunk, or its whole answer.                        *)
LEMMA ChunkStep ==
  ASSUME Typed, Answering, NEW c \in ChunksOf(request.endpoint), ProviderChunk(c) \/ ProviderAnswers(c)
  PROVE  Answering'
<1>0. /\ pc = "sdk" /\ c \in AnyChunk /\ sent' = Append(sent, c)
      /\ UNCHANGED <<request, received, client, stored>>
  BY ChunkSent
<1>1. CASE ProviderChunk(c)
  <2>1. request.stream /\ pc' \in {"sdk", "returned"}
    BY <1>0, <1>1 DEF ProviderChunk
  <2>2. OneAnswer' /\ Saved'
    BY <1>0, <2>1 DEF OneAnswer, Saved
  <2>3. CASE RelayChunk(c, Len(sent) + 1) /\ UNCHANGED <<pc, result, writeFailed>>
    <3>1. CASE c.kind = "junk" /\ request.endpoint = "completions"
      <4>1. c.kind # "text" /\ acc'.text = acc.text /\ UNCHANGED wire
        BY <2>3, <3>1 DEF RelayChunk
      <4> QED
        BY <1>0, <2>2, <4>1, UnwrittenChunk DEF Answering
    <3>2. CASE ~(c.kind = "junk" /\ request.endpoint = "completions")
      <4>1. wire' = wire \o <<Event("chunk", Len(sent) + 1)>>
        BY <2>3, <3>2 DEF RelayChunk, Written
      <4>2. acc' = IF c.kind = "junk" THEN [acc EXCEPT !.last = Len(sent) + 1] ELSE Remembered(c, Len(sent) + 1)
        BY <2>3, <3>2 DEF RelayChunk
      <4>3. acc'.text = IF c.kind = "text" THEN Append(acc.text, Len(sent) + 1) ELSE acc.text
        BY <4>2, RelayFacts DEF Remembered, AccType
      <4> QED
        BY <1>0, <2>1, <2>2, <2>3, <4>1, <4>3, WrittenChunk DEF Answering
    <3> QED
      BY <3>1, <3>2
  <2>4. CASE RelayFails(c, Len(sent) + 1) /\ pc' = "returned"
    <3>1. UNCHANGED wire /\ (acc' = acc \/ acc' = Remembered(c, Len(sent) + 1))
      BY <2>4 DEF RelayFails, WriteError
    <3>2. \/ acc'.text = acc.text
          \/ acc'.text = IF c.kind = "text" THEN Append(acc.text, Len(sent) + 1) ELSE acc.text
      <4>1. Remembered(c, Len(sent) + 1).text = IF c.kind = "text" THEN Append(acc.text, Len(sent) + 1) ELSE acc.text
        BY DEF Remembered
      <4> QED
        BY <3>1, <4>1
    <3> QED
      BY <1>0, <2>1, <2>2, <2>4, <3>1, <3>2, UnwrittenChunk DEF Answering
  <2> QED
    BY <1>1, <2>3, <2>4 DEF ProviderChunk
<1>2. CASE ProviderAnswers(c)
  <2>1. sent = <<>> /\ Len(sent) = 0 /\ sent' = <<c>> /\ Len(sent') = 1
    BY <1>2, EmptySeq DEF ProviderAnswers, Typed, NothingSent
  <2>2. ~request.stream /\ pc' = "returned" /\ UNCHANGED wire
    BY <1>2 DEF ProviderAnswers
  <2>3. acc' = IF c.kind \in {"junk", "vectors"} THEN [acc EXCEPT !.last = 1] ELSE Remembered(c, 1)
    BY <1>2 DEF ProviderAnswers
  <2>4. /\ acc'.last = 1
        /\ acc'.text = IF c.kind = "text" THEN Append(acc.text, Len(sent) + 1) ELSE acc.text
    BY <2>1, <2>3, RelayFacts DEF Remembered, AccType
  <2>5. wire = <<>>
    BY <1>0, <2>2 DEF Answering, OneAnswer
  <2>6. OneAnswer' /\ Saved'
    BY <2>1, <2>2, <2>4, <2>5 DEF OneAnswer, Saved
  <2> QED
    BY <1>0, <2>2, <2>4, <2>6, UnwrittenChunk DEF Answering
<1> QED
  BY <1>1, <1>2

LEMMA AnsweringStep == Typed /\ Closing /\ Answering /\ [Next]_relayVars => Answering'
<1> SUFFICES ASSUME Typed, Closing, Answering, [Next]_relayVars PROVE Answering'
  OBVIOUS
<1> USE DEF Answering
<1>1. ASSUME UNCHANGED <<request, sent, received, acc, wire, pc, stored, unsaved>> PROVE Answering'
  <2>1. QuietWire
    BY <1>1 DEF QuietWire
  <2>2. Relayed'
    BY <1>1, <2>1, QuietStep DEF Early
  <2>3. \A n : IsWritten(n)' <=> IsWritten(n)
    BY <2>1, QuietSame
  <2> QED
    BY <1>1, <2>2, <2>3 DEF OneAnswer, Saved
<1>2. CASE UNCHANGED relayVars
  BY <1>1, <1>2 DEF relayVars
<1>3. CASE ClientLeaves
  BY <1>1, <1>3 DEF ClientLeaves
<1>4. CASE Receive
  <2>1. \A n : IsWritten(n)' <=> IsWritten(n)
    BY <1>4 DEF Receive, IsWritten
  <2> QED
    BY <1>4, <2>1, ReceiveStep DEF Receive, OneAnswer, Saved
<1>5. CASE \E c \in ChunksOf(request.endpoint) : ProviderChunk(c) \/ ProviderAnswers(c)
  BY <1>5, ChunkStep
<1>6. CASE ResolveSession
  <2>1. sent = <<>> /\ pc' \in {"inbound", "done"} /\ UNCHANGED <<request, sent, received, acc, stored>>
    BY <1>6 DEF ResolveSession, Typed, NothingSent
  <2>2. QuietWire
    BY <1>6, QuietWrites DEF ResolveSession
  <2>3. Relayed'
    BY <1>6, <2>1, <2>2, QuietStep DEF Early, ResolveSession
  <2>4. \A n \in Positions : ~IsWritten(n)'
    BY <2>1, <2>2, QuietSame, EmptySeq DEF Relayed, Numbered
  <2>5. pc' = "done" \/ UNCHANGED wire
    BY <1>6 DEF ResolveSession
  <2> QED
    BY <1>6, <2>1, <2>3, <2>4, <2>5 DEF OneAnswer, Saved, ResolveSession
<1>7. CASE PersistInbound
  <2>1. UNCHANGED <<request, sent, received, acc, wire>> /\ pc = "inbound" /\ pc' = "sdk"
    BY <1>7 DEF PersistInbound
  <2>2. sent = <<>> /\ QuietWire
    BY <2>1 DEF Typed, NothingSent, QuietWire
  <2>3. Relayed'
    BY <2>1, <2>2, QuietStep DEF Early
  <2> QED
    BY <2>1, <2>3 DEF OneAnswer, Saved
<1>8. CASE ProviderEnds \/ SdkFails
  <2>1. UNCHANGED <<request, sent, received, acc>> /\ pc = "sdk" /\ pc' = "returned"
    BY <1>8 DEF ProviderEnds, SdkFails
  <2>2. QuietWire
    BY <1>8, QuietWrites DEF ProviderEnds, SdkFails
  <2>3. Relayed'
    BY <2>1, <2>2, QuietStep DEF Early
  <2>4. request.stream \/ UNCHANGED wire
    BY <1>8 DEF ProviderEnds, SdkFails
  <2> QED
    BY <2>1, <2>3, <2>4 DEF OneAnswer, Saved
<1>9. CASE StreamReturned
  <2>1. /\ UNCHANGED <<request, sent, received, acc>> /\ request.stream
        /\ pc = "returned" /\ pc' = "persist"
    BY <1>9 DEF StreamReturned
  <2>2. QuietWire
    BY <1>9, QuietWrites DEF StreamReturned
  <2>3. Relayed'
    BY <2>1, <2>2, QuietStep DEF Early
  <2> QED
    BY <2>1, <2>3 DEF OneAnswer, Saved
<1>10. CASE AnswerReturned
  <2>1. /\ UNCHANGED <<request, sent, received, acc>> /\ ~request.stream
        /\ pc = "returned" /\ pc' \in {"done", "persist"}
    BY <1>10 DEF AnswerReturned
  <2>2. QuietWire
    BY <1>10, QuietWrites DEF AnswerReturned
  <2>3. Relayed'
    BY <2>1, <2>2, QuietStep DEF Early
  <2>4. wire = <<>>
    BY <2>1 DEF OneAnswer
  <2>5. \A n : ~IsWritten(n)'
    <3>1. \A n : ~IsWritten(n)
      BY <2>4 DEF IsWritten
    <3> QED
      BY <2>2, <3>1, QuietSame
  <2>6. pc' = "done" \/ (UNCHANGED wire /\ acc.last # 0)
    BY <1>10 DEF AnswerReturned, Untranslatable
  <2> QED
    BY <2>1, <2>3, <2>5, <2>6 DEF OneAnswer, Saved
<1>11. CASE Persist
  <2>1. /\ UNCHANGED <<request, sent, received, acc, wire>> /\ pc = "persist"
        /\ pc' = IF request.stream THEN "done" ELSE "reply"
    BY <1>11 DEF Persist
  <2>2. QuietWire
    BY <2>1 DEF QuietWire
  <2>3. Relayed'
    BY <2>1, <2>2, QuietStep DEF Early
  <2>4. acc.text # <<>> /\ ~unsaved' => stored' = Append(stored, Row("assistant", acc.text, acc.calls))
    BY <1>11 DEF Persist, StoresTurn
  <2>5. acc.text # <<>> /\ ~unsaved' => stored' # <<>> /\ Last(stored') = Row("assistant", acc.text, acc.calls)
    <3>1. stored \in Seq([role : {"user", "tool", "assistant"}, text : Seq(Positions), calls : Seq(Call)])
      BY RelayFacts DEF StoredType
    <3>2. \A e : Append(stored, e) # <<>> /\ Last(Append(stored, e)) = e
      BY <3>1 DEF Last
    <3> QED
      BY <2>4, <3>2
  <2> QED
    BY <2>1, <2>3, <2>5 DEF OneAnswer, Saved
<1>12. CASE Reply
  <2>1. /\ UNCHANGED <<request, sent, received, acc, stored, unsaved>> /\ pc = "reply" /\ pc' = "done"
    BY <1>12 DEF Reply
  <2>2. Relayed'
    <3>1. CASE UNCHANGED wire
      <4>1. QuietWire
        BY <3>1 DEF QuietWire
      <4> QED
        BY <2>1, <4>1, QuietStep DEF Early
    <3>2. CASE wire' = wire \o <<Event("chunk", acc.last)>>
      BY <1>12, <3>2, ReplyStep
    <3> QED
      BY <1>12, <3>1, <3>2 DEF Reply, Written, WriteError
  <2> QED
    BY <2>1, <2>2 DEF OneAnswer, Saved
<1> QED
  BY <1>2, <1>3, <1>4, <1>5, <1>6, <1>7, <1>8, <1>9, <1>10, <1>11, <1>12
     DEF Next, Handler, ProviderFails, ContextCancelled

LEMMA InitAnswering == Init => Answering
<1> SUFFICES ASSUME Init PROVE Answering
  OBVIOUS
<1>1. /\ sent = <<>> /\ Len(sent) = 0 /\ wire = <<>> /\ DOMAIN wire = {} /\ received = 0
      /\ acc.text = <<>> /\ acc.last = 0 /\ pc = "resolve"
  BY EmptySeq DEF Init
<1>2. Texts(0) = {} /\ 0 \in 0..Len(sent) /\ \A n : ~IsWritten(n)
  BY <1>1 DEF Texts, IsWritten
<1>3. ReadUpTo /\ AllRemembered
  BY <1>1, <1>2, NothingListed DEF ReadUpTo, AllRemembered
<1> QED
  BY <1>1, <1>2, <1>3 DEF Answering, Relayed, InOrder, Numbered, Gapless, AllWritten, OneAnswer, Saved

(* The stored turn is the answer the client saw: every text it read, in    *)
(* order and without a gap, and after them what the provider sent next.    *)
THEOREM TurnIsAnswer == Spec => []TurnMatchesAnswer
<1>1. Typed /\ Answering => TurnMatchesAnswer
  <2> SUFFICES ASSUME Typed, Answering, pc = "done", ~unsaved, TextsRead # {}
               PROVE  /\ stored # <<>> /\ Last(stored).role = "assistant"
                      /\ \E m, n \in 0..Len(sent) :
                            m <= n /\ TextsRead = Texts(m) /\ Lists(Last(stored).text, Texts(n))
    BY DEF TurnMatchesAnswer
  <2> USE DEF Answering, Relayed
  <2>1. PICK m \in 0..Len(sent) :
           /\ m = 0 \/ IsWritten(m)
           /\ \A i \in DOMAIN wire : wire[i].what = "chunk" => (i <= received <=> wire[i].chunk <= m)
    BY DEF ReadUpTo
  <2>2. PICK n \in 0..Len(sent) : /\ Lists(acc.text, Texts(n))
                                  /\ \A k \in Positions : IsWritten(k) => k <= n
    BY DEF AllRemembered
  <2>3. /\ Len(sent) \in Nat /\ Len(wire) \in Nat /\ DOMAIN wire = 1..Len(wire) /\ received \in 0..Len(wire)
        /\ 0..Len(sent) \subseteq Positions
    BY RelayFacts
  <2>4. m \in Positions /\ n \in Positions /\ m \in Nat /\ n \in Nat
    BY <2>3, PositionsAreNat
  <2>5. m <= n
    BY <2>1, <2>2, <2>4
  <2>6. \A k \in Nat : k \in Delivered <=> k <= m /\ IsWritten(k)
    <3>1. \A i : i \in 1..received <=> i \in DOMAIN wire /\ i <= received
      BY <2>3
    <3>2. \A k : k \in Delivered <=> \E i \in DOMAIN wire : i <= received /\ wire[i].what = "chunk" /\ wire[i].chunk = k
      BY <3>1 DEF Delivered
    <3> QED
      BY <2>1, <3>2 DEF IsWritten
  <2>7. TextsRead = Texts(m)
    <3>1. \A k : k \in Texts(m) <=> k \in Texts(Len(sent)) /\ k <= m
      BY <2>3, <2>4 DEF Texts
    <3>2. \A k \in Texts(m) : IsWritten(k)
      <4>1. CASE m = 0
        BY <4>1 DEF Texts
      <4>2. CASE IsWritten(m)
        BY <2>4, <4>2 DEF Gapless
      <4> QED
        BY <2>1, <4>1, <4>2
    <3>3. Texts(Len(sent)) \subseteq Nat
      BY <2>3 DEF Texts
    <3> QED
      BY <2>6, <3>1, <3>2, <3>3 DEF TextsRead
  <2>8. PICK k : k \in Texts(m)
    BY <2>7
  <2>9. k \in Texts(n) /\ IsWritten(m)
    BY <2>1, <2>4, <2>5, <2>8 DEF Texts
  <2>10. acc.text # <<>>
    BY <2>2, <2>9 DEF Lists, Range
  <2>11. stored # <<>> /\ Last(stored) = Row("assistant", acc.text, acc.calls)
    BY <2>4, <2>9, <2>10 DEF Saved
  <2> QED
    BY <2>2, <2>5, <2>7, <2>11 DEF Row
<1> QED
  BY <1>1, InitAnswering, AnsweringStep, SpecTyped, SpecClosing, PTL DEF Spec
-----------------------------------------------------------------------------
(* The fragments of tool calls, when the provider sends one chunk more.    *)
LEMMA FragmentSent ==
  ASSUME Typed, NEW c \in AnyChunk, sent' = Append(sent, c), NEW N, N = Len(sent) + 1
  PROVE  /\ N \in Nat /\ SentFragments \in SUBSET Nat
         /\ \A n \in SentFragments : n < N /\ sent'[n] = sent[n]
         /\ sent'[N] = c
         /\ \A n : n \in SentFragments' <=> n \in SentFragments \/ (n = N /\ c.kind = "call")
<1>1. /\ Len(sent) \in Nat /\ DOMAIN sent = 1..Len(sent) /\ DOMAIN sent' = 1..N /\ N \in Nat
      /\ \A i \in 1..Len(sent) : sent'[i] = sent[i]
      /\ sent'[N] = c
  BY RelayFacts, AppendFacts
<1>2. \A i : i \in 1..N <=> i \in 1..Len(sent) \/ i = N
  BY <1>1
<1>3. \A n \in SentFragments : n \in 1..Len(sent)
  BY <1>1 DEF SentFragments
<1>4. \A n \in SentFragments : n < N
  BY <1>1, <1>3
<1>5. \A n : n \in SentFragments' <=> n \in SentFragments \/ (n = N /\ c.kind = "call")
  <2>1. N \notin 1..Len(sent)
    BY <1>1
  <2> QED
    BY <1>1, <1>2, <2>1 DEF SentFragments
<1>6. SentFragments \in SUBSET Nat
  BY <1>1, <1>3
<1> QED
  BY <1>1, <1>3, <1>4, <1>5, <1>6

(* A call is put together of the same fragments after the step, or of one  *)
(* more.                                                                   *)
LEMMA CallKept ==
  ASSUME Typed, NEW c \in AnyChunk, sent' = Append(sent, c),
         NEW call, NEW F \in SUBSET SentFragments, PutTogether(call, F)
  PROVE  PutTogether(call, F)'
<1>1. \A n \in SentFragments : sent'[n] = sent[n]
  <2>1. PICK N : N = Len(sent) + 1
    OBVIOUS
  <2> QED
    BY <2>1, FragmentSent
<1>2. Naming(F)' = Naming(F)
  BY <1>1 DEF Naming
<1>3. Lists(call.args, F) /\ LastName(call.name, F)
  BY DEF PutTogether
<1>4. LastName(call.name, F)'
  BY <1>2, <1>3 DEF LastName
<1> QED
  BY <1>3, <1>4 DEF PutTogether

LEMMA CallExtended ==
  ASSUME Typed, NEW c \in Fragments, sent' = Append(sent, c), NEW N, N = Len(sent) + 1,
         NEW call \in Call, NEW F \in SUBSET SentFragments, PutTogether(call, F)
  PROVE  PutTogether(Merged(call, c, N), F \cup {N})'
<1>1. c \in AnyChunk
  BY DEF AnyChunk, ChatChunks
<1>2. /\ N \in Nat /\ F \in SUBSET Nat /\ sent'[N] = c
      /\ \A n \in F : n < N /\ sent'[n] = sent[n]
  BY <1>1, FragmentSent
<1>3. Lists(call.args, F) /\ LastName(call.name, F)
  BY DEF PutTogether
<1>4. Lists(Append(call.args, N), F \cup {N})
  <2>1. call.args \in Seq(Nat)
    <3>1. call.args \in Seq(Positions)
      BY DEF Call
    <3>2. call.args \in [1..Len(call.args) -> Positions] /\ Len(call.args) \in Nat
      BY <3>1
    <3>3. call.args \in [1..Len(call.args) -> Nat]
      BY <3>2, PositionsAreNat
    <3> QED
      BY <3>2, <3>3
  <2> QED
    BY <1>2, <1>3, <2>1, ListGrows
<1>5. \A n : n \in Naming(F \cup {N})' <=> n \in Naming(F) \/ (n = N /\ c.named)
  BY <1>2 DEF Naming
<1>6. PICK name : name = IF c.named THEN N ELSE call.name
  OBVIOUS
<1>7. LastName(name, F \cup {N})'
  <2>1. CASE c.named
    <3>1. \A n \in Naming(F) : n <= N
      BY <1>2 DEF Naming
    <3>2. N <= N
      BY <1>2
    <3> QED
      BY <1>5, <1>6, <2>1, <3>1, <3>2 DEF LastName
  <2>2. CASE ~c.named
    <3>1. Naming(F \cup {N})' = Naming(F) /\ name = call.name
      BY <1>5, <1>6, <2>2
    <3> QED
      BY <1>3, <3>1 DEF LastName
  <2> QED
    BY <2>1, <2>2
<1>8. /\ Merged(call, c, N).args = Append(call.args, N)
      /\ Merged(call, c, N).name = name
  BY <1>6 DEF Merged
<1> QED
  BY <1>4, <1>7, <1>8 DEF PutTogether

LEMMA EmptyCall == PutTogether(NoCall, {})
  BY NothingListed DEF PutTogether, LastName, Naming, NoCall

CallsByIndex ==
    Indexed /\ request.stream => \A i \in 0..MaxIndex : PutTogether(CallAt(acc.calls, i), FragmentsOf(i))

CallsByFragment ==
    Unindexed \/ ~request.stream =>
        /\ \A i \in DOMAIN acc.calls : PutTogether(acc.calls[i], {acc.calls[i].args[1]})
        /\ Lists([i \in DOMAIN acc.calls |-> acc.calls[i].args[1]], SentFragments)

(* A chunk that is no fragment leaves the calls and their fragments alone. *)
LEMMA NoFragment ==
  ASSUME Typed, CallsByIndex, CallsByFragment, NEW c \in AnyChunk, sent' = Append(sent, c),
         c.kind # "call", acc'.calls = acc.calls, UNCHANGED request
  PROVE  CallsByIndex' /\ CallsByFragment'
<1>1. /\ SentFragments' = SentFragments
      /\ \A n \in SentFragments : sent'[n] = sent[n]
  <2>1. PICK N : N = Len(sent) + 1
    OBVIOUS
  <2>2. \A n : n \in SentFragments' <=> n \in SentFragments
    BY <2>1, FragmentSent
  <2> QED
    BY <2>1, <2>2, FragmentSent
<1>2. \A i : FragmentsOf(i)' = FragmentsOf(i)
  BY <1>1 DEF FragmentsOf
<1>3. \A i : FragmentsOf(i) \in SUBSET SentFragments
  BY DEF FragmentsOf
<1>4. CallsByIndex'
  <2> SUFFICES ASSUME Indexed', request.stream, NEW i \in 0..MaxIndex
               PROVE  PutTogether(CallAt(acc.calls, i), FragmentsOf(i))'
    BY DEF CallsByIndex
  <2>1. PICK call : call = CallAt(acc.calls, i)
    OBVIOUS
  <2>2. PICK F : F = FragmentsOf(i)
    OBVIOUS
  <2>3. Indexed /\ PutTogether(call, F)
    BY <1>1, <2>1, <2>2 DEF Indexed, CallsByIndex
  <2>4. PutTogether(call, F)'
    BY <1>3, <2>2, <2>3, CallKept
  <2>5. CallAt(acc.calls, i)' = call /\ FragmentsOf(i)' = F
    BY <1>2, <2>1, <2>2 DEF CallAt
  <2> QED
    BY <2>4, <2>5 DEF PutTogether, LastName, Naming
<1>5. CallsByFragment'
  <2> SUFFICES ASSUME Unindexed' \/ ~request.stream
               PROVE  /\ \A i \in DOMAIN acc'.calls : PutTogether(acc.calls[i], {acc.calls[i].args[1]})'
                      /\ Lists([i \in DOMAIN acc.calls |-> acc.calls[i].args[1]], SentFragments)'
    BY DEF CallsByFragment
  <2>1. /\ \A i \in DOMAIN acc.calls : PutTogether(acc.calls[i], {acc.calls[i].args[1]})
        /\ Lists([i \in DOMAIN acc.calls |-> acc.calls[i].args[1]], SentFragments)
    BY <1>1 DEF Unindexed, CallsByFragment
  <2>2. Lists([i \in DOMAIN acc.calls |-> acc.calls[i].args[1]], SentFragments)'
    BY <1>1, <2>1 DEF Lists
  <2>3. ASSUME NEW i \in DOMAIN acc.calls
        PROVE  PutTogether(acc.calls[i], {acc.calls[i].args[1]})'
    <3>1. PICK call : call = acc.calls[i]
      OBVIOUS
    <3>2. PICK F : F = {call.args[1]}
      OBVIOUS
    <3>3. F \in SUBSET SentFragments
      BY <2>1, <3>1, <3>2 DEF Lists, Range
    <3>4. PutTogether(call, F)'
      BY <2>1, <3>1, <3>2, <3>3, CallKept
    <3>5. acc'.calls[i] = call /\ {acc'.calls[i].args[1]} = F
      BY <3>1, <3>2
    <3> QED
      BY <3>4, <3>5 DEF PutTogether, LastName, Naming
  <2> QED
    BY <2>2, <2>3
<1> QED
  BY <1>4, <1>5

(* A stream's fragment joins the call of its index, or is one of its own.  *)
LEMMA FragmentMerged ==
  ASSUME Typed, CallsByIndex, CallsByFragment, NEW c \in Fragments, sent' = Append(sent, c),
         acc'.calls = MergeToolCallDeltas(acc.calls, c, Len(sent) + 1), Len(sent) + 1 \in 1..MaxChunks,
         request.stream, UNCHANGED request
  PROVE  CallsByIndex' /\ CallsByFragment'
<1>a. PICK N : N = Len(sent) + 1
  OBVIOUS
<1>b. PICK calls : calls = acc.calls
  OBVIOUS
<1>0. /\ c \in AnyChunk /\ c.kind = "call" /\ calls \in Seq(Call)
      /\ N \in Positions /\ N \in Nat
  <2>1. 1..MaxChunks \subseteq Positions
    BY RelayAssumption DEF Positions
  <2> QED
    BY <1>a, <1>b, <2>1, RelayFacts, FragmentSent DEF AnyChunk, ChatChunks, Fragments, AccType
<1>1. /\ \A n \in SentFragments : n < N /\ sent'[n] = sent[n]
      /\ sent'[N] = c /\ SentFragments \in SUBSET Nat
      /\ SentFragments' = SentFragments \cup {N}
  <2>1. \A n : n \in SentFragments' <=> n \in SentFragments \/ n = N
    BY <1>0, <1>a, FragmentSent
  <2> QED
    BY <1>0, <1>a, <2>1, FragmentSent
<1>2. \A i : FragmentsOf(i)' = IF i = c.index THEN FragmentsOf(i) \cup {N} ELSE FragmentsOf(i)
  <2> TAKE i
  <2>1. \A n : n \in FragmentsOf(i)' <=> n \in FragmentsOf(i) \/ (n = N /\ i = c.index)
    BY <1>1 DEF FragmentsOf
  <2> QED
    BY <2>1
<1>3. \A i : FragmentsOf(i) \in SUBSET SentFragments
  BY DEF FragmentsOf
<1>4. CallsByIndex'
  <2> SUFFICES ASSUME Indexed', request.stream, NEW i \in 0..MaxIndex
               PROVE  PutTogether(CallAt(acc.calls, i), FragmentsOf(i))'
    BY DEF CallsByIndex
  <2>1. Indexed /\ c.index # NoIndex
    BY <1>1 DEF Indexed
  <2>2. i \in Nat
    OBVIOUS
  <2>3. PICK call : call = CallAt(calls, i)
    OBVIOUS
  <2>4. PICK F : F = FragmentsOf(i)
    OBVIOUS
  <2>5. PutTogether(call, F) /\ F \in SUBSET SentFragments
    BY <1>3, <1>b, <2>1, <2>3, <2>4 DEF CallsByIndex
  <2>6. CallAt(acc.calls, i)' = IF i = c.index THEN Merged(call, c, N) ELSE call
    BY <1>0, <1>a, <1>b, <2>1, <2>2, <2>3, MergeEffect
  <2>7. CASE i = c.index
    <3>1. call \in Call
      BY <1>0, <2>3, NoCallIsCall DEF CallAt
    <3>2. PutTogether(Merged(call, c, N), F \cup {N})'
      BY <1>a, <2>5, <3>1, CallExtended
    <3> QED
      BY <1>2, <2>4, <2>6, <2>7, <3>2 DEF PutTogether, LastName, Naming
  <2>8. CASE i # c.index
    <3>1. PutTogether(call, F)'
      BY <1>0, <2>5, CallKept
    <3> QED
      BY <1>2, <2>4, <2>6, <2>8, <3>1 DEF PutTogether, LastName, Naming
  <2> QED
    BY <2>7, <2>8
<1>5. CallsByFragment'
  <2> SUFFICES ASSUME Unindexed'
               PROVE  /\ \A i \in DOMAIN acc'.calls : PutTogether(acc.calls[i], {acc.calls[i].args[1]})'
                      /\ Lists([i \in DOMAIN acc.calls |-> acc.calls[i].args[1]], SentFragments)'
    BY DEF CallsByFragment
  <2>1. Unindexed /\ c.index = NoIndex
    BY <1>1 DEF Unindexed
  <2>2. PICK new : new = Merged(NoCall, c, N)
    OBVIOUS
  <2>3. new \in Call /\ new.args = <<N>>
    <3>1. Append(<<>>, N) = <<N>>
      OBVIOUS
    <3> QED
      BY <1>0, <2>2, <3>1, NoCallIsCall, MergedType DEF Merged, NoCall
  <2>4. acc'.calls = Append(calls, new)
    BY <1>a, <1>b, <2>1, <2>2 DEF MergeToolCallDeltas
  <2>5. /\ DOMAIN calls = 1..Len(calls) /\ Len(calls) \in Nat
        /\ DOMAIN acc'.calls = 1..Len(calls) + 1
        /\ \A i \in 1..Len(calls) : acc'.calls[i] = calls[i]
        /\ acc'.calls[Len(calls) + 1] = new
    <3>1. DOMAIN calls = 1..Len(calls) /\ Len(calls) \in Nat
      BY <1>0
    <3>2. /\ DOMAIN Append(calls, new) = 1..Len(calls) + 1
          /\ \A i \in 1..Len(calls) : Append(calls, new)[i] = calls[i]
          /\ Append(calls, new)[Len(calls) + 1] = new
      BY <1>0, <2>3, AppendFacts
    <3> QED
      BY <2>4, <3>1, <3>2
  <2>6. \A i \in 1..Len(calls) + 1 : i \in 1..Len(calls) \/ i = Len(calls) + 1
    BY <2>5
  <2>7. /\ \A i \in DOMAIN calls : PutTogether(calls[i], {calls[i].args[1]})
        /\ Lists([i \in DOMAIN calls |-> calls[i].args[1]], SentFragments)
    BY <1>b, <2>1 DEF CallsByFragment
  <2>8. ASSUME NEW i \in 1..Len(calls) PROVE PutTogether(acc.calls[i], {acc.calls[i].args[1]})'
    <3>1. PICK call : call = calls[i]
      OBVIOUS
    <3>2. PICK F : F = {call.args[1]}
      OBVIOUS
    <3>3. F \in SUBSET SentFragments
      BY <2>5, <2>7, <3>1, <3>2 DEF Lists, Range
    <3>4. PutTogether(call, F)'
      BY <1>0, <2>5, <2>7, <3>1, <3>2, <3>3, CallKept
    <3>5. acc'.calls[i] = call /\ {acc'.calls[i].args[1]} = F
      BY <2>5, <3>1, <3>2
    <3> QED
      BY <3>4, <3>5 DEF PutTogether, LastName, Naming
  <2>9. PutTogether(new, {N})'
    <3>1. {} \cup {N} = {N}
      OBVIOUS
    <3>2. PutTogether(new, {} \cup {N})'
      BY <1>a, <2>2, EmptyCall, NoCallIsCall, CallExtended
    <3> QED
      BY <3>1, <3>2
  <2>10. PutTogether(acc.calls[Len(calls) + 1], {acc.calls[Len(calls) + 1].args[1]})'
    <3>1. acc'.calls[Len(calls) + 1] = new /\ {acc'.calls[Len(calls) + 1].args[1]} = {N}
      BY <2>3, <2>5
    <3> QED
      BY <2>9, <3>1 DEF PutTogether, LastName, Naming
  <2>11. Lists([i \in DOMAIN acc.calls |-> acc.calls[i].args[1]], SentFragments)'
    <3> DEFINE firsts == [i \in 1..Len(calls) |-> calls[i].args[1]]
               firsts2 == [i \in 1..Len(calls) + 1 |-> acc'.calls[i].args[1]]
    <3>1. firsts \in Seq(Nat) /\ Len(firsts) = Len(calls)
      <4>1. \A i \in 1..Len(calls) : calls[i].args[1] \in Nat
        BY <1>1, <2>5, <2>7 DEF Lists, Range
      <4>2. firsts \in [1..Len(calls) -> Nat]
        BY <4>1
      <4> HIDE DEF firsts
      <4> QED
        BY <2>5, <4>2
    <3>2. firsts2 = Append(firsts, N)
      <4>1. Append(firsts, N) = [i \in 1..Len(calls) + 1 |-> IF i = Len(calls) + 1 THEN N ELSE firsts[i]]
        BY <1>0, <2>5, <3>1
      <4>2. \A i \in 1..Len(calls) + 1 : acc'.calls[i].args[1] = IF i = Len(calls) + 1 THEN N ELSE firsts[i]
        BY <2>3, <2>5, <2>6
      <4> QED
        BY <4>1, <4>2
    <3>3. Lists(firsts, SentFragments)
      BY <2>5, <2>7
    <3> HIDE DEF firsts
    <3>4. Lists(Append(firsts, N), SentFragments \cup {N})
      BY <1>0, <1>1, <3>1, <3>3, ListGrows
    <3> QED
      BY <1>1, <2>5, <3>2, <3>4
  <2> QED
    BY <2>5, <2>6, <2>8, <2>10, <2>11
<1> QED
  BY <1>4, <1>5

(* A call of an answer in one piece is kept as it is.                      *)
LEMMA AnswerMerged ==
  ASSUME Typed, NEW c \in Fragments, sent = <<>>, sent' = Append(sent, c), ~request.stream,
         UNCHANGED request, acc'.calls = <<Merged(NoCall, c, 1)>>
  PROVE  CallsByIndex' /\ CallsByFragment'
<1>1. PICK new : new = Merged(NoCall, c, 1)
  OBVIOUS
<1>2. Len(sent) + 1 = 1 /\ c \in AnyChunk /\ c.kind = "call"
  BY DEF AnyChunk, ChatChunks, Fragments
<1>3. SentFragments = {} /\ SentFragments' = {1}
  <2>1. SentFragments = {}
    BY DEF SentFragments
  <2>2. \A n : n \in SentFragments' <=> n \in SentFragments \/ n = 1
    BY <1>2, FragmentSent
  <2> QED
    BY <2>1, <2>2
<1>4. new.args = <<1>>
  <2>1. Append(<<>>, 1) = <<1>>
    OBVIOUS
  <2> QED
    BY <1>1, <2>1 DEF Merged, NoCall
<1>5. PutTogether(new, {1})'
  <2>1. {} \cup {1} = {1}
    OBVIOUS
  <2>2. PutTogether(new, {} \cup {1})'
    BY <1>1, <1>2, EmptyCall, NoCallIsCall, CallExtended
  <2> QED
    BY <2>1, <2>2
<1>6. DOMAIN acc'.calls = {1} /\ acc'.calls[1] = new
  BY <1>1
<1>7. \A i \in DOMAIN acc'.calls : PutTogether(acc.calls[i], {acc.calls[i].args[1]})'
  <2>1. acc'.calls[1] = new /\ {acc'.calls[1].args[1]} = {1}
    BY <1>4, <1>6
  <2> QED
    BY <1>5, <1>6, <2>1 DEF PutTogether, LastName, Naming
<1>8. Lists([i \in DOMAIN acc.calls |-> acc.calls[i].args[1]], SentFragments)'
  <2>1. [i \in DOMAIN acc'.calls |-> acc'.calls[i].args[1]] = [i \in {1} |-> 1]
    BY <1>4, <1>6
  <2>2. Lists([i \in {1} |-> 1], {1})
    BY DEF Lists, Range
  <2> QED
    BY <1>3, <2>1, <2>2 DEF Lists
<1> QED
  BY <1>7, <1>8 DEF CallsByIndex, CallsByFragment

CallsApart == request.endpoint = "chat" /\ ~writeFailed => CallsByIndex /\ CallsByFragment

LEMMA CallsApartStep == Typed /\ CallsApart /\ [Next]_relayVars => CallsApart'
<1> SUFFICES ASSUME Typed, CallsApart, [Next]_relayVars, request'.endpoint = "chat", ~writeFailed'
             PROVE  CallsByIndex' /\ CallsByFragment'
  BY DEF CallsApart
<1>1. CASE UNCHANGED <<request, sent, acc, writeFailed>>
  <2>1. CallsByIndex /\ CallsByFragment
    BY <1>1 DEF CallsApart
  <2> QED
    BY <1>1, <2>1 DEF CallsByIndex, CallsByFragment, Indexed, Unindexed, PutTogether, LastName, Naming,
                      FragmentsOf, SentFragments
<1>2. ASSUME NEW c \in ChunksOf(request.endpoint), ProviderChunk(c) \/ ProviderAnswers(c)
      PROVE  CallsByIndex' /\ CallsByFragment'
  <2>1. /\ c \in AnyChunk /\ sent' = Append(sent, c) /\ UNCHANGED request
        /\ Len(sent) + 1 \in 1..MaxChunks
    BY <1>2, ChunkSent
  <2>2. request.endpoint = "chat" /\ ~writeFailed
    BY <1>2, <2>1 DEF ProviderChunk, ProviderAnswers
  <2>3. CallsByIndex /\ CallsByFragment
    BY <2>2 DEF CallsApart
  <2>4. acc'.calls = IF c.kind = "call" THEN CallsAfter(c, Len(sent) + 1) ELSE acc.calls
    <3>1. \/ acc' = Remembered(c, Len(sent) + 1)
          \/ c.kind \in {"junk", "vectors"} /\ acc'.calls = acc.calls
      <4>1. CASE ProviderChunk(c)
        <5>1. RelayChunk(c, Len(sent) + 1)
          BY <4>1 DEF ProviderChunk
        <5>2. [acc EXCEPT !.last = Len(sent) + 1].calls = acc.calls
          BY RelayFacts DEF AccType
        <5> QED
          BY <2>2, <5>1, <5>2 DEF RelayChunk
      <4>2. CASE ProviderAnswers(c)
        <5>1. sent = <<>> /\ Len(sent) + 1 = 1
          BY <4>2, EmptySeq DEF ProviderAnswers, Typed, NothingSent
        <5> QED
          BY <4>2, <5>1 DEF ProviderAnswers
      <4> QED
        BY <1>2, <4>1, <4>2
    <3> QED
      BY <2>2, <3>1 DEF Remembered
  <2>5. CASE c.kind = "call" /\ request.stream
    BY <2>1, <2>3, <2>4, <2>5, CallsAreFragments, FragmentMerged DEF CallsAfter
  <2>7. CASE c.kind = "call" /\ ~request.stream
    <3>1. sent = <<>> /\ Len(sent) + 1 = 1
      BY <1>2, <2>7, EmptySeq DEF ProviderChunk, ProviderAnswers, Typed, NothingSent
    <3> QED
      BY <2>1, <2>4, <2>7, <3>1, CallsAreFragments, AnswerMerged DEF CallsAfter
  <2>6. CASE c.kind # "call"
    BY <2>1, <2>3, <2>4, <2>6, NoFragment
  <2> QED
    BY <2>5, <2>6, <2>7
<1> QED
  BY <1>1, <1>2 DEF Next, Handler, ResolveSession, PersistInbound, StreamReturned, AnswerReturned, Persist,
                    Reply, ProviderEnds, ProviderFails, ContextCancelled, SdkFails, Receive, ClientLeaves,
                    relayVars

(* Fragments of tool calls are put together as the client does it, and     *)
(* never mixed, whatever the order in which the calls' fragments come.     *)
THEOREM CallsNotMixed == Spec => []CallsKeptApart
<1>1. Init => CallsApart
  <2> SUFFICES ASSUME Init PROVE CallsByIndex /\ CallsByFragment
    BY DEF CallsApart
  <2>1. sent = <<>> /\ DOMAIN sent = {} /\ acc.calls = <<>> /\ DOMAIN acc.calls = {}
    BY DEF Init
  <2>2. SentFragments = {} /\ \A i : FragmentsOf(i) = {} /\ CallAt(acc.calls, i) = NoCall
    BY <2>1 DEF FragmentsOf, SentFragments, CallAt
  <2>3. CallsByIndex
    BY <2>2, EmptyCall DEF CallsByIndex
  <2>4. Lists([i \in DOMAIN acc.calls |-> acc.calls[i].args[1]], {})
    BY <2>1 DEF Lists, Range
  <2> QED
    BY <2>1, <2>2, <2>3, <2>4 DEF CallsByFragment
<1>2. CallsApart => CallsKeptApart
  BY DEF CallsApart, CallsByIndex, CallsByFragment, CallsKeptApart
<1> QED
  BY <1>1, <1>2, CallsApartStep, SpecTyped, PTL DEF Spec
-----------------------------------------------------------------------------
(* The steps still before the handler.                                     *)
StepsLeft(p) == CASE p = "resolve" -> 6 [] p = "inbound" -> 5 [] p = "sdk" -> 4
                  [] p = "returned" -> 3 [] p = "persist" -> 2 [] p = "reply" -> 1
                  [] p = "done" -> 0

(* Action property: once the client has gone it stays gone, so that the    *)
(* context stays done; every step of the handler, and the cancelled SDK    *)
(* call's return, brings the request closer to its end; and a provider     *)
(* that goes on sending never puts it back.                                *)
LeftRequestDescends ==
    [][client = "gone" =>
          /\ client' = "gone"
          /\ pc' = pc \/ StepsLeft(pc') < StepsLeft(pc)
          /\ Handler \/ ContextCancelled => StepsLeft(pc') < StepsLeft(pc)]_relayVars

(* The part of LeftRequestEnds that does not rest on fairness              *)
(* (handlers.go handleChatCompletions, handleCompletions and               *)
(* handleEmbeddings).                                                      *)
THEOREM LeftRequestComesToAnEnd == Spec => LeftRequestDescends
<1>1. ASSUME Handler \/ SdkFails \/ ProviderEnds
      PROVE  StepsLeft(pc') < StepsLeft(pc) /\ client' = client
  BY <1>1 DEF Handler, ResolveSession, PersistInbound, StreamReturned, AnswerReturned, Persist, Reply,
       SdkFails, ProviderEnds, StepsLeft
<1>2. ASSUME NEW c, ProviderChunk(c) \/ ProviderAnswers(c)
      PROVE  (pc' = pc \/ StepsLeft(pc') < StepsLeft(pc)) /\ client' = client
  BY <1>2 DEF ProviderChunk, ProviderAnswers, StepsLeft
<1>3. ASSUME Receive \/ ClientLeaves \/ UNCHANGED relayVars, client = "gone"
      PROVE  pc' = pc /\ client' = "gone"
  BY <1>3 DEF Receive, ClientLeaves, relayVars
<1>4. ASSUME [Next]_relayVars, client = "gone"
      PROVE  client' = "gone" /\ (pc' = pc \/ StepsLeft(pc') < StepsLeft(pc))
  BY <1>1, <1>2, <1>3, <1>4 DEF Next, ProviderFails, ContextCancelled
<1>5. [Next]_relayVars =>
        [client = "gone" =>
            /\ client' = "gone"
            /\ pc' = pc \/ StepsLeft(pc') < StepsLeft(pc)
            /\ Handler \/ ContextCancelled => StepsLeft(pc') < StepsLeft(pc)]_relayVars
  BY <1>1, <1>4 DEF ContextCancelled
<1> QED
  BY <1>5, PTL DEF Spec, LeftRequestDescends
=============================================================================
