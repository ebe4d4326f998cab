---------------------------- MODULE EndpointRelay ----------------------------
(***************************************************************************)
(* One authorised request of the gateway from its session to its end:      *)
(* handleChatCompletions, handleCompletions and handleEmbeddings.  The     *)
(* provider's answer comes through a callback of the SDK, chunk by chunk;  *)
(* it is relayed to the API client and remembered, and the turn is stored  *)
(* after the SDK call has returned, however it ended.                      *)
(*                                                                         *)
(* Three parties: the provider goes on or fails, the client reads or       *)
(* leaves, the handler runs between them.  A chunk is what the handler     *)
(* looks at in it; chunks, texts and fragments of tool calls are told      *)
(* apart by their number.  Requests share nothing but the store: which     *)
(* rows they use is GatewayRecords.  One choice per answer, and one        *)
(* fragment per chunk.                                                     *)
(***************************************************************************)
EXTENDS Integers, Sequences, SequencesExt

CONSTANTS MaxChunks,  \* bound on the chunks of an answer
          MaxIndex    \* largest index of a tool call

ASSUME RelayAssumption == MaxChunks \in Nat \ {0} /\ MaxIndex \in Nat

NoIndex == -1

Chunk(kind) == [kind |-> kind, index |-> NoIndex, named |-> FALSE]

Fragments == [kind : {"call"}, index : NoIndex..MaxIndex, named : BOOLEAN]

(* "junk" is JSON the probe structs cannot hold.                           *)
ChatChunks == {Chunk(k) : k \in {"text", "finish", "junk"}} \cup Fragments

ChunksOf(endpoint) == IF endpoint = "embeddings" THEN {Chunk("vectors")} ELSE ChatChunks

VARIABLES request,      \* endpoint, and whether a stream was asked for
          pc,           \* where the handler is
          sent,         \* chunks of the provider so far
          result,       \* what the SDK call returned
          acc,          \* assistantText, toolCalls, finishReason and lastChunk
          writeFailed,  \* streamFailed
          wire,         \* events written; a chunk event carries its number
          received,     \* how many of them the client has read
          client,       \* "reading" or "gone"
          stored,       \* rows stored for this request
          unsaved       \* the store failed to take the turn

relayVars == <<request, pc, sent, result, acc, writeFailed, wire, received, client, stored, unsaved>>

Event(what, n) == [what |-> what, chunk |-> n]

NoCall == [index |-> NoIndex, name |-> 0, args |-> <<>>]

Row(role, texts, calls) == [role |-> role, text |-> texts, calls |-> calls]

Positions == 0..MaxChunks
Call == [index : NoIndex..MaxIndex, name : Positions, args : Seq(Positions)]

TypeOK ==
    /\ request \in [endpoint : {"chat", "completions", "embeddings"}, stream : BOOLEAN]
    /\ pc \in {"resolve", "inbound", "sdk", "returned", "persist", "reply", "done"}
    /\ sent \in Seq(ChatChunks \cup {Chunk("vectors")})
    /\ result \in {"none", "ok", "error"}
    /\ acc \in [text : Seq(Positions), calls : Seq(Call), finish : BOOLEAN, last : Positions]
    /\ writeFailed \in BOOLEAN
    /\ wire \in Seq([what : {"chunk", "error", "[DONE]"}, chunk : Positions])
    /\ received \in 0..Len(wire)
    /\ client \in {"reading", "gone"}
    /\ stored \in Seq([role : {"user", "tool", "assistant"}, text : Seq(Positions), calls : Seq(Call)])
    /\ unsaved \in BOOLEAN

Init ==
    /\ request \in [endpoint : {"chat", "completions"}, stream : BOOLEAN]
                      \cup [endpoint : {"embeddings"}, stream : {FALSE}]
    /\ pc = "resolve"
    /\ sent = <<>> /\ result = "none"
    /\ acc = [text |-> <<>>, calls |-> <<>>, finish |-> FALSE, last |-> 0]
    /\ writeFailed = FALSE
    /\ wire = <<>> /\ received = 0 /\ client = "reading"
    /\ stored = <<>> /\ unsaved = FALSE
-----------------------------------------------------------------------------
(* The client, and the connection to it.  Flush reports nothing, so events *)
(* written after the client left may seem to be delivered.                 *)
Receive ==
    /\ client = "reading"
    /\ received < Len(wire)
    /\ received' = received + 1
    /\ UNCHANGED <<request, pc, sent, result, acc, writeFailed, wire, client, stored, unsaved>>

(* It closes the connection, or the five minutes of WriteTimeout are over. *)
ClientLeaves ==
    /\ client = "reading"
    /\ client' = "gone"
    /\ UNCHANGED <<request, pc, sent, result, acc, writeFailed, wire, received, stored, unsaved>>

Written(events) == wire' = wire \o events
WriteError == client = "gone" /\ UNCHANGED wire
-----------------------------------------------------------------------------
ResolveSession ==
    /\ pc = "resolve"
    /\ \/ pc' = "inbound" /\ UNCHANGED wire
       \/ pc' = "done" /\ (Written(<<Event("error", 0)>>) \/ WriteError)
    /\ UNCHANGED <<request, sent, result, acc, writeFailed, received, client, stored, unsaved>>

(* A chat stores the last message of the request if it is a user's or a    *)
(* tool's and not empty, the others store a user row; or the store fails.  *)
PersistInbound ==
    /\ pc = "inbound"
    /\ \/ stored' \in {<<>>, <<Row("user", <<>>, <<>>)>>}
       \/ request.endpoint = "chat" /\ stored' = <<Row("tool", <<>>, <<>>)>>
    /\ pc' = "sdk"
    /\ UNCHANGED <<request, sent, result, acc, writeFailed, wire, received, client, unsaved>>
-----------------------------------------------------------------------------
(* mergeToolCallDeltas for fragment d, chunk number n.                     *)
Merged(call, d, n) ==
    [index |-> IF call.index = NoIndex THEN d.index ELSE call.index,
     name |-> IF d.named THEN n ELSE call.name,
     args |-> Append(call.args, n)]

\* Mutated form: a fragment joins the call that came last.
MergeIntoLast(existing, d, n) ==
    IF existing = <<>> THEN <<Merged(NoCall, d, n)>>
    ELSE Front(existing) \o <<Merged(Last(existing), d, n)>>

\* Mutated form: the calls filled in for a gap are given their place, from one on.
PlacedFromOne(existing, d, n) ==
    IF d.index = NoIndex THEN Append(existing, Merged(NoCall, d, n))
    ELSE LET slot == d.index + 1
             padded == existing \o [i \in 1..(slot - Len(existing)) |->
                                        [NoCall EXCEPT !.index = Len(existing) + i]]
         IN  [padded EXCEPT ![slot] = Merged(@, d, n)]

MergeToolCallDeltas(existing, d, n) ==
    IF d.index = NoIndex THEN Append(existing, Merged(NoCall, d, n))
    ELSE LET slot == d.index + 1
             padded == existing \o [i \in 1..(slot - Len(existing)) |-> NoCall]
         IN  [padded EXCEPT ![slot] = Merged(@, d, n)]

(* The calls of an answer in one piece are kept as they are.               *)
CallsAfter(c, n) == IF request.stream THEN MergeToolCallDeltas(acc.calls, c, n)
                                      ELSE <<Merged(NoCall, c, n)>>

(* What the handler remembers of a chunk it can parse.                     *)
Remembered(c, n) ==
    [text |-> IF c.kind = "text" THEN Append(acc.text, n) ELSE acc.text,
     calls |-> IF c.kind = "call" /\ request.endpoint = "chat" THEN CallsAfter(c, n) ELSE acc.calls,
     finish |-> acc.finish \/ c.kind = "finish",
     last |-> n]

(* A chunk the legacy endpoint cannot translate is dropped, the chat       *)
(* endpoint passes it on unread.                                           *)
RelayChunk(c, n) ==
    IF c.kind = "junk" /\ request.endpoint = "completions" THEN UNCHANGED <<acc, wire>>
    ELSE /\ Written(<<Event("chunk", n)>>)
         /\ acc' = IF c.kind = "junk" THEN [acc EXCEPT !.last = n] ELSE Remembered(c, n)

(* The write of the chunk fails: the callback's error ends the SDK call.   *)
(* The legacy endpoint has remembered the chunk before it writes.          *)
RelayFails(c, n) ==
    /\ WriteError
    /\ c.kind # "junk" \/ request.endpoint = "chat"
    /\ acc' = IF request.endpoint = "chat" THEN acc ELSE Remembered(c, n)

ProviderChunk(c) ==
    /\ pc = "sdk" /\ request.stream
    /\ Len(sent) < MaxChunks
    /\ sent' = Append(sent, c)
    /\ \/ RelayChunk(c, Len(sent) + 1) /\ UNCHANGED <<pc, result, writeFailed>>
       \/ /\ RelayFails(c, Len(sent) + 1)
          /\ writeFailed' = TRUE /\ result' = "error" /\ pc' = "returned"
    /\ UNCHANGED <<request, received, client, stored, unsaved>>

(* Without a stream the whole answer comes in one call.                    *)
ProviderAnswers(c) ==
    /\ pc = "sdk" /\ ~request.stream
    /\ sent' = <<c>>
    /\ acc' = IF c.kind \in {"junk", "vectors"} THEN [acc EXCEPT !.last = 1] ELSE Remembered(c, 1)
    /\ result' = "ok" /\ pc' = "returned"
    /\ UNCHANGED <<request, writeFailed, wire, received, client, stored, unsaved>>

(* The nil chunk marked as the last; no answer at all without a stream.    *)
ProviderEnds ==
    /\ pc = "sdk"
    /\ IF request.stream THEN Written(<<Event("[DONE]", 0)>>) \/ WriteError ELSE UNCHANGED wire
    /\ result' = "ok" /\ pc' = "returned"
    /\ UNCHANGED <<request, sent, acc, writeFailed, received, client, stored, unsaved>>

SdkFails ==
    /\ pc = "sdk"
    /\ result' = "error" /\ pc' = "returned"
    /\ UNCHANGED <<request, sent, acc, writeFailed, wire, received, client, stored, unsaved>>

ProviderFails == client = "reading" /\ SdkFails

\* Mutated form: the SDK is given a context of its own.
OwnContext == FALSE

(* The SDK is given the request's context, which ends with the connection. *)
ContextDone == client = "gone"

ContextCancelled == ContextDone /\ SdkFails
-----------------------------------------------------------------------------
\* Mutated form: the client is told of the error only.
ErrorOnly == <<Event("error", 0)>>

ErrorEvents == <<Event("error", 0), Event("[DONE]", 0)>>

(* A stream: the client learns of an error that is not its own.            *)
StreamReturned ==
    /\ pc = "returned" /\ request.stream
    /\ IF result = "error" /\ ~writeFailed
       THEN Written(ErrorEvents) \/ WriteError ELSE UNCHANGED wire
    /\ pc' = "persist"
    /\ UNCHANGED <<request, sent, result, acc, writeFailed, received, client, stored, unsaved>>

(* No stream: an error, an empty answer or one that cannot be translated   *)
(* is a 502 and stores nothing.                                            *)
Untranslatable ==
    \/ result = "error" \/ acc.last = 0
    \/ request.endpoint = "completions" /\ sent[1].kind = "junk"

AnswerReturned ==
    /\ pc = "returned" /\ ~request.stream
    /\ IF Untranslatable THEN pc' = "done" /\ (Written(<<Event("error", 0)>>) \/ WriteError)
                         ELSE pc' = "persist" /\ UNCHANGED wire
    /\ UNCHANGED <<request, sent, result, acc, writeFailed, received, client, stored, unsaved>>

\* Mutated form: the turn of a stream that failed is not stored.
StoredUnlessFailed ==
    result = "ok" /\ (request.endpoint # "chat" \/ acc.text # <<>> \/ acc.calls # <<>>)

(* persistAssistantTurn leaves out an empty turn; the legacy endpoint and  *)
(* embeddings store a row in any case.                                     *)
StoresTurn == request.endpoint # "chat" \/ acc.text # <<>> \/ acc.calls # <<>>

(* The error of a failed write is dropped.                                 *)
Persist ==
    /\ pc = "persist"
    /\ \/ /\ StoresTurn
          /\ stored' = Append(stored, Row("assistant", acc.text, acc.calls)) /\ UNCHANGED unsaved
       \/ StoresTurn /\ unsaved' = TRUE /\ UNCHANGED stored
       \/ ~StoresTurn /\ UNCHANGED <<stored, unsaved>>
    /\ pc' = IF request.stream THEN "done" ELSE "reply"
    /\ UNCHANGED <<request, sent, result, acc, writeFailed, wire, received, client>>

Reply ==
    /\ pc = "reply"
    /\ Written(<<Event("chunk", acc.last)>>) \/ WriteError
    /\ pc' = "done"
    /\ UNCHANGED <<request, sent, result, acc, writeFailed, received, client, stored, unsaved>>
-----------------------------------------------------------------------------
Handler == ResolveSession \/ PersistInbound \/ StreamReturned \/ AnswerReturned \/ Persist \/ Reply

Next ==
    \/ Handler
    \/ \E c \in ChunksOf(request.endpoint) : ProviderChunk(c) \/ ProviderAnswers(c)
    \/ ProviderEnds \/ ProviderFails \/ ContextCancelled
    \/ Receive \/ ClientLeaves

(* The handler's own steps end, and the SDK returns when its context is    *)
(* done.  A provider may be silent for ever.                               *)
Spec == Init /\ [][Next]_relayVars /\ WF_relayVars(Handler) /\ WF_relayVars(ContextCancelled)
-----------------------------------------------------------------------------
(* The numbers of S in order, each once.                                   *)
Lists(numbers, S) ==
    /\ Range(numbers) = S
    /\ \A i, j \in DOMAIN numbers : i < j => numbers[i] < numbers[j]

Texts(n) == {i \in 1..n : sent[i].kind = "text"}

Delivered == {wire[i].chunk : i \in {j \in 1..received : wire[j].what = "chunk"}}

TextsRead == Texts(Len(sent)) \cap Delivered

(* Safety: the stored turn is the answer the client saw.  It holds every   *)
(* text that reached the client, in order and without a gap, and after     *)
(* them at most what the provider sent next: also when the stream broke    *)
(* off on either side.  Only a write that the store fails loses the turn.  *)
TurnMatchesAnswer ==
    pc = "done" /\ ~unsaved /\ TextsRead # {} =>
        /\ stored # <<>> /\ Last(stored).role = "assistant"
        /\ \E m, n \in 0..Len(sent) :
              m <= n /\ TextsRead = Texts(m) /\ Lists(Last(stored).text, Texts(n))

(* Safety: the fragments of a stream's tool calls are put together as the  *)
(* client does it: by index, in order, and the last name counts.  Where    *)
(* the provider gives no index, or answers in one piece, each is a call.   *)
(* A stream that mixes both has no such reading.                           *)
SentFragments == {n \in DOMAIN sent : sent[n].kind = "call"}

FragmentsOf(index) == {n \in SentFragments : sent[n].index = index}

Indexed == \A n \in SentFragments : sent[n].index # NoIndex
Unindexed == \A n \in SentFragments : sent[n].index = NoIndex

Naming(fragments) == {n \in fragments : sent[n].named}

LastName(name, fragments) ==
    /\ name \in Naming(fragments) \/ (name = 0 /\ Naming(fragments) = {})
    /\ \A n \in Naming(fragments) : n <= name

CallAt(calls, index) == IF index + 1 \in DOMAIN calls THEN calls[index + 1] ELSE NoCall

PutTogether(call, fragments) == Lists(call.args, fragments) /\ LastName(call.name, fragments)

CallsKeptApart ==
    request.endpoint = "chat" /\ ~writeFailed =>
        /\ Indexed /\ request.stream =>
              \A i \in 0..MaxIndex : PutTogether(CallAt(acc.calls, i), FragmentsOf(i))
        /\ Unindexed \/ ~request.stream =>
              /\ \A i \in DOMAIN acc.calls : PutTogether(acc.calls[i], {acc.calls[i].args[1]})
              /\ Lists([i \in DOMAIN acc.calls |-> acc.calls[i].args[1]], SentFragments)

(* Safety: an event stream that no write error cut off ends with one       *)
(* [DONE] and nothing after it, and an error is told before it.            *)
StreamTerminated ==
    /\ \A i \in DOMAIN wire : wire[i].what = "[DONE]" => i = Len(wire)
    /\ pc = "done" /\ result # "none" /\ request.stream /\ client = "reading" =>
          /\ Last(wire).what = "[DONE]"
          /\ result = "error" <=> Len(wire) > 1 /\ wire[Len(wire) - 1].what = "error"

(* Liveness: a client that has gone does not keep its request, whatever    *)
(* the provider does.                                                      *)
LeftRequestEnds == client = "gone" ~> pc = "done"
=============================================================================
