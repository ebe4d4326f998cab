---------------------------- MODULE PromptStream ----------------------------
(***************************************************************************)
(* A streamed prompt from the chat screen to the provider and back: the    *)
(* goroutine of SendPromptWithOptionsAsync (mobile/api.go), the delta      *)
(* store of the FFI library (cmd/cshared/main.go) and the callbacks of the *)
(* Dart bridge.  What the reply does to the conversation store is in       *)
(* LocalChat.                                                              *)
(*                                                                         *)
(* A prompt goes on when its screen has gone, so several can be in flight; *)
(* the cancel function of the latest is in one global.  Go hands text to   *)
(* Dart by number: it stores the text, posts the number to the isolate's   *)
(* port, and Dart fetches and removes the text when it handles the post.   *)
(***************************************************************************)
EXTENDS ThinkTags, FiniteSets, Functions

CONSTANTS Prompts,   \* prompts sent during a run of the app
          Provider,  \* prompt -> the pieces its provider may send
          MaxPieces, \* bound on the pieces the providers send together
          NoPrompt

ASSUME StreamAssumption ==
    /\ NoPrompt \notin Prompts
    /\ Provider \in [Prompts -> SUBSET [thinking : BOOLEAN, text : Seq(Symbols) \ {<<>>}]]
    /\ MaxPieces \in Nat

VARIABLES prompt,       \* the goroutine of each prompt
          sent,         \* the pieces its provider has sent
          active,       \* activePromptCancel: whose cancel function it is
          deltas,       \* deltaStoreM
          deltaSeq,
          port,         \* posted to the isolate and not handled yet
          screen,       \* the prompt of the chat screen that is mounted
          shown,        \* what the callbacks of each prompt have gathered
          stored        \* the answers in the conversation store

goVars == <<prompt, sent, active>>
portVars == <<deltas, deltaSeq, port>>
dartVars == <<screen, shown>>
streamVars == <<prompt, sent, active, deltas, deltaSeq, port, screen, shown, stored>>

Nothing == [text |-> <<>>, thought |-> <<>>, reply |-> <<>>, outcome |-> "none"]
Text == Seq(Symbols)

TypeOK ==
    /\ prompt \in [Prompts -> [pc : {"idle", "begun", "streaming", "returned", "released", "done"},
                               inThink : BOOLEAN, held : Text, response : Text,
                               cancelled : BOOLEAN,
                               outcome : {"none", "ok", "cancelled", "error"}]]
    /\ sent \in [Prompts -> Seq([thinking : BOOLEAN, text : Text])]
    /\ active \in Prompts \cup {NoPrompt}
    /\ deltaSeq \in Nat
    /\ DOMAIN deltas \subseteq 1..deltaSeq
    /\ \A id \in DOMAIN deltas : deltas[id] \in Text
    /\ port \in Seq([prompt : Prompts, kind : {"answer", "thinking", "done"}, id : Nat])
    /\ screen \in Prompts \cup {NoPrompt}
    /\ shown \in [Prompts -> [text : Text, thought : Text, reply : Text,
                              outcome : {"none", "ok", "cancelled", "error"}]]
    /\ stored \in [Prompts -> Seq(Text)]

Init ==
    /\ prompt = [p \in Prompts |-> [pc |-> "idle", inThink |-> FALSE, held |-> <<>>,
                                    response |-> <<>>, cancelled |-> FALSE, outcome |-> "none"]]
    /\ sent = [p \in Prompts |-> <<>>]
    /\ active = NoPrompt
    /\ deltas = <<>> /\ deltaSeq = 0 /\ port = <<>>
    /\ screen = NoPrompt
    /\ shown = [p \in Prompts |-> Nothing]
    /\ stored = [p \in Prompts |-> <<>>]
-----------------------------------------------------------------------------
\* Mutated forms: the numbers of fetched texts are used again; they start at 0.
DeltaIdBySize(k) == Cardinality(DOMAIN deltas) + k
DeltaIdFromZero(k) == deltaSeq + k - 1

(* storeDelta numbers a text and stores it, the signal posts the number.   *)
DeltaId(k) == deltaSeq + k

Post(p, kinds, texts) ==
    /\ deltaSeq' = deltaSeq + Len(texts)
    /\ deltas' = [id \in DOMAIN deltas \cup {DeltaId(k) : k \in DOMAIN texts} |->
                    IF \E k \in DOMAIN texts : DeltaId(k) = id
                    THEN texts[CHOOSE k \in DOMAIN texts : DeltaId(k) = id] ELSE deltas[id]]
    /\ port' = port \o [k \in DOMAIN texts |-> [prompt |-> p, kind |-> kinds[k], id |-> DeltaId(k)]]

Signal(p, pieces) ==
    Post(p, [k \in DOMAIN pieces |-> IF pieces[k].thinking THEN "thinking" ELSE "answer"],
            [k \in DOMAIN pieces |-> pieces[k].text])

(* _sending of the chat screen.                                            *)
Sending == screen # NoPrompt /\ shown[screen].outcome = "none"

(* A screen sends when it is not sending: a first message, or the next one *)
(* after the completion of the last.  The call starts a goroutine.         *)
Send(p) ==
    /\ prompt[p].pc = "idle"
    /\ ~Sending
    /\ prompt' = [prompt EXCEPT ![p].pc = "begun"]
    /\ screen' = p
    /\ UNCHANGED <<sent, active, portVars, shown, stored>>

LeaveChat ==
    /\ screen # NoPrompt
    /\ screen' = NoPrompt
    /\ UNCHANGED <<goVars, portVars, shown, stored>>

(* No client, bad options or no history: an error before anything is sent. *)
PromptRefused(p) ==
    /\ prompt[p].pc = "begun"
    /\ prompt' = [prompt EXCEPT ![p].pc = "released", ![p].outcome = "error"]
    /\ UNCHANGED <<sent, active, portVars, dartVars, stored>>

RegisterCancel(p) ==
    /\ prompt[p].pc = "begun"
    /\ prompt' = [prompt EXCEPT ![p].pc = "streaming"]
    /\ active' = p
    /\ UNCHANGED <<sent, portVars, dartVars, stored>>

(* Text the provider marks as reasoning passes the parser by.              *)
ReasoningChunk(p, text) ==
    /\ prompt[p].pc = "streaming"
    /\ sent' = [sent EXCEPT ![p] = Append(@, Piece(TRUE, text))]
    /\ Signal(p, <<Piece(TRUE, text)>>)
    /\ UNCHANGED <<prompt, active, dartVars, stored>>

ContentChunk(p, text) ==
    LET scan == Scan(prompt[p].inThink, prompt[p].held, text)
    IN  /\ prompt[p].pc = "streaming"
        /\ prompt' = [prompt EXCEPT ![p].inThink = scan.inThink, ![p].held = scan.held,
                                    ![p].response = @ \o TextOf(scan.out, FALSE)]
        /\ sent' = [sent EXCEPT ![p] = Append(@, Piece(FALSE, text))]
        /\ Signal(p, scan.out)
        /\ UNCHANGED <<active, dartVars, stored>>

Streams(p) ==
    \E piece \in Provider[p] :
        /\ SumFunction([q \in Prompts |-> Len(sent[q])]) < MaxPieces
        /\ IF piece.thinking THEN ReasoningChunk(p, piece.text) ELSE ContentChunk(p, piece.text)

(* The two writes succeed here; LocalChat has the failures.                *)
SaveReply(p) == stored' = [stored EXCEPT ![p] = <<prompt[p].response>>]

PromptSucceeds(p) ==
    /\ prompt[p].pc = "streaming"
    /\ prompt' = [prompt EXCEPT ![p].pc = "returned", ![p].outcome = "ok"]
    /\ SaveReply(p)
    /\ UNCHANGED <<sent, active, portVars, dartVars>>

(* The SDK returns an error.  When the context was cancelled, whatever the *)
(* error is, the answer so far is kept.                                    *)
PromptFails(p) ==
    /\ prompt[p].pc = "streaming"
    /\ prompt' = [prompt EXCEPT ![p].pc = "returned",
                                ![p].outcome = IF prompt[p].cancelled THEN "cancelled" ELSE "error"]
    /\ IF prompt[p].cancelled /\ prompt[p].response # <<>> THEN SaveReply(p) ELSE UNCHANGED stored
    /\ UNCHANGED <<sent, active, portVars, dartVars>>

(* The deferred function.                                                  *)
ReleaseCancel(p) ==
    /\ prompt[p].pc = "returned"
    /\ prompt' = [prompt EXCEPT ![p].pc = "released", ![p].cancelled = TRUE]
    /\ active' = NoPrompt
    /\ UNCHANGED <<sent, portVars, dartVars, stored>>

PromptDone(p) ==
    /\ prompt[p].pc = "released"
    /\ prompt' = [prompt EXCEPT ![p].pc = "done"]
    /\ Post(p, <<"done">>, <<IF prompt[p].outcome = "error" THEN <<>> ELSE prompt[p].response>>)
    /\ UNCHANGED <<sent, active, dartVars, stored>>

(* The isolate handles the next post: ReadStreamDelta, then onDelta or the *)
(* completion.                                                             *)
HandlePost ==
    LET post == Head(port)
        text == IF post.id \in DOMAIN deltas THEN deltas[post.id] ELSE <<>>
    IN  /\ port # <<>>
        /\ port' = Tail(port)
        /\ deltas' = [id \in DOMAIN deltas \ {post.id} |-> deltas[id]]
        /\ shown' = CASE post.kind = "answer" -> [shown EXCEPT ![post.prompt].text = @ \o text]
                      [] post.kind = "thinking" -> [shown EXCEPT ![post.prompt].thought = @ \o text]
                      [] post.kind = "done" ->
                           [shown EXCEPT ![post.prompt].reply = text,
                                         ![post.prompt].outcome = prompt[post.prompt].outcome]
        /\ UNCHANGED <<goVars, deltaSeq, screen, stored>>

(* The Stop button, shown while the screen is sending.                     *)
CancelPrompt ==
    /\ Sending
    /\ prompt' = IF active = NoPrompt THEN prompt ELSE [prompt EXCEPT ![active].cancelled = TRUE]
    /\ UNCHANGED <<sent, active, portVars, dartVars, stored>>
-----------------------------------------------------------------------------
Next ==
    \/ \E p \in Prompts :
        \/ Send(p) \/ PromptRefused(p) \/ RegisterCancel(p) \/ Streams(p)
        \/ PromptSucceeds(p) \/ PromptFails(p) \/ ReleaseCancel(p) \/ PromptDone(p)
    \/ LeaveChat \/ HandlePost \/ CancelPrompt

Spec == Init /\ [][Next]_streamVars
-----------------------------------------------------------------------------
(* Every text in the delta store is waited for by one post, and every post *)
(* finds its text, whatever prompts are in flight: nothing is leaked and   *)
(* nothing fetched twice (storeDelta, popDelta).                           *)
DeltasAwaited ==
    /\ DOMAIN deltas = {port[i].id : i \in DOMAIN port}
    /\ \A i, j \in DOMAIN port : port[i].id = port[j].id => i = j

(* When a prompt completes without an error, the answer its callbacks have *)
(* gathered piece by piece is the reply of the result, and the answer that *)
(* was stored; only a cancelled prompt without an answer stores none       *)
(* (onDelta and the completion callback of sendPromptWithOptionsAsync).    *)
ShownIsReply ==
    \A p \in Prompts :
        shown[p].outcome \in {"ok", "cancelled"} =>
            /\ shown[p].text = shown[p].reply
            /\ \/ stored[p] = <<shown[p].reply>>
               \/ shown[p].outcome = "cancelled" /\ shown[p].reply = <<>>

(* However the stream is cut into chunks, as long as a cut tag begins its  *)
(* chunk, the response is the text outside the tags, but for a "<" that is *)
(* still held back (sendPromptWithOptions).                                *)
Received(p) == TextOf(sent[p], FALSE)

Parsed(p) ==
    prompt[p].response \o (IF prompt[p].inThink THEN <<>> ELSE prompt[p].held) = Answer(Received(p))

ResponseIsAnswer == \A p \in Prompts : TagsAtChunkStart(sent[p]) => Parsed(p)
=============================================================================
