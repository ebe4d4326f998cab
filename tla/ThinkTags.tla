------------------------------ MODULE ThinkTags ------------------------------
(***************************************************************************)
(* The fallback parser of sendPromptWithOptions (mobile/api.go), which     *)
(* splits the text of a model into its answer and what stands between      *)
(* <think> and </think>.  It is fed chunk by chunk as the provider's       *)
(* stream arrives.                                                         *)
(*                                                                         *)
(* Text is a sequence of symbols.  A tag is two of them, "<" and the rest, *)
(* so a chunk boundary may fall inside a tag; where exactly does not       *)
(* matter, only that the part before it is a prefix of both tags.          *)
(***************************************************************************)
EXTENDS Naturals, Sequences, SequencesExt, FiniteSetsExt

OpenTag == <<"<", "think>">>
CloseTag == <<"<", "/think>">>
Symbols == {"<", "think>", "/think>", "a"}

Tag(inThink) == IF inThink THEN CloseTag ELSE OpenTag

(* strings.Index: where the tag begins in the text.                        *)
TagAt(tag, text) == {i \in 1..Len(text) - 1 : SubSeq(text, i, i + 1) = tag}

\* Mutated form: nothing is buffered.
NeverHeld(tag, text) == FALSE

(* A text that may be the beginning of a tag is kept for the next chunk.   *)
Held(tag, text) == text = <<Head(tag)>>

(* A piece of text handed to the callback; before a tag only if there is   *)
(* one.                                                                    *)
Piece(thinking, text) == [thinking |-> thinking, text |-> text]
HandOn(pieces, thinking, text) ==
    IF text = <<>> THEN pieces ELSE Append(pieces, Piece(thinking, text))

(* One round of the loop over what is left of a chunk.                     *)
ScanRound(s) ==
    LET tag == Tag(s.inThink)
        at == TagAt(tag, s.rest)
        i == Min(at)
    IN  CASE s.rest = <<>> -> s
          [] at # {} ->
               [inThink |-> ~s.inThink, rest |-> SubSeq(s.rest, i + 2, Len(s.rest)), held |-> <<>>,
                out |-> HandOn(s.out, s.inThink, SubSeq(s.rest, 1, i - 1))]
          [] at = {} /\ s.rest # <<>> /\ Held(tag, s.rest) ->
               [s EXCEPT !.rest = <<>>, !.held = s.rest]
          [] OTHER ->
               [s EXCEPT !.rest = <<>>, !.out = Append(@, Piece(s.inThink, s.rest))]

(* A chunk with what was held from the one before: the state of the parser *)
(* afterwards and the pieces of text it hands on.                          *)
Scan(inThink, held, text) ==
    LET all == held \o text
        s[n \in 0..Len(all)] ==
            IF n = 0 THEN [inThink |-> inThink, rest |-> all, held |-> <<>>, out |-> <<>>]
                     ELSE ScanRound(s[n - 1])
        end == s[Len(all)]
    IN  [inThink |-> end.inThink, held |-> end.held, out |-> end.out]

\* Mutated form: thoughts are taken for text of the answer.
TextOfAll(pieces, thinking) == FlattenSeq([i \in DOMAIN pieces |-> pieces[i].text])

TextOf(pieces, thinking) ==
    FlattenSeq([i \in DOMAIN pieces |-> IF pieces[i].thinking = thinking THEN pieces[i].text ELSE <<>>])
-----------------------------------------------------------------------------
(* What the answer is, read off the whole text, symbol by symbol: the text *)
(* outside the tags.  Inside(text)[n] says whether symbol n + 1 is thought. *)
Inside(text) ==
    LET inside[n \in 0..Len(text)] ==
            IF n = 0 THEN FALSE
            ELSE IF n > 1 /\ SubSeq(text, n - 1, n) = Tag(inside[n - 1]) THEN ~inside[n - 1]
            ELSE inside[n - 1]
    IN  inside

AnswerAt(text, n) ==
    /\ ~Inside(text)[n - 1] /\ ~Inside(text)[n]
    /\ n < Len(text) => SubSeq(text, n, n + 1) # OpenTag

PartAt(text, n) == IF AnswerAt(text, n) THEN <<text[n]>> ELSE <<>>

Answer(text) == FlattenSeq([n \in DOMAIN text |-> PartAt(text, n)])

(* A text that ends in the middle of a tag, and a stream that does: its    *)
(* last content ends so.                                                   *)
EndsCut(text) == text # <<>> /\ Last(text) = "<"

StreamCut(pieces) ==
    \E i \in DOMAIN pieces :
        /\ ~pieces[i].thinking /\ EndsCut(pieces[i].text)
        /\ \A j \in DOMAIN pieces : j > i => pieces[j].thinking

(* No content has a tag's beginning at its end, unless that is all it has  *)
(* and the content before does not end so.                                 *)
TagsAtChunkStart(pieces) ==
    \A i \in DOMAIN pieces :
        ~pieces[i].thinking /\ EndsCut(pieces[i].text) =>
            pieces[i].text = <<"<">> /\ ~StreamCut(SubSeq(pieces, 1, i - 1))
=============================================================================
