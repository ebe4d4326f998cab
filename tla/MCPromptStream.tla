--------------------------- MODULE MCPromptStream ---------------------------
(***************************************************************************)
(* PromptStream for TLC: a first prompt whose provider thinks in tags and  *)
(* a second one, of another screen, with a plain answer and reasoning.     *)
(***************************************************************************)
EXTENDS PromptStream

CONSTANTS First, Second

Content == {<<"a">>, <<"<">>, <<"think>">>, <<"/think>", "a">>, OpenTag \o <<"a">>}
Chunks == (First :> {Piece(FALSE, text) : text \in Content} \cup {Piece(TRUE, <<"a">>)})
            @@ (Second :> {Piece(FALSE, <<"a">>)})
=============================================================================
