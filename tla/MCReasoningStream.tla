------------------------- MODULE MCReasoningStream -------------------------
(***************************************************************************)
(* Tags of three characters that share the first and the last one, as the  *)
(* code's <think> and </think> do, and every text made of at most          *)
(* MaxPieces pieces and MaxLength characters: a tag, the beginning of one, *)
(* a newline, a letter.  Chunks may end after any character.               *)
(***************************************************************************)
EXTENDS ReasoningStream

CONSTANTS MaxPieces, MaxLength

MCCharacter == {"<", "t", "/", ">", "n", "x"}
MCNewline == {"n"}
MCThinkStart == <<"<", "t", ">">>
MCThinkEnd == <<"<", "/", ">">>

Pieces == {MCThinkStart, MCThinkEnd, <<"n">>, <<"x">>, <<"<">>}

MCTexts ==
  {t \in {FlattenSeq(s) : s \in BoundedSeq(Pieces, MaxPieces)} :
     Len(t) <= MaxLength}

=============================================================================
