---------------------------- MODULE ReasoningText ----------------------------
(***************************************************************************)
(* The thinking tags of a generated text and split_reasoning_content,      *)
(* which divides a complete text into reasoning and content.  A character  *)
(* is a value of Character; the two tags are sequences of characters, so   *)
(* that a chunk may end in the middle of one.                              *)
(***************************************************************************)
EXTENDS SequencesExt, Integers

CONSTANTS
  Character,         \* the characters a text is made of
  Newline,           \* those that are line ends (\n and \r in the code)
  ThinkStart,        \* kThinkStart
  ThinkEnd           \* kThinkEnd

ASSUME TagAssumption ==
  /\ Newline \subseteq Character
  /\ ThinkStart \in Seq(Character \ Newline) \ {<<>>}
  /\ ThinkEnd \in Seq(Character \ Newline) \ {<<>>}

From(text, i) == SubSeq(text, i, Len(text))
Upto(text, i) == SubSeq(text, 1, i)

(* leading_newline_count and trailing_newline_count *)
LeadingNewlines(text) ==
  LET first == SelectInSeq(text, LAMBDA c : c \notin Newline)
  IN  IF first = 0 THEN Len(text) ELSE first - 1
TrailingNewlines(text) ==
  Len(text) - SelectLastInSeq(text, LAMBDA c : c \notin Newline)

SkipNewlines(text) == From(text, LeadingNewlines(text) + 1)
TrimNewlines(text) == Upto(text, Len(text) - TrailingNewlines(text))

(* std::string::find: the places where a tag begins. *)
Occurrences(text, tag) ==
  {i \in 1..(Len(text) + 1 - Len(tag)) :
     SubSeq(text, i, i + Len(tag) - 1) = tag}
Before(text, tag) == Upto(text, Min(Occurrences(text, tag)) - 1)
After(text, tag) == From(text, Min(Occurrences(text, tag)) + Len(tag))

(* tag_prefix_suffix_size: how much of the text's end could begin a tag. *)
TagHold(text, tag) ==
  Max({n \in 0..(Len(tag) - 1) :
         n <= Len(text) /\ From(text, Len(text) - n + 1) = Upto(tag, n)})
-----------------------------------------------------------------------------
Message(reasoning, content) == [reasoning |-> reasoning, content |-> content]

(* The part after the start tag: reasoning up to the end tag, then content. *)
SplitThought(before, text) ==
  IF Occurrences(text, ThinkEnd) = {}
  THEN Message(TrimNewlines(text), before)
  ELSE Message(TrimNewlines(Before(text, ThinkEnd)),
               before \o SkipNewlines(After(text, ThinkEnd)))

(* split_reasoning_content(text, enable_thinking, format) *)
SplitContent(text, thinking, extracts) ==
  IF ~extracts THEN Message(<<>>, text)
  ELSE IF thinking
  THEN SplitThought(<<>>, IF IsPrefix(ThinkStart, text)
                          THEN SkipNewlines(After(text, ThinkStart))
                          ELSE text)
  ELSE IF Occurrences(text, ThinkStart) = {} THEN Message(<<>>, text)
  ELSE SplitThought(Before(text, ThinkStart), SkipNewlines(After(text, ThinkStart)))

=============================================================================
