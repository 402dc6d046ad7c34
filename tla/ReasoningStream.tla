--------------------------- MODULE ReasoningStream ---------------------------
(***************************************************************************)
(* ReasoningStreamParser: a generated text arrives in chunks that may end  *)
(* anywhere, also inside a thinking tag; what belongs to the reasoning and *)
(* what to the content is sent on as early as possible.  push and finish   *)
(* append to the buffer and run drain, whose loop is modelled one          *)
(* iteration per step.                                                     *)
(*                                                                         *)
(* ReasoningHoldWithoutNewlines, ContentHoldWithNewlines and NeverHeldBack *)
(* are mistakes the code could contain; no definition uses them.           *)
(***************************************************************************)
EXTENDS ReasoningText

CONSTANT Texts       \* the texts a model may generate

ASSUME TextAssumption == Texts \subseteq Seq(Character)

VARIABLES
  text, thinking, extracts,        \* what is generated, and how it was asked for
  pushed,                          \* how many characters were pushed
  mode, skipReasoning, skipContent, finished, buffer,   \* the parser's members
  draining,                        \* push or finish is running
  reasoning, content               \* what was sent, by kind

asked == <<text, thinking, extracts>>
vars == <<asked, pushed, mode, skipReasoning, skipContent, finished, buffer,
          draining, reasoning, content>>

Init ==
  /\ text = <<>> /\ thinking = FALSE /\ extracts = FALSE
  /\ pushed = 0
  /\ mode = "none"
  /\ skipReasoning = FALSE /\ skipContent = FALSE
  /\ finished = FALSE
  /\ buffer = <<>>
  /\ draining = FALSE
  /\ reasoning = <<>> /\ content = <<>>

(* With thinking the prompt ends in the start tag. *)
StartsInThought(think, extract) == think /\ extract

(* ReasoningStreamParser(enable_thinking, format), for a streaming request. *)
Construct ==
  /\ mode = "none"
  /\ text' \in Texts
  /\ thinking' \in BOOLEAN
  /\ extracts' \in BOOLEAN
  /\ mode' = IF StartsInThought(thinking', extracts') THEN "reasoning" ELSE "content"
  /\ skipReasoning' = StartsInThought(thinking', extracts')
  /\ UNCHANGED <<pushed, skipContent, finished, buffer, draining, reasoning, content>>

Push ==
  /\ mode # "none"
  /\ ~draining
  /\ \E end \in (pushed + 1)..Len(text) :
       /\ pushed' = end
       /\ buffer' = buffer \o SubSeq(text, pushed + 1, end)
  /\ draining' = TRUE
  /\ UNCHANGED <<asked, mode, skipReasoning, skipContent, finished, reasoning, content>>

Finish ==
  /\ mode # "none"
  /\ ~draining
  /\ ~finished
  /\ pushed = Len(text)
  /\ finished' = TRUE
  /\ draining' = TRUE
  /\ UNCHANGED <<asked, pushed, mode, skipReasoning, skipContent, buffer, reasoning,
                 content>>
-----------------------------------------------------------------------------
(* The loop ends when the buffer is empty or all of it must be held back. *)
Return ==
  /\ draining' = FALSE
  /\ UNCHANGED <<asked, pushed, mode, finished, reasoning, content>>

PassThrough ==
  /\ draining
  /\ ~extracts
  /\ content' = content \o buffer
  /\ buffer' = <<>>
  /\ draining' = FALSE
  /\ UNCHANGED <<asked, pushed, mode, skipReasoning, skipContent, finished, reasoning>>

BufferEmpty ==
  /\ draining /\ extracts
  /\ buffer = <<>>
  /\ Return
  /\ UNCHANGED <<skipReasoning, skipContent, buffer>>

ReasoningHoldWithoutNewlines(rest) ==
  IF finished THEN 0 ELSE TagHold(rest, ThinkEnd)

(* The end of the buffer that could begin the end tag, and the newlines    *)
(* before it, which are dropped if it does.                                *)
ReasoningHold(rest) ==
  LET tagHold == TagHold(rest, ThinkEnd)
  IN  IF finished THEN 0
      ELSE tagHold + TrailingNewlines(Upto(rest, Len(rest) - tagHold))

NeverHeldBack(rest, hold) == FALSE

HeldBack(rest, hold) == Len(rest) = hold

Erased(rest, tag) == After(rest, tag)

ReasonAbout(rest) ==
  \/ /\ rest = <<>>
     /\ Return
     /\ buffer' = <<>>
     /\ skipReasoning' = FALSE
     /\ UNCHANGED skipContent
  \/ /\ IsPrefix(ThinkStart, rest)
     /\ buffer' = Erased(rest, ThinkStart)
     /\ skipReasoning' = TRUE
     /\ UNCHANGED <<mode, skipContent, draining, reasoning>>
  \/ /\ ~IsPrefix(ThinkStart, rest)
     /\ Occurrences(rest, ThinkEnd) # {}
     /\ reasoning' = reasoning \o TrimNewlines(Before(rest, ThinkEnd))
     /\ buffer' = Erased(rest, ThinkEnd)
     /\ mode' = "content"
     /\ skipContent' = TRUE
     /\ skipReasoning' = FALSE
     /\ UNCHANGED draining
  \/ /\ rest # <<>>
     /\ ~IsPrefix(ThinkStart, rest)
     /\ Occurrences(rest, ThinkEnd) = {}
     /\ skipReasoning' = FALSE
     /\ UNCHANGED <<mode, skipContent>>
     /\ LET hold == ReasoningHold(rest)
            sent == Upto(rest, Len(rest) - hold)
        IN  IF HeldBack(rest, hold)
            THEN /\ buffer' = rest
                 /\ Return
            ELSE /\ reasoning' = reasoning \o
                      (IF finished THEN TrimNewlines(sent) ELSE sent)
                 /\ buffer' = From(rest, Len(sent) + 1)
                 /\ UNCHANGED draining

DrainReasoning ==
  /\ draining /\ extracts
  /\ buffer # <<>>
  /\ mode = "reasoning"
  /\ \E rest \in {IF skipReasoning THEN SkipNewlines(buffer) ELSE buffer} :
       ReasonAbout(rest)
  /\ UNCHANGED <<asked, pushed, finished, content>>

ContentHoldWithNewlines(rest) ==
  IF finished THEN 0 ELSE TagHold(rest, ThinkStart) + TrailingNewlines(rest)

ContentHold(rest) == IF finished THEN 0 ELSE TagHold(rest, ThinkStart)

SayAbout(rest) ==
  \/ /\ rest = <<>>
     /\ Return
     /\ buffer' = <<>>
     /\ UNCHANGED <<skipReasoning, skipContent>>
  \/ /\ Occurrences(rest, ThinkStart) # {}
     /\ content' = content \o Before(rest, ThinkStart)
     /\ buffer' = Erased(rest, ThinkStart)
     /\ mode' = "reasoning"
     /\ skipReasoning' = TRUE
     /\ skipContent' = FALSE
     /\ UNCHANGED draining
  \/ /\ rest # <<>>
     /\ Occurrences(rest, ThinkStart) = {}
     /\ skipContent' = FALSE
     /\ UNCHANGED <<mode, skipReasoning>>
     /\ LET hold == ContentHold(rest)
            sent == Upto(rest, Len(rest) - hold)
        IN  IF HeldBack(rest, hold)
            THEN /\ buffer' = rest
                 /\ Return
            ELSE /\ content' = content \o sent
                 /\ buffer' = From(rest, Len(sent) + 1)
                 /\ UNCHANGED draining

DrainContent ==
  /\ draining /\ extracts
  /\ buffer # <<>>
  /\ mode = "content"
  /\ \E rest \in {IF skipContent THEN SkipNewlines(buffer) ELSE buffer} :
       SayAbout(rest)
  /\ UNCHANGED <<asked, pushed, finished, reasoning>>

Drain == PassThrough \/ BufferEmpty \/ DrainReasoning \/ DrainContent

Next == Construct \/ Push \/ Finish \/ Drain

Spec == Init /\ [][Next]_vars /\ WF_vars(Drain)

-----------------------------------------------------------------------------
(* Latency: between two pushes nothing is withheld but the beginning of    *)
(* the tag that would end the current part and, in the reasoning, the      *)
(* newlines before it; after finish nothing is withheld at all.            *)
HoldsBackOnlyTag ==
  mode # "none" /\ ~draining =>
    IF finished \/ ~extracts THEN buffer = <<>>
    ELSE IF mode = "content" THEN IsStrictPrefix(buffer, ThinkStart)
    ELSE IsStrictPrefix(SkipNewlines(buffer), ThinkEnd)

(* The text of one thought: without thinking at most one block, whose      *)
(* start tag has at most one newline after it; with thinking, where the    *)
(* prompt ends in the start tag and its newline, no further start tag and  *)
(* no newline in front.                                                    *)
OneThought ==
  IF thinking
  THEN Occurrences(text, ThinkStart) = {} /\ LeadingNewlines(text) = 0
  ELSE /\ Cardinality(Occurrences(text, ThinkStart)) <= 1
       /\ Occurrences(text, ThinkStart) # {} =>
            LeadingNewlines(After(text, ThinkStart)) <= 1

Delivered == Message(reasoning, content)

(* A client that concatenates the stream's deltas gets what a client that  *)
(* does not stream gets, however the text of one thought was cut up.       *)
StreamEqualsBatch ==
  finished /\ ~draining /\ (OneThought \/ ~extracts) =>
    Delivered = SplitContent(text, thinking, extracts)

(* docs/qwen3-5-0-8b-openai-thinking.md: a start tag is recognised within  *)
(* a chunk or across chunks, and tags are not output.  Here: a start tag   *)
(* at the head of a thinking text, the only tag of the text but its end.   *)
StartTagIsNotOutput ==
  finished /\ ~draining /\ extracts /\ thinking
    /\ Occurrences(text, ThinkStart) = {1}
    => Occurrences(reasoning, ThinkStart) = {}

(* The loop always comes to its end: every push and the finish return. *)
EveryPushReturns == draining ~> ~draining

=============================================================================
