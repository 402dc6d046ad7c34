----------------------------- MODULE ImagePrompt -----------------------------
(***************************************************************************)
(* A chat as chunks of text and of images, and the rotary positions of its *)
(* tokens.  A message is [role, parts]; a part is a text, a sequence of    *)
(* pieces (the markers of the template are one piece each), or an image    *)
(*   [header, decoded, bytes]                                              *)
(* with the size its header declares and the size it decodes to, NoSize    *)
(* where there is none, and whether it came with bytes or as a bare URL.   *)
(*                                                                         *)
(* AdvanceByRows and SectionsOfChunk are mistakes the code could contain;  *)
(* no definition uses them.                                                *)
(***************************************************************************)
EXTENDS VisionEncoder, GgufTokenizer, SequencesExt

CONSTANT NoSize

Roles == {"system", "user", "assistant"}

(* add_multimodal_text_chunk *)
AddText(chunks, tokens) ==
  IF tokens = <<>> THEN chunks
  ELSE IF chunks # <<>> /\ Last(chunks).kind = "text"
  THEN [chunks EXCEPT ![Len(chunks)].tokens = @ \o tokens]
  ELSE Append(chunks, [kind |-> "text", tokens |-> tokens])

(* image_part_dimensions: the header's, or else the decoded image's.        *)
Dimensions(image) ==
  IF image.header # NoSize THEN image.header
  ELSE IF image.bytes THEN image.decoded ELSE NoSize

ImageChunk(m, image) ==
  [kind |-> "image", image |-> image,
   plan |-> EmbeddingPlan(m, Dimensions(image)[1], Dimensions(image)[2])]

AddPart(m, chunks, part) ==
  IF part.kind = "text" THEN AddText(chunks, part.tokens)
  ELSE AddText(Append(AddText(chunks, <<"vision_start">>), ImageChunk(m, part.image)),
               <<"vision_end">>)

AddMessage(m, chunks, message) ==
  LET added[n \in 0..Len(message.parts)] ==
        IF n = 0 THEN AddText(chunks, <<"im_start", message.role>>)
        ELSE AddPart(m, added[n - 1], message.parts[n])
  IN AddText(added[Len(message.parts)], <<"im_end">>)

(* plan_qwen35_multimodal_prompt, with the generation prompt.               *)
PromptChunks(m, messages) ==
  LET added[n \in 0..Len(messages)] ==
        IF n = 0 THEN <<>> ELSE AddMessage(m, added[n - 1], messages[n])
  IN AddText(added[Len(messages)], <<"im_start", "assistant", "think">>)

Images(messages) ==
  {part.image : part \in {p \in UNION {ToSet(msg.parts) : msg \in ToSet(messages)} :
                            p.kind = "image"}}

HasImages(messages) == Images(messages) # {}

PromptPlans(m, messages) ==
  /\ m.merger
  /\ \A msg \in ToSet(messages) : msg.role \in Roles
  /\ \A image \in Images(messages) :
       /\ Dimensions(image) # NoSize
       /\ Resizable(m, Dimensions(image)[1], Dimensions(image)[2])

(* preprocess_qwen35_image_for_vision decodes, and plans by what it got.    *)
Preprocesses(m, image) ==
  image.decoded # NoSize /\ Resizable(m, image.decoded[1], image.decoded[2])

Preprocessed(m, image) == EmbeddingPlan(m, image.decoded[1], image.decoded[2])

-----------------------------------------------------------------------------
(* tokenize_qwen35_multimodal_prompt encodes the text between the images;   *)
(* a text of no token takes no row and no position, and is left out.        *)
Tokenized(tokens, chunks) ==
  LET With(done, chunk) ==
        IF chunk.kind = "text" THEN AddText(done, EncodeText(tokens, chunk.tokens))
        ELSE Append(done, chunk)
      encoded[c \in 0..Len(chunks)] ==
        IF c = 0 THEN <<>> ELSE With(encoded[c - 1], chunks[c])
  IN encoded[Len(chunks)]

TokenCount(chunk) ==
  IF chunk.kind = "text" THEN Len(chunk.tokens) ELSE chunk.plan.tokens

AdvanceByRows(chunk) ==
  IF chunk.kind = "text" THEN Len(chunk.tokens) ELSE chunk.plan.mergeY

(* An image takes as many positions as its longer side has cells.           *)
PositionAdvance(chunk) ==
  IF chunk.kind = "text" THEN Len(chunk.tokens)
  ELSE AtLeast(chunk.plan.mergeX, chunk.plan.mergeY)

(* A function written over another, like f @@ g of TLC, which the provers   *)
(* cannot open.                                                             *)
Over(f, g) ==
  [x \in DOMAIN f \cup DOMAIN g |-> IF x \in DOMAIN f THEN f[x] ELSE g[x]]

(* append_mixed_text_mrope_positions and append_mixed_image_mrope_positions *)
(* write the four sections of a buffer over the whole prompt.               *)
TextPositions(total, chunk) ==
  [k \in {s * total + chunk.startToken + t : s \in 0..3, t \in 0..(TokenCount(chunk) - 1)} |->
     chunk.startPosition + (k % total) - chunk.startToken]

ImagePositions(total, chunk) ==
  [k \in {s * total + chunk.startToken + t : s \in 0..3, t \in 0..(TokenCount(chunk) - 1)} |->
     LET cell == (k % total) - chunk.startToken
     IN CASE k \div total = 0 -> chunk.startPosition
          [] k \div total = 1 -> chunk.startPosition + (cell \div chunk.plan.mergeX)
          [] k \div total = 2 -> chunk.startPosition + (cell % chunk.plan.mergeX)
          [] OTHER -> 0]

MropePositions(total, chunks) ==
  LET written(chunk) == IF chunk.kind = "text" THEN TextPositions(total, chunk)
                        ELSE ImagePositions(total, chunk)
      positions[c \in 0..Len(chunks)] ==
        IF c = 0 THEN [k \in 0..(4 * total - 1) |-> 0]
        ELSE Over(written(chunks[c]), positions[c - 1])
  IN positions[Len(chunks)]

SectionsOfChunk(positions, total, start, tokens) ==
  [k \in 0..(4 * tokens - 1) |-> positions[(k \div tokens) * tokens + start + (k % tokens)]]

(* make_qwen35_mrope_positions: the part of a prefill chunk in each section *)
Slice(positions, total, start, tokens) ==
  [k \in 0..(4 * tokens - 1) |-> positions[(k \div tokens) * total + start + (k % tokens)]]

(* The positions of text alone.                                             *)
Sequential(start, tokens) == [k \in 0..(4 * tokens - 1) |-> start + (k % tokens)]

=============================================================================
