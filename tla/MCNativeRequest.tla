--------------------------- MODULE MCNativeRequest ---------------------------
(***************************************************************************)
(* A text model of four main layers (two of each kind) and one MTP layer,  *)
(* a vision model of two blocks of which one is a deepstack layer, images  *)
(* of up to six tokens, and files with one thing wrong each.               *)
(***************************************************************************)
EXTENDS NativeRequest

F32 == 0
F16 == 1
Q8 == 8
BF16 == 30

(* What a file is made from: its metadata, the shapes and types (F32 if not *)
(* listed) of its tensors, which lie one after the other, the shapes it     *)
(* tells instead, and how many bytes are missing at its end.  Every key     *)
(* takes 32 bytes.                                                          *)
Sound(metadata, shapes, types) ==
  [metadata |-> metadata, shapes |-> shapes, types |-> types, told |-> <<>>, missing |-> 0]

Laid(given) ==
  LET type(n) == IF n \in DOMAIN given.types THEN given.types[n] ELSE F32
      bytes(n) == (Elements(given.shapes[n]) \div TypeLayout[type(n)].block)
                    * TypeLayout[type(n)].bytes
      told(n) == IF n \in DOMAIN given.told THEN given.told[n] ELSE given.shapes[n]
      place(n, laid) ==
        [tensors |-> Append(laid.tensors, [name |-> n, shape |-> told(n), type |-> type(n),
                                           offset |-> laid.end]),
         end |-> AlignUp(laid.end + bytes(n), DefaultAlignment)]
  IN FoldSet(place, [tensors |-> <<>>, end |-> 0], DOMAIN given.shapes)

MCFile(given, laid) ==
  LET header == 32 * Cardinality(DOMAIN given.metadata)
  IN [version |-> 3, metadata |-> given.metadata, indexEnd |-> header - 10,
      size |-> header + laid.end - given.missing, tensors |-> laid.tensors]

Without(f, key) == [k \in DOMAIN f \ {key} |-> f[k]]

-----------------------------------------------------------------------------
Vocabulary ==
  <<"im_start", "im_end", "system", "user", "assistant", "think", "vision_start", "vision_end",
    "byte", "see", "be", "and", "im_end", "say">>

TextMetadata ==
  "general.architecture" :> "qwen35" @@ "embedding_length" :> 32 @@
  "feed_forward_length" :> 32 @@ "tokenizer.ggml.tokens" :> Vocabulary @@
  "tokenizer.ggml.model" :> "gpt2" @@ "tokenizer.ggml.pre" :> "qwen35" @@
  "attention.layer_norm_rms_epsilon" :> 1 @@ "rope.freq_base" :> 10000 @@
  "attention.head_count" :> 2 @@ "attention.head_count_kv" :> 1 @@
  "attention.key_length" :> 8 @@ "block_count" :> 5 @@ "nextn_predict_layers" :> 1 @@
  "full_attention_interval" :> 2 @@ "ssm.conv_kernel" :> 2 @@ "ssm.state_size" :> 4 @@
  "ssm.group_count" :> 1 @@ "ssm.time_step_rank" :> 2 @@ "ssm.inner_size" :> 8 @@
  "rope.dimension_sections" :> <<1, 1, 1, 0>>

ListedMetadata == "attention.recurrent_layers" :> <<0, 1, 1, 0>> @@ TextMetadata

AllFullMetadata == "attention.recurrent_layers" :> <<0, 0, 0, 0>> @@ TextMetadata

(* The tensors a configuration asks for.                                    *)
ShapesOf(config) ==
  [n \in UNION {{<<"blk", l, t>> : t \in DOMAIN LayerTensors(config, l)} :
                   l \in 0..(config.total - 1)} |->
     LayerTensors(config, n[2])[n[3]]]
  @@ <<"token_embd">> :> <<32, config.vocab>> @@ <<"output_norm">> :> <<32>> @@
  <<"output">> :> <<32, config.vocab>>

Text(metadata) ==
  CHOOSE given \in {Sound(metadata, ShapesOf(config), <<"output">> :> Q8) :
                      config \in {Config([metadata |-> metadata])}} : TRUE

(* Other types, shapes or metadata than the configuration's.                *)
Typed(given, types) == [given EXCEPT !.types = types @@ @]

(* Vocabularies that do not fit the rest of the file, or the prompts.       *)
TokenizerFiles(text) ==
  "few types" :> [text EXCEPT !.metadata = "tokenizer.ggml.token_type" :> <<1, 1>> @@ @] @@
  "llama" :> [text EXCEPT !.metadata["tokenizer.ggml.model"] = "llama"] @@
  "no pre" :> [text EXCEPT !.metadata = Without(@, "tokenizer.ggml.pre")] @@
  "no tokens" :> [text EXCEPT !.metadata = "vocab_size" :> 14 @@
                                           Without(@, "tokenizer.ggml.tokens")] @@
  "no markers" :> [text EXCEPT !.metadata["tokenizer.ggml.tokens"] =
                     [n \in 1..14 |-> IF @[n] = "im_end" THEN "byte" ELSE @[n]]] @@
  "bare" :> [text EXCEPT !.metadata["tokenizer.ggml.tokens"] = [n \in 1..14 |-> "other"]] @@
  "few rows" :> Text("vocab_size" :> 13 @@ TextMetadata) @@
  "more rows" :> Text("vocab_size" :> 16 @@ TextMetadata)

TextFiles(text) ==
  "text" :> text @@
  "retuned" :> Typed(text, <<"blk", 0, "ffn_up">> :> Q8 @@ <<"blk", 3, "ffn_up">> :> Q8) @@
  "swapped" :> Typed(text, <<"blk", 1, "ffn_up">> :> Q8 @@ <<"blk", 2, "ffn_up">> :> Q8) @@
  "listed" :> Text(ListedMetadata) @@
  "all full" :> Text(AllFullMetadata) @@
  "half" :> Typed(text, <<"blk", 3, "attn_v">> :> F16) @@
  "wrong type" :> [Typed(text, <<"blk", 2, "ssm_conv1d">> :> Q8) EXCEPT
                     !.shapes[<<"blk", 2, "ssm_conv1d">>] = <<2, 16>>] @@
  "float head" :> [text EXCEPT !.shapes = Without(@, <<"output">>)] @@
  "no sections" :> [text EXCEPT !.metadata = Without(@, "rope.dimension_sections")] @@
  "two sections" :> [text EXCEPT !.metadata["rope.dimension_sections"] = <<1, 1>>] @@
  "no tensor" :> [text EXCEPT !.shapes = Without(@, <<"blk", 1, "attn_k">>)] @@
  "truncated" :> [text EXCEPT !.missing = 32] @@
  "overflow" :> [text EXCEPT !.metadata = "vocab_size" :> 32770 @@ @,
                   !.told = <<"token_embd">> :> <<32, 32770>> @@ <<"output">> :> <<32, 32770>>] @@
  "no base" :> [text EXCEPT !.metadata = Without(@, "rope.freq_base")] @@
  TokenizerFiles(text)

TextFile == CHOOSE files \in {TextFiles(text) : text \in {Text(TextMetadata)}} : TRUE

-----------------------------------------------------------------------------
VisionMetadata ==
  "general.architecture" :> "clip" @@ "clip.projector_type" :> "qwen3vl_merger" @@
  "clip.vision.patch_size" :> 1 @@ "clip.vision.spatial_merge_size" :> 2 @@
  "clip.vision.image_min_pixels" :> 8 @@ "clip.vision.image_max_pixels" :> 24 @@
  "clip.vision.image_size" :> 2 @@ "clip.vision.projection_dim" :> 16 @@
  "clip.vision.feed_forward_length" :> 4 @@ "clip.vision.attention.head_count" :> 1 @@
  "clip.vision.block_count" :> 2 @@ "clip.vision.embedding_length" :> 4 @@
  "clip.vision.image_std" :> 1 @@ "clip.vision.is_deepstack_layers" :> {0}

NoDeepstack == Without(VisionMetadata, "clip.vision.is_deepstack_layers")

Vision(metadata) ==
  CHOOSE given \in {Sound(metadata, VisionTensors(index, m), <<>>) :
                      <<index, m>> \in
                        {<<index, Metadata(index)>> :
                           index \in {[metadata |-> metadata, tensors |-> <<>>, named |-> <<>>]}}} :
    TRUE

VisionFiles(vision) ==
  "vision" :> vision @@
  "brain" :> Typed(vision, [n \in {<<"v.blk", b, "attn_qkv.weight">> : b \in 0..1} |-> BF16]) @@
  "no merge" :> [vision EXCEPT !.metadata = Without(@, "clip.vision.spatial_merge_size")] @@
  "no block" :> [vision EXCEPT !.shapes = Without(@, <<"v.blk", 1, "attn_qkv.bias">>)] @@
  "narrow" :> Vision(NoDeepstack) @@
  "other" :> [vision EXCEPT !.metadata["clip.projector_type"] = "ldp"]

VisionFile ==
  CHOOSE files \in {VisionFiles(vision) : vision \in {Vision(VisionMetadata)}} : TRUE

MCFiles ==
  CHOOSE files \in {[id \in DOMAIN all |-> MCFile(all[id], Laid(all[id]))] :
                      all \in {TextFile @@ VisionFile}} : TRUE

-----------------------------------------------------------------------------
Image(w, h) == [header |-> <<w, h>>, decoded |-> <<w, h>>, bytes |-> TRUE]
Unlabelled(w, h) == [Image(w, h) EXCEPT !.header = NoSize]
Undecodable(w, h) == [Image(w, h) EXCEPT !.decoded = NoSize]
Linked == [header |-> NoSize, decoded |-> NoSize, bytes |-> FALSE]

Words(tokens) == [kind |-> "text", tokens |-> tokens]
Picture(image) == [kind |-> "image", image |-> image]
User(parts) == [role |-> "user", parts |-> parts]

Chat(model, mmproj, http, parts, n, chunk) ==
  [files |-> [model |-> model, mmproj |-> mmproj], http |-> http,
   stream |-> FALSE, messages |-> <<User(parts)>>, topP |-> 100,
   maxNewTokens |-> n, chunkTokens |-> chunk]

(* The end of the text, a token that only some heads have, or a word.       *)
MCNextToken(h) == IF Len(h) % 5 = 0 THEN 1 ELSE IF Len(h) % 7 = 6 THEN 14 ELSE 9

(* The retuned and the swapped model have the same size.                    *)
MCReplacements ==
  {[path |-> "model", file |-> "swapped"], [path |-> "model", file |-> "listed"],
   [path |-> "mmproj", file |-> "brain"], [path |-> "mmproj", file |-> "no block"]}

MCRequests ==
  { Chat("text", "vision", TRUE, <<Picture(Image(6, 2)), Picture(Image(2, 6))>>, 2, 5),
    Chat("text", "vision", TRUE, <<Words(<<"see">>), Picture(Unlabelled(9, 9))>>, 3, 0),
    Chat("listed", "vision", FALSE, <<Picture(Image(5, 4)), Words(<<"see">>)>>, 2, 4),
    Chat("text", NoFile, TRUE, <<Words(<<"say">>)>>, 3, 3),
    Chat("retuned", "brain", TRUE, <<Picture(Image(2, 2))>>, 1, 20),
    Chat("text", "vision", TRUE, <<Picture(Undecodable(4, 4))>>, 1, 0),
    Chat("text", "vision", FALSE, <<Picture(Undecodable(4, 4))>>, 1, 0),
    Chat("text", "vision", TRUE, <<Picture(Linked)>>, 1, 0),
    Chat("text", "vision", TRUE, <<Picture(Image(4, 4))>>, 0, 0),
    Chat("text", NoFile, TRUE, <<Picture(Image(4, 4))>>, 1, 0),
    Chat("text", NoFile, FALSE, <<Picture(Image(4, 4))>>, 1, 0),
    Chat("text", NoFile, FALSE, <<Words(<<"say">>)>>, 0, 0),
    [Chat("text", "vision", TRUE, <<>>, 2, 6) EXCEPT !.messages =
       <<[role |-> "system", parts |-> <<Words(<<"be", "brief">>)>>], User(<<Picture(Image(6, 2))>>),
         [role |-> "assistant", parts |-> <<>>], User(<<Words(<<"and">>), Picture(Image(4, 4))>>)>>],
    [Chat("text", "vision", TRUE, <<Picture(Image(2, 2))>>, 1, 20) EXCEPT !.topP = 0],
    [Chat("text", "vision", TRUE, <<>>, 2, 0) EXCEPT !.messages =
       <<[role |-> "tool", parts |-> <<Picture(Image(4, 4))>>]>>] }
  \cup
  {Chat(model, NoFile, FALSE, <<Words(<<"say">>)>>, 2, 4) : model \in DOMAIN TextFile}
  \cup
  {[Chat(model, "vision", TRUE, <<Words(<<"say">>), Picture(Image(4, 4))>>, 2, 0) EXCEPT
       !.stream = stream] : model \in DOMAIN TokenizerFiles(TextFile["text"]), stream \in BOOLEAN}
  \cup
  {Chat("text", mmproj, http, <<Picture(Image(4, 4))>>, 1, 0) :
     mmproj \in DOMAIN VisionFile, http \in BOOLEAN}
  \cup
  {Chat("listed", "brain", FALSE, <<Picture(Image(w, h)), Words(<<"see">>), Picture(Image(h, 3))>>,
        2, 4) : w \in {2, 3, 5, 7}, h \in 2..7}

MCStrips ==
  {Chat("text", "vision", FALSE, <<Picture(Image(w, h))>>, 1, 0) :
     w \in {1, 2, 5, 14}, h \in {1, 4, 14}}
=============================================================================
