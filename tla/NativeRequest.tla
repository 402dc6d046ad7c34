---------------------------- MODULE NativeRequest ----------------------------
(***************************************************************************)
(* One request of generate_qwen35_metal from its files to its text, with   *)
(* or without images, the plain decode loop at its end.  The model file is *)
(* read three times (configuration, index, weights) and the mmproj file    *)
(* once by the gateway, once by the request and twice for every image: in  *)
(* between someone may replace either file.  Files are named, and an image *)
(* decodes to the size its header declares.                                *)
(*                                                                         *)
(* The caches hold, for every main layer that has them, what they were     *)
(* computed from: a row is [by, of], the layer that wrote it and the       *)
(* tokens it stands for, each with its rotary positions.                   *)
(*                                                                         *)
(* AdmitUndecoded is a mistake the code could contain; no definition uses  *)
(* it.                                                                     *)
(***************************************************************************)
EXTENDS QwenWeightMap, ImagePrompt

CONSTANTS
  File,               \* the files that may be on the disk, by name
  NoFile,             \* no --mmproj was given
  Requests,           \* [files, http, stream, messages, topP, maxNewTokens, chunkTokens]
  Replacements,       \* what the files may be replaced by
  MaxReplacements,    \* how often, during one request
  NextToken(_),       \* the id selected after some tokens
  EosTokens,          \* the ids is_qwen35_eos_token accepts
  Garbled             \* a value computed from rows that do not belong together

(* What the parsers of the files let through: sizes, offsets, dimensions    *)
(* and types are unsigned, metadata are signed.                             *)
ASSUME FileAssumption ==
  /\ NoFile \notin DOMAIN File
  /\ \A id \in DOMAIN File :
       LET file == File[id]
       IN /\ {file.size, file.indexEnd} \subseteq Nat
          /\ Meta(file.metadata, "general.alignment", DefaultAlignment) \in Nat
          /\ \A key \in {"block_count", "nextn_predict_layers", "clip.vision.patch_size",
                         "clip.vision.spatial_merge_size", "clip.vision.image_min_pixels",
                         "clip.vision.image_max_pixels", "clip.vision.projection_dim",
                         "clip.vision.block_count"} :
               Meta(file.metadata, key, 0) \in Int
          /\ \E tokens \in {Meta(file.metadata, "tokenizer.ggml.tokens", <<>>)} :
               tokens \in Seq(ToSet(tokens))
          /\ file.tensors \in Seq(ToSet(file.tensors))
          /\ \A tensor \in ToSet(file.tensors) :
               /\ tensor.shape \in Seq(Nat)
               /\ {tensor.type, tensor.offset} \subseteq Nat

(* The header is read from the bytes, and names the size they decode to.    *)
ImageAssumption(image) ==
  /\ {image.header, image.decoded} \subseteq (Nat \X Nat) \cup {NoSize}
  /\ ~image.bytes => image.header = NoSize
  /\ image.header # NoSize /\ image.decoded # NoSize => image.header = image.decoded

ASSUME RequestAssumption ==
  /\ NoSize \notin Nat \X Nat
  /\ \A r \in Requests :
       /\ r.files \in [model : DOMAIN File, mmproj : DOMAIN File \cup {NoFile}]
       /\ {r.maxNewTokens, r.chunkTokens} \subseteq Nat
       /\ r.stream \in BOOLEAN
       /\ r.messages \in Seq(ToSet(r.messages))
       /\ \A message \in ToSet(r.messages) :
            /\ message.parts \in Seq(ToSet(message.parts))
            /\ \A part \in ToSet(message.parts) :
                 \/ part.kind = "text" /\ part.tokens \in Seq(ToSet(part.tokens))
                 \/ part.kind = "image" /\ ImageAssumption(part.image)

ASSUME ReplacementAssumption ==
  Replacements \subseteq [path : {"model", "mmproj"}, file : DOMAIN File]

VARIABLES
  request, pc, answer, faulted,
  disk,               \* [model, mmproj]: the files at the two paths
  replaced,           \* how often the disk changed during the request
  read,               \* the files read so far: [metadata, bundle, index, graph, weights]
  chunks,             \* Qwen35MultimodalTokenPlan
  placed,             \* Qwen35MixedPrefillPlan.chunks
  mrope,              \* Qwen35MixedPrefillPlan.mrope_positions
  cache,              \* Qwen35MetalCache: [capacity, kv, recurrent]
  chunkStart,         \* chunk_start of the prefill loop
  hidden,             \* what the last row of the last chunk stands for
  generated,          \* generated_tokens
  nextPosition,       \* next_decode_position
  nextMrope           \* next_decode_mrope_position

envVars == <<request, faulted, disk, replaced>>
planVars == <<chunks, placed, mrope>>
runVars == <<cache, chunkStart, hidden, generated, nextPosition>>
vars == <<envVars, pc, answer, read, planVars, runVars, nextMrope>>

IndexOf == [id \in DOMAIN File |-> Index(File[id])]
MetadataOf == [id \in DOMAIN File |-> Metadata(IndexOf[id])]
ConfigOf == [id \in DOMAIN File |-> Config(IndexOf[id])]

(* What the checks of a file come to, whenever it is read.                  *)
Files == DOMAIN File
ReadableFiles == {id \in Files : Readable(File[id])}
MetadataFiles == {id \in Files : MetadataLoads(File[id])}
GraphFiles ==
  {id \in Files : GraphPlans(File[id]) /\ \E index \in {IndexOf[id]} : TensorsLoad(index, File[id])}

NothingRead == [metadata |-> NoFile, bundle |-> NoFile, index |-> NoFile,
                graph |-> NoFile, weights |-> NoFile]

NoCache == [capacity |-> 0, kv |-> <<>>, recurrent |-> <<>>]

Init ==
  /\ request \in Requests
  /\ pc = "idle"
  /\ answer = [status |-> "none"]
  /\ faulted = FALSE
  /\ disk = request.files
  /\ replaced = 0
  /\ read = NothingRead
  /\ chunks = <<>> /\ placed = <<>> /\ mrope = <<>>
  /\ cache = NoCache
  /\ chunkStart = 0 /\ hidden = <<>>
  /\ generated = <<>> /\ nextPosition = 0 /\ nextMrope = 0

(* A return: what the request held is freed with it.                        *)
Return(with) ==
  /\ answer' = with
  /\ pc' = "idle"
  /\ read' = NothingRead
  /\ chunks' = <<>> /\ placed' = <<>> /\ mrope' = <<>>
  /\ cache' = NoCache
  /\ chunkStart' = 0 /\ hidden' = <<>>
  /\ generated' = <<>> /\ nextPosition' = 0 /\ nextMrope' = 0
  /\ UNCHANGED <<request, disk, replaced>>

Fail == Return([status |-> "error"]) /\ UNCHANGED faulted

WithImages == HasImages(request.messages)

(* The next request comes, and finds its files on the disk.                 *)
Ask ==
  /\ pc = "idle"
  /\ request' \in Requests
  /\ disk' = request'.files
  /\ pc' = IF request'.http THEN "gateway" ELSE "start"
  /\ answer' = [status |-> "none"]
  /\ faulted' = FALSE
  /\ replaced' = 0
  /\ UNCHANGED <<read, planVars, runVars, nextMrope>>

-----------------------------------------------------------------------------
(* Loading *)

AdmitUndecoded(mmproj, messages) ==
  /\ mmproj # NoFile
  /\ mmproj \in MetadataFiles
  /\ PromptPlans(MetadataOf[mmproj], messages)

(* chat_multimodal_error plans the prompt and preprocesses every image that *)
(* came with bytes, all of which is done again for the request itself.      *)
Admits(mmproj, messages) ==
  /\ mmproj # NoFile
  /\ mmproj \in MetadataFiles
  /\ \E m \in {MetadataOf[mmproj]} :
       /\ PromptPlans(m, messages)
       /\ \A image \in Images(messages) : image.bytes => Preprocesses(m, image)

Gateway ==
  /\ pc = "gateway"
  /\ IF WithImages => Admits(disk.mmproj, request.messages)
     THEN pc' = "start" /\ UNCHANGED <<envVars, answer, read, planVars, runVars, nextMrope>>
     ELSE Return([status |-> "refused"]) /\ UNCHANGED faulted

(* The checks at the entry and, for a prompt with images, the metadata.     *)
Startable ==
  /\ request.messages # <<>> /\ request.maxNewTokens > 0
  /\ WithImages =>
       /\ disk.mmproj # NoFile
       /\ disk.mmproj \in MetadataFiles
       /\ MetadataOf[disk.mmproj].merger

Start ==
  /\ pc = "start"
  /\ IF Startable
     THEN /\ read' = [read EXCEPT !.metadata = IF WithImages THEN disk.mmproj ELSE NoFile]
          /\ pc' = "bundle"
          /\ UNCHANGED <<envVars, answer, planVars, runVars, nextMrope>>
     ELSE Fail

(* make_qwen35_effective_sampling; topP is in per cent.                     *)
ValidSampling == request.topP \in 1..100

(* load_model_bundle, and the width of the image rows against the model's.  *)
BundleFits(model, metadata) ==
  /\ model \in ReadableFiles
  /\ \E config \in {ConfigOf[model]} :
       /\ ValidConfig(config)
       /\ config.architecture = "qwen35"
       /\ metadata # NoFile => MetadataOf[metadata].width = config.hidden

LoadBundle ==
  /\ pc = "bundle"
  /\ IF BundleFits(disk.model, read.metadata) /\ ValidSampling
     THEN /\ read' = [read EXCEPT !.bundle = disk.model]
          /\ pc' = "index"
          /\ UNCHANGED <<envVars, answer, planVars, runVars, nextMrope>>
     ELSE Fail

(* The tensors of the file as it is now are bound to the configuration as   *)
(* it was, and the prompt is planned by the metadata as they were.          *)
IndexFits(model, config) ==
  /\ model \in ReadableFiles
  /\ \E index \in {IndexOf[model]} :
       /\ WeightsBind(index, config)
       /\ TokenizerLoads(index)

PromptFits(model, metadata) ==
  /\ CanEncode(IndexOf[model])
  /\ IF WithImages THEN \E m \in {MetadataOf[metadata]} : PromptPlans(m, request.messages)
     ELSE /\ \A m \in ToSet(request.messages) : m.role \in Roles
          /\ HasChatTokens(Tokens(IndexOf[model]))

(* read_gguf_file, build_qwen35_weight_map, load_gguf_tokenizer and the     *)
(* token plan; a prompt of text alone is one chunk of it.                   *)
ReadIndex ==
  /\ pc = "index"
  /\ IF /\ \E config \in {ConfigOf[read.bundle]} : IndexFits(disk.model, config)
        /\ PromptFits(disk.model, read.metadata)
     THEN /\ read' = [read EXCEPT !.index = disk.model]
          /\ \E m \in {IF WithImages THEN MetadataOf[read.metadata] ELSE NoFile} :
               chunks' = Tokenized(Tokens(IndexOf[disk.model]), PromptChunks(m, request.messages))
          /\ pc' = "place"
          /\ UNCHANGED <<envVars, answer, placed, mrope, runVars, nextMrope>>
     ELSE Fail

-----------------------------------------------------------------------------
(* build_qwen35_mixed_prefill_plan, one chunk after the other.  nextMrope   *)
(* is total_position_advance until it becomes the position to decode at.    *)

TotalTokens ==
  IF placed = <<>> THEN 0 ELSE Last(placed).startToken + TokenCount(Last(placed))

Current == chunks[Len(placed) + 1]

(* The advance is that of the token plan, whatever the encoder returns.     *)
Place(chunk) ==
  /\ placed' = Append(placed, Over([startToken |-> TotalTokens, startPosition |-> nextMrope], chunk))
  /\ nextMrope' = nextMrope + PositionAdvance(Current)
  /\ UNCHANGED <<envVars, answer, chunks, mrope, runVars>>

PlaceText ==
  /\ pc = "place"
  /\ Len(placed) < Len(chunks)
  /\ Current.kind = "text"
  /\ Place(Current)
  /\ UNCHANGED <<pc, read>>

(* The image is decoded and resized by the metadata the request read; the   *)
(* graph and its input stage are made from the file as it is now.           *)
InputReady(mmproj) ==
  \E image \in {Current.image}, m \in {MetadataOf[read.metadata]} :
    /\ image.bytes
    /\ Preprocesses(m, image)
    /\ mmproj \in GraphFiles
    /\ \E now \in {MetadataOf[mmproj]}, plan \in {Preprocessed(m, image)} : Divides(now, plan)

EncodeInput ==
  /\ pc = "place"
  /\ Len(placed) < Len(chunks)
  /\ Current.kind = "image"
  /\ IF InputReady(disk.mmproj)
     THEN /\ read' = [read EXCEPT !.graph = disk.mmproj]
          /\ pc' = "blocks"
          /\ UNCHANGED <<envVars, answer, planVars, runVars, nextMrope>>
     ELSE Fail

(* The blocks and the projector read the file once more and take from it    *)
(* the tensors of the planned graph.                                        *)
BlocksLoad(mmproj) ==
  /\ mmproj \in ReadableFiles
  /\ \E graph \in {IndexOf[read.graph]}, m \in {MetadataOf[read.graph]},
        index \in {IndexOf[mmproj]} :
       \E needed \in {VisionTensors(graph, m)} :
         \A n \in DOMAIN needed :
           HasShape(index, n, needed[n]) /\ Tensor(index, n).type \in {0, 30}

(* What the encoder makes must be what the token plan has room for.         *)
EncodeBlocks ==
  /\ pc = "blocks"
  /\ \E m \in {MetadataOf[read.metadata]}, graph \in {MetadataOf[read.graph]},
        index \in {IndexOf[read.graph]} :
       \E plan \in {Preprocessed(m, Current.image)} :
         \E encoded \in {Encode(index, graph, plan)} :
           IF /\ BlocksLoad(disk.mmproj)
              /\ encoded.tokens = TokenCount(Current)
              /\ encoded.width = m.width
           THEN /\ Place([kind |-> "image", image |-> Current.image, plan |-> encoded.plan,
                          rows |-> encoded.rows])
                /\ pc' = "place"
                /\ UNCHANGED read
           ELSE Fail

-----------------------------------------------------------------------------
(* The positions of the whole prompt, build_qwen35_execution_plan and       *)
(* allocate_qwen35_metal_cache, which zeroes what it allocates.             *)

Unwritten == [by |-> Garbled, of |-> <<Garbled>>]
ZeroState == [by |-> Garbled, of |-> <<>>]

EmptyCache(config, capacity) ==
  LET rows == Cardinality(LayersOfKind(config, "full")) * capacity
      states == Cardinality(LayersOfKind(config, "linear"))
  IN [capacity |-> capacity,
      kv |-> [row \in 0..(rows - 1) |-> Unwritten],
      recurrent |-> [slot \in 0..(states - 1) |-> ZeroState]]

LayOut ==
  /\ pc = "place"
  /\ Len(placed) = Len(chunks)
  /\ \E config \in {ConfigOf[read.bundle]}, tokens \in {TotalTokens} :
       IF Plannable(config, tokens) /\ Allocatable(config)
       THEN /\ mrope' = IF WithImages THEN MropePositions(tokens, placed) ELSE <<>>
            /\ cache' = EmptyCache(config, Capacity(tokens, request.maxNewTokens))
            /\ pc' = "upload"
            /\ UNCHANGED <<envVars, answer, read, chunks, placed, chunkStart, hidden,
                           generated, nextPosition, nextMrope>>
       ELSE Fail

(* upload_qwen35_metal_weights maps the file a third time, and takes every  *)
(* tensor of the index from it; then qwen35_mrope_sections.                 *)
Upload ==
  /\ pc = "upload"
  /\ \E config \in {ConfigOf[read.bundle]}, index \in {IndexOf[read.index]} :
       IF /\ Mappable(index, File[disk.model])
          /\ \A tensor \in ToSet(index.tensors) : Uploadable(tensor, File[disk.model].size)
          /\ RopeSections(config)
       THEN /\ read' = [read EXCEPT !.weights = disk.model]
            /\ pc' = "prefill"
            /\ UNCHANGED <<envVars, answer, planVars, runVars, nextMrope>>
       ELSE Fail

-----------------------------------------------------------------------------
(* The main layers over some rows.  A row stands for a sequence of tokens,  *)
(* each a record [token, at] with its four rotary positions; an image token *)
(* is named by its chunk and its place there.                               *)

(* make_qwen35_mixed_prefill_hidden: the tokens of the prompt, from 0.      *)
PromptToken(t) ==
  LET c == CHOOSE k \in DOMAIN placed :
             placed[k].startToken <= t /\ t < placed[k].startToken + TokenCount(placed[k])
      n == t - placed[c].startToken + 1
  IN IF placed[c].kind = "text" THEN <<"text", placed[c].tokens[n]>> ELSE <<"image", c, n>>

Section(positions, tokens, t) == [s \in 1..4 |-> positions[(s - 1) * tokens + t]]

(* What a layer after the first makes of a row depends on all it was made   *)
(* from already; the first only brings the tokens together.                 *)
Made(layer, below, history, together) ==
  IF together /\ (layer = 0 \/ below = history) THEN history ELSE <<Garbled>>

(* run_qwen35_linear_layer_chunk: the state goes on from the last chunk.    *)
LinearLayer(memory, config, layer, rows) ==
  LET slot == StateOf(config, layer)
      state == memory.recurrent[slot]
      history(t) == state.of \o [j \in 1..t |-> Last(rows[j])]
  IN [memory |-> [memory EXCEPT !.recurrent[slot] =
                    [by |-> layer, of |-> history(Len(rows))]],
      rows |-> [t \in DOMAIN rows |->
                  Made(layer, rows[t], history(t), state.by = layer \/ state = ZeroState)]]

(* run_qwen35_full_attention_layer_chunk: the rows are stored, and then     *)
(* each reads those up to its own.                                          *)
FullLayer(memory, config, layer, start, rows) ==
  LET first == StateOf(config, layer) * memory.capacity
      stored == Over([r \in {first + start + t - 1 : t \in DOMAIN rows} |->
                        [by |-> layer, of |-> rows[r - first - start + 1]]], memory.kv)
      history(t) == [p \in 1..(start + t) |-> Last(stored[first + p - 1].of)]
      together(t) ==
        \A p \in 1..(start + t) :
          LET row == stored[first + p - 1]
          IN row.by = layer /\ (layer = 0 \/ row.of = SubSeq(history(t), 1, p))
  IN [memory |-> [memory EXCEPT !.kv = stored],
      rows |-> [t \in DOMAIN rows |-> Made(layer, rows[t], history(t), together(t))]]

(* The layer loop of the prefill and of run_qwen35_decode_tokens.           *)
MainLayers(memory, config, start, rows) ==
  LET Through(done, layer) ==
        IF LayerKind(config, layer) = "linear"
        THEN LinearLayer(done.memory, config, layer, done.rows)
        ELSE FullLayer(done.memory, config, layer, start, done.rows)
      done[k \in 0..config.main] ==
        IF k = 0 THEN [memory |-> memory, rows |-> rows] ELSE Through(done[k - 1], k - 1)
  IN done[config.main]

DefaultChunkTokens == 1024

ChunkTokens == IF request.chunkTokens = 0 THEN DefaultChunkTokens ELSE request.chunkTokens

(* The rows of a chunk of the prompt, with its part of the positions.       *)
ChunkRows(start, n) ==
  LET positions == IF WithImages THEN Slice(mrope, TotalTokens, start, n)
                   ELSE Sequential(start, n)
  IN [t \in 1..n |-> <<[token |-> PromptToken(start + t - 1),
                        at |-> Section(positions, n, t - 1)]>>]

(* The ids of the text against the rows of the token embedding, which are   *)
(* taken for the whole prompt before its first chunk.                       *)
TokensEmbed(index) ==
  \A c \in DOMAIN placed :
    placed[c].kind = "text" =>
      \A n \in DOMAIN placed[c].tokens :
        placed[c].tokens[n] < Tensor(index, <<"token_embd">>).shape[2]

PrefillChunk ==
  /\ pc = "prefill"
  /\ \E config \in {ConfigOf[read.bundle]}, index \in {IndexOf[read.index]},
        n \in {Min({ChunkTokens, TotalTokens - chunkStart})} :
       IF LayersRun(index, config) /\ TokensEmbed(index)
       THEN /\ \E rows \in {ChunkRows(chunkStart, n)} :
                 \E ran \in {MainLayers(cache, config, chunkStart, rows)} :
                   cache' = ran.memory /\ hidden' = Last(ran.rows)
            /\ chunkStart' = chunkStart + ChunkTokens
            /\ IF chunkStart + ChunkTokens >= TotalTokens
               THEN pc' = "sample" /\ nextPosition' = TotalTokens
               ELSE UNCHANGED <<pc, nextPosition>>
            /\ UNCHANGED <<envVars, answer, read, planVars, generated, nextMrope>>
       ELSE Fail

(* There is a logit for every row of the output matrix, and the place of    *)
(* one of them is selected.                                                 *)
Selected ==
  LET ids == 0..(ConfigOf[read.bundle].vocab - 1)
  IN CHOOSE id \in ids : NextToken(hidden) \in ids => id = NextToken(hidden)

(* The text is decoded as a whole when it is complete.                      *)
Finish(reason, ids) ==
  IF Decodable(Tokens(IndexOf[read.index]), ids)
  THEN Return([status |-> "ok", finish |-> reason, tokens |-> ids]) /\ UNCHANGED faulted
  ELSE Fail

(* The plain loop: the logits of the last row, a token, which a stream      *)
(* decodes on its own, and unless the text ends it goes through the layers. *)
Sample ==
  LET token == Selected
      text == Append(generated, token)
  IN /\ pc = "sample"
     /\ IF ~HeadRuns(IndexOf[read.index]) THEN Fail
        ELSE IF token \in EosTokens THEN Finish("stop", generated)
        ELSE IF request.stream /\ ~Decodable(Tokens(IndexOf[read.index]), <<token>>) THEN Fail
        ELSE IF Len(text) = request.maxNewTokens THEN Finish("length", text)
        ELSE /\ generated' = text
             /\ pc' = "decode"
             /\ UNCHANGED <<envVars, answer, read, planVars, cache, chunkStart, hidden,
                            nextPosition, nextMrope>>

(* run_qwen35_decode_tokens: the row's place in the cache is the number of  *)
(* tokens before it, its rotary position is not.                            *)
DecodeToken ==
  /\ pc = "decode"
  /\ \E config \in {ConfigOf[read.bundle]},
        row \in {<<[token |-> <<"text", Last(generated)>>,
                   at |-> Section(Sequential(nextMrope, 1), 1, 0)]>>} :
       IF nextPosition < cache.capacity
       THEN /\ \E ran \in {MainLayers(cache, config, nextPosition, <<row>>)} :
                 cache' = ran.memory /\ hidden' = Last(ran.rows)
            /\ nextPosition' = nextPosition + 1
            /\ nextMrope' = nextMrope + 1
            /\ pc' = "sample"
            /\ UNCHANGED <<envVars, answer, read, planVars, chunkStart, generated>>
       ELSE Fail

-----------------------------------------------------------------------------
(* Any read, allocation, upload or kernel may fail, and so may sampling     *)
(* from logits that are not numbers.                                        *)
Fault ==
  /\ pc # "idle"
  /\ Return([status |-> IF pc = "gateway" THEN "refused" ELSE "error"])
  /\ faulted' = TRUE

(* Someone puts another file in the place of one of the two; once the       *)
(* weights are on the GPU nothing reads them again.                         *)
ReplaceFile ==
  /\ pc \in {"start", "bundle", "index", "place", "blocks", "upload"}
  /\ replaced < MaxReplacements
  /\ \E new \in Replacements :
       /\ new.file # disk[new.path]
       /\ disk' = [disk EXCEPT ![new.path] = new.file]
  /\ replaced' = replaced + 1
  /\ UNCHANGED <<request, faulted, pc, answer, read, planVars, runVars, nextMrope>>

Next ==
  \/ Ask \/ Gateway \/ Start \/ LoadBundle \/ ReadIndex
  \/ PlaceText \/ EncodeInput \/ EncodeBlocks \/ LayOut \/ Upload
  \/ PrefillChunk \/ Sample \/ DecodeToken
  \/ Fault \/ ReplaceFile

Spec == Init /\ [][Next]_vars

-----------------------------------------------------------------------------
(* The positions of some rows, and the first that is beyond all of them.    *)
Used(rows) == UNION {{row.at[s] : s \in 1..3} : row \in ToSet(rows)}
Beyond(rows) == IF rows = <<>> THEN 0 ELSE Max(Used(rows)) + 1

AppendText(rows, tokens) ==
  rows \o [n \in 1..Len(tokens) |->
             [token |-> <<"text", tokens[n]>>, at |-> [s \in 1..4 |-> Beyond(rows) + n - 1]]]

AppendImage(rows, c, plan) ==
  rows \o [n \in 1..plan.tokens |->
             [token |-> <<"image", c, n>>,
              at |-> <<Beyond(rows), Beyond(rows) + ((n - 1) \div plan.mergeX),
                       Beyond(rows) + ((n - 1) % plan.mergeX), 0>>]]

PromptRows ==
  LET With(rows, c) == IF chunks[c].kind = "text" THEN AppendText(rows, chunks[c].tokens)
                       ELSE AppendImage(rows, c, chunks[c].plan)
      rows[c \in 0..Len(chunks)] == IF c = 0 THEN <<>> ELSE With(rows[c - 1], c)
  IN rows[Len(chunks)]

(* Whatever the chunks of the prefill and however the layers share the      *)
(* caches: a token is sampled from a state computed from every token of the *)
(* prompt in order, text and image, and of the text so far, each at the     *)
(* position that follows all positions before it.                           *)
SampledStateIsOfThisPrompt ==
  pc = "sample" => hidden = AppendText(PromptRows, generated)

PositionsOf(t) == {mrope[s * TotalTokens + t] : s \in 0..2}

SameImage(t, u) ==
  \E c \in DOMAIN placed :
    placed[c].kind = "image" /\ {t, u} \subseteq
      placed[c].startToken..(placed[c].startToken + TokenCount(placed[c]) - 1)

(* The four sections of rotary positions keep the order of the tokens:      *)
(* every position of a token is before every position of a later one, but   *)
(* among the cells of one image, where no two have the same; and the text   *)
(* is decoded beyond them all.                                              *)
PositionsKeepOrder ==
  pc \in {"upload", "prefill"} /\ WithImages =>
    \A t \in 0..(TotalTokens - 1) :
      /\ \A p \in PositionsOf(t) : p < nextMrope
      /\ \A u \in 0..(t - 1) :
           IF SameImage(t, u)
           THEN Section(mrope, TotalTokens, t) # Section(mrope, TotalTokens, u)
           ELSE \A p \in PositionsOf(t), q \in PositionsOf(u) : q < p

(* The four patches behind an image token are those of the cell its rotary  *)
(* positions name, in the image of its chunk, and each patch got the        *)
(* position embedding and the vision rotation of its own place.             *)
ImageTokenCoversItsCell ==
  pc \in {"upload", "prefill"} =>
    \A c \in DOMAIN placed :
      LET chunk == placed[c]
      IN chunk.kind = "image" =>
           \A n \in DOMAIN chunk.rows :
             LET at == Section(mrope, TotalTokens, chunk.startToken + n - 1)
                 corner == <<2 * (at[3] - at[1]), 2 * (at[2] - at[1])>>
                 cell == chunk.rows[n].cell
             IN /\ {cell[k].patch : k \in 1..4} =
                     {<<corner[1] + x, corner[2] + y>> : x \in 0..1, y \in 0..1}
                /\ \A k \in 1..4 : cell[k].place = cell[k].patch /\ cell[k].rope = cell[k].patch

(* An image has no fewer tokens and no more than the limits of the mmproj   *)
(* file, in pixels, allow.                                                  *)
TokensWithinLimits ==
  \A c \in DOMAIN placed :
    placed[c].kind = "image" =>
      LET m == MetadataOf[read.metadata]
          pixels == placed[c].plan.tokens * AlignSize(m) * AlignSize(m)
      IN m.minPixels <= pixels /\ pixels <= m.maxPixels

(* Both files have everything a request needs; the tokens of the model are  *)
(* as many as its embedding has rows and its head has logits.               *)
Complete(files) ==
  LET config == ConfigOf[files.model]
      index == IndexOf[files.model]
  IN /\ BundleFits(files.model, IF WithImages THEN files.mmproj ELSE NoFile)
     /\ IndexFits(files.model, config)
     /\ CanEncode(index) /\ config.vocab = Len(Tokens(index))
     /\ \A i \in DOMAIN index.tensors : Uploadable(index.tensors[i], File[files.model].size)
     /\ Plannable(config, 1) /\ Allocatable(config) /\ RopeSections(config)
     /\ LayersRun(index, config) /\ HeadRuns(index)
     /\ WithImages => files.mmproj \in GraphFiles

(* A chat with images the gateway has accepted is answered: with complete   *)
(* files that nobody replaces, nothing the request checks again, about the  *)
(* messages, the images, their tokens or what the encoder made of them, can *)
(* fail it.  The exceptions are max_tokens 0 and a top_p outside (0, 1],    *)
(* which the gateway lets pass.                                             *)
AcceptedIsServed ==
  answer.status = "error" /\ request.http /\ WithImages =>
    \/ faulted \/ replaced > 0
    \/ ~Complete(request.files)
    \/ request.maxNewTokens = 0 \/ ~ValidSampling

(* Every tensor a layer binds has the shape the configuration asks for,     *)
(* although the index was read after the configuration, and its exact       *)
(* bytes, in unbounded arithmetic, are inside the file that is mapped after *)
(* both.  The bytes are those of the file the index describes unless a file *)
(* of the same size took its place, which the third reading cannot tell.    *)
WeightsAreTheirTensors ==
  read.weights # NoFile =>
    LET config == ConfigOf[read.bundle]
        index == IndexOf[read.index]
        exact(tensor) ==
          (Elements(tensor.shape) \div TypeLayout[tensor.type].block)
            * TypeLayout[tensor.type].bytes
        bound == {<<"token_embd">>, <<"output_norm">>} \cup
                 UNION {{<<"blk", layer, n>> : n \in DOMAIN LayerTensors(config, layer)} :
                          layer \in 0..(config.total - 1)}
    IN /\ \A name \in bound :
            LET tensor == Tensor(index, name)
            IN tensor.at + exact(tensor) <= File[read.weights].size
       /\ read.weights # read.index =>
            replaced > 0 /\ File[read.weights].size = File[read.index].size
       /\ \A layer \in 0..(config.total - 1) :
            \A n \in DOMAIN LayerTensors(config, layer) :
              HasShape(index, <<"blk", layer, n>>, LayerTensors(config, layer)[n])

=============================================================================
