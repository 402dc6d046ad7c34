---------------------------- MODULE QwenWeightMap ----------------------------
(***************************************************************************)
(* From the index of a text model to what a request runs with: the         *)
(* configuration (load_gguf_bundle and validate_model_bundle), the tensors *)
(* each layer must have with their shapes (build_qwen35_weight_map), and   *)
(* the sizes of the caches (build_qwen35_execution_plan).  A tensor is     *)
(* named by its name, or by its layer and name.  The mixture-of-experts    *)
(* fields, which the dense model never reads, are left out.                *)
(***************************************************************************)
EXTENDS GgufTokenizer

Positive(config, keys) == \A k \in keys : config[k] > 0

(* attention_recurrent_layers: from the file, or every n-th layer has full  *)
(* attention.                                                               *)
RecurrentLayers(metadata, main) ==
  LET given == Meta(metadata, "attention.recurrent_layers", <<>>)
  IN IF given # <<>> THEN given
     ELSE [i \in 1..main |->
             IF i % Meta(metadata, "full_attention_interval", 4) # 0 THEN 1 ELSE 0]

(* load_gguf_bundle: every value but the architecture has a default.        *)
Config(index) ==
  LET m(key, default) == Meta(index.metadata, key, default)
      heads == m("attention.head_count", 0)
      headDim == m("attention.key_length", 0)
      layers == m("block_count", 0)
      main == layers - m("nextn_predict_layers", 0)
      vocab == m("vocab_size", 0)
  IN [architecture |-> m("general.architecture", "none"),
      hidden |-> m("embedding_length", 0),
      intermediate |-> m("feed_forward_length", 0),
      vocab |-> IF vocab = 0 THEN Len(Tokens(index)) ELSE vocab,
      heads |-> heads,
      kvHeads |-> m("attention.head_count_kv", 0),
      headDim |-> IF headDim = 0 /\ heads > 0 THEN m("embedding_length", 0) \div heads ELSE headDim,
      total |-> layers,
      main |-> main,
      recurrent |-> RecurrentLayers(index.metadata, main),
      convKernel |-> m("ssm.conv_kernel", 0),
      keyHeadDim |-> m("ssm.state_size", 0),
      keyHeads |-> m("ssm.group_count", 0),
      valueHeads |-> m("ssm.time_step_rank", 0),
      inner |-> m("ssm.inner_size", 0),
      epsilon |-> m("attention.layer_norm_rms_epsilon", 0),
      ropeBase |-> m("rope.freq_base", 0),
      sections |-> m("rope.dimension_sections", <<11, 11, 10, 0>>)]

(* validate_model_bundle, and the checks of load_gguf_bundle.               *)
ValidConfig(config) ==
  /\ config.architecture \in {"qwen35", "qwen35moe", "qwen3vl", "qwen3vlmoe", "clip"}
  /\ config.main >= 0
  /\ config.architecture # "clip" =>
       /\ Positive(config, {"hidden", "heads", "kvHeads", "main", "vocab", "epsilon", "ropeBase"})
       /\ config.heads % config.kvHeads = 0
       /\ config.sections # <<>>
       /\ Len(config.recurrent) >= config.main

-----------------------------------------------------------------------------
(* build_qwen35_weight_map.  Layers are numbered from 0, as in the file.    *)

LayerKind(config, layer) ==
  IF layer >= config.main THEN "mtp"
  ELSE IF config.recurrent[layer + 1] # 0 THEN "linear" ELSE "full"

LayersOfKind(config, kind) ==
  {layer \in 0..(config.total - 1) : LayerKind(config, layer) = kind}

CommonTensors(c) ==
  "attn_norm" :> <<c.hidden>> @@ "post_attention_norm" :> <<c.hidden>> @@
  "ffn_gate" :> <<c.hidden, c.intermediate>> @@
  "ffn_down" :> <<c.intermediate, c.hidden>> @@
  "ffn_up" :> <<c.hidden, c.intermediate>>

FullTensors(c) ==
  "attn_q" :> <<c.hidden, 2 * c.headDim * c.heads>> @@
  "attn_k" :> <<c.hidden, c.headDim * c.kvHeads>> @@
  "attn_v" :> <<c.hidden, c.headDim * c.kvHeads>> @@
  "attn_output" :> <<c.headDim * c.heads, c.hidden>> @@
  "attn_q_norm" :> <<c.headDim>> @@ "attn_k_norm" :> <<c.headDim>>

ConvChannels(c) == c.inner + 2 * c.keyHeads * c.keyHeadDim

LinearTensors(c) ==
  "attn_qkv" :> <<c.hidden, ConvChannels(c)>> @@ "attn_gate" :> <<c.hidden, c.inner>> @@
  "ssm_conv1d" :> <<c.convKernel, ConvChannels(c)>> @@
  "ssm_dt" :> <<c.valueHeads>> @@ "ssm_a" :> <<c.valueHeads>> @@
  "ssm_beta" :> <<c.hidden, c.valueHeads>> @@ "ssm_alpha" :> <<c.hidden, c.valueHeads>> @@
  "ssm_norm" :> <<c.inner \div c.valueHeads>> @@ "ssm_out" :> <<c.inner, c.hidden>>

MtpTensors(c) ==
  FullTensors(c) @@ "nextn.eh_proj" :> <<2 * c.hidden, c.hidden>> @@
  "nextn.enorm" :> <<c.hidden>> @@ "nextn.hnorm" :> <<c.hidden>>

OptionalMtpTensors(c) ==
  "nextn.embed_tokens" :> <<c.hidden, c.vocab>> @@
  "nextn.shared_head_head" :> <<c.hidden, c.vocab>> @@
  "nextn.shared_head_norm" :> <<c.hidden>>

LayerTensors(config, layer) ==
  CommonTensors(config) @@
  (CASE LayerKind(config, layer) = "full" -> FullTensors(config)
     [] LayerKind(config, layer) = "linear" -> LinearTensors(config)
     [] OTHER -> MtpTensors(config))

Binds(index, config, layer) ==
  /\ LayerKind(config, layer) = "linear" =>
       /\ Positive(config, {"keyHeadDim", "keyHeads", "valueHeads", "inner", "convKernel"})
       /\ config.inner % config.valueHeads = 0
  /\ LET required == LayerTensors(config, layer)
     IN \A n \in DOMAIN required : HasShape(index, <<"blk", layer, n>>, required[n])
  /\ LayerKind(config, layer) = "mtp" =>
       LET optional == OptionalMtpTensors(config)
       IN \A n \in DOMAIN optional :
            HasTensor(index, <<"blk", layer, n>>) => HasShape(index, <<"blk", layer, n>>, optional[n])

(* A model without output.weight uses the token embedding twice.            *)
WeightsBind(index, config) ==
  /\ config.architecture = "qwen35"
  /\ Positive(config, {"hidden", "vocab", "intermediate", "headDim", "heads", "kvHeads",
                       "total", "main"})
  /\ config.main <= config.total
  /\ Len(config.recurrent) >= config.main
  /\ HasShape(index, <<"token_embd">>, <<config.hidden, config.vocab>>)
  /\ HasShape(index, <<"output_norm">>, <<config.hidden>>)
  /\ HasTensor(index, <<"output">>) => HasShape(index, <<"output">>, <<config.hidden, config.vocab>>)
  /\ \A layer \in 0..(config.total - 1) : Binds(index, config, layer)

-----------------------------------------------------------------------------
(* build_qwen35_execution_plan, and the caches made by its sizes.           *)

Plannable(config, promptTokens) ==
  /\ promptTokens > 0
  /\ Positive(config, {"hidden", "main", "total", "headDim", "heads", "kvHeads", "keyHeads",
                       "valueHeads", "keyHeadDim", "inner", "convKernel"})
  /\ config.inner % config.valueHeads = 0

(* attention_capacity_tokens: no context is configured, so a request has    *)
(* room for its own tokens.                                                 *)
Capacity(promptTokens, decodeTokens) == promptTokens + decodeTokens

(* allocate_qwen35_metal_cache makes four buffers, none of them empty.      *)
Allocatable(config) ==
  /\ LayersOfKind(config, "full") # {} /\ LayersOfKind(config, "linear") # {}
  /\ config.convKernel > 1

(* A layer's place among those of its kind, counted while a chunk runs:     *)
(* which rows of the KV cache, or which recurrent state, are its own.       *)
StateOf(config, layer) ==
  LET kind == LayerKind(config, layer)
      executed[k \in 0..layer] ==
        IF k = 0 THEN 0
        ELSE executed[k - 1] + (IF LayerKind(config, k - 1) = kind THEN 1 ELSE 0)
  IN executed[layer]

(* require_supported_qwen35_weight_type and the checks of                   *)
(* upload_qwen35_metal_weights for one tensor; rows of a matrix of Q8_0 are *)
(* whole blocks, for it is also stored as a dense transposed matrix.        *)
Uploadable(tensor, size) ==
  /\ tensor.type \in {0, 8, 12, 13, 14}
  /\ tensor.bytes # 0
  /\ BytesInside(tensor, size)
  /\ tensor.type = 8 /\ Len(tensor.shape) = 2 => tensor.shape[1] % 32 = 0

-----------------------------------------------------------------------------
(* What only the layers themselves check, while the prompt runs.            *)

(* qwen35_mrope_sections, and the dimensions it leaves to rotate.           *)
RopeSections(config) ==
  /\ Len(config.sections) >= 4
  /\ \A s \in 1..4 : config.sections[s] >= 0
  /\ \E s \in 1..4 : config.sections[s] > 0

RotatedFits(config) ==
  2 * (config.sections[1] + config.sections[2] + config.sections[3] + config.sections[4])
    <= config.headDim

FloatTensors ==
  {"attn_norm", "post_attention_norm", "attn_q_norm", "attn_k_norm", "ssm_norm", "ssm_dt",
   "ssm_a", "ssm_conv1d"}

(* run_qwen35_linear_layer_chunk and run_qwen35_full_attention_layer_chunk, *)
(* after a token embedding of F32 or a K-quant.                             *)
LayersRun(index, config) ==
  /\ Tensor(index, <<"token_embd">>).type \in {0, 12, 13, 14}
  /\ config.inner = config.valueHeads * config.keyHeadDim
  /\ RotatedFits(config)
  /\ \A layer \in 0..(config.main - 1) :
       \A n \in DOMAIN LayerTensors(config, layer) \cap FloatTensors :
         Tensor(index, <<"blk", layer, n>>).type = 0

(* run_qwen35_output_norm and run_qwen35_lm_head_logits.                    *)
HeadRuns(index) ==
  /\ Tensor(index, <<"output_norm">>).type = 0
  /\ Tensor(index, IF HasTensor(index, <<"output">>) THEN <<"output">>
                   ELSE <<"token_embd">>).type \in {8, 12, 13, 14}

=============================================================================
