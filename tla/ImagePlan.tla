------------------------------ MODULE ImagePlan ------------------------------
(***************************************************************************)
(* What qwen35_multimodal.cpp reads from a mmproj file before it encodes:  *)
(* the metadata, the size an image is resized to, the grids of patches and *)
(* of merged cells (one image token each), and the tensors the vision      *)
(* graph needs.  Square roots are taken in exact arithmetic.               *)
(***************************************************************************)
EXTENDS GgufFile

CONSTANTS
  DefaultMinTokens,   \* kQwen35VlDefaultMinImageTokens
  DefaultMaxTokens    \* kQwen35VlDefaultMaxImageTokens

ASSUME TokenLimitAssumption == {DefaultMinTokens, DefaultMaxTokens} \subseteq Nat

MergeSize(m) == IF m.merge > 0 THEN m.merge ELSE 2

AlignSize(m) == m.patch * MergeSize(m)

(* The layers with a feature of their own: flagged, or with a tensor.       *)
DeepstackLayers(index) ==
  Meta(index.metadata, "clip.vision.is_deepstack_layers", {}) \cup
    {index.tensors[i].name[2] : i \in {j \in DOMAIN index.tensors :
                                         index.tensors[j].name[1] = "v.deepstack"}}

DeepstackSuffixes ==
  {"norm.weight", "norm.bias", "fc1.weight", "fc1.bias", "fc2.weight", "fc2.bias"}

(* qwen3vl_missing_required_tensors looks for these.                        *)
FirstTensors(index) ==
  {<<n>> : n \in {"v.patch_embd.weight", "v.patch_embd.weight.1", "v.patch_embd.bias",
                  "v.position_embd.weight", "mm.0.weight", "mm.0.bias",
                  "mm.2.weight", "mm.2.bias"}}
    \cup {<<"v.deepstack", layer, s>> : layer \in DeepstackLayers(index),
                                        s \in DeepstackSuffixes}

(* load_qwen35_mmproj_metadata for a merger projector: the pixel limits of  *)
(* the file, or the default numbers of tokens.                              *)
Metadata(index) ==
  LET m(key) == Meta(index.metadata, key, 0)
      sizes == [patch |-> m("clip.vision.patch_size"),
                merge |-> m("clip.vision.spatial_merge_size")]
      area == AlignSize(sizes) * AlignSize(sizes)
      limit(key, tokens) == IF m(key) > 0 THEN m(key) ELSE tokens * area
  IN [patch |-> sizes.patch,
      merge |-> sizes.merge,
      minPixels |-> limit("clip.vision.image_min_pixels", DefaultMinTokens),
      maxPixels |-> limit("clip.vision.image_max_pixels", DefaultMaxTokens),
      imageSize |-> m("clip.vision.image_size"),
      projection |-> m("clip.vision.projection_dim"),
      feedForward |-> m("clip.vision.feed_forward_length"),
      heads |-> m("clip.vision.attention.head_count"),
      blocks |-> m("clip.vision.block_count"),
      embedding |-> m("clip.vision.embedding_length"),
      merger |-> "qwen3vl_merger" = Meta(index.metadata, "clip.projector_type", "none"),
      width |-> IF HasTensor(index, <<"mm.2.bias">>)
                THEN Tensor(index, <<"mm.2.bias">>).shape[1]
                       * (1 + Cardinality(DeepstackLayers(index)))
                ELSE 0]

(* The refusals of load_qwen35_mmproj_metadata.                             *)
MetadataLoads(file) ==
  /\ Readable(file)
  /\ \E index \in {Index(file)} :
       /\ Meta(index.metadata, "general.architecture", "none") = "clip"
       /\ "clip.projector_type" \in DOMAIN index.metadata
       /\ \E m \in {Metadata(index)} :
            m.merger =>
              /\ Meta(index.metadata, "clip.vision.image_std", 0) > 0
              /\ m.patch <= 0 =>
                   {"clip.vision.image_min_pixels", "clip.vision.image_max_pixels"}
                     \subseteq DOMAIN index.metadata
              /\ \A n \in FirstTensors(index) : HasTensor(index, n)

-----------------------------------------------------------------------------
RoundBy(value, factor) == ((2 * value + factor) \div (2 * factor)) * factor

AtLeast(a, b) == IF a >= b THEN a ELSE b

(* side / sqrt(side * other / most), rounded down to the factor.            *)
FloorScaled(side, other, most, factor) ==
  factor * Max({n \in 0..(side + most) : n * factor * n * factor * other <= side * most})

(* side * sqrt(least / (side * other)), rounded up to the factor.           *)
CeilScaled(side, other, least, factor) ==
  factor * Min({n \in 0..(side + least) : n * factor * n * factor * other >= side * least})

(* qwen35_smart_resize *)
SmartResize(width, height, align, least, most) ==
  LET w == AtLeast(RoundBy(width, align), align)
      h == AtLeast(RoundBy(height, align), align)
  IN IF w * h > most
     THEN [width |-> AtLeast(FloorScaled(width, height, most, align), align),
           height |-> AtLeast(FloorScaled(height, width, most, align), align)]
     ELSE IF w * h < least
     THEN [width |-> CeilScaled(width, height, least, align),
           height |-> CeilScaled(height, width, least, align)]
     ELSE [width |-> w, height |-> h]

Resizable(m, width, height) ==
  m.merger /\ m.patch > 0 /\ width > 0 /\ height > 0 /\ m.minPixels > 0 /\ m.minPixels <= m.maxPixels

(* plan_qwen35_image_embeddings *)
EmbeddingPlan(m, width, height) ==
  LET r == SmartResize(width, height, AlignSize(m), m.minPixels, m.maxPixels)
      x == r.width \div m.patch
      y == r.height \div m.patch
  IN [width |-> r.width,
      height |-> r.height,
      patchX |-> x,
      patchY |-> y,
      mergeX |-> x \div MergeSize(m),
      mergeY |-> y \div MergeSize(m),
      tokens |-> (x \div MergeSize(m)) * (y \div MergeSize(m))]

-----------------------------------------------------------------------------
(* plan_qwen35_vision_graph: the tensors of a vision graph and their shapes *)

GraphTensors(m) ==
  LET merged == 4 * m.embedding
      grid == m.imageSize \div m.patch
      patch == <<m.patch, m.patch, 3, m.embedding>>
  IN <<"v.patch_embd.weight">> :> patch @@ <<"v.patch_embd.weight.1">> :> patch @@
     <<"v.patch_embd.bias">> :> <<m.embedding>> @@
     <<"v.position_embd.weight">> :> <<m.embedding, grid * grid>> @@
     <<"v.post_ln.weight">> :> <<m.embedding>> @@ <<"v.post_ln.bias">> :> <<m.embedding>> @@
     <<"mm.0.weight">> :> <<merged, m.feedForward>> @@
     <<"mm.0.bias">> :> <<m.feedForward>> @@
     <<"mm.2.weight">> :> <<m.feedForward, m.projection>> @@
     <<"mm.2.bias">> :> <<m.projection>>

BlockTensors(m) ==
  LET norm == <<m.embedding>>
  IN "ln1.weight" :> norm @@ "ln1.bias" :> norm @@
     "attn_qkv.weight" :> <<m.embedding, 3 * m.embedding>> @@
     "attn_qkv.bias" :> <<3 * m.embedding>> @@
     "attn_out.weight" :> <<m.embedding, m.embedding>> @@ "attn_out.bias" :> norm @@
     "ln2.weight" :> norm @@ "ln2.bias" :> norm @@
     "ffn_up.weight" :> <<m.embedding, m.feedForward>> @@
     "ffn_up.bias" :> <<m.feedForward>> @@
     "ffn_down.weight" :> <<m.feedForward, m.embedding>> @@ "ffn_down.bias" :> norm

DeepstackTensors(m) ==
  LET merged == 4 * m.embedding
  IN "norm.weight" :> <<merged>> @@ "norm.bias" :> <<merged>> @@
     "fc1.weight" :> <<merged, m.feedForward>> @@ "fc1.bias" :> <<m.feedForward>> @@
     "fc2.weight" :> <<m.feedForward, m.projection>> @@ "fc2.bias" :> <<m.projection>>

VisionTensors(index, m) ==
  [n \in DOMAIN GraphTensors(m)
         \cup {<<"v.blk", b, t>> : b \in 0..(m.blocks - 1), t \in DOMAIN BlockTensors(m)}
         \cup {<<"v.deepstack", l, t>> : l \in DeepstackLayers(index),
                                         t \in DOMAIN DeepstackTensors(m)} |->
     CASE n[1] = "v.blk" -> BlockTensors(m)[n[3]]
       [] n[1] = "v.deepstack" -> DeepstackTensors(m)[n[3]]
       [] OTHER -> GraphTensors(m)[n]]

GraphSizes(m) ==
  /\ \A size \in {m.imageSize, m.patch, m.merge, m.embedding, m.feedForward,
                  m.projection, m.heads, m.blocks} : size > 0
  /\ m.merge = 2
  /\ m.imageSize % m.patch = 0
  /\ m.embedding % m.heads = 0
  /\ (m.embedding \div m.heads) % 4 = 0

GraphPlans(file) ==
  /\ MetadataLoads(file)
  /\ \E index \in {Index(file)} : \E m \in {Metadata(index)} :
       /\ m.merger
       /\ GraphSizes(m)
       /\ DeepstackLayers(index) \subseteq 0..(m.blocks - 1)
       /\ m.width = m.projection * (1 + Cardinality(DeepstackLayers(index)))
       /\ \A n \in DOMAIN VisionTensors(index, m) :
            HasShape(index, n, VisionTensors(index, m)[n])

(* load_tensor_f32 reads F32 and BF16 tensors, from a file mapped again.    *)
TensorsLoad(index, onDisk) ==
  /\ Mappable(index, onDisk)
  /\ \A m \in {Metadata(index)} : \A n \in DOMAIN VisionTensors(index, m) :
       /\ Tensor(index, n).type \in {0, 30}
       /\ BytesInside(Tensor(index, n), onDisk.size)

=============================================================================
