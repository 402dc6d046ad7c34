---------------------------- MODULE VisionEncoder ----------------------------
(***************************************************************************)
(* The vision encoder of a mmproj file on the CPU, by what each value is   *)
(* computed from.  A patch is named by its coordinates <<x, y>> in the     *)
(* image; a vision token carries the patch its pixels are from, the place  *)
(* its position embedding is for and the coordinates its rotary embedding  *)
(* uses.  Attention is over all tokens of the image, so what one token     *)
(* sees is not recorded.  Arrays are flat and numbered from 0, as in the   *)
(* code.                                                                   *)
(*                                                                         *)
(* MergeColumnsFirst is a mistake the code could contain; no definition    *)
(* uses it.                                                                *)
(***************************************************************************)
EXTENDS ImagePlan

(* qwen3vl_patch_embedding_temporal_sum: pixels of patch (x, y) at x + X y. *)
PatchEmbedding(X, Y) == [i \in 0..(X * Y - 1) |-> <<i % X, i \div X>>]

(* resize_position_embeddings_bilinear: the trained grid, stretched to the  *)
(* image's.                                                                 *)
PositionEmbedding(X, Y) == [i \in 0..(X * Y - 1) |-> <<i % X, i \div X>>]

MergeColumnsFirst(input, X, Y) ==
  [t \in DOMAIN input |->
     LET block == t \div 4
         x == 2 * (block \div (Y \div 2)) + (t % 2)
         y == 2 * (block % (Y \div 2)) + ((t % 4) \div 2)
     IN input[x + X * y]]

(* qwen3vl_spatial_merge_ewh: blocks of two by two, row by row, and the     *)
(* four of a block row by row.                                              *)
SpatialMerge(input, X, Y) ==
  [t \in DOMAIN input |->
     LET block == t \div 4
         x == 2 * (block % (X \div 2)) + (t % 2)
         y == 2 * (block \div (X \div 2)) + ((t % 4) \div 2)
     IN input[x + X * y]]

(* qwen3vl_vision_positions: four sections, y and x and again y and x, of   *)
(* the tokens counted block by block.                                       *)
VisionPositions(X, Y) ==
  LET n == X * Y
      y(t) == 2 * ((t \div 4) \div (X \div 2)) + ((t % 4) \div 2)
      x(t) == 2 * ((t \div 4) % (X \div 2)) + (t % 2)
  IN [k \in 0..(4 * n - 1) |-> IF (k \div n) % 2 = 0 THEN y(k % n) ELSE x(k % n)]

(* run_qwen35_vision_input_stage_cpu *)
InputStage(X, Y) ==
  LET patches == SpatialMerge(PatchEmbedding(X, Y), X, Y)
      places == SpatialMerge(PositionEmbedding(X, Y), X, Y)
  IN [t \in DOMAIN patches |-> [patch |-> patches[t], place |-> places[t]]]

(* qwen3vl_attention_token_major rotates queries and keys.                  *)
Rotated(stage, positions) ==
  LET n == Cardinality(DOMAIN stage)
  IN [t \in DOMAIN stage |->
        [patch |-> stage[t].patch, place |-> stage[t].place,
         rope |-> <<positions[n + t], positions[t]>>]]

(* qwen3vl_group_four_tokens: the four tokens behind each image token.      *)
GroupFour(tokens, i) == [k \in 1..4 |-> tokens[4 * i + k - 1]]

(* The features of an image token in the order they are laid out: the       *)
(* projection after the last block, then those taken after a deepstack      *)
(* layer.  A feature is named by the number of blocks before it.            *)
Features(index, m) ==
  LET outputs[b \in 0..m.blocks] ==
        IF b = 0 THEN <<>>
        ELSE IF b - 1 \in DeepstackLayers(index) THEN Append(outputs[b - 1], b)
        ELSE outputs[b - 1]
  IN <<m.blocks>> \o outputs[m.blocks]

(* The input stage takes an image whose patches form whole cells under the  *)
(* sizes of the file it reads now.                                          *)
Divides(m, plan) ==
  /\ plan.width % m.patch = 0 /\ plan.height % m.patch = 0
  /\ (plan.width \div m.patch) % m.merge = 0
  /\ (plan.height \div m.patch) % m.merge = 0

(* run_qwen35_vision_encoder_cpu; the plan of the image passes through.     *)
Encode(index, m, plan) ==
  LET X == plan.width \div m.patch
      Y == plan.height \div m.patch
      tokens == Rotated(InputStage(X, Y), VisionPositions(X, Y))
  IN [plan |-> plan,
      tokens |-> (X * Y) \div 4,
      width |-> m.projection * Len(Features(index, m)),
      rows |-> [i \in 1..((X * Y) \div 4) |->
                  [cell |-> GroupFour(tokens, i - 1), features |-> Features(index, m)]]]

=============================================================================
