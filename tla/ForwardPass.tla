---------------------------- MODULE ForwardPass ----------------------------
(***************************************************************************)
(* One token through the decoder stack of a Qwen3 model, over a KV cache   *)
(* with one row per layer and position.  A row, and the hidden state       *)
(* between two layers, is represented by the tokens it was computed from:  *)
(* the row a layer stores for position p is right if it stands for the     *)
(* tokens at positions 0..p of one history (for the first layer: for the   *)
(* token at p alone), and attention over rows of different histories       *)
(* yields Garbled.                                                         *)
(*                                                                         *)
(* OffsetOfOneLayer, and in the modules above this one ResetKeepingUsed,   *)
(* LoadAnyModel, UploadReadyFirst and WarmLastPosition, are mistakes the   *)
(* code could contain; no definition uses them.                            *)
(***************************************************************************)
EXTENDS Integers, Sequences

CONSTANTS
  Layers,             \* config.num_hidden_layers
  Nothing,            \* a row that was never written
  Garbled             \* a value computed from rows of different histories

ASSUME LayersAssumption == Layers \in Nat \ {0}

(* A token is its number; neither mark is a sequence of tokens.             *)
ASSUME MarksAssumption == Nothing \notin Seq(Nat) /\ Garbled \notin Seq(Nat)

OffsetOfOneLayer(capacity, layer, position) == layer + position

(* KvCache::offset, in rows: the layers of a cache lie one after the other, *)
(* each capacity rows long.                                                 *)
Offset(capacity, layer, position) == layer * capacity + position

EmptyRows(capacity) == [a \in 0..(Layers * capacity - 1) |-> Nothing]

(* What attention of a layer at a position makes of the rows it reads.      *)
Attend(rows, capacity, layer, position) ==
  LET row(p) == rows[Offset(capacity, layer, p)]
      own == row(position)
  IN IF \E p \in 0..position : row(p) \in {Nothing, Garbled}
     THEN Garbled
     ELSE IF layer = 0
     THEN [n \in 1..(position + 1) |-> row(n - 1)[1]]
     ELSE IF \A p \in 0..position : row(p) = SubSeq(own, 1, p + 1)
     THEN own ELSE Garbled

(* The rows and the hidden state after the first k layers of forward_token. *)
Through(rows, capacity, token, position) ==
  LET pass[k \in 0..Layers] ==
        IF k = 0 THEN [rows |-> rows, hidden |-> <<token>>]
        ELSE LET below == pass[k - 1]
                 stored == [below.rows EXCEPT
                              ![Offset(capacity, k - 1, position)] = below.hidden]
             IN [rows |-> stored,
                 hidden |-> Attend(stored, capacity, k - 1, position)]
  IN pass

(* used_tokens_ after a row was stored at a position.                       *)
UsedAfter(used, position) == IF used > position THEN used ELSE position + 1

=============================================================================
