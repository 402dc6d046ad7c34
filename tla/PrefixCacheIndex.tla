-------------------------- MODULE PrefixCacheIndex --------------------------
(***************************************************************************)
(* Qwen35PrefixCacheIndex: the metadata of the blocks of prompt tokens     *)
(* whose decoder state is kept for later requests.  A block is found by    *)
(* the hash of the chain of blocks that ends with it, and a full index     *)
(* evicts the block least recently used.                                   *)
(*                                                                         *)
(* compute_hash mixes a block into its parent's hash, so that the hash of  *)
(* a block is a function of all the tokens up to its end: Hash(history).   *)
(*                                                                         *)
(* LookupIndexWithoutTick, MostRecentlyUsed and SlotAfterErase are         *)
(* mistakes the index could contain; no definition uses them.              *)
(***************************************************************************)
EXTENDS Naturals, Sequences, FiniteSets

CONSTANTS
  Token,
  BlockTokens,       \* config.block_tokens
  Hash(_)            \* the chained hash of a history of whole blocks

ASSUME BlockAssumption == BlockTokens \in Nat \ {0}

(* The complete blocks of a prompt, counted from one. *)
CompleteBlocks(tokens) == 1..(Len(tokens) \div BlockTokens)

History(tokens, k) == SubSeq(tokens, 1, k * BlockTokens)
BlockHash(tokens, k) == Hash(History(tokens, k))
ParentHash(tokens, k) == Hash(History(tokens, k - 1))
BlockContent(tokens, k) ==
  SubSeq(tokens, (k - 1) * BlockTokens + 1, k * BlockTokens)

EmptyIndex == [blocks |-> {}, tick |-> 0]

Hashes(index) == {b.hash : b \in index.blocks}

(* block(hash) finds metadata whose parent and tokens are those asked for. *)
Matches(index, tokens, k) ==
  \E b \in index.blocks :
    /\ b.hash = BlockHash(tokens, k)
    /\ b.parent = ParentHash(tokens, k)
    /\ b.tokens = BlockContent(tokens, k)

(* The blocks a lookup walks over before its first mismatch. *)
HitBlocks(index, tokens) ==
  {k \in CompleteBlocks(tokens) : \A j \in 1..k : Matches(index, tokens, j)}

LookupIndexWithoutTick(index, tokens) ==
  [blocks |-> {[b EXCEPT !.tick =
                  IF b.hash \in {BlockHash(tokens, k) : k \in HitBlocks(index, tokens)}
                  THEN index.tick + 1 ELSE @] : b \in index.blocks},
   tick |-> index.tick]

(* lookup stamps the blocks it walks over, in the order of the chain, also *)
(* when the match turns out to be too short to be reused.                  *)
LookupIndex(index, tokens) ==
  LET hits == HitBlocks(index, tokens)
      stamped(b) == {k \in hits : b.hash = BlockHash(tokens, k)}
      touch(b) ==
        IF stamped(b) = {} THEN b
        ELSE LET k == CHOOSE k \in stamped(b) : \A j \in stamped(b) : j <= k
             IN  [b EXCEPT !.tick = index.tick + k]
  IN  [blocks |-> {touch(b) : b \in index.blocks},
       tick |-> index.tick + Cardinality(hits)]

(* hit_tokens, in blocks, after the comparison with min_reuse_tokens. *)
ReusedBlocks(index, tokens, minReuse) ==
  LET hits == Cardinality(HitBlocks(index, tokens))
  IN  IF hits * BlockTokens < minReuse THEN 0 ELSE hits

MostRecentlyUsed(blocks) ==
  CHOOSE b \in blocks : \A c \in blocks : b.tick >= c.tick

LeastRecentlyUsed(blocks) ==
  CHOOSE b \in blocks : \A c \in blocks : b.tick <= c.tick

(* allocate_slot: the blocks it evicts and the slot it returns. *)
Evicted(index, capacity) ==
  IF Cardinality(index.blocks) < capacity THEN {}
  ELSE {LeastRecentlyUsed(index.blocks)}

SlotAfterErase(index, capacity) ==
  IF Cardinality(index.blocks) < capacity THEN Cardinality(index.blocks)
  ELSE Cardinality(index.blocks) - 1

AllocatedSlot(index, capacity) ==
  IF Cardinality(index.blocks) < capacity THEN Cardinality(index.blocks)
  ELSE LeastRecentlyUsed(index.blocks).slot

(* commit_block of a block that is not in the index yet, and of one that   *)
(* is: the latter only becomes the most recently used.                     *)
InsertBlock(index, capacity, tokens, k) ==
  [blocks |-> (index.blocks \ Evicted(index, capacity)) \cup
                {[hash |-> BlockHash(tokens, k),
                  parent |-> ParentHash(tokens, k),
                  tokens |-> BlockContent(tokens, k),
                  slot |-> AllocatedSlot(index, capacity),
                  tick |-> index.tick + 1]},
   tick |-> index.tick + 1]

TouchBlock(index, tokens, k) ==
  [blocks |-> {IF b.hash = BlockHash(tokens, k)
               THEN [b EXCEPT !.tick = index.tick + 1] ELSE b : b \in index.blocks},
   tick |-> index.tick + 1]

=============================================================================
