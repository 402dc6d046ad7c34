------------------------- MODULE MCHostPrefixCache -------------------------
(***************************************************************************)
(* Blocks of two tokens; prompts that share a first block, that end inside *)
(* a block, and that are longer than a small cache.                        *)
(***************************************************************************)
EXTENDS HostPrefixCache, SequencesExt

MCPrompts == {<<0, 0, 0, 1>>, <<0, 0, 1, 1, 0>>, <<1, 1, 0, 0, 0, 0>>, <<1>>}

\* One prompt of two blocks and one that a cache of two blocks cannot hold.
MCRivalPrompts == {<<0, 0, 0, 1>>, <<1, 1, 0, 0, 0, 0>>}

Setting(layout, weights, capacity, minReuse) ==
  [layout |-> layout, weights |-> weights, capacity |-> capacity,
   minReuse |-> minReuse]

MCTwoModels == {Setting("A", "wA", 3, 4), Setting("B", "wB", 3, 4)}

\* A model file that was replaced by another of the same size and shape.
MCReplacedFile == {Setting("A", "wA", 3, 0), Setting("A", "wB", 3, 0)}

(* The digits of the history behind a leading one: no two histories share  *)
(* a hash.                                                                 *)
MCHash(tokens) == FoldLeft(LAMBDA hash, t : hash * 2 + t, 1, tokens)

=============================================================================
