---------------------------- MODULE MetalPrograms ----------------------------
(***************************************************************************)
(* What generate_qwen35_metal asks of its MpsContext: the operations of a  *)
(* prefill and of a round of decoding, in the order the code issues them.  *)
(* Two layers stand for all: one of linear attention, one of full          *)
(* attention.  Kernels that follow each other with nothing between them    *)
(* are one.  A buffer the code allocates anew is its predecessor written   *)
(* over, which can only make more of the order of operations visible.      *)
(*                                                                         *)
(* A request r is described by: commit, the prefill commit mode; chunks;   *)
(* dump, a debug dump is written; cached, blocks are stored in the prefix  *)
(* cache; restored, blocks were restored from it ("none", "some", "all");  *)
(* flash, flash attention with a partial last tile; drafts, the tokens     *)
(* drafted, 0 without MTP; chained, they are drafted in one graph;         *)
(* accepted, all drafts were.                                              *)
(*                                                                         *)
(* RebeginOnly is a mistake the code could contain; nothing uses it.       *)
(***************************************************************************)
EXTENDS CommandGraph, SequencesExt

CONSTANT Requests    \* the requests, as described

GpuBuffers ==
  {"token_ids", "first_hidden", "hidden", "positions", "query", "attention",
   "kv", "recurrent", "tail", "final_hidden", "h_nextn", "logits", "argmax",
   "shifted", "pending_h", "mtp_hidden", "mtp_h", "mtp_kv", "draft1", "draft2",
   "snapshot"}

DraftBuffer == <<"draft1", "draft2">>

(* Nothing excludes a combination here; not all of them occur.             *)
MetalRequest ==
  [commit : {"off", "chunk", "layer"}, chunks : Nat \ {0}, dump : BOOLEAN,
   cached : BOOLEAN, restored : {"none", "some", "all"}, flash : BOOLEAN,
   drafts : 0..Len(DraftBuffer), chained : BOOLEAN, accepted : BOOLEAN]

ASSUME MetalRequestAssumption == Requests \subseteq MetalRequest

OpOf(kind, reads, writes) == [kind |-> kind, reads |-> reads, writes |-> writes]

GuardBegin == <<OpOf("begin", {}, {})>>
GuardCommit == <<OpOf("commit", {}, {})>>
Dispatch(reads, writes) == <<OpOf("kernel", reads, writes)>>
CopyTo(b) == <<OpOf("upload", {}, {b})>>
CopyFrom(b) == <<OpOf("download", {b}, {})>>
CopyRegion(from, to) == <<OpOf("move", {from}, {to})>>
ZeroBuffer(b) == <<OpOf("zero", {}, {b})>>

Only(condition, ops) == IF condition THEN ops ELSE <<>>

Dump(r, b) == Only(r.dump, CopyFrom(b))

-----------------------------------------------------------------------------
LinearLayer(dump) ==
  Dispatch({"hidden"}, {"query"}) \o Only(dump, CopyFrom("query")) \o
  Dispatch({"query", "recurrent"}, {"attention", "recurrent"}) \o
  Only(dump, CopyFrom("attention")) \o
  Dispatch({"attention", "hidden"}, {"hidden"}) \o
  Only(dump, CopyFrom("hidden"))

FlashTail(kv) == ZeroBuffer("tail") \o Dispatch({kv}, {"tail"})

(* The MRoPE positions are uploaded within the layer unless the caller did. *)
FullAttentionLayer(hidden, kv, given, flash) ==
  Dispatch({hidden}, {"query"}) \o
  Only(~given, CopyTo("positions")) \o
  Dispatch({"query", "positions"}, {"query"}) \o
  Dispatch({"query", kv}, {kv}) \o
  Only(flash, FlashTail(kv)) \o
  Dispatch({"query", kv} \cup (IF flash THEN {"tail"} ELSE {}), {"attention"}) \o
  Dispatch({"attention", hidden}, {hidden})

LmHead(r, argmax) ==
  Dispatch({"h_nextn"}, {"logits"}) \o Dump(r, "logits") \o
  Only(argmax, Dispatch({"logits"}, {"argmax"}))

OutputLogits(r, hidden) ==
  Dispatch({hidden}, {"h_nextn"}) \o Dump(r, "h_nextn") \o LmHead(r, TRUE)

(* One token through the MTP layer; its embedding is that of the token ids *)
(* in a buffer.                                                            *)
MtpForward(r, ids, h) ==
  Dispatch({ids, h}, {"mtp_hidden"}) \o
  FullAttentionLayer("mtp_hidden", "mtp_kv", FALSE, r.flash) \o
  Dispatch({"mtp_hidden"}, {"mtp_h"})

-----------------------------------------------------------------------------
RebeginOnly == GuardBegin
CommitAndRebegin == GuardCommit \o GuardBegin

LayerCommit(r) == Only(r.commit = "layer", CommitAndRebegin)

StoreBlock == CopyFrom("kv") \o CopyFrom("recurrent") \o CopyFrom("hidden")

ChunkCommit(r) ==
  Only(r.commit = "chunk",
       IF r.cached THEN GuardCommit \o StoreBlock \o GuardBegin
       ELSE CommitAndRebegin)

MtpProcess(r) ==
  Dispatch({"hidden"}, {"h_nextn"}) \o Dump(r, "h_nextn") \o
  Dispatch({"pending_h", "h_nextn"}, {"shifted"}) \o
  CopyTo("token_ids") \o MtpForward(r, "token_ids", "shifted") \o
  Dispatch({"h_nextn"}, {"pending_h"})

Chunk(r) ==
  Dispatch({"first_hidden"}, {"hidden"}) \o CopyTo("positions") \o
  LinearLayer(r.dump) \o LayerCommit(r) \o
  FullAttentionLayer("hidden", "kv", TRUE, r.flash) \o LayerCommit(r) \o
  Only(r.drafts > 0, MtpProcess(r)) \o ChunkCommit(r)

PrefillChunks(r) ==
  CopyTo("token_ids") \o GuardBegin \o
  Dispatch({"token_ids"}, {"first_hidden"}) \o Dump(r, "first_hidden") \o
  FlattenSeq([i \in 1..r.chunks |-> Chunk(r)]) \o
  Dispatch({"hidden"}, {"final_hidden"}) \o Dump(r, "final_hidden") \o
  OutputLogits(r, "final_hidden") \o GuardCommit

PrefillFromCache(r) ==
  CopyTo("final_hidden") \o GuardBegin \o OutputLogits(r, "final_hidden") \o
  GuardCommit

Prefill(r) ==
  Only(r.restored # "none", CopyTo("kv") \o CopyTo("recurrent")) \o
  (IF r.restored = "all" THEN PrefillFromCache(r) ELSE PrefillChunks(r)) \o
  CopyFrom("argmax")

-----------------------------------------------------------------------------
(* decode_target_tokens_logits on a batch of rows *)
DecodeTokens(r, rows) ==
  GuardBegin \o CopyTo("token_ids") \o Dispatch({"token_ids"}, {"hidden"}) \o
  LinearLayer(FALSE) \o
  FullAttentionLayer("hidden", "kv", FALSE, r.flash) \o
  Dispatch({"hidden"}, {"h_nextn"}) \o Dump(r, "h_nextn") \o
  LmHead(r, rows = 1) \o GuardCommit

SampleRow(rows) == CopyFrom(IF rows = 1 THEN "argmax" ELSE "logits")

(* Each draft takes the one before it as its input, on the device. *)
DraftChain(r) ==
  CopyTo("token_ids") \o GuardBegin \o
  FlattenSeq([i \in 1..r.drafts |->
    MtpForward(r, IF i = 1 THEN "token_ids" ELSE DraftBuffer[i - 1],
                  IF i = 1 THEN "pending_h" ELSE "mtp_h") \o
    Dispatch({"mtp_h"}, {DraftBuffer[i]})]) \o
  GuardCommit \o
  FlattenSeq([i \in 1..r.drafts |-> CopyFrom(DraftBuffer[i])])

(* Without a quantized embedding each draft is read back by the host. *)
DraftOneByOne(r) ==
  FlattenSeq([i \in 1..r.drafts |->
    GuardBegin \o CopyTo("token_ids") \o
    MtpForward(r, "token_ids", IF i = 1 THEN "pending_h" ELSE "mtp_h") \o
    Dispatch({"mtp_h"}, {DraftBuffer[i]}) \o
    GuardCommit \o CopyFrom(DraftBuffer[i])])

DraftTokens(r) == IF r.chained THEN DraftChain(r) ELSE DraftOneByOne(r)

MtpRound(r) ==
  DraftTokens(r) \o CopyRegion("recurrent", "snapshot") \o
  DecodeTokens(r, 1 + r.drafts) \o SampleRow(1 + r.drafts) \o
  Only(~r.accepted, CopyRegion("snapshot", "recurrent") \o DecodeTokens(r, 1)) \o
  Dispatch({"h_nextn"}, {"pending_h"}) \o
  SampleRow(IF r.accepted THEN 1 + r.drafts ELSE 1)

Decode(r) ==
  IF r.drafts > 0 THEN MtpRound(r) ELSE DecodeTokens(r, 1) \o SampleRow(1)

GenerateMetal(r) == Prefill(r) \o Decode(r)

RequestPrograms == {GenerateMetal(r) : r \in Requests}

(* A request never begins a graph while one is active: each of its guards   *)
(* commits before the next one begins, in every commit mode, over every     *)
(* number of chunks and drafts, whatever host copies commit in between.     *)
RequestsAreAccepted == program \in RequestPrograms => BeginIsAccepted

=============================================================================
