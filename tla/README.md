# A TLA+ verification of kraken-infer

kraken-infer is a C++ inference engine for Qwen3 and Qwen3.5 language models
with an OpenAI-compatible HTTP gateway. This directory holds TLA+ models of its
stateful parts, TLC configurations that check them on small instances, and
theorems that TLAPS proves for every value of the constants. `PROJECT.json`
maps every definition to the lines it stands for and lists runs, hazards,
findings and theorems.

Parse with `tlasany M.tla`, check with `tlc -config X.cfg M`, prove with
`tlapm M.tla`.

## 1. Inventory

All paths are below `src/`. "Modelled" says which modules stand for a part.

### Decode loops and multi-token prediction: `src/runtime/qwen35_runtime.cpp`

*State*: the KV rows of the target model by position; the recurrent state of
the linear-attention layers and its snapshot; logits and `h_nextn` rows of the
last batch and the row in use; `pending_h`, the row the MTP layer drafts from;
the position; the emitted tokens and the finish reason; the adaptive draft
budget with its window; acceptance counts by draft position.
*Operations*: sample and emit a token; decode one token; draft up to *budget*
tokens; snapshot; verify the batch; accept or reject draft by draft; keep the
batch, or restore and replay; judge the window; finish or fail.
*Hard*: the recurrent state cannot be truncated like a KV cache, so a rejected
draft must be undone by restore and replay; the batch speculates beyond
`max_new_tokens`; a round ends in four ways (all accepted, one rejected, EOS,
token limit), each with its own position, row and state.
*Correct when*: the emitted tokens are those of plain greedy decoding; no stale
row is sampled; the cache is never overrun; the reported counts and used rows
describe the text.
*Modelled* by `GreedyDecode` (what a caller is promised), `MtpBudget` (the
controller), `AdaptiveBudget` (the controller under any rounds), `MtpDecode`.

### Prefix cache index: `src/runtime/qwen35_prefix_cache.cpp`

*State*: blocks of tokens by chained hash, each with parent, slot and LRU tick;
the slots in use. *Operations*: `lookup` (walks and touches the blocks of a
prompt), `commit_block` (inserts or touches, evicts the least recently used at
capacity). *Hard*: eviction, slot reuse, hash equality standing for equality of
histories. *Modelled* by `PrefixCacheIndex` (operators on an index value).

### Host prefix cache and request prefill: `src/runtime/qwen35_runtime.cpp`

*State*: one process-wide cache (layout, index, payloads by hash) behind a
mutex; per request the device cache it fills. *Operations*: configure for a
model, look up, restore blocks, reuse the hidden row, prefill in chunks and
commit each complete block, end or fail. *Interacts*: the mutex is held from
before the lookup to the end of the generation; requests without
`cache_prompt` run beside it. *Hard*: two containers updated one after the
other, a failure between commits, another model configuring the cache, what a
lookup found being used many steps later. *Correct when*: the cache never
changes the result of a prefill; index and payloads agree; every request
returns. *Modelled* by `HostPrefixCache`, which extends `PrefixCacheIndex`.

### HTTP gateway: `src/runtime/openai_gateway.cpp`

*State*: the process-wide `busy` flag; per connection thread its progress,
permit and unwritten response. *Operations*: accept, read, route, take or miss
the permit, parse, respond, stream tokens, fail, throw, release, close.
*Interacts*: `generate_cpu` calls back `stream_token`, which pushes to the
reasoning parser and writes to the socket on the same thread. *Hard*: detached
threads, a permit whose release depends on unwinding, clients that stall or
leave, exceptions after headers were sent. *Correct when*: one inference at a
time; the permit always comes back; each client that reads to the end gets one
complete response; nobody waits for another's inference. *Modelled* by
`Gateway`.

### Reasoning parser: `src/runtime/reasoning_parser.cpp`

*State*: mode, two skip-newline flags, buffer, finished. *Operations*: `push`,
`finish` (both run the `drain` loop), and the batch function
`split_reasoning_content`. *Hard*: tags and newlines cut anywhere by the
chunks. *Correct when*: the stream sends what the batch split returns, withholds
as little as possible and always returns. *Modelled* by
`ReasoningText` (text, tags, batch split) and `ReasoningStream` (the parser).

### Metal command buffers: `src/backends/mps/mps_backend.mm`, `qwen35_runtime.cpp`

*State*: `graph_active` with the active command buffer and the kernels encoded
in it; the buffers' contents; per scope an `MpsGraphGuard` with `active_`.
*Operations*: begin, commit and abort a graph; encode a kernel (deferred to the
active graph, or committed and waited for); copy to, from and between buffers,
which first commit the active graph; `zero_buffer`, which does not. *Interacts*:
the prefill, decode and draft code opens a graph with a guard and issues
kernels and host copies within it; every error return runs the guard's
destructor. *Hard*: the host writes and reads shared memory that kernels still
in the graph will use; a host copy ends the graph while the guard goes on; any
operation may fail. *Correct when*: deferral is invisible to the host; no
kernel computes from an overtaken buffer; every graph that is begun is
committed or aborted, so that none is begun while one is active. *Modelled* by
`EagerDevice` (what a caller relies on), `CommandGraph` (context and guard) and
`MetalPrograms` (what a request issues).

### CPU and MPSGraph backends of Qwen3: `src/runtime/cpu/`, `src/backends/mpsgraph/`

*State*: process-wide the cached model with its KV cache, its uploaded weights
and its GPU workspace, and the MPSGraph runtime cache with compiled executables
and how far they were warmed; per call the position, the hidden state, the
tokens and the statistics, and for MPSGraph a run state of its own.
*Operations*: load or take over a model, prepare weights and workspace, reset,
prefill, append and commit a row per layer, sample, verify against
recomputation, look up or build a runtime, allocate a run state, compile by
capacity and position, step, read back, warm up. *Interacts*: `generate_cpu`
dispatches by device; what one call leaves behind the next one finds. *Hard*:
nothing is cleared between calls except by `reset` and by capacity checks, and
a fault can leave a half-made object in the process-wide place. *Correct when*:
a call is answered as if it were the first. *Modelled* by `InferenceService`
(what a caller is promised), `ForwardPass`, `InferenceCall`, `CpuQwenModel`,
`MpsGraphModel` and `CpuInference`, which composes them.

### A request from its files: `gguf_reader.cpp`, `gguf_tokenizer.cpp`, `model_config.cpp`, `qwen35_weight_map.cpp`, `qwen35_multimodal.cpp`, `qwen35_runtime.cpp`

*State*: the files read so far (bundle, index, mapping, vision metadata, vision
graph); chunks of text and of images with their tokens and rotary positions;
KV rows and recurrent states by layer; chunk start, positions and tokens.
*Operations*: the gateway's check of a chat with images; read and validate the
configuration, index, weight map and tokenizer; plan and encode the prompt;
resize, encode and place each image; lay out the positions; allocate; upload the
weights; prefill chunk by chunk; sample; decode. *Hard*: the model file is opened three times and the
vision file once per image and stage, and someone may replace either in between;
sizes are products of 64-bit numbers from the file; rotary positions lie in four
sections that every chunk cuts; image tokens are regrouped two by two before the
blocks run and by four after; layers of two kinds are counted apart; the gateway
validates with other functions than the request uses; the ids of the tokenizer,
the rows of the embedding and the logits of the head come from different parts of
the file. *Correct when*: a token is
sampled from the whole prompt in order, each token at its position; an image
token stands for its own cell; a bound weight has its shape, and its exact bytes
are inside the mapped file; what the gateway accepts from files that fit each
other is served. *Modelled* by `GgufFile`, `GgufTokenizer`, `QwenWeightMap`,
`ImagePlan`, `VisionEncoder`, `ImagePrompt` and `NativeRequest`, which composes
them.

### Not modelled

| Part | Source | Why |
| --- | --- | --- |
| Profiler | `src/runtime/profiling.cpp` | measurement that nothing reads back; only the exception of `write_artifacts` matters and is in `Gateway` |
| Kernels, argument checks and allocation on the GPU | `src/backends/` | floating-point arithmetic; a kernel is a function of what it reads, and may fail |
| Building of MPSGraph graphs | `src/backends/mpsgraph/` | calls of an Apple framework; an executable is what it was compiled for |
| Choice of a token | `qwen35_runtime.cpp` | a function of the row and, when sampling, of the draw (`NextToken`, `Argmax`); in `NativeRequest` it is the place of one of the head's logits (`Selected`) |
| Bytes of GGUF and JSON, BPE | `gguf_*.cpp`, `qwen_tokenizer.cpp` | a file is its metadata and tensor table; parsing is sequential and its results are what the models start from. A text is a sequence of pieces; what the tokenizer of a GGUF file refuses and the ids of the pieces are in `GgufTokenizer`, how bytes are cut and merged into pieces is not |
| Image decoding and resizing of pixels | `qwen35_multimodal.cpp` | external decoder and arithmetic; an image is its size |
| `config.json` models | `model_config.cpp` | validation without state; a `dir` of `CpuInference` stands for a valid one |
| `qwen35_vl_adapter.cpp` | | nothing calls `generate_qwen35_vl_with_llama_mtmd` |
| Debug dumps, safetensors reading | `src/runtime/cpu/`, `debug_dump` | file output; a read that can fail (`Fault`) |
| Core types, facade, CLI, web page, scripts, tests | `src/core/`, `apps/`, `web/`, `scripts/`, `tests/` | values and presentation |

The text of JSON and HTTP and the Apple frameworks are out of a model checker's
reach and stay out.

## 2. Plan

1. *(done)* `MtpBudget`, `GreedyDecode`, `AdaptiveBudget`, `MtpDecode` with
   their proofs: the decode loops are the program's centre.
2. *(done)* `PrefixCacheIndex`, `HostPrefixCache`.
3. *(done)* `Gateway`, `ReasoningText`, `ReasoningStream`, and the proofs about
   the gateway.
4. *(done)* `EagerDevice`, `CommandGraph`, `MetalPrograms` and the proof that
   deferral to a graph is invisible.
5. *(done)* `InferenceService`, `ForwardPass`, `InferenceCall`,
   `CpuQwenModel`, `MpsGraphModel`, `CpuInference`: the objects that outlive a
   call, and the promise that they do not show.
6. *(done)* `GgufFile`, `GgufTokenizer`, `QwenWeightMap`: bounds in fixed-width
   arithmetic, tokens and their ids, configuration, layers, capacities.
7. *(done)* `ImagePlan`, `VisionEncoder`, `ImagePrompt`, `NativeRequest`: a
   request with images from its files to its text.
8. *(done)* The proofs about the host prefix cache, for every hash without
   collisions and every layout that determines the weights.
9. *(done)* The proofs about complete responses, repeated prompts, and the CPU
   and MPSGraph backends.
10. *(done)* The proofs about the reasoning parser.
11. *(done)* The proofs about a request from its files: weights, positions,
    image tokens, the prompt in the caches, and what an accepted chat may expect.
12. *(done)* The proof about the programs of requests: every invariant the passing
    runs check is also a theorem.

Composition: `MtpDecode` extends `MtpBudget` and instantiates `GreedyDecode`;
`AdaptiveBudget` extends `MtpBudget`; `HostPrefixCache` extends
`PrefixCacheIndex`; `ReasoningStream` extends `ReasoningText`; `CommandGraph`
instantiates `EagerDevice`, and `MetalPrograms` extends it with the programs of
requests, which `MCCommandGraph` runs. `CpuQwenModel` and `MpsGraphModel` extend `InferenceCall`,
which extends `ForwardPass`; `CpuInference` extends both and instantiates
`InferenceService`. `GgufTokenizer` and `ImagePlan` extend `GgufFile`,
`QwenWeightMap` extends `GgufTokenizer`, `VisionEncoder` extends `ImagePlan`,
`ImagePrompt` extends `VisionEncoder` and `GgufTokenizer`, and `NativeRequest`
extends both branches. The gateway and
the parser are composed by a fact about the parser only: a push may send
something or nothing, and finish may send what was withheld (`Shown`).

## 3. Models

**What a value stands for.** A row of a GPU cache is represented by what it was
computed from: the tokens its attention read and the tokens folded into the
recurrent state it used (`MtpDecode`), or the weights and the tokens
(`HostPrefixCache`). A stale row is therefore a different value, and `Argmax`
of such a row is in general another token. What the MTP layer drafts is
arbitrary: every draft sequence of at most the budget is a behaviour. A
message of the gateway is what a client tells apart: a JSON response by its
status, or a kind of stream event. Text is a sequence of characters with two
tags. The contents of a GPU buffer are the number of the operation that
produced them, or `Stale` if that operation computed from other inputs than
program order gives it (`CommandGraph`). In `CpuInference` a row stands for the
tokens it was computed from, and is `Garbled` if they are not of one history. In
`NativeRequest` a row stands for the tokens behind it, each with its four rotary
positions, and carries the layer that wrote it; an image token is named by its
chunk and place, a vision token by the patch, the place of its position embedding
and the coordinates of its rotation. A text is a sequence of pieces, each the text
of a token the vocabulary may or may not have; encoding turns them into ids, the
places of the tokens, one for a piece, several or none for one that has to be
spelled in bytes (one stands for several). The markers of the chat template are
pieces like others. A file is a record of metadata, tensor table
and size; 64-bit words are numbers up to `MaxWord`, and products that exceed it
are what the code's guards must catch. Products over a shape, the parts of a
message, the chunks of a prompt, the layers of a chunk and the features of the
vision encoder are recursive functions, one step for each pass of the code's
loops; `Over(f, g)` is `f` written over `g`, as a buffer is.

**Programs.** `CommandGraph` does not know what a request is: it runs any
sequence of operations on a context. `MetalPrograms` spells out the sequences
that `generate_qwen35_metal` issues, with one linear and one full attention
layer, since further layers repeat them. A buffer the code allocates anew is
its predecessor written over: if an operation came too early or too late, the
reused name would show it, the fresh one might not. `zero_buffer` pads the rows
after the tail, which the flash kernel masks; what is read of the scratch
buffer is what the copy kernel wrote there, which is why
`ProgramAssumption` asks that a zeroed buffer is filled by the next operation and
read only by the one after it.

**Grain of the steps.** In `MtpDecode` one action is one stage of a round, and
each draft is judged in a step of its own. In `HostPrefixCache` a step of a
request is what it does between two points where another thread or a failure
can come in; `configure` and `lookup`, both under the mutex and without a
failure between them, are one step. In `Gateway` every write of a message is a
step, so that a client can leave between two messages of one stream. In
`ReasoningStream` one iteration of `drain` is one step, so that termination of
the loop is a property and not an assumption. In `CommandGraph` the GPU runs a
kernel per step, and an operation of the host is one step; the implicit commit
of a host copy is a step before it, because the wait in between can fail. In
`CpuInference` a step is one allocation, upload, token or readback, between which
a fault can come in. In `NativeRequest` a step lies between two reads of a file,
so that a file can be replaced there, and a prefill chunk runs through all layers
in one step, since nothing else touches its caches.

**Failures.** Every GPU call, readback, file access and decoding may fail;
`Fail` returns from any stage. Exceptions that leave a generation are
`GenerationThrows`. A client is an external actor that stalls, resumes and
leaves at any time (`ClientMoves`). Someone may replace a file (`ReplaceFile`).
Nothing is persisted: a crash loses
everything, so there is no recovery to model.

Operators such as `Unrestored` or `LeakedMutex` are plausible mistakes in one
named definition. No definition uses them; each, put in the place of the
definition it perverts, makes one property fail.

## 4. Runs

| Run | Property | Shows |
| --- | --- | --- |
| `adaptive_budget` | `WindowBounded`, `RaisedInTime`, `LoweredInTime` | the controller with the code's own constants (three drafts, windows of 16 and 8 per token) never claims more accepted than drafted tokens, expires its window, recovers and backs off in bounded time |
| `mtp_decode` | `SampledRowIsCurrent`, `PendingIsLastCommitted`, `NoCapacityError`, `UsedRowsAreCommitted`, `StatsTelescope`, `ImplementsGreedyDecode` | plain and speculative decoding emit exactly the greedy tokens and end |
| `host_prefix_shared` | `HitsStayResident`, `PrefillIgnoresCache`, `IndexMatchesPayloads`, `RepeatIsFullHit`, `EveryRequestReturns` | two threads, two models and four prompts through one cache of three blocks, with evictions |
| `reasoning_stream` | `HoldsBackOnlyTag`, `StreamEqualsBatch`, `EveryPushReturns` | every chunking of every text of up to five pieces and ten characters |
| `gateway` | `OneInference`, `ResponseIsComplete`, `PermitIsGivenBack`, `EveryRequestEnds` | three connections, two at a time, of every kind |
| `command_graph` | `NothingStale`, `GraphIsClosed`, `RequestsAreAccepted`, `ImplementsEagerDevice` | the requests of `generate_qwen35_metal` in all commit modes, with and without cache, dump, flash tail and drafts, and every program of up to five calls, whether its begins and commits match or not |
| `cpu_inference` | `SampledStateIsOfThisText`, `FailsOnlyOnFault`, `ReportDescribesText`, `WarmedIsCompiled`, `ImplementsService` | three calls in a row, of two models on three devices, with faults anywhere: each is answered as if it were the first |
| `native_request` | `SampledStateIsOfThisPrompt`, `PositionsKeepOrder`, `ImageTokenCoversItsCell`, `AcceptedIsServed`, `WeightsAreTheirTensors` | requests with text and images, of complete and broken files that may be replaced between two reads, in one to many chunks |

Four more runs find violations on purpose (section 6). The modules whose
theorems need it, `HostPrefixCache` among them, have a type invariant `TypeOK` that is
checked in the same runs; in the others a value outside its type would already
show in the properties, or stop TLC.

**Bounds and why they are enough.**
- `adaptive_budget`: the constants are those of the code; only the run lengths
  of the observers grow, and they are bounded by the properties themselves. The
  whole state space is explored.
- `mtp_decode`: 8 tokens, 3 drafts a round, capacity 9, the smallest the plan
  can reserve, so that there is no spare row for an overrun to hide in. Windows
  of one draft let the budget reach three within a request. The four models end
  at once, after three tokens, after five, and not at all; their choice depends
  on order and content of both caches.
- `host_prefix_*`: blocks of two tokens; prompts that share a block, end within
  one, and fill the cache; three blocks of capacity; three requests by two
  threads. An inconsistency of the index takes one eviction and one reuse, three
  requests.
- `reasoning_stream`: tags of three characters that share first and last
  character, as `<think>` and `</think>` do; five pieces hold two start tags,
  an end tag and newlines, and every cut within a tag occurs.
- `gateway`: the permit holder, one refused thread, and a third connection that
  comes after the refusal; one token, so a stream can end before, in and after
  its deltas.
- `command_graph`: a program of five calls holds a graph with two attentions
  that share the scratch buffer, or an upload, two kernels and a read across a
  commit; two buffers suffice for a value to be overtaken.
  The requests have two chunks and two drafts, so that each kind of operation
  follows each other one that it can follow in a longer request; they are
  complete.

- `cpu_inference`: three calls are a first one, one that leaves something behind
  and one that would see it; the requests have small after large and large after
  small capacities, both models, every device, warm-up, verification, sampling,
  both ways a text ends and each refusal.
- `native_request`: four main layers, two of each kind, so that each count of
  layers reaches one; one MTP layer, which the weights have and the main loop must
  skip; two vision blocks of which one has a deepstack feature; images of up to
  six tokens, wide and high, one after the other, so that positions advance by the
  larger side of a grid of unequal sides; chunks that end within an image; broken
  files with one thing wrong each, tokenizers among them (types that do not match
  the tokens, another kind of tokenizer, no tokens, no markers, a vocabulary that
  cannot spell the prompt, fewer or more embedding rows than tokens, so that an id
  of the prompt has no row and an id of the head no text), a duplicate token, and an overflow that only exact arithmetic sees
  (`MaxWord` is 2^20 - 1). At most two replacements during a request: one to
  change a file and one to change it back. The model files `retuned` and `swapped`
  have the same size and other types in other layers, so that one replaced by the
  other is a replacement the code cannot notice.

`MaxServed`, `MaxConnections`, `MaxTokens`, `MaxPieces`, `MaxLength`, `MaxCalls`
and `MaxReplacements` are the only bounds that the code does not have; they are guards of
the actions that begin work, or limit the inputs.
Deadlock is not checked where a bounded system has done all its work, or where
a parser is finished, where `accept` failed, where a request has returned, or
where the last of the `MaxCalls` calls was answered. `native_request` never stops:
another request can always come.

**Fairness.** `WF(Progress)` in `MtpDecode`, `WF(Step(r))` per request and
`WF(Step(t))` per thread mean only that the operating system keeps running a
runnable thread; a GPU call either returns or fails. `Begin`, `Accept` and
`ClientMoves` are not fair: nobody has to send a request, and a client may stall
for ever, which is why `PermitIsGivenBack` and `EveryRequestEnds` exempt a
stalled client. Tokens of a generation are bounded by `max_new_tokens`, so
weak fairness of a thread implies that its generation ends. `std::mutex` makes no
promise of fairness; `WF(Step(r))` suffices for `EveryRequestReturns` because
the number of requests is bounded, so the mutex is at last free for good.
`WF(Drain)` in `ReasoningStream`: the loop runs on the caller's thread.
`WF(OnCpu)` and `WF(OnGpuGraph)` in `CpuInference` are the caller's thread again;
the next call (`NextCall`) is not fair: nobody has to make it. A fault is one
way for a step to end, so fairness asks for no fault.

## 5. Proofs

The proofs rest on the named assumptions of the modules (`ControllerAssumption`,
`DecodeAssumption`, `ArgmaxAssumption`, `BlockAssumption`, `HostAssumption`,
`GatewayAssumption`, `ProgramAssumption`, `LayersAssumption`,
`BucketAssumption`, `MarksAssumption`, `RequestsAssumption`, `TagAssumption`,
`TextAssumption`, `WordAssumption`, `TokenLimitAssumption`, `FileAssumption`,
`RequestAssumption`, `MetalRequestAssumption`, `ReplacementAssumption`), which TLC
evaluates in the runs, and on the library's facts about finite sets, functions, sequences and
well-founded orders. `FileAssumption` and `RequestAssumption` are the types of
the parsers' results: sizes, offsets and dimensions are unsigned, metadata
signed, nothing is assumed of their values, except that an image decodes to the
size its header declares. `ReplacementAssumption` says that a file is replaced by
one of the files, of any size.

- `AdaptiveBudgetProofs`: `TypeCorrect`, `WindowIsBounded`, `BudgetIsStepwise`,
  `BudgetRises`, `BudgetFalls`, for every number of drafts and window sizes.
  `Outcomes` lists what an update can return.
  `RaisedInTime` is not inductive: the length of a clean run says nothing
  without what the window held when the run began. `Runs` relates both
  observers to the window (`CleanRunInWindow`, `RejectedRunInWindow`) and is
  inductive with the type invariant.
- `MtpDecodeProofs`: `TypeCorrect`, `SampledRowsAreCurrent`,
  `PendingIsCommitted`, `BatchesFit`, `UsedRowsCommitted`, `CountsTelescope`.
  None of these invariants is inductive: what may be sampled after a rejected
  draft depends on what the snapshot held before the batch and on the rows the
  batch wrote. The inductive `Inv` says, for each point of the loop, which
  prefix of the text the KV rows, the recurrent state, the snapshot and the
  logits stand for (`AtSample`, `AtStep`, `AtBatch`, `AtRound`, `AtVerified`,
  `AtReplay`, `AtEnd`, `StopIsEos`). The main lemma, `DecodeExtends`: a batch
  decoded after a cache that holds a text yields, in each row, the row of the
  text extended by the batch up to there. One lemma per action follows.
  `RefinesGreedyDecode` is the refinement: under `Inv` each step of the loops is
  a step of `GreedyDecode` or invisible to the caller, so the output does not
  depend on whether or what is drafted.
- `GatewayProofs`: `TypeCorrect`, `InferencesExclude`, for any number of
  threads. `IInv` adds to the type invariant that a thread between taking and
  giving back the permit has it, that a permit is held by one thread, and that
  `busy` says whether there is one (`PermitInv`). `ResponsesAreComplete` needs
  what was sent so far at each point of the handlers (`Told`).
- `HostPrefixProofs`: `TypeCorrect`, `HitsAreThere`, `IndexAndPayloadsAgree`,
  for any number of threads, prompts, models and blocks and for any hash, and
  `CacheIsTransparent` (`PrefillIgnoresCache`) from two assumptions: no two
  histories share a hash (`NoCollision`), and a layout determines the weights
  (`LayoutFixesWeights`; `host_prefix_replaced` shows that it is needed). `Inv`
  says that the index is `Wellformed` (stamps differ, slots are the first ones),
  that payloads and index agree, and who may count on the cache (`Sharing`:
  whoever has a hit holds the mutex, and the cache is configured for its model);
  so an eviction can only hurt a request that is past its restore.
  `LookupKeeps`, `TouchKeeps` and `InsertKeeps` are the lemmas about the index.
  Transparency needs two more facts: every payload stands for its history
  (`PayloadsStand`), and the device cache holds a prefix of the prompt from the
  restore or the first chunk on (`Device`). `RepeatsAreFullHits` is about which
  block an eviction takes: a commit that finds a payload leaves the old stamp of
  its block, so a later commit of the same request might evict it. It does not,
  because of the order of the stamps. A block that is younger than its parent
  was stamped right after it (`Chained`), so a block whose parent was evicted is
  the oldest one, in a full index (`OrphanIsOldest`), and is gone when a request
  that has to commit its parent comes to it. This too needs `NoCollision`.
- `CommandGraphProofs`: `TypeCorrect`, `NothingIsStale`, `RefinesEagerDevice`,
  `GraphsAreClosed`, for every set of programs that satisfies `ProgramAssumption`. `Inv` says of
  every buffer, for the next operation and for every pending kernel, that what
  program order promises is in memory or will be written by the last pending
  kernel before (`Delivers`). The difficult step is `ZeroInv`, since
  `zero_buffer` runs ahead of the pending kernels: those that read the scratch
  buffer are pending together with the kernel that fills it
  (`ScratchPending`), so what the host overwrites is not what they read.
  Host copies meet no pending kernel at all (`HostCopyAlone`). A graph that is
  active while the request runs has its guard (`Guarded`), whose destructor
  closes it however the request ends.
  `RequestProgramsQualify` and `RequestsBeginGraphs` are about the programs of
  `generate_qwen35_metal`, for requests with any number of chunks: they satisfy
  `ProgramAssumption`, and no guard begins a graph while one is active. Both come
  from `Lawful(ops, a, b)`, which says of a piece of a program that it may be
  issued with a graph open or not (`a`), leaves one open or not (`b`), begins
  none while one may be open, and uses the padded tail as it should (`Tidy`).
  Lawful pieces can be joined (`Join`) and repeated (`FlattenLawful`), so
  `GenerateLawful` follows the code: most of a layer is `Neutral`, a chunk runs
  from an open graph to an open graph in every commit mode (`ChunkLawful`),
  `Prefill`, `DecodeTokens` and the drafts begin and end with none. In a run an
  open graph can be closed early, by a host copy, never opened elsewhere
  (`GraphFollows`).
- `CpuInferenceProofs`: `SampledStates`, `FailuresHaveCause`,
  `ReportsAreOfTheText`, `WarmedStaysCompiled` and `CallsImplementService`, for
  any models, requests, limits and number of layers, if the tokens a model
  selects are numbers like those of its prompts (`TokensAreNumbers`: an arg max
  and a draw both return an index of the logits). `RowOf` says which part
  of a text a row must have been computed from, `HoldsIn` that the rows of a
  cache are those of a text, and `OffsetsDiffer` that two layers or positions
  never share a row; hence one token more leaves every earlier row as it was and
  adds its own in each layer (`TokenRuns`). The loop over the layers and the
  generation are recursive functions; what holds of all their values is shown by
  the least number for which it would fail (`LeastNumber`, `UpTo`), which needs
  no induction theorem. The inductive `CallInv` says for each point
  of a call on the host backends (`Prefilling`, `Decoding`, `Verifying`) and on
  MPSGraph (`GraphPrefilling`, `GraphDecoding`, `Recorded`) which text the
  cache or the run state holds and how much of it, that a cache kept from an
  earlier call has a place for each of its rows, and that a slot that was warmed
  keeps its executables (`WarmSlot`). `CallsImplementService` is the
  safety part of `ImplementsService`.
- `ReasoningProofs`: `OnlyTagsAreHeldBack` and `StreamsLikeBatch`, for any tags
  without newlines, any text and any chunks. Whatever the parser holds or sends
  is a segment of the text: the buffer is `SubSeq(text, k, pushed)` for some
  place `k` (`Cut`), and a drain moves this place in one of five ways
  (`ReasonCases`, `SayCases`). A drain that sends a part and keeps the rest keeps
  the longest possible beginning of a tag, so no tag that is still to be
  completed begins in what is sent (`HoldsFrom`). For a text of one thought
  (`OneThought`, the property's own hypothesis) `StreamInv` says what was sent
  when the buffer begins at place `k`, in each phase: before the start tag, in
  the thought, after a thought that the text ended in, after the end tag
  (`BeforeThought`, `InThought`, `ThoughtOver`, `AfterThought`). The stream trims
  piece by piece what the batch split trims at once; both agree because sent
  reasoning never ends in a newline (`TrimJoined`).

- `NativeRequestProofs`: `WeightsAreRight`, `PositionsAreInOrder`,
  `TokensCoverTheirCells`, `AcceptedChatsAreServed` and `SampledStatesAreRight`,
  for any files, requests, images, chunks, layers and replacements. Four
  invariants, each inductive with those before it:
  - `FilesInv`: what a request has read. The mapped file has the size
    the index was read with; it is the file of the index unless one of the same
    size took its place (`SameSizeMapped`), and as only sizes enter the checks of
    ranges, they hold for either. A product that
    passed the code's guards is the exact one (`ProductExact`, `ByteSizeExact`),
    so what `Uploadable` compares is what is there.
  - `PlanInv`: what was planned. Each chunk of the plan starts where the one
    before ends, in tokens and in positions (`Placing`), and takes at least one
    token and one position (`Takes`). The position buffer, written chunk by chunk,
    has a closed form (`MropeAt`): section `s` at token `t` is the `Position` of
    `t` in the one chunk that has it (`OneChunkOfToken`), whence the order. For the
    image tokens, `EncodeCovers` follows a patch through the regrouping two by two
    and the merge of four. The graph may come from a replaced file with other cell
    sizes than the plan: that the encoder accepts its numbers makes the grid the
    same (`SameGrid`). The ids of the text are places in the vocabulary
    (`TextKnown`), from what encoding a piece returns (`TokenIdInside`,
    `EncodedPieces`, `EncodedChunks`).
  - `ServeInv`: while a request is `Served` (accepted by the gateway, files
    complete and not replaced) every check it meets repeats one that held:
    `Going` says at which point which files were read. Capacity and the place of
    the next token are part of it (`Room`, `Growing`), and so is that the text can
    be decoded. The ids of the prompt have rows in the embedding (`PromptEmbeds`)
    and what is selected has a text (`SelectedKnown`), since a complete file has as
    many tokens as rows and logits.
  - `CallInv`: which tokens the caches hold. `Holds` says what the rows or the
    state of a layer are after the first `n` tokens of a text: a first layer keeps
    the tokens, a later one what the layers below made of all tokens before. A
    layer's place in its cache is the number of layers of its kind before it
    (`StateIsCount`), so no two layers share one (`StatesDiffer`, `PlacesDiffer`).
    `LinearRuns` and `FullRuns` take one layer over one chunk, `LayersRunOn` all
    of them, and `ChunkIsRows` shows that a chunk brings the tokens of the prompt
    with their own cut of the positions. The prompt itself is the property's
    `PromptRows`, which the plan agrees with (`PromptRowsLaid`).

Left to TLC: everything about liveness (`EveryRequestReturns`,
`EveryPushReturns`, `PermitIsGivenBack`, `EveryRequestEnds`, and that the decode
loops and the calls of `generate_cpu` end, which is part of
`ImplementsGreedyDecode` and `ImplementsService`), because TLAPS does not
reason about fairness here. Recursive functions are reasoned about as in
`CpuInferenceProofs`: a function that satisfies the recursion exists up to every
number, the definition is one, and a property of all its values has no least
counterexample (`RecursionExists`, `LeastNumber`, `UpTo`).

## 6. Where the code and its documents disagree

Each is the single property of a run that TLC finds violated.

- `host_prefix_replaced`: the layout has no modification time or metadata hash,
  so a replaced model file of equal size and shape is served old state; the
  document lists them.
- `reasoning_tags`: in thinking mode a start tag cut by a chunk is sent to the
  client as reasoning; the document says tags are recognised across chunks and
  not output.
- `gateway_throw`: a profile directory that cannot be made throws after the
  stream was sent; a 400 response is appended to it and `[DONE]` is missing.
- `image_token_limit`: resizing scales both sides to the pixel budget and then
  raises each to a whole cell, so a thin strip exceeds the maximum; the document
  and a test state the limit for every plan, and nothing checks it again.

## 7. Known limits of the models

- `StreamEqualsBatch` is stated for the text of one thought. With several
  thoughts the batch split and the stream differ by design (the batch looks at
  the first one only), and with several newlines after a start tag they differ
  with the chunks.
- The MTP layer's own cache is not modelled: it influences only which drafts are
  made, and drafts are arbitrary. Speculation is enabled only for greedy
  sampling, so the plain loop is modelled with greedy sampling as well.
- The greedy choice is a function of the row. In the code a batch of one row
  takes the argmax the GPU computed and a batch of several rows is sorted on the
  host; for two exactly equal logits they may differ.
- `Gateway` abstracts all routes other than the two inference routes to one
  kind of query, and the statuses a query may be answered with to one.
- The configuration that detached threads refer to after `accept` failed is not
  modelled: the process exits then.
- The hashes of `MCHash` are injective. A lookup verifies the tokens of a block
  but its history only by the parent's hash, so with colliding 64-bit hashes a
  prompt could be served another prompt's state.
- The draft chain and commit mode `single` upload positions within a graph, which
  commits it: results are right (`ImplementsEagerDevice`), the batching that the
  documents describe is lost. No property counts command buffers.
- `NativeRequest` has neither speculation nor the prefix cache, which image
  prompts bypass: `MtpDecode` and `HostPrefixCache` model them with text. That
  the embeddings of images are uploaded while the prefill graph is active is a
  host copy like others to `MetalPrograms`.
- A file that is replaced, between the reading of its index and the mapping of its
  weights, by one of the same size is not noticed: `gguf_reader.cpp:481` compares
  sizes and nothing else. `native_request` contains such a replacement.
  `WeightsAreTheirTensors` says what holds even then (shapes by the index, exact
  bytes inside the mapped file) and that a replacement of another size is noticed;
  it does not say that the bytes are those of the file the index describes, which
  is then false. No document or test promises it, so it is no finding. What such a
  replacement does to the prefix cache is `host_prefix_replaced`.
- An image decodes to the size its header declares (`ImageAssumption`).
- The gateway accepts `max_tokens` 0 and a `top_p` outside (0, 1]
  (`openai_gateway.cpp:687`), which the request refuses with errors of its own;
  `AcceptedIsServed` makes exceptions of them. It asks for `Complete` files: every
  check of the files alone holds, and the tokenizer has as many tokens as the
  embedding has rows, which the code checks only id by id.
- `GgufTokenizer` has the tokens of a text and their ids, not their bytes: which
  pieces a text is cut into, the merges and the special tokens inside a word are
  left out, as are a beginning- and an end-of-text token, which the request's
  prompts never ask for. The list of best logits for debugging
  (`logits_top_k`, set by the command line only) is not modelled.
- `full_attention_interval` is positive in the files of the models: the code
  divides by it.
- `MtpDecode` assumes the tensors of the MTP layer; their shapes are in
  `LayerTensors`, their operand checks are not modelled.
- On the devices `cpu`, `mps` and `mpsgraph` an exception of the token callback or of
  the profile's artifacts is caught before `generate_cpu` returns; it is one more
  `Fault`, not told apart.
- The stream decodes token by token, so that a UTF-8 sequence can be cut between
  two deltas; bytes are not modelled.
- In `MetalPrograms` every chunk of a request with the prefix cache fills a
  block, and a draft chain is read to its end: a shorter block or a draft below
  the probability threshold leaves out operations at the end of a commit or of a
  read sequence. One request uses one context, as in the code.
