---------------------------- MODULE CpuQwenModel ----------------------------
(***************************************************************************)
(* The Qwen3 model behind the devices cpu and mps.  The process keeps one  *)
(* model object; with it live the KV cache of the CPU, which every request *)
(* resets, and the weights and the workspace on the GPU, which the next    *)
(* request takes over: a workspace that is large enough keeps the rows of  *)
(* whatever was computed in it before.                                     *)
(***************************************************************************)
EXTENDS InferenceCall

CONSTANT NoModel

VARIABLES
  loaded,             \* cached_model: the directory of the cached model
  uploaded,           \* how many weight tensors are on the GPU
  weightsReady,       \* mps_weights_ready_
  cache,              \* kv_cache_ (cpu) and mps_workspace_ (mps)
  recomputed          \* verification: the tokens recomputed so far

modelVars == <<loaded, uploaded, weightsReady, cache, recomputed>>

Local == {"cpu", "mps"}

(* The tensors prepare_mps_full_forward uploads: embedding, norm, head, and *)
(* those of each layer, counted as one.                                     *)
WeightCount == Layers + 3

FreshCache(capacity) ==
  [capacity |-> capacity, used |-> 0, rows |-> EmptyRows(capacity)]

NoCache == FreshCache(0)

CpuInit ==
  /\ loaded = NoModel
  /\ uploaded = 0
  /\ weightsReady = FALSE
  /\ cache = [d \in Local |-> NoCache]
  /\ recomputed = <<>>

Device == request.device

ResetKeepingUsed(device, capacity) ==
  IF device = "mps" /\ cache[device].capacity >= capacity
  THEN cache[device]
  ELSE FreshCache(capacity)

(* KvCache::reset, and reset_mps_workspace.                                 *)
Reset(device, capacity) ==
  IF device = "mps" /\ cache[device].capacity >= capacity
  THEN [cache[device] EXCEPT !.used = 0]
  ELSE FreshCache(capacity)

(* forward_token and forward_token_mps throw at a position beyond the       *)
(* capacity; a kernel refuses a weight that was never uploaded.             *)
Fits(device, p) ==
  /\ p < cache[device].capacity
  /\ device = "mps" => uploaded = WeightCount

Forward(c, token, p) ==
  LET pass == Through(c.rows, c.capacity, token, p)
  IN [cache |-> [c EXCEPT !.rows = pass[Layers].rows, !.used = UsedAfter(@, p)],
      hidden |-> pass[Layers].hidden]

(* A kernel of mps may fail after any layer; the rows already stored stay.  *)
ForwardFails(token) ==
  /\ Device = "mps"
  /\ \E k \in 0..Layers :
       LET pass == Through(cache["mps"].rows, cache["mps"].capacity, token, position)
       IN cache' = [cache EXCEPT !["mps"].rows = pass[k].rows]
  /\ Fault
  /\ UNCHANGED <<loaded, uploaded, weightsReady, recomputed>>

ForwardThrows == Fail /\ UNCHANGED <<faulted, modelVars>>

LoadAnyModel ==
  /\ pc = "load"
  /\ Serving(Local)
  /\ \/ /\ loaded # NoModel
        /\ UNCHANGED <<loaded, uploaded, weightsReady, cache>>
     \/ /\ loaded = NoModel
        /\ loaded' = request.dir
        /\ uploaded' = 0
        /\ weightsReady' = FALSE
        /\ cache' = [d \in Local |-> NoCache]
  /\ pc' = "prepare"
  /\ recomputed' = <<>>
  /\ UNCHANGED <<request, answer, position, hidden, generated, report, faulted, calls>>

(* cached_model: another directory's model replaces the cached one, once it *)
(* is complete.                                                             *)
LoadModel ==
  /\ pc = "load"
  /\ Serving(Local)
  /\ \/ /\ loaded = request.dir
        /\ UNCHANGED <<loaded, uploaded, weightsReady, cache>>
     \/ /\ loaded # request.dir
        /\ loaded' = request.dir
        /\ uploaded' = 0
        /\ weightsReady' = FALSE
        /\ cache' = [d \in Local |-> NoCache]
  /\ pc' = "prepare"
  /\ recomputed' = <<>>
  /\ UNCHANGED <<request, answer, position, hidden, generated, report, faulted, calls>>

LoadFails ==
  /\ pc = "load"
  /\ Serving(Local)
  /\ loaded # request.dir
  /\ Fault
  /\ UNCHANGED modelVars

UploadReadyFirst ==
  /\ pc = "prepare"
  /\ Serving({"mps"})
  /\ ~weightsReady
  /\ weightsReady' = TRUE
  /\ \/ uploaded' = WeightCount /\ UNCHANGED callVars
     \/ (\E k \in 0..(WeightCount - 1) : uploaded' = k) /\ Fault
  /\ UNCHANGED <<loaded, cache, recomputed>>

(* prepare_mps_full_forward before the workspace: all weights, or a failure *)
(* between two of them.                                                     *)
UploadWeights ==
  /\ pc = "prepare"
  /\ Serving({"mps"})
  /\ ~weightsReady
  /\ \/ /\ uploaded' = WeightCount
        /\ weightsReady' = TRUE
        /\ UNCHANGED callVars
     \/ /\ \E k \in 0..(WeightCount - 1) : uploaded' = k
        /\ Fault
        /\ UNCHANGED weightsReady
  /\ UNCHANGED <<loaded, cache, recomputed>>

Capacity(r) == Len(r.prompt) + r.maxNewTokens + 1

(* reset_kv_cache, or reset_mps_workspace: a new workspace is moved in when *)
(* all of its buffers exist.                                                *)
ResetCache ==
  /\ pc = "prepare"
  /\ Serving(Local)
  /\ Device = "mps" => weightsReady
  /\ \/ /\ cache' = [cache EXCEPT ![Device] = Reset(Device, Capacity(request))]
        /\ pc' = "prefill"
        /\ UNCHANGED <<request, answer, position, hidden, generated, report, faulted, calls>>
     \/ /\ Device = "mps"
        /\ cache["mps"].capacity < Capacity(request)
        /\ Fault
        /\ UNCHANGED cache
  /\ UNCHANGED <<loaded, uploaded, weightsReady, recomputed>>

(* The tokens run through the model one by one: the prompt, or the prefix   *)
(* that verification recomputes.                                            *)
Running == request.prompt \o (IF pc = "replay" THEN recomputed ELSE <<>>)

(* One token of the prompt, or of a recomputed prefix.                      *)
RunToken ==
  /\ pc \in {"prefill", "replay"}
  /\ Serving(Local)
  /\ LET token == Running[position + 1]
         step == Forward(cache[Device], token, position)
         selects == IF pc = "prefill" THEN "decode" ELSE "reselect"
     IN IF ~Fits(Device, position) THEN ForwardThrows
        ELSE \/ /\ cache' = [cache EXCEPT ![Device] = step.cache]
                /\ hidden' = step.hidden
                /\ position' = position + 1
                /\ pc' = IF position + 1 = Len(Running) THEN selects ELSE pc
                /\ UNCHANGED <<request, answer, generated, report, faulted, calls,
                               loaded, uploaded, weightsReady, recomputed>>
             \/ ForwardFails(token)

(* One step of the decode loop: select; stop at an end token; otherwise     *)
(* emit the token and run it through the model, the last one too.           *)
DecodeToken ==
  /\ pc = "decode"
  /\ Serving(Local)
  /\ Len(generated) < request.maxNewTokens
  /\ LET token == Selected(loaded, Len(generated) + 1)
         step == Forward(cache[Device], token, position)
     IN /\ token \notin EosTokens
        /\ IF ~Fits(Device, position) THEN ForwardThrows
           ELSE \/ /\ generated' = Append(generated, token)
                   /\ cache' = [cache EXCEPT ![Device] = step.cache]
                   /\ hidden' = step.hidden
                   /\ position' = position + 1
                   /\ UNCHANGED <<request, answer, pc, report, faulted, calls,
                                  loaded, uploaded, weightsReady, recomputed>>
                \/ ForwardFails(token)

(* The end of the loop.  The statistics are taken before verification       *)
(* resets the cache they describe.                                          *)
DecodeEnds ==
  /\ pc = "decode"
  /\ Serving(Local)
  /\ \/ Len(generated) = request.maxNewTokens
     \/ Selected(loaded, Len(generated) + 1) \in EosTokens
  /\ report' = [used |-> cache[Device].used, capacity |-> cache[Device].capacity]
  /\ IF request.verify
     THEN pc' = "verify" /\ UNCHANGED answer
     ELSE Respond(generated, Finished(request, generated))
  /\ UNCHANGED <<request, position, hidden, generated, faulted, calls, modelVars>>

(* One step of generate_recomputed_tokens: the cache is reset to run the    *)
(* whole prefix through the model again.                                    *)
Replay ==
  /\ pc = "verify"
  /\ Serving(Local)
  /\ Len(recomputed) < request.maxNewTokens
  /\ cache' = [cache EXCEPT ![Device] =
                 Reset(Device, Len(request.prompt) + Len(recomputed) + 1)]
  /\ position' = 0
  /\ pc' = "replay"
  /\ UNCHANGED <<request, answer, hidden, generated, report, faulted, calls,
                 loaded, uploaded, weightsReady, recomputed>>

(* The token after the prefix, with the draw of a generator seeded again.   *)
Reselect ==
  /\ pc = "reselect"
  /\ Serving(Local)
  /\ LET token == Selected(loaded, Len(recomputed) + 1)
     IN IF token \in EosTokens
        THEN pc' = "compare" /\ UNCHANGED recomputed
        ELSE pc' = "verify" /\ recomputed' = Append(recomputed, token)
  /\ UNCHANGED <<request, answer, position, hidden, generated, report, faulted, calls,
                 loaded, uploaded, weightsReady, cache>>

(* A difference is an exception, otherwise the answer is the cached text.   *)
Compare ==
  /\ Serving(Local)
  /\ \/ pc = "compare"
     \/ pc = "verify" /\ Len(recomputed) = request.maxNewTokens
  /\ IF recomputed = generated
     THEN /\ Respond(generated, Finished(request, generated))
          /\ UNCHANGED <<request, position, hidden, generated, report, calls>>
     ELSE Fail
  /\ UNCHANGED <<faulted, modelVars>>

CpuStep ==
  \/ LoadModel \/ LoadFails \/ UploadWeights \/ ResetCache \/ RunToken
  \/ DecodeToken \/ DecodeEnds \/ Replay \/ Reselect \/ Compare

=============================================================================
