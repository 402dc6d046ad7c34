--------------------------- MODULE MpsGraphModel ---------------------------
(***************************************************************************)
(* The Qwen3 model behind the device mpsgraph.  The process keeps one      *)
(* runtime cache: a context with its compiled executables, the uploaded    *)
(* weights, and how far the decode graphs were warmed up.  Each request    *)
(* has a run state of its own; its loop stays on the GPU and reads back    *)
(* three integers per step: the count, the reason and whether to stop.     *)
(***************************************************************************)
EXTENDS InferenceCall

CONSTANTS
  NoCacheYet,         \* the slot is empty
  MinimumBucket       \* kMinimumBucket

ASSUME BucketAssumption == MinimumBucket \in Nat \ {0}

VARIABLES
  slot,               \* runtime_cache_slot
  run                 \* QwenMpsGraphRunState of the request

graphVars == <<slot, run>>

(* mpsgraph_capacity_bucket: doubled from the minimum until it is enough.   *)
Bucket(requested) ==
  LET doubled[k \in 0..requested] ==
        IF k = 0 THEN MinimumBucket ELSE 2 * doubled[k - 1]
      n == CHOOSE k \in 0..requested :
             doubled[k] >= requested /\ \A j \in 0..(k - 1) : doubled[j] < requested
  IN doubled[n]

TotalCapacity(r) == Bucket(Len(r.prompt) + r.maxNewTokens + 1)

NewSlot(dir) ==
  [dir |-> dir, compiled |-> {}, warmedCapacity |-> 0, warmedMaxNewTokens |-> 0]

(* reset_generation_status_i32: reason 2 is length, 1 is stop.              *)
InitialStatus == [count |-> 0, reason |-> 2, stop |-> FALSE]

(* update_generation_status_i32.                                            *)
NextStatus(s, token, step, final) ==
  LET eos == token \in EosTokens
  IN [count  |-> IF s.stop \/ eos THEN s.count ELSE step + 1,
      reason |-> IF s.stop THEN s.reason
                 ELSE IF eos THEN 1 ELSE IF final THEN 2 ELSE s.reason,
      stop   |-> s.stop \/ eos]

(* create_run_state.                                                        *)
FreshRun(capacity) ==
  [capacity |-> capacity, used |-> 0, rows |-> EmptyRows(capacity),
   tokens |-> [n \in 0..(capacity - 1) |-> 0], status |-> InitialStatus]

NoRun == FreshRun(0)

GraphInit ==
  /\ slot = NoCacheYet
  /\ run = NoRun

OnGraph == Serving({"mpsgraph"})

(* The executable of a layer is compiled for a capacity and a position, and *)
(* found again by both.                                                     *)
Compiled(s, capacity, p) == [s EXCEPT !.compiled = @ \cup {<<capacity, p>>}]

(* The cached context, tokenizer and model, or new ones that take the slot  *)
(* when all three are complete.                                             *)
LookupSlot ==
  /\ pc = "lookup"
  /\ OnGraph
  /\ slot' = IF slot # NoCacheYet /\ slot.dir = request.dir
             THEN slot ELSE NewSlot(request.dir)
  /\ pc' = "create"
  /\ UNCHANGED <<request, answer, position, hidden, generated, report, faulted, calls, run>>

(* create_run_state.                                                        *)
CreateRun ==
  /\ pc = "create"
  /\ OnGraph
  /\ run' = FreshRun(TotalCapacity(request))
  /\ pc' = "graph_prefill"
  /\ UNCHANGED <<request, answer, position, hidden, generated, report, faulted, calls, slot>>

(* A position or a step beyond the capacity is refused.                     *)
GraphThrows ==
  /\ Fail
  /\ run' = NoRun
  /\ UNCHANGED <<faulted, slot>>

(* apply_stack, which marks the position as used after each layer.          *)
RunForward(token) ==
  LET pass == Through(run.rows, run.capacity, token, position)
  IN /\ run' = [run EXCEPT !.rows = pass[Layers].rows, !.used = UsedAfter(@, position)]
     /\ hidden' = pass[Layers].hidden
     /\ slot' = Compiled(slot, run.capacity, position)
     /\ position' = position + 1

(* prefill_token_ids: one token of the prompt.                              *)
GraphPrefill ==
  /\ pc = "graph_prefill"
  /\ OnGraph
  /\ IF position >= run.capacity THEN GraphThrows
     ELSE /\ RunForward(request.prompt[position + 1])
          /\ pc' = IF position + 1 = Len(request.prompt) THEN "graph_decode" ELSE pc
          /\ UNCHANGED <<request, answer, generated, report, faulted, calls>>

(* One step of the decode loop: arg max, record, update and read the        *)
(* status; run the token through the model unless the loop ends.            *)
GraphStep ==
  LET step == Len(generated)
      token == Selected(slot.dir, step + 1)
      last == step + 1 = request.maxNewTokens
      status == NextStatus(run.status, token, step, last)
      recorded == [run EXCEPT !.tokens[step] = token, !.status = status]
      pass == Through(run.rows, run.capacity, token, position)
  IN /\ pc = "graph_decode"
     /\ OnGraph
     /\ IF step >= run.capacity \/ position >= run.capacity THEN GraphThrows
        ELSE /\ generated' = Append(generated, token)
             /\ \/ /\ status.stop \/ last
                   /\ run' = recorded
                   /\ pc' = "readback"
                   /\ UNCHANGED <<position, hidden, slot>>
                \/ /\ ~status.stop /\ ~last
                   /\ run' = [recorded EXCEPT !.rows = pass[Layers].rows,
                                              !.used = UsedAfter(@, position)]
                   /\ hidden' = pass[Layers].hidden
                   /\ slot' = Compiled(slot, run.capacity, position)
                   /\ position' = position + 1
                   /\ UNCHANGED pc
             /\ UNCHANGED <<request, answer, report, faulted, calls>>

(* The final readback: the first count recorded tokens are the text.        *)
Readback ==
  /\ pc = "readback"
  /\ OnGraph
  /\ LET s == run.status
         tokens == [n \in 1..s.count |-> run.tokens[n - 1]]
     IN /\ answer' = IF s.count > request.maxNewTokens THEN [status |-> "error"]
                     ELSE [status |-> "ok", tokens |-> tokens,
                           finish |-> IF s.reason = 1 THEN "stop" ELSE "length"]
        /\ report' = [used |-> run.used, capacity |-> run.capacity]
  /\ pc' = IF request.warm THEN "warm" ELSE "idle"
  /\ run' = NoRun
  /\ UNCHANGED <<request, position, hidden, generated, faulted, calls, slot>>

(* Any allocation, upload, compilation or kernel may fail.  What was        *)
(* compiled stays; a new context that is not complete never takes the slot. *)
GraphFails ==
  /\ OnGraph
  /\ pc \in {"lookup", "create", "graph_prefill", "graph_decode", "readback"}
  /\ Fault
  /\ run' = NoRun
  /\ \/ UNCHANGED slot
     \/ /\ pc \in {"graph_prefill", "graph_decode"}
        /\ slot' = Compiled(slot, run.capacity, position)

WarmLastPosition ==
  /\ pc = "warm"
  /\ answer.status = "ok"
  /\ slot' = [slot EXCEPT !.compiled = @ \cup {<<report.capacity, report.capacity - 1>>},
                          !.warmedCapacity = report.capacity]
  /\ pc' = "idle"
  /\ UNCHANGED <<request, answer, position, hidden, generated, report, faulted, calls, run>>

(* warmup_forward_positions, as far as it comes.                            *)
WarmedPositions(capacity, n) == {capacity} \X (0..(n - 1))

(* warmup_mpsgraph after its request: compile the first layer for every     *)
(* position of the capacity, then raise the marks.                          *)
WarmUp ==
  /\ pc = "warm"
  /\ answer.status = "ok"
  /\ LET warmed == report.capacity
         all == slot.compiled \cup WarmedPositions(warmed, warmed)
         marked(compiled) ==
           [slot EXCEPT
              !.compiled = compiled,
              !.warmedCapacity = IF @ < warmed THEN warmed ELSE @,
              !.warmedMaxNewTokens = IF @ < request.maxNewTokens
                                     THEN request.maxNewTokens ELSE @]
     IN \/ slot' = marked(IF slot.warmedCapacity < warmed THEN all ELSE slot.compiled)
        \/ /\ slot.warmedCapacity < warmed
           /\ \E p \in 0..(warmed - 1) :
                slot' = [slot EXCEPT !.compiled = @ \cup WarmedPositions(warmed, p)]
  /\ pc' = "idle"
  /\ UNCHANGED <<request, answer, position, hidden, generated, report, faulted, calls, run>>

GraphStepAny ==
  \/ LookupSlot \/ CreateRun \/ GraphPrefill \/ GraphStep \/ Readback
  \/ GraphFails \/ WarmUp

=============================================================================
