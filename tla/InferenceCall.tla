--------------------------- MODULE InferenceCall ---------------------------
(***************************************************************************)
(* A call of generate_cpu: the state the backends behind it share while    *)
(* one request is served, and its ends.  Calls come one at a time: the     *)
(* gateway serves one inference at a time and the command line makes one.  *)
(*                                                                         *)
(* A request is a record: dir, the model directory; device, "cpu", "mps"   *)
(* or "mpsgraph"; prompt, the tokens its messages encode to; maxNewTokens; *)
(* seed, Greedy or what the generator is seeded with; verify, whether the  *)
(* KV cache is verified; warm, whether warmup_mpsgraph makes the call.     *)
(***************************************************************************)
EXTENDS ForwardPass

CONSTANTS
  Requests,
  NextToken(_, _, _, _),
  EosTokens,          \* what is_eos accepts
  Greedy,             \* the seed of a request that does not sample
  Built,              \* the devices whose backend is in this build and ready
  MaxCalls            \* bound: calls in a behaviour

ASSUME RequestsAssumption ==
  \A r \in Requests : r.prompt \in Seq(Nat) /\ r.maxNewTokens \in Nat

VARIABLES
  request,            \* the request being served, or the last one
  answer,             \* its answer, with status "none" while it is served
  pc,                 \* the part of the backend's code that runs next
  position,           \* the position of the next token
  hidden,             \* the final norm of the last token
  generated,          \* the tokens generated so far
  report,             \* the KV cache statistics of the last answer
  faulted,            \* did an allocation, upload or kernel fail in this call?
  calls               \* bookkeeping: the number of calls so far

callVars == <<request, answer, pc, position, hidden, generated, report, faulted, calls>>

Waiting == [status |-> "none"]

NoReport == [used |-> 0, capacity |-> 0]

(* The stub of a backend answers every query with "not compiled".           *)
Absent(device) == device \notin Built

(* Requests that are refused before anything is touched.                    *)
Refused(r) ==
  \/ Absent(r.device)
  \/ r.prompt = <<>>
  \/ r.maxNewTokens = 0
  \/ r.device = "mpsgraph" /\ (r.seed # Greedy \/ r.verify)

Serving(device) == answer = Waiting /\ request.device \in device

(* The selected token: the arg max, or the n-th draw over the logits.       *)
Selected(dir, n) ==
  IF hidden = Garbled THEN Garbled ELSE NextToken(dir, request.seed, hidden, n)

Finished(r, tokens) == IF Len(tokens) >= r.maxNewTokens THEN "length" ELSE "stop"

Respond(tokens, finish) ==
  /\ answer' = [status |-> "ok", tokens |-> tokens, finish |-> finish]
  /\ pc' = "idle"

(* An exception that generate_cpu turns into a status, or an early return.  *)
Fail ==
  /\ answer' = [status |-> "error"]
  /\ pc' = "idle"
  /\ UNCHANGED <<request, position, hidden, generated, report, calls>>

Fault == Fail /\ faulted' = TRUE

(* What a call holds when its backend starts: nothing of an earlier one.    *)
Begin(r, first) ==
  /\ request' = r
  /\ pc' = first
  /\ answer' = Waiting
  /\ position' = 0
  /\ hidden' = Garbled
  /\ generated' = <<>>
  /\ faulted' = FALSE
  /\ calls' = calls + 1
  /\ report' = NoReport

=============================================================================
