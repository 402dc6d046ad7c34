---------------------------- MODULE CpuInference ----------------------------
(***************************************************************************)
(* generate_cpu over its own backends: each call is checked, dispatched by *)
(* device to the cached model or to the MPSGraph runtime cache, and        *)
(* answered.  (Model directories with a GGUF file go to the Qwen3.5 path,  *)
(* which MtpDecode and HostPrefixCache model.)                             *)
(***************************************************************************)
EXTENDS CpuQwenModel, MpsGraphModel

vars == <<callVars, modelVars, graphVars>>

FirstPc(r) == IF r.device = "mpsgraph" THEN "lookup" ELSE "load"

Init ==
  /\ request \in Requests
  /\ answer = IF Refused(request) THEN [status |-> "refused"] ELSE Waiting
  /\ pc = IF Refused(request) THEN "idle" ELSE FirstPc(request)
  /\ position = 0
  /\ hidden = Garbled
  /\ generated = <<>>
  /\ report = NoReport
  /\ faulted = FALSE
  /\ calls = 1
  /\ CpuInit
  /\ GraphInit

(* The next call.  A refused one is answered before it touches anything.    *)
Call(r) ==
  /\ pc = "idle"
  /\ calls < MaxCalls
  /\ Begin(r, FirstPc(r))
  /\ UNCHANGED <<modelVars, graphVars>>

RefuseCall(r) ==
  /\ pc = "idle"
  /\ calls < MaxCalls
  /\ request' = r
  /\ answer' = [status |-> "refused"]
  /\ faulted' = FALSE
  /\ calls' = calls + 1
  /\ UNCHANGED <<pc, position, hidden, generated, report, modelVars, graphVars>>

NextCall ==
  \E r \in Requests : IF Refused(r) THEN RefuseCall(r) ELSE Call(r)

OnCpu == CpuStep /\ UNCHANGED graphVars

OnGpuGraph == GraphStepAny /\ UNCHANGED modelVars

Next == NextCall \/ OnCpu \/ OnGpuGraph

Fairness == WF_vars(OnCpu) /\ WF_vars(OnGpuGraph)

Spec == Init /\ [][Next]_vars /\ Fairness

-----------------------------------------------------------------------------
(* Properties                                                              *)

(* No row of an earlier request, of another layer or of a verification is   *)
(* ever attended to: the hidden state that is sampled stands for exactly    *)
(* the prompt and the tokens generated so far.                              *)
SampledStateIsOfThisText ==
  /\ pc \in {"decode", "graph_decode"} => hidden = request.prompt \o generated
  /\ pc = "reselect" => hidden = request.prompt \o recomputed

(* A request fails only because something failed while it was served: an    *)
(* earlier failure between two uploads or two allocations, a workspace that *)
(* was taken over, a full cache or a verification of a correct cache never  *)
(* makes one fail.                                                          *)
FailsOnlyOnFault == answer.status = "error" => faulted

(* The statistics that go with an answer count its own rows, whatever       *)
(* verification did to the cache afterwards: the prompt's and every         *)
(* generated token's that was run through the model, within the capacity.   *)
ReportDescribesText ==
  answer.status = "ok" /\ pc = "idle" =>
    LET rows == Len(request.prompt) + Len(answer.tokens)
    IN /\ report.used \in {rows, rows - 1}
       /\ report.used = rows - 1 => answer.finish = "length"
       /\ report.used < report.capacity

(* After a warm-up, a request of the warmed capacity compiles nothing.      *)
WarmedIsCompiled ==
  slot # NoCacheYet =>
    \A p \in 0..(slot.warmedCapacity - 1) : <<slot.warmedCapacity, p>> \in slot.compiled

(* generate_cpu is a service without memory: each answer is the generation  *)
(* its own request determines, or an error, and comes.                      *)
Service == INSTANCE InferenceService

ImplementsService == Service!Spec

=============================================================================
