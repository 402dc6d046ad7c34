---------------------------- MODULE GreedyDecode ----------------------------
(***************************************************************************)
(* What a greedy generation promises its caller: the output grows by the   *)
(* token the model ranks first after the prompt and everything generated   *)
(* so far, until that token is an end-of-sequence token ("stop"), the      *)
(* requested number of tokens is reached ("length"), or the request fails  *)
(* ("error").  It is the plain decode loop of generate_qwen35_metal with   *)
(* its caches, GPU commands and speculation hidden.                        *)
(***************************************************************************)
EXTENDS Naturals, Sequences

CONSTANTS
  Models,            \* the models a request may be served by
  NextToken(_, _),   \* NextToken(m, h): the token model m ranks first after h
  EosTokens,         \* the tokens is_qwen35_eos_token accepts
  Prompt,            \* the tokenized prompt
  MaxNewTokens       \* request.max_new_tokens

VARIABLES
  model,             \* the model of this request
  generated,         \* generated_tokens, in the order they were emitted
  outcome            \* "running", or how generation ended

vars == <<model, generated, outcome>>

Following == NextToken(model, Prompt \o generated)

Init ==
  /\ model \in Models
  /\ generated = <<>>
  /\ outcome = "running"

Emit ==
  /\ outcome = "running"
  /\ Len(generated) < MaxNewTokens
  /\ Following \notin EosTokens
  /\ generated' = Append(generated, Following)
  /\ UNCHANGED <<model, outcome>>

Stop ==
  /\ outcome = "running"
  /\ Len(generated) < MaxNewTokens
  /\ Following \in EosTokens
  /\ outcome' = "stop"
  /\ UNCHANGED <<model, generated>>

Exhaust ==
  /\ outcome = "running"
  /\ Len(generated) = MaxNewTokens
  /\ outcome' = "length"
  /\ UNCHANGED <<model, generated>>

Abort ==
  /\ outcome = "running"
  /\ outcome' = "error"
  /\ UNCHANGED <<model, generated>>

Next == Emit \/ Stop \/ Exhaust \/ Abort

Spec == Init /\ [][Next]_vars /\ WF_vars(Next)

=============================================================================
