-------------------------- MODULE InferenceService --------------------------
(***************************************************************************)
(* What generate_cpu promises whoever calls it, on each of its backends: a *)
(* call is answered with the generation its own model, prompt, limit and   *)
(* seed determine, or with an error, whatever was computed before it.  The *)
(* caches, workspaces, uploaded weights and compiled graphs that outlive a *)
(* call are hidden.                                                        *)
(***************************************************************************)
EXTENDS Integers, Sequences

CONSTANTS
  Requests,                    \* the requests a caller may make
  Refused(_),                  \* those that are refused at once
  NextToken(_, _, _, _),       \* NextToken(d, s, h, n): the token selected after the
                               \* history h by the model in directory d, with the n-th
                               \* draw of a generator seeded with s
  EosTokens                    \* the tokens that end a text

VARIABLES
  request,                     \* the request being served, or the last one
  answer                       \* "none" while it is served, or its answer

(* The tokens of a generation of at most n steps: full-prefix decoding with *)
(* a generator seeded at its start.                                         *)
Generation(r) ==
  LET after[n \in 0..r.maxNewTokens] ==
        IF n = 0 THEN <<>>
        ELSE LET so == after[n - 1]
                 next == NextToken(r.dir, r.seed, r.prompt \o so, n)
             IN IF Len(so) < n - 1 \/ next \in EosTokens THEN so ELSE Append(so, next)
  IN after[r.maxNewTokens]

FinishReason(r, generated) ==
  IF Len(generated) >= r.maxNewTokens THEN "length" ELSE "stop"

Text(r, generated) ==
  [status |-> "ok", tokens |-> generated, finish |-> FinishReason(r, generated)]

Promised(r) == {Text(r, Generation(r)), [status |-> "error"]}

(* What a caller sees when its call begins. *)
Begun(r) == [status |-> IF Refused(r) THEN "refused" ELSE "none"]

Init ==
  /\ request \in Requests
  /\ answer = Begun(request)

Answer ==
  /\ answer.status = "none"
  /\ answer' \in Promised(request)
  /\ UNCHANGED request

Call ==
  /\ answer.status # "none"
  /\ request' \in Requests
  /\ answer' = Begun(request')

Next == Answer \/ Call

Spec == Init /\ [][Next]_<<request, answer>> /\ WF_<<request, answer>>(Answer)

=============================================================================
