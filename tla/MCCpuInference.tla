--------------------------- MODULE MCCpuInference ---------------------------
(***************************************************************************)
(* Two models, three devices, prompts of one and two tokens.  The selected *)
(* token depends on the model, on every token before it and, when the      *)
(* request samples, on the draw; token 0 ends a text.                      *)
(***************************************************************************)
EXTENDS CpuInference

MCNextToken(d, s, h, n) ==
  LET weight[k \in 0..Len(h)] ==
        IF k = 0 THEN (IF d = "b" THEN 1 ELSE 0) ELSE 2 * weight[k - 1] + h[k]
      draw == IF s = Greedy THEN 0 ELSE n
  IN (weight[Len(h)] + draw) % 3

Asked(d, on, p, n, s, v, w) ==
  [dir |-> d, device |-> on, prompt |-> p, maxNewTokens |-> n, seed |-> s,
   verify |-> v, warm |-> w]

(* Small after large and large after small on each device, another model in *)
(* between, both endings of a text, and each kind of refusal.               *)
MCRequests ==
  { Asked("a", "cpu", <<1, 2>>, 2, "seeded", TRUE, FALSE),
    Asked("b", "cpu", <<1>>, 1, Greedy, TRUE, FALSE),
    Asked("a", "mps", <<1, 2>>, 2, Greedy, FALSE, FALSE),
    Asked("a", "mps", <<2>>, 1, "seeded", TRUE, FALSE),
    Asked("b", "mps", <<2>>, 2, Greedy, TRUE, FALSE),
    Asked("a", "mpsgraph", <<2, 1>>, 3, Greedy, FALSE, TRUE),
    Asked("a", "mpsgraph", <<1>>, 1, Greedy, FALSE, FALSE),
    Asked("b", "mpsgraph", <<1, 1>>, 2, Greedy, FALSE, FALSE),
    Asked("a", "mpsgraph", <<1>>, 1, "seeded", FALSE, FALSE),
    Asked("a", "mpsgraph", <<1>>, 1, Greedy, TRUE, FALSE),
    Asked("a", "cpu", <<>>, 1, Greedy, FALSE, FALSE),
    Asked("b", "mps", <<1>>, 0, Greedy, FALSE, FALSE),
    Asked("b", "absent", <<1>>, 1, Greedy, FALSE, FALSE) }
=============================================================================
