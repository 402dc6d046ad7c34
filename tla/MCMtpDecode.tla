---------------------------- MODULE MCMtpDecode ----------------------------
(***************************************************************************)
(* A small vocabulary {0, 1, 2} with 2 as EOS and a family of models whose *)
(* greedy choice depends on every token of both caches and on the order of *)
(* the tokens, so that a stale row changes the choice.  Of the models the  *)
(* configuration names, 14 ends at once, 5 and 8 after three and five      *)
(* tokens, 6 runs into the token limit.                                    *)
(***************************************************************************)
EXTENDS MtpDecode, SequencesExt

MCPrompt == <<1>>

Digest(m, s) == FoldLeft(LAMBDA sum, t : (sum * 5 + t + 1) % 23, m, s)

MCArgmax(m, attended, folded) ==
  LET score == Digest(m, attended) + 2 * Digest(m, folded)
  IN  IF score % 5 = 4 THEN 2 ELSE score % 2

=============================================================================
