------------------------------ MODULE MtpDecode ------------------------------
(***************************************************************************)
(* The decode phase of generate_qwen35_metal, from the logits of the       *)
(* prompt's last token to the end of generation: the plain loop, and the   *)
(* speculative loop that drafts tokens with the MTP layer, verifies them   *)
(* in one target batch, keeps the accepted prefix and repairs the          *)
(* recurrent state when a draft was rejected.                              *)
(*                                                                         *)
(* A GPU result is abstracted to what it was computed from: a row of       *)
(* logits (and the h_nextn row beside it) is the pair of the tokens its    *)
(* attention read in the KV cache and the tokens folded into the recurrent *)
(* state it used.  Argmax maps such a pair to a token, so a row computed   *)
(* from a stale cache yields, in general, a wrong token.  What the MTP     *)
(* layer drafts is arbitrary.                                              *)
(*                                                                         *)
(* DraftBudgetUnlimited, VerifiedPositionWithDrafts, KeepFirstRow,         *)
(* Unrestored, JudgedNext and CountDrafted are mistakes the loops could    *)
(* contain; no definition uses them, and each breaks a property.           *)
(***************************************************************************)
EXTENDS MtpBudget, Sequences

CONSTANTS
  Token,             \* the vocabulary
  NoToken,           \* what a KV row that was zeroed and never written holds
  EosTokens,         \* the tokens is_qwen35_eos_token accepts
  Models,            \* the models a request may be served by
  Argmax(_, _, _),   \* Argmax(m, attended, folded): greedy token of a row
  Prompt,            \* the tokenized prompt
  MaxNewTokens,      \* request.max_new_tokens
  Capacity,          \* plan.cache.attention_capacity_tokens
  ConfidenceGate     \* TRUE when mtp_p_min > 0

Histories == UNION {[1..n -> Token] : n \in 0..Capacity}

ASSUME DecodeAssumption ==
  /\ NoToken \notin Token
  /\ EosTokens \subseteq Token
  /\ Prompt \in Seq(Token) /\ Prompt # <<>>
  /\ MaxNewTokens \in Nat \ {0}
  /\ Capacity \in Nat /\ Len(Prompt) + MaxNewTokens <= Capacity
  /\ ConfidenceGate \in BOOLEAN

ASSUME ArgmaxAssumption ==
  \A m \in Models, h \in Histories : Argmax(m, h, h) \in Token

VARIABLES
  model,       \* the model of this request
  mtp,         \* mtp_state.enabled
  pc,          \* the point the generation has reached
  generated,   \* generated_tokens
  finish,      \* finish_reason
  kv,          \* key/value rows of the target cache, by position
  recurrent,   \* the tokens folded into recurrent_r_cache / recurrent_s_cache
  snapshot,    \* the same for mtp_state.recurrent_*_snapshot
  logits,      \* rows of logits_output / target_logits
  row,         \* logits_output_row
  pending,     \* the row mtp_state.pending_h was copied from
  position,    \* next_decode_position (verified_position within a round)
  verify,      \* verify_tokens: the sampled token and the drafted ones
  accepted,    \* accepted_count of this round
  controller,  \* the adaptive budget
  verified_by_position, accepted_by_position

request == <<model, mtp>>
cache == <<kv, recurrent>>
stats == <<verified_by_position, accepted_by_position>>
vars == <<model, mtp, pc, generated, finish, kv, recurrent, snapshot, logits,
          row, pending, position, verify, accepted, controller,
          verified_by_position, accepted_by_position>>

Zeroes == [i \in 1..DraftTokens |-> 0]

Row(attended, folded) == [attended |-> attended, folded |-> folded]

(* The first n rows of a KV cache, as the tokens they were computed from. *)
Attended(rows, n) == [i \in 1..n |-> rows[i - 1]]

Sampled(r) == Argmax(model, r.attended, r.folded)

Remaining == MaxNewTokens - Len(generated)

DraftBudgetUnlimited == controller.budget

DraftBudget ==
  IF controller.budget < Remaining THEN controller.budget ELSE Remaining

VerifiedPositionWithDrafts == position + Len(verify)

(* verified_position: behind the sampled token and the accepted drafts. *)
VerifiedPosition == position + 1 + accepted

(* The position check of run_qwen35_decode_tokens and run_qwen35_mtp_tokens *)
Fits(count) == position < Capacity /\ count <= Capacity - position

(* decode_target_tokens_logits: one batch through all target layers.  Every *)
(* token's KV row is written, row i attends to the positions up to its own, *)
(* and the recurrent state folds the whole batch.                           *)
Decode(tokens) ==
  /\ Fits(Len(tokens))
  /\ kv' = [p \in DOMAIN kv |->
              IF p \in position..(position + Len(tokens) - 1)
              THEN tokens[p - position + 1] ELSE kv[p]]
  /\ recurrent' = recurrent \o tokens
  /\ logits' = [i \in 1..Len(tokens) |->
                  Row(Attended(kv', position + i),
                      recurrent \o SubSeq(tokens, 1, i))]

(* update_mtp_pending_h and logits_output_row, after a round whose rows of  *)
(* the target batch these are.                                             *)
KeepFirstRow(rows) == pending' = rows[1] /\ row' = 1 + accepted

KeepRow(rows) == pending' = rows[1 + accepted] /\ row' = 1 + accepted

Unrestored == recurrent

(* restore_recurrent_state *)
Restored == snapshot

(* The generation loop goes on until enough tokens were generated. *)
Generating == Len(generated) < MaxNewTokens

(* The cache and the logits a completed prefill leaves behind. *)
Init ==
  /\ model \in Models
  /\ mtp \in BOOLEAN
  /\ pc = "sample"
  /\ generated = <<>>
  /\ finish = "length"
  /\ kv = [p \in 0..(Capacity - 1) |->
             IF p < Len(Prompt) THEN Prompt[p + 1] ELSE NoToken]
  /\ recurrent = Prompt
  /\ snapshot = <<>>
  /\ logits = <<Row(Prompt, Prompt)>>
  /\ row = 1
  /\ pending = Row(Prompt, Prompt)
  /\ position = Len(Prompt)
  /\ verify = <<>>
  /\ accepted = 0
  /\ controller = InitialController
  /\ verified_by_position = Zeroes
  /\ accepted_by_position = Zeroes
-----------------------------------------------------------------------------
(* Sample the current logits row; stop on EOS, else emit the token and go  *)
(* on to the next target step unless enough tokens were generated.         *)
SampleEos ==
  /\ pc = "sample"
  /\ Sampled(logits[row]) \in EosTokens
  /\ row' = 1
  /\ finish' = "stop"
  /\ pc' = "finish"
  /\ UNCHANGED <<request, generated, cache, snapshot, logits, pending, position,
                 verify, accepted, controller, stats>>

SampleToken ==
  /\ pc = "sample"
  /\ Sampled(logits[row]) \notin EosTokens
  /\ row' = 1
  /\ generated' = Append(generated, Sampled(logits[row]))
  /\ pc' = IF Len(generated') >= MaxNewTokens THEN "finish"
           ELSE IF mtp THEN "draft" ELSE "decode"
  /\ UNCHANGED <<request, finish, cache, snapshot, logits, pending, position,
                 verify, accepted, controller, stats>>

(* The plain loop's target step: feed the last token, advance by one. *)
PlainDecode ==
  /\ pc = "decode"
  /\ Decode(<<generated[Len(generated)]>>)
  /\ position' = position + 1
  /\ pc' = "sample"
  /\ UNCHANGED <<request, generated, finish, snapshot, row, pending, verify,
                 accepted, controller, stats>>

(* draft_mtp_tokens: up to the budget; fewer only when the confidence of a *)
(* draft falls below p_min.  The MTP layer has a cache of its own.         *)
Draft ==
  /\ pc = "draft"
  /\ Fits(DraftBudget)
  /\ \E count \in (IF ConfidenceGate THEN 0..DraftBudget ELSE {DraftBudget}) :
       \E drafted \in [1..count -> Token] :
         verify' = <<generated[Len(generated)]>> \o drafted
  /\ pc' = "snapshot"
  /\ UNCHANGED <<request, generated, finish, cache, snapshot, logits, row,
                 pending, position, accepted, controller, stats>>

(* snapshot_recurrent_state *)
Snapshot ==
  /\ pc = "snapshot"
  /\ snapshot' = recurrent
  /\ pc' = "verify"
  /\ UNCHANGED <<request, generated, finish, cache, logits, row, pending,
                 position, verify, accepted, controller, stats>>

(* The target batch over the sampled token and all drafts. *)
Verify ==
  /\ pc = "verify"
  /\ Decode(verify)
  /\ accepted' = 0
  /\ pc' = "accept"
  /\ UNCHANGED <<request, generated, finish, snapshot, row, pending, position,
                 verify, controller, stats>>
-----------------------------------------------------------------------------
(* The accept loop: draft accepted + 1 is judged by row accepted + 1. *)
Undecided == accepted < Len(verify) - 1 /\ Generating

JudgedNext == Sampled(logits[accepted + 2])

(* The token the target model chooses in the place of the next draft. *)
Judged == Sampled(logits[accepted + 1])

CountDrafted ==
  verified_by_position' =
    [i \in 1..DraftTokens |->
       verified_by_position[i] + (IF i < Len(verify) THEN 1 ELSE 0)]

CountVerified ==
  verified_by_position' = [verified_by_position EXCEPT ![accepted + 1] = @ + 1]

AcceptDraft ==
  /\ pc = "accept"
  /\ Undecided
  /\ Judged \notin EosTokens
  /\ Judged = verify[accepted + 2]
  /\ generated' = Append(generated, verify[accepted + 2])
  /\ accepted' = accepted + 1
  /\ CountVerified
  /\ accepted_by_position' =
       [accepted_by_position EXCEPT ![accepted + 1] = @ + 1]
  /\ UNCHANGED <<request, pc, finish, cache, snapshot, logits, row, pending,
                 position, verify, controller>>

RejectDraft ==
  /\ pc = "accept"
  /\ Undecided
  /\ Judged \notin EosTokens
  /\ Judged # verify[accepted + 2]
  /\ CountVerified
  /\ pc' = "settle"
  /\ UNCHANGED <<request, generated, finish, cache, snapshot, logits, row,
                 pending, position, verify, accepted, controller,
                 accepted_by_position>>

AcceptEos ==
  /\ pc = "accept"
  /\ Undecided
  /\ Judged \in EosTokens
  /\ CountVerified
  /\ finish' = "stop"
  /\ pc' = "settle"
  /\ UNCHANGED <<request, generated, cache, snapshot, logits, row, pending,
                 position, verify, accepted, controller, accepted_by_position>>

AcceptEnd ==
  /\ pc = "accept"
  /\ ~Undecided
  /\ pc' = "settle"
  /\ UNCHANGED <<request, generated, finish, cache, snapshot, logits, row,
                 pending, position, verify, accepted, controller, stats>>
-----------------------------------------------------------------------------
(* The end of a round.  The controller learns how the drafts fared; then   *)
(* one of three things happens.                                            *)
JudgeRound == controller' = UpdateBudget(controller, Len(verify) - 1, accepted)

(* A verified row ranked EOS first: generation stops. *)
SettleStop ==
  /\ pc = "settle"
  /\ finish = "stop"
  /\ JudgeRound
  /\ position' = VerifiedPosition
  /\ pc' = "finish"
  /\ UNCHANGED <<request, generated, finish, cache, snapshot, logits, row,
                 pending, verify, accepted, stats>>

(* Every draft was accepted: the verify batch stands and its last row      *)
(* feeds the next round.                                                   *)
KeepBatch ==
  /\ pc = "settle"
  /\ finish # "stop"
  /\ accepted = Len(verify) - 1
  /\ JudgeRound
  /\ position' = VerifiedPosition
  /\ KeepRow(logits)
  /\ pc' = IF Generating THEN "sample" ELSE "finish"
  /\ UNCHANGED <<request, generated, finish, cache, snapshot, logits, verify,
                 accepted, stats>>

(* A draft was rejected: the recurrent state is restored, then replayed. *)
Restore ==
  /\ pc = "settle"
  /\ finish # "stop"
  /\ accepted < Len(verify) - 1
  /\ JudgeRound
  /\ recurrent' = Restored
  /\ pc' = "replay"
  /\ UNCHANGED <<request, generated, finish, kv, snapshot, logits, row, pending,
                 position, verify, accepted, stats>>

(* The target batch over the sampled token and the accepted drafts. *)
Replay ==
  /\ pc = "replay"
  /\ Decode(SubSeq(verify, 1, 1 + accepted))
  /\ position' = VerifiedPosition
  /\ KeepRow(logits')
  /\ pc' = IF Generating THEN "sample" ELSE "finish"
  /\ UNCHANGED <<request, generated, finish, snapshot, verify, accepted,
                 controller, stats>>

(* The result is built from the generated tokens. *)
Finish ==
  /\ pc = "finish"
  /\ pc' = "done"
  /\ UNCHANGED <<request, generated, finish, cache, snapshot, logits, row,
                 pending, position, verify, accepted, controller, stats>>

(* Every GPU command, readback and detokenization may fail; the handler    *)
(* then returns its status at once.                                        *)
Fail ==
  /\ pc \notin {"done", "error"}
  /\ pc = "settle" => finish # "stop"
  /\ pc' = "error"
  /\ UNCHANGED <<request, generated, finish, cache, snapshot, logits, row,
                 pending, position, verify, accepted, controller, stats>>

Progress ==
  \/ SampleEos \/ SampleToken \/ PlainDecode
  \/ Draft \/ Snapshot \/ Verify
  \/ AcceptDraft \/ RejectDraft \/ AcceptEos \/ AcceptEnd
  \/ SettleStop \/ KeepBatch \/ Restore \/ Replay \/ Finish

Next == Progress \/ Fail

Spec == Init /\ [][Next]_vars /\ WF_vars(Progress)
-----------------------------------------------------------------------------
(* The text the request stands for: its prompt and what was emitted. *)
History == Prompt \o generated

(* Type correctness of the whole decode state. *)
TypeOK ==
  /\ model \in Models
  /\ mtp \in BOOLEAN
  /\ pc \in {"sample", "decode", "draft", "snapshot", "verify", "accept",
             "settle", "replay", "finish", "done", "error"}
  /\ generated \in Seq(Token \ EosTokens) /\ Len(generated) <= MaxNewTokens
  /\ finish \in {"length", "stop"}
  /\ kv \in [0..(Capacity - 1) -> Token \cup {NoToken}]
  /\ recurrent \in Seq(Token)
  /\ snapshot \in Seq(Token)
  /\ position \in 0..Capacity
  /\ verify \in Seq(Token)
  /\ accepted \in 0..DraftTokens
  /\ row \in 1..(DraftTokens + 1)
  /\ controller \in Controller
  /\ verified_by_position \in [1..DraftTokens -> Nat]
  /\ accepted_by_position \in [1..DraftTokens -> Nat]

(* Every row that is sampled, in the plain loop, at the head of a round or *)
(* while drafts are judged, was computed from exactly the prompt and the   *)
(* tokens emitted so far, in the KV cache and in the recurrent state: no   *)
(* rejected draft and no stale row leaks into the choice of a token.       *)
SampledRowIsCurrent ==
  /\ pc = "sample" => logits[row] = Row(History, History)
  /\ pc = "accept" /\ Undecided => logits[accepted + 1] = Row(History, History)

(* pending_h, which the next draft starts from, is the h_nextn row of the  *)
(* last token before the one just sampled, whether the round before it     *)
(* kept its batch or replayed a part of it.                                *)
PendingIsLastCommitted ==
  LET before == SubSeq(History, 1, Len(History) - 1)
  IN  pc = "draft" => /\ pending = Row(before, before)
                      /\ position = Len(before)

(* No batch runs past the capacity the plan reserved (prompt plus          *)
(* max_new_tokens), although a verify batch speculates beyond the tokens   *)
(* emitted so far: a request never fails because it drafted too far.       *)
NoCapacityError ==
  /\ pc = "decode" => Fits(1)
  /\ pc = "draft" => Fits(DraftBudget)
  /\ pc \in {"snapshot", "verify"} => Fits(Len(verify))
  /\ pc = "replay" => Fits(1 + accepted)

(* The used_tokens a finished request reports are KV rows of the prompt    *)
(* and the emitted tokens, all of them but at most the last one, and all   *)
(* of them when generation stopped on EOS: rows of rejected drafts lie     *)
(* beyond.                                                                 *)
UsedRowsAreCommitted ==
  pc = "done" =>
    /\ position \in {Len(History) - 1, Len(History)}
    /\ Attended(kv, position) = SubSeq(History, 1, position)
    /\ finish = "stop" => position = Len(History)

(* Draft i + 1 is verified only after draft i was accepted, so the         *)
(* reported counts by position telescope.                                  *)
StatsTelescope ==
  \A i \in 1..DraftTokens :
    /\ accepted_by_position[i] <= verified_by_position[i]
    /\ i < DraftTokens => verified_by_position[i + 1] <= accepted_by_position[i]

-----------------------------------------------------------------------------
(* Both loops implement greedy decoding: with speculation or without it,   *)
(* whatever the MTP layer drafts, the tokens emitted and the finish reason *)
(* are those of the plain greedy choice after the prompt and the output.   *)
Outcome ==
  CASE pc = "done" -> finish
    [] pc = "error" -> "error"
    [] OTHER -> "running"

GreedyChoice(m, history) == Argmax(m, history, history)

Greedy == INSTANCE GreedyDecode
            WITH NextToken <- GreedyChoice, outcome <- Outcome

ImplementsGreedyDecode == Greedy!Spec

=============================================================================
