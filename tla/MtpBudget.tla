------------------------------ MODULE MtpBudget ------------------------------
(***************************************************************************)
(* The controller that decides how many tokens a speculative round may     *)
(* draft (update_mtp_adaptive_budget).  It starts at one token, collects   *)
(* drafted and accepted counts in a window, lowers the budget when fewer   *)
(* than three quarters of a full window were accepted and raises it when   *)
(* the whole window was accepted.                                          *)
(*                                                                         *)
(* TooManyRejectedAtOne, TooManyRejectedAtQuarter, AllAcceptedUnlimited    *)
(* and JudgeWithoutExpiry are mistakes the controller could contain; no    *)
(* definition uses them, and each breaks a property.                       *)
(***************************************************************************)
EXTENDS Naturals

CONSTANTS
  DraftTokens,       \* request.mtp_draft_tokens, the largest budget
  WindowFloor,       \* the smallest window that is judged (16 in the code)
  WindowPerBudget    \* window size per unit of budget (8 in the code)

ASSUME ControllerAssumption ==
  /\ DraftTokens \in Nat \ {0}
  /\ WindowFloor \in Nat \ {0}
  /\ WindowPerBudget \in Nat \ {0}

(* The controller's fields of Qwen35MtpRuntimeState. *)
Controller == [budget : 1..DraftTokens, drafted : Nat, accepted : Nat]

InitialController == [budget |-> 1, drafted |-> 0, accepted |-> 0]

SampleThreshold(budget) ==
  IF WindowPerBudget * budget > WindowFloor
  THEN WindowPerBudget * budget
  ELSE WindowFloor

TooManyRejectedAtOne(c) == c.accepted * 4 < c.drafted * 3

TooManyRejectedAtQuarter(c) == c.budget > 1 /\ c.accepted * 4 < c.drafted

TooManyRejected(c) == c.budget > 1 /\ c.accepted * 4 < c.drafted * 3

AllAcceptedUnlimited(c) == c.accepted = c.drafted

AllAccepted(c) == c.budget < DraftTokens /\ c.accepted = c.drafted

(* A window that starts over. *)
Fresh(budget) == [budget |-> budget, drafted |-> 0, accepted |-> 0]

JudgeWithoutExpiry(c) ==
  IF TooManyRejected(c) THEN Fresh(c.budget - 1)
  ELSE IF AllAccepted(c) THEN Fresh(c.budget + 1)
  ELSE c

(* The judgement of a window that has reached its threshold. *)
Judge(c) ==
  IF TooManyRejected(c) THEN Fresh(c.budget - 1)
  ELSE IF AllAccepted(c) THEN Fresh(c.budget + 1)
  ELSE IF c.drafted >= 2 * SampleThreshold(c.budget) THEN Fresh(c.budget)
  ELSE c

(* update_mtp_adaptive_budget(drafted_count, accepted_count) *)
UpdateBudget(c, draftedCount, acceptedCount) ==
  LET seen == [budget |-> c.budget, drafted |-> c.drafted + draftedCount,
               accepted |-> c.accepted + acceptedCount]
  IN  IF DraftTokens <= 1 \/ draftedCount = 0 THEN c
      ELSE IF seen.drafted < SampleThreshold(seen.budget) THEN seen
      ELSE Judge(seen)

=============================================================================
