--------------------------- MODULE AdaptiveBudget ---------------------------
(***************************************************************************)
(* The controller on its own: rounds whose drafts are accepted or rejected *)
(* in any way the model may answer.  The two counters are observers: how   *)
(* many drafted tokens the controller has seen since it last changed the   *)
(* budget, in an unbroken run of fully accepted rounds and in an unbroken  *)
(* run of rounds that accepted nothing.                                    *)
(***************************************************************************)
EXTENDS MtpBudget

VARIABLES
  controller,
  cleanRun,
  rejectedRun

vars == <<controller, cleanRun, rejectedRun>>

Init ==
  /\ controller = InitialController
  /\ cleanRun = 0
  /\ rejectedRun = 0

(* A round drafts at most the budget: fewer when max_new_tokens is near or *)
(* the draft's confidence is below p_min.                                  *)
Round(draftedCount, acceptedCount) ==
  /\ controller' = UpdateBudget(controller, draftedCount, acceptedCount)
  /\ LET changed == controller'.budget # controller.budget IN
     /\ cleanRun' = IF changed \/ acceptedCount < draftedCount THEN 0
                    ELSE IF controller.budget = DraftTokens THEN 0
                    ELSE cleanRun + draftedCount
     /\ rejectedRun' = IF changed \/ (acceptedCount > 0) THEN 0
                       ELSE IF controller.budget = 1 THEN 0
                       ELSE rejectedRun + draftedCount

Next ==
  \E draftedCount \in 0..controller.budget :
    \E acceptedCount \in 0..draftedCount : Round(draftedCount, acceptedCount)

Spec == Init /\ [][Next]_vars
-----------------------------------------------------------------------------
(* Type correctness of the controller and of the observers. *)
TypeOK ==
  /\ controller \in Controller
  /\ cleanRun \in Nat
  /\ rejectedRun \in Nat

(* The window never claims more accepted than drafted tokens and is always *)
(* discarded before it is twice its threshold, so that one old rejection   *)
(* cannot keep the budget down for ever.                                   *)
WindowBounded ==
  /\ controller.accepted <= controller.drafted
  /\ controller.drafted < 2 * SampleThreshold(controller.budget)

(* Recovery: below the requested budget, an unbroken run of accepted       *)
(* drafts raises the budget before it is three thresholds and one round    *)
(* long, whatever the window held when the run began.                      *)
RaisedInTime ==
  controller.budget < DraftTokens =>
    cleanRun < 3 * SampleThreshold(controller.budget) + controller.budget

(* Back-off: above one token, an unbroken run of rounds that accept        *)
(* nothing lowers the budget before it is one and a half thresholds and    *)
(* one round long: a window of accepted drafts delays it no further.       *)
LoweredInTime ==
  controller.budget > 1 =>
    2 * rejectedRun < 3 * SampleThreshold(controller.budget) + 2 * controller.budget

(* A step changes the budget by one at most, raises it only on a round     *)
(* without a rejection, and starts a new window whenever it changes it.    *)
StepwiseBudget ==
  [][LET old == controller.budget
         new == controller'.budget
     IN  new # old =>
           /\ new \in {old - 1, old + 1}
           /\ controller'.drafted = 0 /\ controller'.accepted = 0
           /\ new > old => controller.accepted = controller.drafted]_vars

=============================================================================
