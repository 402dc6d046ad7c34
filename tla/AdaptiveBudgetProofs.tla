------------------------ MODULE AdaptiveBudgetProofs ------------------------
(***************************************************************************)
(* Proofs about the budget controller, for every requested budget and      *)
(* every window size.                                                      *)
(*                                                                         *)
(* Outcomes lists what update_mtp_adaptive_budget can do with a round; all *)
(* the theorems are read off that list.  RaisedInTime and LoweredInTime    *)
(* are not inductive: CleanRunInWindow and RejectedRunInWindow say where   *)
(* the drafts of an unbroken run lie, in the current window or partly in   *)
(* the window before it.                                                   *)
(***************************************************************************)
EXTENDS AdaptiveBudget, TLAPS

(* The five outcomes of a round of n drafts of which a were accepted: the  *)
(* round is ignored, it is added to the window, the window expires, the    *)
(* budget is lowered, the budget is raised.                                *)
Ignored(c, n, u) == u = c /\ (n = 0 \/ DraftTokens = 1)

Added(c, n, a, u) ==
  /\ u = [budget |-> c.budget, drafted |-> c.drafted + n,
          accepted |-> c.accepted + a]
  /\ u.drafted < 2 * SampleThreshold(c.budget)
  /\ \/ u.drafted < SampleThreshold(c.budget)
     \/ /\ c.budget > 1 => u.accepted * 4 >= u.drafted * 3
        /\ c.budget < DraftTokens => u.accepted # u.drafted

Expired(c, n, a, u) ==
  /\ u = Fresh(c.budget)
  /\ c.budget > 1 => (c.accepted + a) * 4 >= (c.drafted + n) * 3
  /\ c.budget < DraftTokens => c.accepted + a # c.drafted + n

Lowered(c, u) == u = Fresh(c.budget - 1) /\ c.budget > 1

Raised(c, n, a, u) ==
  /\ u = Fresh(c.budget + 1)
  /\ c.budget < DraftTokens
  /\ c.accepted + a = c.drafted + n

(* A window is judged after at least one draft, whatever the budget. *)
LEMMA ThresholdPositive ==
  ASSUME NEW b \in 1..DraftTokens
  PROVE  SampleThreshold(b) \in Nat \ {0}
<1>1. WindowPerBudget * b \in Nat
  BY ControllerAssumption
<1> QED
  BY <1>1, ControllerAssumption DEF SampleThreshold

(* update_mtp_adaptive_budget does one of the five things, and its result  *)
(* is a controller again.                                                  *)
LEMMA Outcomes ==
  ASSUME NEW c \in Controller, NEW n \in 0..c.budget, NEW a \in 0..n
  PROVE  LET u == UpdateBudget(c, n, a)
         IN  /\ u \in Controller
             /\ \/ Ignored(c, n, u) \/ Added(c, n, a, u) \/ Expired(c, n, a, u)
                \/ Lowered(c, u) \/ Raised(c, n, a, u)
<1> DEFINE u == UpdateBudget(c, n, a)
           seen == [budget |-> c.budget, drafted |-> c.drafted + n,
                    accepted |-> c.accepted + a]
           t == SampleThreshold(c.budget)
<1>1. /\ c.budget \in 1..DraftTokens /\ c.drafted \in Nat /\ c.accepted \in Nat
      /\ n \in Nat /\ a \in Nat /\ DraftTokens \in Nat \ {0}
  BY ControllerAssumption DEF Controller
<1>2. t \in Nat \ {0}
  BY <1>1, ThresholdPositive
<1>3. /\ seen \in Controller
      /\ seen.budget = c.budget /\ seen.drafted = c.drafted + n
      /\ seen.accepted = c.accepted + a
  BY <1>1 DEF Controller
<1> HIDE DEF seen, t
<1>4. CASE DraftTokens <= 1 \/ n = 0
  <2>1. u = c
    BY <1>4 DEF UpdateBudget
  <2> QED
    BY <1>1, <1>4, <2>1 DEF Ignored
<1>5. CASE ~(DraftTokens <= 1 \/ n = 0) /\ seen.drafted < t
  <2>1. u = seen
    BY <1>3, <1>5 DEF UpdateBudget, seen, t
  <2>2. seen.drafted < 2 * t
    BY <1>1, <1>2, <1>3, <1>5
  <2>3. Added(c, n, a, u)
    BY <1>5, <2>1, <2>2 DEF Added, seen, t
  <2> QED
    BY <1>3, <2>1, <2>3
<1>6. CASE ~(DraftTokens <= 1 \/ n = 0) /\ ~(seen.drafted < t)
  <2>1. u = Judge(seen)
    BY <1>3, <1>6 DEF UpdateBudget, seen, t
  <2>2. CASE TooManyRejected(seen)
    <3>1. u = Fresh(c.budget - 1) /\ c.budget > 1
      BY <1>3, <2>1, <2>2 DEF Judge, TooManyRejected
    <3> QED
      BY <1>1, <3>1 DEF Lowered, Fresh, Controller
  <2>3. CASE ~TooManyRejected(seen) /\ AllAccepted(seen)
    <3>1. /\ u = Fresh(c.budget + 1) /\ c.budget < DraftTokens
          /\ c.accepted + a = c.drafted + n
      BY <1>3, <2>1, <2>3 DEF Judge, AllAccepted
    <3> QED
      BY <1>1, <3>1 DEF Raised, Fresh, Controller
  <2>4. CASE ~TooManyRejected(seen) /\ ~AllAccepted(seen)
    <3>1. /\ c.budget > 1 => seen.accepted * 4 >= seen.drafted * 3
          /\ c.budget < DraftTokens => seen.accepted # seen.drafted
      BY <1>1, <1>3, <2>4 DEF TooManyRejected, AllAccepted
    <3>2. CASE seen.drafted >= 2 * t
      <4>1. u = Fresh(c.budget)
        BY <1>3, <2>1, <2>4, <3>2 DEF Judge, t
      <4>2. Expired(c, n, a, u)
        BY <1>3, <3>1, <4>1 DEF Expired
      <4> QED
        BY <1>1, <4>1, <4>2 DEF Fresh, Controller
    <3>3. CASE ~(seen.drafted >= 2 * t)
      <4>1. u = seen
        BY <1>3, <2>1, <2>4, <3>3 DEF Judge, t
      <4>2. seen.drafted < 2 * t
        BY <1>1, <1>2, <1>3, <3>3
      <4>3. Added(c, n, a, u)
        BY <3>1, <4>1, <4>2 DEF Added, seen, t
      <4> QED
        BY <1>3, <4>1, <4>3
    <3> QED
      BY <3>2, <3>3
  <2> QED
    BY <2>2, <2>3, <2>4
<1> QED
  BY <1>4, <1>5, <1>6
-----------------------------------------------------------------------------

(* A step is a round with these numbers of drafted and accepted tokens, or *)
(* leaves everything unchanged.                                            *)
LEMMA StepIsRound ==
  ASSUME TypeOK, [Next]_vars
  PROVE  \/ UNCHANGED vars
         \/ \E n, a \in Nat :
              /\ n \in 0..controller.budget /\ a \in 0..n
              /\ Round(n, a)
              /\ controller' = UpdateBudget(controller, n, a)
              /\ controller' \in Controller
<1>1. CASE UNCHANGED vars
  BY <1>1
<1>2. CASE Next
  <2>1. PICK n \in 0..controller.budget : \E a \in 0..n : Round(n, a)
    BY <1>2 DEF Next
  <2> PICK a \in 0..n : Round(n, a)
    BY <2>1
  <2>2. controller' = UpdateBudget(controller, n, a)
    BY DEF Round
  <2>3. controller' \in Controller
    BY <2>2, Outcomes DEF TypeOK
  <2>4. n \in Nat /\ a \in Nat
    BY ControllerAssumption DEF TypeOK, Controller
  <2> QED
    BY <2>2, <2>3, <2>4
<1> QED
  BY <1>1, <1>2
-----------------------------------------------------------------------------
(* Every step keeps the types. *)
LEMMA TypeStep == TypeOK /\ [Next]_vars => TypeOK'
<1> SUFFICES ASSUME TypeOK, [Next]_vars
             PROVE  TypeOK'
  OBVIOUS
<1>1. CASE UNCHANGED vars
  BY <1>1 DEF vars, TypeOK
<1>2. CASE ~UNCHANGED vars
  <2>1. PICK n, a \in Nat : Round(n, a) /\ controller' \in Controller
    BY <1>2, StepIsRound
  <2>2. cleanRun' \in Nat
    BY <2>1 DEF Round, TypeOK
  <2>3. rejectedRun' \in Nat
    BY <2>1 DEF Round, TypeOK
  <2> QED
    BY <2>1, <2>2, <2>3 DEF TypeOK
<1> QED
  BY <1>1, <1>2

(* The controller starts at one token with an empty window. *)
LEMMA TypeInit == Init => TypeOK
BY ControllerAssumption DEF Init, TypeOK, InitialController, Controller

(* The budget stays between one and the requested number of draft tokens,  *)
(* and the counters stay natural numbers.                                  *)
THEOREM TypeCorrect == Spec => []TypeOK
BY TypeInit, TypeStep, PTL DEF Spec
-----------------------------------------------------------------------------
(* The empty window of the start is below its threshold. *)
LEMMA WindowInit == Init => WindowBounded
<1>1. 1 \in 1..DraftTokens
  BY ControllerAssumption
<1> QED
  BY <1>1, ThresholdPositive DEF Init, InitialController, WindowBounded

(* No outcome of a round leaves a window of twice its threshold. *)
LEMMA WindowStep == TypeOK /\ WindowBounded /\ [Next]_vars => WindowBounded'
<1> SUFFICES ASSUME TypeOK, WindowBounded, [Next]_vars
             PROVE  WindowBounded'
  OBVIOUS
<1>1. CASE UNCHANGED vars
  BY <1>1 DEF vars, WindowBounded
<1>2. CASE ~UNCHANGED vars
  <2>1. PICK n, a \in Nat :
          /\ n \in 0..controller.budget /\ a \in 0..n
          /\ controller' = UpdateBudget(controller, n, a)
          /\ controller' \in Controller
    BY <1>2, StepIsRound
  <2>2. /\ controller.drafted \in Nat /\ controller.accepted \in Nat
        /\ controller'.budget \in 1..DraftTokens
        /\ SampleThreshold(controller'.budget) \in Nat \ {0}
    BY <2>1, ThresholdPositive DEF TypeOK, Controller
  <2>3. CASE Ignored(controller, n, controller')
    BY <2>3 DEF Ignored, WindowBounded
  <2>4. CASE Added(controller, n, a, controller')
    BY <2>1, <2>2, <2>4 DEF Added, WindowBounded
  <2>5. CASE \E b : controller' = Fresh(b)
    <3>1. controller'.drafted = 0 /\ controller'.accepted = 0
      BY <2>5 DEF Fresh
    <3> QED
      BY <2>2, <3>1 DEF WindowBounded
  <2> QED
    BY <2>1, <2>3, <2>4, <2>5, Outcomes DEF TypeOK, Expired, Lowered, Raised
<1> QED
  BY <1>1, <1>2

(* The window never claims more accepted than drafted tokens and is        *)
(* discarded before it is twice its threshold.                             *)
THEOREM WindowIsBounded == Spec => []WindowBounded
BY TypeInit, TypeStep, WindowInit, WindowStep, PTL DEF Spec

(* The budget moves by one, with an empty window, and upwards only when    *)
(* the window held no rejection: the two steps of Raised and Lowered.      *)
THEOREM BudgetIsStepwise == Spec => StepwiseBudget
<1> DEFINE A == LET old == controller.budget
                    new == controller'.budget
                IN  new # old =>
                      /\ new \in {old - 1, old + 1}
                      /\ controller'.drafted = 0 /\ controller'.accepted = 0
                      /\ new > old => controller.accepted = controller.drafted
<1>1. TypeOK /\ WindowBounded /\ [Next]_vars => [A]_vars
  <2> SUFFICES ASSUME TypeOK, WindowBounded, [Next]_vars, ~UNCHANGED vars
               PROVE  A
    OBVIOUS
  <2>1. PICK n, a \in Nat :
          /\ n \in 0..controller.budget /\ a \in 0..n
          /\ controller' = UpdateBudget(controller, n, a)
          /\ controller' \in Controller
    BY StepIsRound
  <2>2. /\ controller.budget \in Nat
        /\ controller.drafted \in Nat /\ controller.accepted \in Nat
    BY ControllerAssumption DEF TypeOK, Controller
  <2>3. CASE controller'.budget = controller.budget
    BY <2>3
  <2>4. CASE Lowered(controller, controller')
    BY <2>2, <2>4 DEF Lowered, Fresh
  <2>5. CASE Raised(controller, n, a, controller')
    <3>1. controller.accepted <= controller.drafted
      BY DEF WindowBounded
    <3>2. controller.accepted = controller.drafted
      BY <2>1, <2>2, <2>5, <3>1 DEF Raised
    <3> QED
      BY <2>2, <2>5, <3>2 DEF Raised, Fresh
  <2> QED
    BY <2>1, <2>3, <2>4, <2>5, Outcomes
       DEF TypeOK, Ignored, Added, Expired, Fresh
<1>2. Spec => [][A]_vars
  BY <1>1, TypeCorrect, WindowIsBounded, PTL DEF Spec
<1> QED
  BY <1>2 DEF StepwiseBudget
-----------------------------------------------------------------------------
(* Where an unbroken run of accepted drafts lies.  A window that holds a   *)
(* rejection contains the whole run, which began behind the rejection.  A  *)
(* window without one is below its threshold, and the run reaches at most  *)
(* one expired window and one round behind it.                             *)
CleanRunInWindow ==
  LET c == controller
      t == SampleThreshold(c.budget)
  IN  c.budget < DraftTokens =>
        \/ c.accepted < c.drafted /\ cleanRun <= c.drafted
        \/ /\ c.accepted = c.drafted /\ c.drafted < t
           /\ cleanRun < 2 * t + c.budget + c.drafted

(* Where an unbroken run of rejected drafts lies: in the current window,   *)
(* as a part of its rejections, or partly in the window that expired       *)
(* before it, of which it is at most a quarter.                            *)
RejectedRunInWindow ==
  LET c == controller
      t == SampleThreshold(c.budget)
  IN  c.budget > 1 =>
        /\ c.drafted < t \/ c.accepted * 4 >= c.drafted * 3
        /\ \/ rejectedRun + c.accepted <= c.drafted
           \/ /\ c.accepted = 0
              /\ rejectedRun * 4 < 2 * t + c.budget + c.drafted * 4

Runs == TypeOK /\ WindowBounded /\ CleanRunInWindow /\ RejectedRunInWindow

(* No run is under way at the start. *)
LEMMA RunsInit == Init => Runs
<1> SUFFICES ASSUME Init
             PROVE  Runs
  OBVIOUS
<1>1. controller.budget = 1 /\ controller.drafted = 0 /\ controller.accepted = 0
  BY DEF Init, InitialController
<1>2. 1 \in 1..DraftTokens /\ SampleThreshold(1) \in Nat \ {0}
  BY ControllerAssumption, ThresholdPositive
<1> QED
  BY <1>1, <1>2, TypeInit, WindowInit
     DEF Init, Runs, CleanRunInWindow, RejectedRunInWindow

(* Every outcome of a round keeps the runs within the windows. *)
LEMMA RunsStep == Runs /\ [Next]_vars => Runs'
<1> SUFFICES ASSUME Runs, [Next]_vars
             PROVE  CleanRunInWindow' /\ RejectedRunInWindow'
  BY TypeStep, WindowStep DEF Runs
<1>1. CASE UNCHANGED vars
  BY <1>1 DEF vars, Runs, CleanRunInWindow, RejectedRunInWindow
<1>2. CASE ~UNCHANGED vars
  <2>1. PICK n, a \in Nat :
          /\ n \in 0..controller.budget /\ a \in 0..n
          /\ Round(n, a)
          /\ controller' = UpdateBudget(controller, n, a)
          /\ controller' \in Controller
    BY <1>2, StepIsRound DEF Runs
  <2> DEFINE b == controller.budget
             d == controller.drafted
             k == controller.accepted
             t == SampleThreshold(b)
  <2>2. /\ b \in Nat /\ 1 <= b /\ b <= DraftTokens /\ DraftTokens \in Nat
        /\ d \in Nat /\ k \in Nat /\ t \in Nat \ {0}
        /\ n <= b /\ a <= n
        /\ cleanRun \in Nat /\ rejectedRun \in Nat
        /\ k <= d /\ d < 2 * t
    BY <2>1, ThresholdPositive, ControllerAssumption
       DEF Runs, TypeOK, WindowBounded, Controller
  <2>3. /\ cleanRun' = IF controller'.budget # b \/ a < n THEN 0
                       ELSE IF b = DraftTokens THEN 0 ELSE cleanRun + n
        /\ rejectedRun' = IF controller'.budget # b \/ a > 0 THEN 0
                          ELSE IF b = 1 THEN 0 ELSE rejectedRun + n
    BY <2>1 DEF Round
  <2>4. /\ b < DraftTokens =>
             \/ k < d /\ cleanRun <= d
             \/ k = d /\ d < t /\ cleanRun < 2 * t + b + d
        /\ b > 1 =>
             /\ d < t \/ k * 4 >= d * 3
             /\ \/ rejectedRun + k <= d
                \/ k = 0 /\ rejectedRun * 4 < 2 * t + b + d * 4
    BY DEF Runs, CleanRunInWindow, RejectedRunInWindow
  <2>5. CASE Ignored(controller, n, controller')
    <3>1. controller' = controller /\ (n = 0 \/ DraftTokens = 1)
      BY <2>5 DEF Ignored
    <3>2. b < DraftTokens => cleanRun' = cleanRun
      BY <2>2, <2>3, <3>1
    <3>3. b > 1 => rejectedRun' = rejectedRun
      BY <2>2, <2>3, <3>1
    <3> QED
      BY <3>1, <3>2, <3>3 DEF Runs, CleanRunInWindow, RejectedRunInWindow
  <2>6. CASE Added(controller, n, a, controller')
    <3>1. /\ controller'.budget = b
          /\ controller'.drafted = d + n /\ controller'.accepted = k + a
          /\ d + n < 2 * t
          /\ \/ d + n < t
             \/ /\ b > 1 => (k + a) * 4 >= (d + n) * 3
                /\ b < DraftTokens => k + a # d + n
      BY <2>6 DEF Added
    <3> HIDE DEF b, d, k, t
    <3>2. b < DraftTokens =>
            \/ k + a < d + n /\ cleanRun' <= d + n
            \/ k + a = d + n /\ d + n < t /\ cleanRun' < 2 * t + b + (d + n)
      <4>1. CASE a < n
        BY <2>2, <2>3, <3>1, <4>1
      <4>2. CASE a = n
        BY <2>2, <2>3, <2>4, <3>1, <4>2
      <4> QED
        BY <2>2, <4>1, <4>2
    <3>3. b > 1 => d + n < t \/ (k + a) * 4 >= (d + n) * 3
      BY <3>1
    <3>4. b > 1 =>
            \/ rejectedRun' + (k + a) <= d + n
            \/ k + a = 0 /\ rejectedRun' * 4 < 2 * t + b + (d + n) * 4
      BY <2>2, <2>3, <2>4, <3>1
    <3> QED
      BY <3>1, <3>2, <3>3, <3>4
         DEF CleanRunInWindow, RejectedRunInWindow, b, d, k, t
  <2>7. CASE Expired(controller, n, a, controller')
    <3>1. /\ controller'.budget = b
          /\ controller'.drafted = 0 /\ controller'.accepted = 0
          /\ b > 1 => (k + a) * 4 >= (d + n) * 3
          /\ b < DraftTokens => k + a # d + n
      BY <2>7 DEF Expired, Fresh
    <3> HIDE DEF b, d, k, t
    <3>2. b < DraftTokens => cleanRun' < 2 * t + b
      BY <2>2, <2>3, <2>4, <3>1
    <3>3. b > 1 => rejectedRun' * 4 < 2 * t + b
      BY <2>2, <2>3, <2>4, <3>1
    <3> QED
      BY <2>2, <3>1, <3>2, <3>3
         DEF CleanRunInWindow, RejectedRunInWindow, b, t
  <2>8. CASE Lowered(controller, controller') \/ Raised(controller, n, a, controller')
    <3>1. /\ controller'.budget # b
          /\ controller'.drafted = 0 /\ controller'.accepted = 0
      BY <2>2, <2>8 DEF Lowered, Raised, Fresh
    <3>2. cleanRun' = 0 /\ rejectedRun' = 0
      BY <2>3, <3>1
    <3>3. /\ controller'.budget \in Nat
          /\ SampleThreshold(controller'.budget) \in Nat \ {0}
      BY <2>1, ThresholdPositive DEF Controller
    <3> QED
      BY <3>1, <3>2, <3>3 DEF CleanRunInWindow, RejectedRunInWindow
  <2> QED
    BY <2>1, <2>5, <2>6, <2>7, <2>8, Outcomes DEF Runs, TypeOK
<1> QED
  BY <1>1, <1>2

(* In every reachable state the runs lie where the windows say. *)
THEOREM RunsStayInWindow == Spec => []Runs
BY RunsInit, RunsStep, PTL DEF Spec

(* Recovery: an unbroken run of accepted drafts raises the budget within   *)
(* three thresholds and one round.                                         *)
THEOREM BudgetRises == Spec => []RaisedInTime
<1>1. Runs => RaisedInTime
  <2> SUFFICES ASSUME Runs, controller.budget < DraftTokens
               PROVE  cleanRun < 3 * SampleThreshold(controller.budget)
                                  + controller.budget
    BY DEF RaisedInTime
  <2>1. /\ controller.budget \in Nat /\ controller.drafted \in Nat
        /\ controller.accepted \in Nat /\ cleanRun \in Nat
        /\ SampleThreshold(controller.budget) \in Nat \ {0}
    BY ThresholdPositive, ControllerAssumption DEF Runs, TypeOK, Controller
  <2> QED
    BY <2>1 DEF Runs, WindowBounded, CleanRunInWindow
<1> QED
  BY <1>1, RunsStayInWindow, PTL

(* Back-off: an unbroken run of rejected drafts lowers the budget within   *)
(* one and a half thresholds and one round.                                *)
THEOREM BudgetFalls == Spec => []LoweredInTime
<1>1. Runs => LoweredInTime
  <2> SUFFICES ASSUME Runs, controller.budget > 1
               PROVE  2 * rejectedRun < 3 * SampleThreshold(controller.budget)
                                         + 2 * controller.budget
    BY DEF LoweredInTime
  <2>1. /\ controller.budget \in Nat /\ controller.drafted \in Nat
        /\ controller.accepted \in Nat /\ rejectedRun \in Nat
        /\ SampleThreshold(controller.budget) \in Nat \ {0}
    BY ThresholdPositive, ControllerAssumption DEF Runs, TypeOK, Controller
  <2> QED
    BY <2>1 DEF Runs, WindowBounded, RejectedRunInWindow
<1> QED
  BY <1>1, RunsStayInWindow, PTL

=============================================================================
