----------------------------- MODULE EagerDevice -----------------------------
(***************************************************************************)
(* What a caller of MpsContext relies on: a device that carries out every  *)
(* operation when it is issued.  An operation that writes buffers leaves   *)
(* its own number in them, one that reads a buffer returns the number of   *)
(* the last operation that wrote it.                                       *)
(***************************************************************************)
EXTENDS Naturals

CONSTANT Buffers

VARIABLES
  issued,            \* number of the next operation
  contents,          \* number of the operation each buffer was written by
  host               \* what the last read returned

vars == <<issued, contents, host>>

Init ==
  /\ issued = 1
  /\ contents = [b \in Buffers |-> 0]
  /\ host = 0

Write ==
  /\ contents' \in [Buffers -> 0..issued]
  /\ \A b \in Buffers : contents'[b] \in {contents[b], issued}
  /\ issued' = issued + 1
  /\ UNCHANGED host

Read(b) ==
  /\ host' = contents[b]
  /\ issued' = issued + 1
  /\ UNCHANGED contents

Next == Write \/ \E b \in Buffers : Read(b)

Spec == Init /\ [][Next]_vars

=============================================================================
