------------------------- MODULE CommandGraphProofs -------------------------
(***************************************************************************)
(* For every set of programs that use zero_buffer only for a scratch       *)
(* buffer: a context whose kernels are deferred to a graph implements the  *)
(* device that runs every operation at once.  The programs of requests are *)
(* such programs, and none begins a graph while one is active.             *)
(***************************************************************************)
EXTENDS MetalPrograms, SequenceTheorems, WellFoundedInduction, TLAPS

(* Value v is what buffer b will hold when the operations before n have    *)
(* run: it is in memory, or the last pending writer before n will write it. *)
Delivers(v, b, n) ==
  \/ /\ mem[b] = v
     /\ \A d \in commands : b \in d.writes => d.at >= n
  \/ \E c \in commands :
       /\ c.at = v /\ b \in c.writes /\ v < n
       /\ \A d \in commands : b \in d.writes /\ d.at < n => d.at <= v

(* The previous operation zeroed b, perhaps before pending kernels run     *)
(* that still use it.                                                      *)
JustZeroed(b) ==
  /\ pc > 1
  /\ program[pc - 1].kind = "zero"
  /\ b \in program[pc - 1].writes

Pending(at, b) == \E c \in commands : c.at = at /\ b \in c.writes

Issued ==
  /\ \A c \in commands : c.at < pc
  /\ \A c, d \in commands : c.at = d.at => c = d
  /\ \A b \in Buffers : contents[b] < pc
  /\ \A c \in commands : \A b \in DOMAIN c.inputs : c.inputs[b] \in Nat

(* What program order says a buffer holds is what the next operation will  *)
(* find there.                                                             *)
ContentsDelivered ==
  status = "running" =>
    \A b \in Buffers : ~JustZeroed(b) => Delivers(contents[b], b, pc)

(* So will every kernel that is pending. *)
InputsDelivered ==
  \A c \in commands : \A b \in DOMAIN c.inputs :
    /\ c.inputs[b] < c.at
    /\ Delivers(c.inputs[b], b, c.at)

(* While the host runs, a pending kernel that reads the scratch buffer is  *)
(* pending together with the one that fills it: to zero the buffer now     *)
(* does no harm.                                                           *)
ScratchPending ==
  ~waiting =>
    \A c \in commands : \A b \in DOMAIN c.inputs :
      Zeroed(program, b) => Pending(c.inputs[b], b)

ScratchFilled ==
  /\ status = "running" /\ graphActive /\ pc > 2
  /\ program[pc - 2].kind = "zero"
  => \A b \in program[pc - 2].writes :
       contents[b] = pc - 1 /\ Pending(pc - 1, b)

Inv ==
  /\ program \in Programs
  /\ TypeOK
  /\ Issued
  /\ ContentsDelivered
  /\ InputsDelivered
  /\ ScratchPending
  /\ ScratchFilled
  /\ NothingStale

-----------------------------------------------------------------------------
(* What the assumption says of the program that runs. *)
LEMMA ProgramTyped ==
  ASSUME program \in Programs
  PROVE  /\ program \in Seq(Op)
         /\ Len(program) \in Nat
         /\ DOMAIN program = 1..Len(program)
         /\ \A i \in DOMAIN program :
              /\ program[i].kind \in Kinds
              /\ program[i].reads \subseteq Buffers
              /\ program[i].writes \subseteq Buffers
         /\ ZeroesScratchOnly(program)
PROOF
<1>1. program \in Seq(Op) /\ ZeroesScratchOnly(program)
  BY ProgramAssumption
<1>2. Len(program) \in Nat /\ DOMAIN program = 1..Len(program)
  BY <1>1
<1>3. \A i \in DOMAIN program : program[i] \in Op
  BY <1>1
<1> QED BY <1>1, <1>2, <1>3 DEF Op

(* Only the kernel two places after a zero_buffer reads the scratch buffer. *)
LEMMA ScratchReader ==
  ASSUME program \in Programs, NEW i \in DOMAIN program,
         NEW b \in program[i].reads, Zeroed(program, b)
  PROVE  /\ program[i].kind = "kernel" /\ i > 2
         /\ program[i - 2].kind = "zero" /\ b \in program[i - 2].writes
         /\ program[i - 1].kind = "kernel"
PROOF
<1>1. /\ program[i].kind = "kernel" /\ i > 2
      /\ program[i - 2].kind = "zero" /\ b \in program[i - 2].writes
  BY ProgramTyped DEF ZeroesScratchOnly
<1>2. i - 2 \in DOMAIN program /\ i \in Nat /\ (i - 2) + 1 = i - 1
  BY ProgramTyped, <1>1
<1>3. program[(i - 2) + 1].kind = "kernel"
  BY ProgramTyped, <1>1, <1>2 DEF ZeroesScratchOnly
<1> QED BY <1>1, <1>2, <1>3

(* A buffer that was just zeroed is not read: the next operation fills it. *)
LEMMA JustZeroedIsFilled ==
  ASSUME Inv, pc \in DOMAIN program, NEW b, JustZeroed(b)
  PROVE  /\ program[pc].kind = "kernel"
         /\ b \in program[pc].writes
         /\ b \notin program[pc].reads
PROOF
<1>1. pc - 1 \in DOMAIN program /\ pc \in Nat /\ (pc - 1) + 1 = pc
  BY ProgramTyped DEF Inv, JustZeroed
<1>2. program[pc - 1].kind = "zero" /\ b \in program[pc - 1].writes
  BY DEF JustZeroed
<1>3. program[pc].kind = "kernel" /\ b \in program[pc].writes
  <2>1. ZeroesScratchOnly(program)
    BY ProgramTyped DEF Inv
  <2>2. /\ program[(pc - 1) + 1].kind = "kernel"
        /\ program[pc - 1].writes \subseteq program[(pc - 1) + 1].writes
    BY <1>1, <1>2, <2>1 DEF ZeroesScratchOnly
  <2> QED BY <1>1, <1>2, <2>2
<1>4. Zeroed(program, b)
  BY <1>1, <1>2 DEF Zeroed
<1>5. b \notin program[pc].reads
  <2>1. SUFFICES ASSUME b \in program[pc].reads PROVE FALSE
    OBVIOUS
  <2>2. program[pc - 1].kind = "kernel"
    BY <1>4, <2>1, ScratchReader DEF Inv
  <2> QED BY <1>2, <2>2
<1> QED BY <1>3, <1>5

(* An operation that copies on the host runs when nothing is pending: what *)
(* it reads is in memory.                                                  *)
LEMMA NothingPending ==
  ASSUME Inv, ~waiting, ~graphActive
  PROVE  /\ commands = {}
         /\ status = "running" =>
              \A b \in Buffers : ~JustZeroed(b) => mem[b] = contents[b]
BY DEF Inv, TypeOK, ContentsDelivered, Delivers

-----------------------------------------------------------------------------
(* A request begins with nothing pending and all buffers as allocated. *)
LEMMA InitInv == Init => Inv
PROOF
<1> SUFFICES ASSUME Init PROVE Inv
  OBVIOUS
<1>1. program \in Programs
  BY DEF Init
<1>2. program \in Seq(Op) /\ Len(program) \in Nat
  BY <1>1, ProgramTyped
<1>3. TypeOK
  <2>1. pc \in 1..(Len(program) + 1)
    BY <1>2 DEF Init
  <2>2. /\ mem \in [Buffers -> 0..Len(program) \cup {Stale}]
        /\ contents \in [Buffers -> 0..Len(program)]
        /\ host \in 0..Len(program) \cup {Stale}
    BY <1>2 DEF Init
  <2> QED BY <1>2, <2>1, <2>2 DEF Init, TypeOK
<1>4. Issued /\ InputsDelivered /\ ScratchPending /\ ScratchFilled
  BY DEF Init, Issued, InputsDelivered, ScratchPending, ScratchFilled
<1>5. ContentsDelivered /\ NothingStale
  BY DEF Init, ContentsDelivered, Delivers, NothingStale, Stale
<1> QED BY <1>1, <1>3, <1>4, <1>5 DEF Inv

-----------------------------------------------------------------------------
(* Buffers hold what operations before the next one wrote. *)
LEMMA ContentsTyped ==
  ASSUME Inv
  PROVE  \A b \in Buffers : contents[b] \in Nat /\ contents[b] < pc
PROOF
<1>1. contents \in [Buffers -> 0..Len(program)]
  BY DEF Inv, TypeOK
<1>2. Len(program) \in Nat
  BY ProgramTyped DEF Inv
<1>3. \A b \in Buffers : contents[b] < pc
  BY DEF Inv, Issued
<1>4. ASSUME NEW b \in Buffers
      PROVE  contents[b] \in Nat
  <2>1. contents[b] \in 0..Len(program)
    BY <1>1
  <2> QED BY <1>2, <2>1
<1> QED BY <1>3, <1>4

(* What every operation that is issued relies on. *)
LEMMA IssuedTyped ==
  ASSUME Inv, NEW kind, Issues(kind)
  PROVE  /\ status = "running" /\ ~waiting
         /\ pc \in DOMAIN program /\ pc \in 1..Len(program) /\ pc \in Nat
         /\ Len(program) \in Nat
         /\ pc + 1 \in 1..(Len(program) + 1)
         /\ program[pc].kind = kind
         /\ Reads \subseteq Buffers /\ Writes \subseteq Buffers
         /\ \A c \in commands : c.at \in Nat /\ c.at < pc
PROOF
<1>1. program \in Programs /\ pc \in DOMAIN program
  BY DEF Inv, Issues
<1>2. Len(program) \in Nat /\ DOMAIN program = 1..Len(program)
  BY <1>1, ProgramTyped
<1>3. Reads \subseteq Buffers /\ Writes \subseteq Buffers
  BY <1>1, ProgramTyped DEF Reads, Writes
<1>4. \A c \in commands : c.at \in Nat /\ c.at < pc
  BY <1>2 DEF Inv, TypeOK, Issued
<1> QED BY <1>1, <1>2, <1>3, <1>4 DEF Issues

(* Only a kernel is issued after a zero_buffer. *)
LEMMA OnlyKernelFollowsZero ==
  ASSUME Inv, NEW kind, Issues(kind), kind # "kernel"
  PROVE  /\ \A b : ~JustZeroed(b)
         /\ pc > 1 => program[pc - 1].kind # "zero"
PROOF
<1>1. pc \in DOMAIN program /\ program[pc].kind = kind
  BY DEF Issues
<1>2. \A b : ~JustZeroed(b)
  BY <1>1, JustZeroedIsFilled
<1>3. ASSUME pc > 1, program[pc - 1].kind = "zero"
      PROVE  FALSE
  <2>1. pc - 1 \in DOMAIN program /\ pc \in Nat /\ (pc - 1) + 1 = pc
    BY <1>1, <1>3, ProgramTyped DEF Inv
  <2>2. program[(pc - 1) + 1].kind = "kernel"
    BY <1>3, <2>1, ProgramTyped DEF Inv, ZeroesScratchOnly
  <2> QED BY <1>1, <2>1, <2>2
<1> QED BY <1>2, <1>3

(* What the next operation finds, the one after it finds, too, unless the  *)
(* next writes it.                                                         *)
LEMMA DeliversToNext ==
  ASSUME NEW v, NEW b, NEW n \in Nat, \A c \in commands : c.at \in Nat /\ c.at < n,
         Delivers(v, b, n)
  PROVE  Delivers(v, b, n + 1)
PROOF
<1>1. CASE mem[b] = v /\ \A d \in commands : b \in d.writes => d.at >= n
  <2>1. \A d \in commands : b \notin d.writes
    BY <1>1
  <2> QED BY <1>1, <2>1 DEF Delivers
<1>2. CASE \E c \in commands :
             /\ c.at = v /\ b \in c.writes /\ v < n
             /\ \A d \in commands : b \in d.writes /\ d.at < n => d.at <= v
  <2>1. PICK c \in commands :
             /\ c.at = v /\ b \in c.writes /\ v < n
             /\ \A d \in commands : b \in d.writes /\ d.at < n => d.at <= v
    BY <1>2
  <2>2. v < n + 1 /\ \A d \in commands : b \in d.writes => d.at <= v
    BY <2>1
  <2> QED BY <2>1, <2>2 DEF Delivers
<1> QED BY <1>1, <1>2 DEF Delivers

-----------------------------------------------------------------------------
(* A graph begins with nothing pending. *)
LEMMA BeginInv == Inv /\ Begin => Inv'
PROOF
<1> SUFFICES ASSUME Inv, Begin PROVE Inv'
  OBVIOUS
<1>1. Issues("begin") /\ ~graphActive /\ graphActive' = TRUE /\ guard' = TRUE
  BY DEF Begin
<1>2. /\ pc' = pc + 1 /\ contents' = contents
      /\ UNCHANGED <<program, status, mem, commands, waiting, host>>
  BY DEF Begin, Completes, Put, Inv, TypeOK
<1>3. commands = {} /\ \A b \in Buffers : mem[b] = contents[b]
  BY <1>1, IssuedTyped, NothingPending, OnlyKernelFollowsZero
<1>4. TypeOK'
  BY <1>1, <1>2, <1>3, IssuedTyped DEF Inv, TypeOK
<1>5. Issued' /\ InputsDelivered' /\ ScratchPending' /\ NothingStale'
  BY <1>1, <1>2, <1>3, IssuedTyped
  DEF Inv, TypeOK, Issued, InputsDelivered, ScratchPending, NothingStale
<1>6. ContentsDelivered'
  BY <1>2, <1>3 DEF ContentsDelivered, Delivers
<1>7. ScratchFilled'
  <2>1. pc' - 2 = pc - 1 /\ (pc' > 2 => pc > 1)
    BY <1>1, <1>2, IssuedTyped
  <2> QED BY <1>1, <1>2, <2>1, OnlyKernelFollowsZero DEF ScratchFilled
<1> QED BY <1>2, <1>4, <1>5, <1>6, <1>7 DEF Inv

(* A graph is committed with its kernels pending; the host waits for them. *)
LEMMA CommitInv == Inv /\ Commit => Inv'
PROOF
<1> SUFFICES ASSUME Inv, Commit PROVE Inv'
  OBVIOUS
<1>1. /\ Issues("commit") /\ guard' = FALSE
      /\ \/ graphActive' = FALSE /\ waiting' = TRUE
         \/ UNCHANGED <<graphActive, waiting>>
  BY DEF Commit, CommitGraph
<1>2. /\ pc' = pc + 1 /\ contents' = contents
      /\ UNCHANGED <<program, status, mem, commands, host>>
  BY DEF Commit, Completes, Put, Inv, TypeOK
<1>3. \A b \in Buffers : Delivers(contents[b], b, pc + 1)
  BY <1>1, IssuedTyped, OnlyKernelFollowsZero, DeliversToNext
  DEF Inv, ContentsDelivered
<1>4. TypeOK'
  <2>1. pc' \in 1..(Len(program) + 1)
    BY <1>1, <1>2, IssuedTyped
  <2>2. /\ waiting' => ~graphActive'
        /\ commands' # {} => waiting' \/ graphActive'
        /\ waiting' \in BOOLEAN /\ graphActive' \in BOOLEAN
    <3>1. CASE graphActive' = FALSE /\ waiting' = TRUE
      BY <3>1
    <3>2. CASE UNCHANGED <<graphActive, waiting>>
      BY <1>2, <3>2 DEF Inv, TypeOK
    <3> QED BY <1>1, <3>1, <3>2
  <2> QED BY <1>1, <1>2, <2>1, <2>2 DEF Inv, TypeOK
<1>5. Issued' /\ NothingStale'
  BY <1>1, <1>2, IssuedTyped DEF Inv, TypeOK, Issued, NothingStale
<1>6. InputsDelivered' /\ ScratchPending'
  BY <1>1, <1>2, IssuedTyped
  DEF Inv, InputsDelivered, ScratchPending, Delivers, Pending
<1>7. ContentsDelivered'
  BY <1>2, <1>3 DEF ContentsDelivered, Delivers
<1>8. ScratchFilled'
  <2>1. pc' - 2 = pc - 1 /\ (pc' > 2 => pc > 1)
    BY <1>1, <1>2, IssuedTyped
  <2> QED BY <1>1, <1>2, <2>1, OnlyKernelFollowsZero DEF ScratchFilled
<1> QED BY <1>2, <1>4, <1>5, <1>6, <1>7, <1>8 DEF Inv

(* So it is before a host copy. *)
LEMMA FlushInv == Inv /\ Flush => Inv'
PROOF
<1> SUFFICES ASSUME Inv, Flush PROVE Inv'
  OBVIOUS
<1>1. /\ graphActive' = FALSE /\ waiting' = TRUE
      /\ UNCHANGED <<program, pc, mem, commands, guard, status, contents, host>>
  BY DEF Flush, CommitGraph
<1>2. TypeOK'
  BY <1>1 DEF Inv, TypeOK
<1>3. ContentsDelivered' /\ InputsDelivered'
  BY <1>1 DEF Inv, ContentsDelivered, InputsDelivered, Delivers, JustZeroed
<1>4. Issued' /\ ScratchPending' /\ ScratchFilled' /\ NothingStale'
  BY <1>1 DEF Inv, Issued, ScratchPending, ScratchFilled, NothingStale
<1> QED BY <1>1, <1>2, <1>3, <1>4 DEF Inv

-----------------------------------------------------------------------------
(* A kernel finds its inputs delivered, and delivers what it writes. *)
LEMMA EncodeInv == Inv /\ Encode => Inv'
PROOF
<1> SUFFICES ASSUME Inv, Encode PROVE Inv'
  OBVIOUS
<1> DEFINE new == [at |-> pc, inputs |-> [b \in Reads |-> contents[b]],
                   writes |-> Writes]
<1>1. /\ Issues("kernel")
      /\ commands' = commands \cup {new}
      /\ waiting' = ~graphActive
      /\ pc' = pc + 1 /\ contents' = Put(contents, Writes, pc)
      /\ UNCHANGED <<program, status, mem, graphActive, guard, host>>
  BY DEF Encode, Completes
<1>2. /\ status = "running" /\ ~waiting
      /\ pc \in DOMAIN program /\ pc \in 1..Len(program) /\ pc \in Nat
      /\ Len(program) \in Nat /\ pc + 1 \in 1..(Len(program) + 1)
      /\ Reads \subseteq Buffers /\ Writes \subseteq Buffers
      /\ \A c \in commands : c.at \in Nat /\ c.at < pc
  BY <1>1, IssuedTyped
<1>3. /\ new.at = pc /\ DOMAIN new.inputs = Reads /\ new.writes = Writes
      /\ \A b \in Reads : new.inputs[b] = contents[b]
  OBVIOUS
<1> HIDE DEF new
<1>4. \A b \in Buffers : contents[b] \in Nat /\ contents[b] < pc
  BY ContentsTyped
<1>5. \A b \in Buffers : contents'[b] = IF b \in Writes THEN pc ELSE contents[b]
  BY <1>1 DEF Put
<1>6. \A b \in Buffers : b \notin Writes \/ b \in Reads => ~JustZeroed(b)
  BY <1>2, JustZeroedIsFilled DEF Reads, Writes
<1>7. \A b \in Buffers :
        b \notin Writes \/ b \in Reads => Delivers(contents[b], b, pc)
  BY <1>2, <1>6 DEF Inv, ContentsDelivered
<1>8. TypeOK'
  <2>1. contents' \in [Buffers -> 0..Len(program)]
    BY <1>1, <1>2 DEF Put, Inv, TypeOK
  <2>2. \A c \in commands' :
          /\ c.at \in 1..Len(program)
          /\ c.writes \subseteq Buffers /\ DOMAIN c.inputs \subseteq Buffers
    BY <1>1, <1>2, <1>3 DEF Inv, TypeOK
  <2>3. pc' \in 1..(Len(program) + 1)
    BY <1>1, <1>2
  <2> QED BY <1>1, <2>1, <2>2, <2>3 DEF Inv, TypeOK
<1>9. Issued'
  <2>1. \A c \in commands' : c.at < pc'
    BY <1>1, <1>2, <1>3
  <2>2. \A c, d \in commands' : c.at = d.at => c = d
    BY <1>1, <1>2, <1>3 DEF Inv, Issued
  <2>3. \A b \in Buffers : contents'[b] < pc'
    BY <1>1, <1>2, <1>4, <1>5
  <2>4. \A c \in commands' : \A b \in DOMAIN c.inputs : c.inputs[b] \in Nat
    BY <1>1, <1>2, <1>3, <1>4 DEF Inv, Issued
  <2> QED BY <2>1, <2>2, <2>3, <2>4 DEF Issued
<1>10. ContentsDelivered'
  <2>1. SUFFICES ASSUME NEW b \in Buffers
                 PROVE  Delivers(contents[b], b, pc)'
    BY DEF ContentsDelivered
  <2>2. CASE b \in Writes
    <3>1. contents'[b] = new.at /\ new \in commands' /\ b \in new.writes
      BY <1>1, <1>3, <1>5, <2>2
    <3>2. new.at < pc' /\ \A d \in commands' : d.at <= new.at
      BY <1>1, <1>2, <1>3
    <3> QED BY <3>1, <3>2 DEF Delivers
  <2>3. CASE b \notin Writes
    <3>1. Delivers(contents[b], b, pc + 1)
      BY <1>2, <1>7, <2>3, DeliversToNext
    <3>2. contents'[b] = contents[b] /\ b \notin new.writes
      BY <1>3, <1>5, <2>3
    <3> QED BY <1>1, <3>1, <3>2 DEF Delivers
  <2> QED BY <2>2, <2>3
<1>11. InputsDelivered'
  <2>1. SUFFICES ASSUME NEW c \in commands', NEW b \in DOMAIN c.inputs
                 PROVE  /\ c.inputs[b] < c.at
                        /\ Delivers(c.inputs[b], b, c.at)'
    BY DEF InputsDelivered
  <2>2. CASE c \in commands
    <3>1. c.inputs[b] < c.at /\ Delivers(c.inputs[b], b, c.at)
      BY <2>2 DEF Inv, InputsDelivered
    <3>2. ~(new.at < c.at) /\ new.at >= c.at
      BY <1>2, <1>3, <2>2
    <3> QED BY <1>1, <3>1, <3>2 DEF Delivers
  <2>3. CASE c = new
    <3>1. b \in Buffers /\ b \in Reads /\ c.inputs[b] = contents[b] /\ c.at = pc
      BY <1>2, <1>3, <2>3
    <3>2. Delivers(contents[b], b, pc)
      BY <1>7, <3>1
    <3>3. ~(new.at < pc) /\ new.at >= pc
      BY <1>2, <1>3
    <3> QED BY <1>1, <1>4, <3>1, <3>2, <3>3 DEF Delivers
  <2> QED BY <1>1, <2>2, <2>3
<1>12. ScratchPending'
  <2>1. SUFFICES ASSUME graphActive, NEW c \in commands', NEW b \in DOMAIN c.inputs,
                        Zeroed(program, b)
                 PROVE  Pending(c.inputs[b], b)'
    BY <1>1 DEF ScratchPending
  <2>2. CASE c \in commands
    BY <1>1, <1>2, <2>1, <2>2 DEF Inv, ScratchPending, Pending
  <2>3. CASE c = new
    <3>1. b \in Reads /\ c.inputs[b] = contents[b]
      BY <1>3, <2>3
    <3>2. pc > 2 /\ program[pc - 2].kind = "zero" /\ b \in program[pc - 2].writes
      BY <1>2, <2>1, <3>1, ScratchReader DEF Inv, Reads
    <3>3. contents[b] = pc - 1 /\ Pending(pc - 1, b)
      BY <1>2, <2>1, <3>2 DEF Inv, ScratchFilled
    <3> QED BY <1>1, <3>1, <3>3 DEF Pending
  <2> QED BY <1>1, <2>2, <2>3
<1>13. ScratchFilled'
  <2>1. SUFFICES ASSUME pc' > 2, program[pc' - 2].kind = "zero",
                        NEW b \in program[pc' - 2].writes
                 PROVE  contents'[b] = pc' - 1 /\ Pending(pc - 1, b)'
    BY <1>1 DEF ScratchFilled
  <2>2. pc' - 2 = pc - 1 /\ pc' - 1 = pc /\ pc > 1
    BY <1>1, <1>2, <2>1
  <2>3. JustZeroed(b)
    BY <2>1, <2>2 DEF JustZeroed
  <2>4. b \in Writes /\ b \in Buffers
    BY <1>2, <2>3, JustZeroedIsFilled DEF Writes
  <2>5. contents'[b] = pc /\ new \in commands' /\ new.at = pc /\ b \in new.writes
    BY <1>1, <1>3, <1>5, <2>4
  <2> QED BY <2>2, <2>5 DEF Pending
<1>14. NothingStale'
  BY <1>1 DEF Inv, NothingStale
<1> QED BY <1>1, <1>8, <1>9, <1>10, <1>11, <1>12, <1>13, <1>14 DEF Inv

-----------------------------------------------------------------------------
(* A host copy runs with nothing pending. *)
LEMMA HostCopyAlone ==
  ASSUME Inv, NEW kind \in Flushing, Issues(kind), ~MustFlush
  PROVE  /\ commands = {} /\ ~graphActive
         /\ \A b \in Buffers : mem[b] = contents[b]
PROOF
<1>1. kind # "kernel"
  BY DEF Flushing
<1>2. ~graphActive /\ ~waiting /\ status = "running"
  BY DEF Issues, MustFlush
<1> QED BY <1>1, <1>2, NothingPending, OnlyKernelFollowsZero

(* After an operation that leaves memory as program order has it and *)
(* nothing pending, the invariant is about the types alone.          *)
LEMMA SettledInv ==
  ASSUME Inv, TypeOK', program' = program, commands' = {}, graphActive' = FALSE,
         \A b \in Buffers : /\ mem'[b] = contents'[b]
                            /\ contents'[b] < pc'
  PROVE  Inv'
PROOF
<1>1. ContentsDelivered' /\ InputsDelivered' /\ ScratchPending' /\ ScratchFilled'
  BY DEF ContentsDelivered, InputsDelivered, ScratchPending, ScratchFilled, Delivers
<1>2. NothingStale'
  <2>1. contents' \in [Buffers -> 0..Len(program)']
    BY DEF TypeOK
  <2>2. Len(program) \in Nat
    BY ProgramTyped DEF Inv
  <2>3. \A b \in Buffers : contents'[b] # Stale
    BY <2>1, <2>2 DEF Stale
  <2> QED BY <2>3 DEF NothingStale
<1>3. Issued'
  BY DEF Issued
<1> QED BY <1>1, <1>2, <1>3 DEF Inv

(* Host data replaces what a buffer holds. *)
LEMMA UploadInv == Inv /\ Upload => Inv'
PROOF
<1> SUFFICES ASSUME Inv, Upload PROVE Inv'
  OBVIOUS
<1>1. /\ Issues("upload") /\ ~MustFlush
      /\ pc' = pc + 1 /\ mem' = Put(mem, Writes, pc)
      /\ contents' = Put(contents, Writes, pc)
      /\ UNCHANGED <<program, status, commands, graphActive, waiting, guard, host>>
  BY DEF Upload, Completes
<1>2. /\ commands = {} /\ ~graphActive
      /\ \A b \in Buffers : mem[b] = contents[b]
  BY <1>1, HostCopyAlone DEF Flushing
<1>3. /\ pc \in 1..Len(program) /\ pc \in Nat /\ Len(program) \in Nat
      /\ pc' \in 1..(Len(program) + 1)
  BY <1>1, IssuedTyped
<1>4. \A b \in Buffers : mem'[b] = contents'[b] /\ contents'[b] < pc'
  BY <1>1, <1>2, <1>3, ContentsTyped DEF Put
<1>5. TypeOK'
  <2>1. /\ contents' \in [Buffers -> 0..Len(program)]
        /\ mem' \in [Buffers -> 0..Len(program) \cup {Stale}]
    BY <1>1, <1>3 DEF Put, Inv, TypeOK
  <2> QED BY <1>1, <1>2, <1>3, <2>1 DEF Inv, TypeOK
<1>6. graphActive' = FALSE
  BY <1>1, <1>2 DEF Inv, TypeOK
<1> QED BY <1>1, <1>2, <1>4, <1>5, <1>6, SettledInv

(* The host reads what memory holds. *)
LEMMA DownloadInv == Inv /\ Download => Inv'
PROOF
<1> SUFFICES ASSUME Inv, Download PROVE Inv'
  OBVIOUS
<1>1. /\ Issues("download") /\ ~MustFlush
      /\ pc' = pc + 1 /\ contents' = contents
      /\ \E b \in Reads : host' = mem[b]
      /\ UNCHANGED <<program, status, mem, commands, graphActive, waiting, guard>>
  BY DEF Download, Completes, Put, Inv, TypeOK
<1>2. /\ commands = {} /\ ~graphActive
      /\ \A b \in Buffers : mem[b] = contents[b]
  BY <1>1, HostCopyAlone DEF Flushing
<1>3. /\ pc \in 1..Len(program) /\ pc \in Nat /\ Len(program) \in Nat
      /\ pc' \in 1..(Len(program) + 1) /\ Reads \subseteq Buffers
  BY <1>1, IssuedTyped
<1>4. \A b \in Buffers : mem'[b] = contents'[b] /\ contents'[b] < pc'
  BY <1>1, <1>2, <1>3, ContentsTyped
<1>5. TypeOK'
  <2>1. host' \in 0..Len(program) \cup {Stale}
    BY <1>1, <1>3 DEF Inv, TypeOK
  <2> QED BY <1>1, <1>2, <1>3, <2>1 DEF Inv, TypeOK
<1>6. graphActive' = FALSE
  BY <1>1, <1>2 DEF Inv, TypeOK
<1> QED BY <1>1, <1>2, <1>4, <1>5, <1>6, SettledInv

(* A copied region is as current as its source. *)
LEMMA MoveInv == Inv /\ Move => Inv'
PROOF
<1> SUFFICES ASSUME Inv, Move PROVE Inv'
  OBVIOUS
<1>1. /\ Issues("move") /\ ~MustFlush
      /\ pc' = pc + 1
      /\ mem' = Put(mem, Writes,
                    IF \A b \in Reads : mem[b] = contents[b] THEN pc ELSE Stale)
      /\ contents' = Put(contents, Writes, pc)
      /\ UNCHANGED <<program, status, commands, graphActive, waiting, guard, host>>
  BY DEF Move, Completes
<1>2. /\ commands = {} /\ ~graphActive
      /\ \A b \in Buffers : mem[b] = contents[b]
  BY <1>1, HostCopyAlone DEF Flushing
<1>3. /\ pc \in 1..Len(program) /\ pc \in Nat /\ Len(program) \in Nat
      /\ pc' \in 1..(Len(program) + 1) /\ Reads \subseteq Buffers
  BY <1>1, IssuedTyped
<1>4. mem' = Put(mem, Writes, pc)
  BY <1>1, <1>2, <1>3
<1>5. \A b \in Buffers : mem'[b] = contents'[b] /\ contents'[b] < pc'
  BY <1>1, <1>2, <1>3, <1>4, ContentsTyped DEF Put
<1>6. TypeOK'
  <2>1. /\ contents' \in [Buffers -> 0..Len(program)]
        /\ mem' \in [Buffers -> 0..Len(program) \cup {Stale}]
    BY <1>1, <1>3, <1>4 DEF Put, Inv, TypeOK
  <2> QED BY <1>1, <1>2, <1>3, <2>1 DEF Inv, TypeOK
<1>7. graphActive' = FALSE
  BY <1>1, <1>2 DEF Inv, TypeOK
<1> QED BY <1>1, <1>2, <1>5, <1>6, <1>7, SettledInv

-----------------------------------------------------------------------------
(* zero_buffer overtakes the pending kernels, none of which misses what it *)
(* overwrites: those that read the buffer read what one of them writes.    *)
LEMMA ZeroInv == Inv /\ Zero => Inv'
PROOF
<1> SUFFICES ASSUME Inv, Zero PROVE Inv'
  OBVIOUS
<1>1. /\ Issues("zero")
      /\ pc' = pc + 1 /\ mem' = Put(mem, Writes, pc)
      /\ contents' = Put(contents, Writes, pc)
      /\ UNCHANGED <<program, status, commands, graphActive, waiting, guard, host>>
  BY DEF Zero, Completes
<1>2. /\ status = "running" /\ ~waiting
      /\ pc \in DOMAIN program /\ pc \in 1..Len(program) /\ pc \in Nat
      /\ pc' \in 1..(Len(program) + 1)
      /\ Len(program) \in Nat /\ program[pc].kind = "zero"
      /\ \A c \in commands : c.at \in Nat /\ c.at < pc
  BY <1>1, IssuedTyped
<1>3. /\ \A b : ~JustZeroed(b)
      /\ pc > 1 => program[pc - 1].kind # "zero"
  BY <1>1, OnlyKernelFollowsZero
<1>4. \A b \in Buffers :
        /\ contents'[b] = IF b \in Writes THEN pc ELSE contents[b]
        /\ mem'[b] = IF b \in Writes THEN pc ELSE mem[b]
  BY <1>1 DEF Put
<1>5. TypeOK'
  <2>1. /\ contents' \in [Buffers -> 0..Len(program)]
        /\ mem' \in [Buffers -> 0..Len(program) \cup {Stale}]
    BY <1>1, <1>2 DEF Put, Inv, TypeOK
  <2> QED BY <1>1, <1>2, <2>1 DEF Inv, TypeOK
<1>6. Issued'
  <2>1. /\ \A c \in commands' : c.at < pc'
        /\ \A b \in Buffers : contents'[b] < pc'
    BY <1>1, <1>2, <1>4, ContentsTyped
  <2>2. /\ \A c, d \in commands' : c.at = d.at => c = d
        /\ \A c \in commands' : \A b \in DOMAIN c.inputs : c.inputs[b] \in Nat
    BY <1>1 DEF Inv, Issued
  <2> QED BY <2>1, <2>2 DEF Issued
<1>7. ContentsDelivered'
  <2>1. SUFFICES ASSUME NEW b \in Buffers, ~JustZeroed(b)'
                 PROVE  Delivers(contents[b], b, pc)'
    BY DEF ContentsDelivered
  <2>2. b \notin Writes
    <3>1. pc' > 1 /\ pc' - 1 = pc /\ program' = program
      BY <1>1, <1>2
    <3> QED BY <1>2, <2>1, <3>1 DEF JustZeroed, Writes
  <2>3. Delivers(contents[b], b, pc)
    BY <1>2, <1>3 DEF Inv, ContentsDelivered
  <2>4. Delivers(contents[b], b, pc + 1)
    BY <1>2, <2>3, DeliversToNext
  <2> QED BY <1>1, <1>4, <2>2, <2>4 DEF Delivers
<1>8. InputsDelivered'
  <2>1. SUFFICES ASSUME NEW c \in commands, NEW b \in DOMAIN c.inputs
                 PROVE  /\ c.inputs[b] < c.at
                        /\ Delivers(c.inputs[b], b, c.at)'
    BY <1>1 DEF InputsDelivered
  <2>2. /\ c.inputs[b] < c.at /\ Delivers(c.inputs[b], b, c.at)
        /\ b \in Buffers /\ c.at \in Nat /\ c.inputs[b] \in Nat
    BY <1>2 DEF Inv, InputsDelivered, TypeOK, Issued
  <2>3. CASE b \notin Writes
    BY <1>1, <1>4, <2>2, <2>3 DEF Delivers
  <2>4. CASE b \in Writes
    <3>1. Zeroed(program, b)
      BY <1>2, <2>4 DEF Zeroed, Writes
    <3>2. PICK w \in commands : w.at = c.inputs[b] /\ b \in w.writes
      BY <1>2, <3>1 DEF Inv, ScratchPending, Pending
    <3>3. ~(w.at >= c.at)
      BY <2>2, <3>2
    <3> QED BY <1>1, <2>2, <3>2, <3>3 DEF Delivers
  <2> QED BY <2>3, <2>4
<1>9. ScratchPending'
  BY <1>1 DEF Inv, ScratchPending, Pending
<1>10. ScratchFilled'
  <2>1. pc' - 2 = pc - 1 /\ (pc' > 2 => pc > 1)
    BY <1>1, <1>2
  <2> QED BY <1>1, <1>3, <2>1 DEF ScratchFilled
<1>11. NothingStale'
  BY <1>2, <1>4 DEF Inv, NothingStale, Stale
<1> QED BY <1>1, <1>5, <1>6, <1>7, <1>8, <1>9, <1>10, <1>11 DEF Inv

(* The first pending kernel finds its inputs in memory; the others find    *)
(* what it writes.                                                         *)
LEMMA ExecuteInv == Inv /\ Execute => Inv'
PROOF
<1> SUFFICES ASSUME Inv, Execute PROVE Inv'
  OBVIOUS
<1>1. PICK c \in commands :
        /\ \A d \in commands : c.at <= d.at
        /\ mem' = Put(mem, c.writes,
                      IF \A b \in DOMAIN c.inputs : mem[b] = c.inputs[b]
                      THEN c.at ELSE Stale)
        /\ commands' = commands \ {c}
  BY DEF Execute
<1>2. /\ waiting
      /\ UNCHANGED <<program, pc, graphActive, waiting, guard, status, contents, host>>
  BY DEF Execute
<1>3. Len(program) \in Nat /\ pc \in Nat
  BY ProgramTyped DEF Inv, TypeOK
<1>4. /\ \A d \in commands : d.at \in Nat /\ d.at < pc
      /\ c.at \in 1..Len(program)
  BY <1>3 DEF Inv, TypeOK, Issued
<1>5. \A b \in DOMAIN c.inputs : mem[b] = c.inputs[b]
  <2>1. SUFFICES ASSUME NEW b \in DOMAIN c.inputs PROVE mem[b] = c.inputs[b]
    OBVIOUS
  <2>2. c.inputs[b] < c.at /\ Delivers(c.inputs[b], b, c.at)
    BY DEF Inv, InputsDelivered
  <2>3. \A d \in commands : ~(d.at < c.at)
    BY <1>1, <1>4
  <2> QED BY <2>2, <2>3 DEF Delivers
<1>6. mem' = Put(mem, c.writes, c.at)
  BY <1>1, <1>5
<1>7. \A d \in commands' : d \in commands /\ c.at < d.at
  BY <1>1, <1>4 DEF Inv, Issued
<1>8. ASSUME NEW v, NEW b \in Buffers, NEW n \in Nat, c.at < n, Delivers(v, b, n)
      PROVE  Delivers(v, b, n)'
  <2>1. mem'[b] = IF b \in c.writes THEN c.at ELSE mem[b]
    BY <1>6 DEF Put
  <2>2. CASE mem[b] = v /\ \A d \in commands : b \in d.writes => d.at >= n
    <3>1. b \notin c.writes
      BY <1>4, <1>8, <2>2
    <3> QED BY <1>7, <2>1, <2>2, <3>1 DEF Delivers
  <2>3. CASE \E e \in commands :
               /\ e.at = v /\ b \in e.writes /\ v < n
               /\ \A d \in commands : b \in d.writes /\ d.at < n => d.at <= v
    <3>1. PICK e \in commands :
               /\ e.at = v /\ b \in e.writes /\ v < n
               /\ \A d \in commands : b \in d.writes /\ d.at < n => d.at <= v
      BY <2>3
    <3>2. CASE e = c
      <4>1. mem'[b] = v
        BY <2>1, <3>1, <3>2
      <4>2. ASSUME NEW d \in commands', b \in d.writes
            PROVE  d.at >= n
        <5>1. d \in commands /\ v < d.at /\ d.at \in Nat /\ v \in Nat
          BY <1>4, <1>7, <3>1, <3>2
        <5>2. d.at < n => d.at <= v
          BY <3>1, <4>2, <5>1
        <5> QED BY <1>8, <5>1, <5>2
      <4> QED BY <4>1, <4>2 DEF Delivers
    <3>3. CASE e # c
      <4>1. e \in commands'
        BY <1>1, <3>3
      <4> QED BY <1>7, <3>1, <4>1 DEF Delivers
    <3> QED BY <3>2, <3>3
  <2> QED BY <1>8, <2>2, <2>3 DEF Delivers
<1>9. TypeOK'
  <2>1. c.writes \subseteq Buffers
    BY DEF Inv, TypeOK
  <2>2. mem' \in [Buffers -> 0..Len(program) \cup {Stale}]
    BY <1>3, <1>4, <1>6, <2>1 DEF Put, Inv, TypeOK
  <2> QED BY <1>2, <1>7, <2>2 DEF Inv, TypeOK
<1>10. Issued'
  BY <1>2, <1>7 DEF Inv, Issued
<1>11. ContentsDelivered'
  <2>1. SUFFICES ASSUME status = "running", NEW b \in Buffers, ~JustZeroed(b)
                 PROVE  Delivers(contents[b], b, pc)'
    BY <1>2 DEF ContentsDelivered, JustZeroed
  <2>2. Delivers(contents[b], b, pc) /\ c.at < pc
    BY <1>4, <2>1 DEF Inv, ContentsDelivered
  <2> QED BY <1>2, <1>3, <1>8, <2>2 DEF Delivers
<1>12. InputsDelivered'
  <2>1. SUFFICES ASSUME NEW d \in commands', NEW b \in DOMAIN d.inputs
                 PROVE  /\ d.inputs[b] < d.at
                        /\ Delivers(d.inputs[b], b, d.at)'
    BY DEF InputsDelivered
  <2>2. /\ d.inputs[b] < d.at /\ Delivers(d.inputs[b], b, d.at)
        /\ b \in Buffers /\ d.at \in Nat /\ c.at < d.at
    BY <1>4, <1>7 DEF Inv, InputsDelivered, TypeOK
  <2> QED BY <1>8, <2>2
<1>13. ScratchPending' /\ ScratchFilled'
  BY <1>2 DEF Inv, TypeOK, ScratchPending, ScratchFilled
<1>14. NothingStale'
  <2>1. \A b \in Buffers : mem'[b] = IF b \in c.writes THEN c.at ELSE mem[b]
    BY <1>6 DEF Put
  <2> QED BY <1>4, <2>1 DEF Inv, NothingStale, Stale
<1> QED BY <1>2, <1>9, <1>10, <1>11, <1>12, <1>13, <1>14 DEF Inv

-----------------------------------------------------------------------------
(* The wait ends with nothing pending. *)
LEMMA WaitEndsInv == Inv /\ WaitEnds => Inv'
PROOF
<1> SUFFICES ASSUME Inv, WaitEnds PROVE Inv'
  OBVIOUS
<1>1. /\ waiting /\ commands = {} /\ waiting' = FALSE /\ graphActive' = graphActive
      /\ UNCHANGED <<program, pc, mem, commands, guard, status, contents, host>>
  BY DEF WaitEnds
<1>2. ~graphActive
  BY <1>1 DEF Inv, TypeOK
<1>3. TypeOK'
  BY <1>1 DEF Inv, TypeOK
<1>4. ContentsDelivered' /\ InputsDelivered'
  BY <1>1 DEF Inv, ContentsDelivered, InputsDelivered, Delivers, JustZeroed
<1>5. Issued' /\ ScratchPending' /\ ScratchFilled' /\ NothingStale'
  BY <1>1, <1>2 DEF Inv, Issued, ScratchPending, ScratchFilled, NothingStale
<1> QED BY <1>1, <1>3, <1>4, <1>5 DEF Inv

(* A request that is over issues nothing; what is left of its commands     *)
(* does not run.                                                           *)
LEMMA EndInv ==
  ASSUME Inv, status' # "running", TypeOK', commands' \subseteq commands,
         ~waiting \/ commands' = {}, commands' = commands \/ commands' = {},
         UNCHANGED <<program, pc, mem, contents>>
  PROVE  Inv'
PROOF
<1>1. Issued' /\ NothingStale'
  BY DEF Inv, Issued, NothingStale
<1>2. InputsDelivered' /\ ScratchPending'
  BY DEF Inv, InputsDelivered, ScratchPending, Delivers, Pending
<1>3. ContentsDelivered' /\ ScratchFilled'
  BY DEF ContentsDelivered, ScratchFilled
<1> QED BY <1>1, <1>2, <1>3 DEF Inv

(* A refused begin_graph, an error of the GPU and the end of a scope end   *)
(* the request.                                                            *)
LEMMA BeginRefusedInv == Inv /\ BeginRefused => Inv'
PROOF
<1> SUFFICES ASSUME Inv, BeginRefused PROVE Inv'
  OBVIOUS
<1>1. /\ ~waiting /\ guard' = FALSE /\ status' = "refused"
      /\ UNCHANGED <<program, pc, mem, commands, graphActive, waiting, contents, host>>
  BY DEF BeginRefused, Issues
<1>2. TypeOK'
  BY <1>1 DEF Inv, TypeOK
<1> QED BY <1>1, <1>2, EndInv

LEMMA GpuFailsInv == Inv /\ GpuFails => Inv'
PROOF
<1> SUFFICES ASSUME Inv, GpuFails PROVE Inv'
  OBVIOUS
<1>1. /\ waiting' = FALSE /\ commands' = {} /\ guard' = FALSE
      /\ status' = "failed"
      /\ UNCHANGED <<program, pc, mem, graphActive, contents, host>>
  BY DEF GpuFails
<1>2. TypeOK'
  BY <1>1 DEF Inv, TypeOK
<1> QED BY <1>1, <1>2, EndInv

LEMMA ScopeInv == Inv /\ (HostFails \/ Return) => Inv'
PROOF
<1> SUFFICES ASSUME Inv, HostFails \/ Return PROVE Inv'
  OBVIOUS
<1>1. /\ ~waiting /\ guard' = FALSE /\ status' \in {"ok", "failed"}
      /\ graphActive' = (graphActive /\ ~guard)
      /\ commands' = IF guard THEN {} ELSE commands
      /\ UNCHANGED <<program, pc, mem, waiting, contents, host>>
  BY DEF HostFails, Return, LeaveScope
<1>2. TypeOK'
  <2>1. CASE guard
    <3>1. graphActive' = FALSE /\ commands' = {}
      BY <1>1, <2>1
    <3> QED BY <1>1, <3>1 DEF Inv, TypeOK
  <2>2. CASE ~guard
    <3>1. graphActive' = graphActive /\ commands' = commands
      BY <1>1, <2>2 DEF Inv, TypeOK
    <3> QED BY <1>1, <3>1 DEF Inv, TypeOK
  <2> QED BY <2>1, <2>2
<1> QED BY <1>1, <1>2, EndInv

-----------------------------------------------------------------------------
(* Every step of the context preserves the invariant. *)
LEMMA StepInv == Inv /\ [Next]_vars => Inv'
PROOF
<1> SUFFICES ASSUME Inv, [Next]_vars PROVE Inv'
  OBVIOUS
<1>1. CASE Next
  BY <1>1, BeginInv, BeginRefusedInv, CommitInv, FlushInv, EncodeInv, UploadInv,
     DownloadInv, MoveInv, ZeroInv, ExecuteInv, WaitEndsInv, GpuFailsInv, ScopeInv
  DEF Next
<1>2. CASE UNCHANGED vars
  <2>1. UNCHANGED <<program, pc, mem, commands, graphActive, waiting, guard,
                    status, contents, host>>
    BY <1>2 DEF vars
  <2>2. TypeOK'
    BY <2>1 DEF Inv, TypeOK
  <2>3. ContentsDelivered' /\ InputsDelivered'
    BY <2>1 DEF Inv, ContentsDelivered, InputsDelivered, Delivers, JustZeroed
  <2>4. Issued' /\ NothingStale' /\ ScratchPending' /\ ScratchFilled'
    BY <2>1 DEF Inv, Issued, NothingStale, ScratchPending, ScratchFilled, Pending
  <2> QED BY <2>1, <2>2, <2>3, <2>4 DEF Inv
<1> QED BY <1>1, <1>2

(* The invariant holds in every behaviour. *)
LEMMA Invariance == Spec => []Inv
BY InitInv, StepInv, PTL DEF Spec

(* The variables keep their types; no kernel is pending unless a graph is  *)
(* active or the host waits (command_buffer, commit_graph).                *)
THEOREM TypeCorrect == Spec => []TypeOK
PROOF
<1>1. Inv => TypeOK
  BY DEF Inv
<1> QED BY Invariance, <1>1, PTL

(* Nothing computes from an overtaken or unfilled buffer, although         *)
(* zero_buffer does not commit the graph (attention_f32_batched).          *)
THEOREM NothingIsStale == Spec => []NothingStale
PROOF
<1>1. Inv => NothingStale
  BY DEF Inv
<1> QED BY Invariance, <1>1, PTL

-----------------------------------------------------------------------------
(* A graph that is active while the request runs, or when it has ended     *)
(* without a refusal, has its guard, which ends it with the scope.         *)
Guarded ==
  /\ status = "running" /\ graphActive => guard
  /\ status \in {"ok", "failed"} => ~graphActive

LEMMA StepGuarded == TypeOK /\ Guarded /\ [Next]_vars => Guarded'
PROOF
<1> SUFFICES ASSUME TypeOK, Guarded, [Next]_vars PROVE Guarded'
  OBVIOUS
<1>1. CASE Begin \/ Commit
  BY <1>1 DEF Begin, Commit, CommitGraph, Completes, Issues, Guarded
<1>2. CASE Flush
  BY <1>2 DEF Flush, CommitGraph, Issues, Guarded
<1>3. CASE Encode \/ Upload \/ Download \/ Move \/ Zero
  <2>1. UNCHANGED <<status, graphActive, guard>>
    BY <1>3 DEF Encode, Upload, Download, Move, Zero, Completes
  <2> QED BY <2>1 DEF Guarded
<1>4. CASE BeginRefused
  BY <1>4 DEF BeginRefused, Guarded
<1>5. CASE Execute \/ WaitEnds \/ UNCHANGED vars
  <2>1. UNCHANGED <<status, graphActive, guard>>
    BY <1>5 DEF Execute, WaitEnds, vars
  <2> QED BY <2>1 DEF Guarded
<1>6. CASE GpuFails
  BY <1>6 DEF GpuFails, TypeOK, Guarded
<1>7. CASE HostFails \/ Return
  <2>1. status = "running" /\ status' # "running" /\ graphActive' = (graphActive /\ ~guard)
    BY <1>7 DEF HostFails, Return, LeaveScope
  <2>2. ~(graphActive /\ ~guard)
    BY <2>1 DEF Guarded
  <2>3. graphActive' = FALSE
    BY <2>1, <2>2, Zenon
  <2> QED BY <2>1, <2>3 DEF Guarded
<1> QED BY <1>1, <1>2, <1>3, <1>4, <1>5, <1>6, <1>7 DEF Next

(* However a request ends, but by a refused begin_graph, its context has   *)
(* no active graph (MpsGraphGuard, commit_graph).                          *)
THEOREM GraphsAreClosed == Spec => []GraphIsClosed
PROOF
<1>1. Init => Guarded
  BY DEF Init, Guarded
<1>2. Guarded => GraphIsClosed
  BY DEF Guarded, GraphIsClosed
<1> QED BY <1>1, <1>2, StepGuarded, TypeCorrect, PTL DEF Spec

-----------------------------------------------------------------------------
(* Every operation that is issued is one of the eager device, and what a   *)
(* copy_from_buffer returns is what that device returns.                   *)
LEMMA StepSimulates == Inv /\ [Next]_vars => [Eager!Next]_(Eager!vars)
PROOF
<1> SUFFICES ASSUME Inv, [Next]_vars PROVE [Eager!Next]_(Eager!vars)
  OBVIOUS
<1>1. ASSUME NEW bs, Completes(bs), UNCHANGED host, pc \in Nat
      PROVE  Eager!Write
  <2>1. contents' = [b \in Buffers |-> IF b \in bs THEN pc ELSE contents[b]]
    BY <1>1 DEF Completes, Put
  <2>2. \A b \in Buffers : contents'[b] \in {contents[b], pc}
    BY <2>1
  <2>3. contents' \in [Buffers -> 0..pc]
    BY <1>1, <2>1, ContentsTyped
  <2> QED BY <1>1, <2>2, <2>3 DEF Completes, Eager!Write
<1>2. pc \in Nat
  BY ProgramTyped DEF Inv, TypeOK
<1>3. CASE Begin \/ Commit \/ Encode \/ Upload \/ Move \/ Zero
  BY <1>1, <1>2, <1>3
  DEF Begin, Commit, Encode, Upload, Move, Zero, Eager!Next
<1>4. CASE Download
  <2>1. Issues("download") /\ ~MustFlush
    BY <1>4 DEF Download
  <2>2. Reads \subseteq Buffers /\ \A b \in Buffers : mem[b] = contents[b]
    BY <2>1, IssuedTyped, HostCopyAlone DEF Flushing
  <2>3. /\ pc' = pc + 1 /\ contents' = contents
        /\ \E b \in Reads : host' = mem[b]
    BY <1>4 DEF Download, Completes, Put, Inv, TypeOK
  <2>4. PICK b \in Buffers : host' = contents[b]
    BY <2>2, <2>3
  <2> QED BY <2>3, <2>4 DEF Eager!Read, Eager!Next
<1>5. CASE BeginRefused \/ Flush \/ Execute \/ WaitEnds \/ GpuFails \/ HostFails
           \/ Return
  BY <1>5 DEF BeginRefused, Flush, Execute, WaitEnds, GpuFails, HostFails,
              Return, Eager!vars
<1>6. CASE UNCHANGED vars
  BY <1>6 DEF vars, Eager!vars
<1> QED BY <1>3, <1>4, <1>5, <1>6 DEF Next

(* Deferring kernels to a graph is invisible to the host.                  *)
THEOREM RefinesEagerDevice == Spec => ImplementsEagerDevice
PROOF
<1>1. Init => Eager!Init
  BY DEF Init, Eager!Init
<1> QED BY <1>1, StepSimulates, Invariance, PTL
        DEF Spec, ImplementsEagerDevice, Eager!Spec

-----------------------------------------------------------------------------
(* The operations on the buffers of generate_qwen35_metal. *)
GpuOp == [kind : Kinds, reads : SUBSET GpuBuffers, writes : SUBSET GpuBuffers]

(* Only the padded tail is zeroed: the next operation, a kernel, fills it,  *)
(* and the one after that is the only one to read it.                       *)
TidyAt(ops, i) ==
  /\ ops[i].kind = "zero" =>
       /\ i + 1 \in 1..Len(ops)
       /\ ops[i + 1].kind = "kernel"
       /\ ops[i].writes \subseteq {"tail"} /\ "tail" \in ops[i + 1].writes
  /\ "tail" \in ops[i].reads =>
       /\ ops[i].kind = "kernel" /\ i > 2
       /\ ops[i - 2].kind = "zero" /\ "tail" \in ops[i - 2].writes

Tidy(ops) == \A i \in 1..Len(ops) : TidyAt(ops, i)

(* Whether a graph may be open before and after each of some operations. *)
Follows(open, ops) ==
  \A i \in 1..Len(ops) :
    CASE ops[i].kind = "begin"  -> ~open[i - 1] /\ open[i]
      [] ops[i].kind = "commit" -> ~open[i]
      [] OTHER                  -> open[i] = open[i - 1]

Leads(ops, a, b) ==
  \E open \in [0..Len(ops) -> BOOLEAN] :
    open[0] = a /\ open[Len(ops)] = b /\ Follows(open, ops)

(* Operations that may be issued with a graph open or not (a), and leave    *)
(* one open or not (b).                                                     *)
Lawful(ops, a, b) == ops \in Seq(GpuOp) /\ Tidy(ops) /\ Leads(ops, a, b)

(* Some operations and then others. *)
LEMMA Join ==
  ASSUME NEW x, NEW y, NEW a, NEW b, NEW c, Lawful(x, a, b), Lawful(y, b, c)
  PROVE  Lawful(x \o y, a, c)
PROOF
<1>1. x \in Seq(GpuOp) /\ y \in Seq(GpuOp) /\ Tidy(x) /\ Tidy(y)
  BY DEF Lawful
<1>2. PICK m \in Nat, n \in Nat : m = Len(x) /\ n = Len(y)
  BY <1>1
<1>3. PICK z : z = x \o y
  OBVIOUS
<1>4. /\ z \in Seq(GpuOp) /\ Len(z) = m + n
      /\ \A i \in 1..(m + n) : z[i] = IF i <= m THEN x[i] ELSE y[i - m]
  BY <1>1, <1>2, <1>3, ConcatProperties
<1>5. (\A i \in 1..m : z[i] = x[i]) /\ (\A i \in 1..n : z[m + i] = y[i])
  BY <1>4
<1>6. ASSUME NEW i \in 1..(m + n) PROVE i \in 1..m \/ \E j \in 1..n : i = m + j
  <2>1. i > m => i - m \in 1..n /\ i = m + (i - m)
    OBVIOUS
  <2> QED BY <2>1
<1>7. Tidy(z)
  <2>1. ASSUME NEW i \in 1..m PROVE TidyAt(z, i)
    <3>1. TidyAt(x, i) /\ z[i] = x[i]
      BY <1>1, <1>2, <1>5 DEF Tidy
    <3>2. z[i].kind = "zero" =>
            /\ i + 1 \in 1..(m + n) /\ z[i + 1].kind = "kernel"
            /\ z[i].writes \subseteq {"tail"} /\ "tail" \in z[i + 1].writes
      BY <1>2, <1>5, <3>1 DEF TidyAt
    <3>3. "tail" \in z[i].reads =>
            /\ z[i].kind = "kernel" /\ i > 2
            /\ z[i - 2].kind = "zero" /\ "tail" \in z[i - 2].writes
      <4>1. i > 2 => i - 2 \in 1..m
        OBVIOUS
      <4> QED BY <1>5, <3>1, <4>1 DEF TidyAt
    <3> QED BY <1>4, <3>2, <3>3 DEF TidyAt
  <2>2. ASSUME NEW j \in 1..n PROVE TidyAt(z, m + j)
    <3>1. TidyAt(y, j) /\ z[m + j] = y[j]
      BY <1>1, <1>2, <1>5 DEF Tidy
    <3>2. y[j].kind = "zero" =>
            /\ m + j + 1 \in 1..(m + n) /\ z[m + j + 1].kind = "kernel"
            /\ y[j].writes \subseteq {"tail"} /\ "tail" \in z[m + j + 1].writes
      <4> SUFFICES ASSUME y[j].kind = "zero"
                   PROVE  /\ m + j + 1 \in 1..(m + n) /\ z[m + j + 1].kind = "kernel"
                          /\ y[j].writes \subseteq {"tail"} /\ "tail" \in z[m + j + 1].writes
        OBVIOUS
      <4>1. /\ j + 1 \in 1..n /\ y[j + 1].kind = "kernel"
            /\ y[j].writes \subseteq {"tail"} /\ "tail" \in y[j + 1].writes
        BY <1>2, <3>1 DEF TidyAt
      <4>2. z[m + (j + 1)] = y[j + 1]
        BY <1>5, <4>1
      <4>3. m + (j + 1) = m + j + 1 /\ m + j + 1 \in 1..(m + n)
        BY <4>1
      <4> QED BY <4>1, <4>2, <4>3
    <3>3. "tail" \in y[j].reads =>
            /\ y[j].kind = "kernel" /\ m + j > 2
            /\ z[m + j - 2].kind = "zero" /\ "tail" \in z[m + j - 2].writes
      <4> SUFFICES ASSUME "tail" \in y[j].reads
                   PROVE  /\ y[j].kind = "kernel" /\ m + j > 2
                          /\ z[m + j - 2].kind = "zero" /\ "tail" \in z[m + j - 2].writes
        OBVIOUS
      <4>1. /\ y[j].kind = "kernel" /\ j > 2
            /\ y[j - 2].kind = "zero" /\ "tail" \in y[j - 2].writes
        BY <3>1 DEF TidyAt
      <4>2. j - 2 \in 1..n /\ m + (j - 2) = m + j - 2 /\ m + j > 2
        BY <4>1
      <4>3. z[m + (j - 2)] = y[j - 2]
        BY <1>5, <4>2
      <4> QED BY <4>1, <4>2, <4>3
    <3> QED BY <1>4, <3>1, <3>2, <3>3 DEF TidyAt
  <2>3. \A i \in 1..(m + n) : TidyAt(z, i)
    BY <1>6, <2>1, <2>2
  <2> QED BY <1>4, <2>3 DEF Tidy
<1>8. Leads(z, a, c)
  <2>1. PICK o \in [0..m -> BOOLEAN] : o[0] = a /\ o[m] = b /\ Follows(o, x)
    BY <1>2 DEF Lawful, Leads
  <2>2. PICK p \in [0..n -> BOOLEAN] : p[0] = b /\ p[n] = c /\ Follows(p, y)
    BY <1>2 DEF Lawful, Leads
  <2> DEFINE q == [i \in 0..(m + n) |-> IF i <= m THEN o[i] ELSE p[i - m]]
  <2>3. q \in [0..(m + n) -> BOOLEAN]
    OBVIOUS
  <2>4. (\A i \in 0..m : q[i] = o[i]) /\ (\A i \in 0..n : q[m + i] = p[i])
    <3>1. \A i \in 0..m : q[i] = o[i]
      OBVIOUS
    <3>2. ASSUME NEW i \in 0..n PROVE q[m + i] = p[i]
      <4>1. CASE i = 0
        <5>1. m + i = m /\ m \in 0..m
          BY <4>1
        <5> QED BY <2>1, <2>2, <3>1, <4>1, <5>1
      <4>2. CASE i # 0
        <5>1. m + i \in 0..(m + n) /\ ~(m + i <= m) /\ m + i - m = i
          BY <4>2
        <5> QED BY <5>1
      <4> QED BY <4>1, <4>2
    <3> QED BY <3>1, <3>2
  <2> HIDE DEF q
  <2>5. q[0] = a /\ q[m + n] = c
    BY <2>1, <2>2, <2>4
  <2>6. Follows(q, z)
    <3> DEFINE Fits(i) ==
                 CASE z[i].kind = "begin"  -> ~q[i - 1] /\ q[i]
                   [] z[i].kind = "commit" -> ~q[i]
                   [] OTHER                -> q[i] = q[i - 1]
    <3>1. ASSUME NEW i \in 1..m PROVE Fits(i)
      <4>1. z[i] = x[i] /\ q[i] = o[i] /\ q[i - 1] = o[i - 1]
        BY <1>5, <2>4
      <4> QED BY <1>2, <2>1, <4>1 DEF Follows
    <3>2. ASSUME NEW j \in 1..n PROVE Fits(m + j)
      <4>1. z[m + j] = y[j] /\ q[m + j] = p[j]
        BY <1>5, <2>4
      <4>2. j - 1 \in 0..n /\ m + j - 1 = m + (j - 1)
        OBVIOUS
      <4>3. q[m + j - 1] = p[j - 1]
        BY <2>4, <4>2
      <4> QED BY <1>2, <2>2, <4>1, <4>3 DEF Follows
    <3> HIDE DEF Fits
    <3>3. \A i \in 1..(m + n) : Fits(i)
      BY <1>6, <3>1, <3>2
    <3> QED BY <1>4, <3>3 DEF Follows, Fits
  <2> QED BY <1>4, <2>3, <2>5, <2>6 DEF Leads
<1> QED BY <1>3, <1>4, <1>7, <1>8 DEF Lawful

(* No operations. *)
LEMMA Nothing ==
  ASSUME NEW a \in BOOLEAN
  PROVE  Lawful(<<>>, a, a)
PROOF
<1>1. <<>> \in Seq(GpuOp) /\ Len(<<>>) = 0
  BY EmptySeq
<1>2. [i \in 0..0 |-> a] \in [0..0 -> BOOLEAN] /\ [i \in 0..0 |-> a][0] = a
  OBVIOUS
<1>3. Follows([i \in 0..0 |-> a], <<>>)
  BY <1>1 DEF Follows
<1>4. Leads(<<>>, a, a)
  BY <1>1, <1>2, <1>3 DEF Leads
<1> QED BY <1>1, <1>4 DEF Lawful, Tidy

(* One operation that has nothing to do with graphs or the tail. *)
LEMMA One ==
  ASSUME NEW a \in BOOLEAN, NEW kind \in Kinds \ {"begin", "commit", "zero"},
         NEW reads \in SUBSET (GpuBuffers \ {"tail"}), NEW writes \in SUBSET GpuBuffers
  PROVE  Lawful(<<OpOf(kind, reads, writes)>>, a, a)
PROOF
<1>1. PICK op : op = OpOf(kind, reads, writes)
  OBVIOUS
<1>2. op \in GpuOp /\ op.kind = kind /\ "tail" \notin op.reads
  BY <1>1 DEF OpOf, GpuOp
<1>3. <<op>> \in Seq(GpuOp) /\ Len(<<op>>) = 1 /\ <<op>>[1] = op
  BY <1>2
<1>4. Tidy(<<op>>)
  BY <1>2, <1>3 DEF Tidy, TidyAt
<1>5. PICK open : open = [i \in 0..1 |-> a]
  OBVIOUS
<1>6. open \in [0..1 -> BOOLEAN] /\ open[0] = a /\ open[1] = a
  BY <1>5
<1>7. Follows(open, <<op>>)
  BY <1>2, <1>3, <1>6 DEF Follows
<1>8. Leads(<<op>>, a, a)
  BY <1>3, <1>6, <1>7 DEF Leads
<1> QED BY <1>1, <1>3, <1>4, <1>8 DEF Lawful

(* A guard begins a graph where none is open, and commits what is open. *)
LEMMA Guards ==
  /\ Lawful(GuardBegin, FALSE, TRUE)
  /\ \A a \in BOOLEAN : Lawful(GuardCommit, a, FALSE)
PROOF
<1>1. ASSUME NEW a \in BOOLEAN, NEW kind \in {"begin", "commit"}, kind = "begin" => a = FALSE
      PROVE  Lawful(<<OpOf(kind, {}, {})>>, a, kind = "begin")
  <2>1. PICK op : op = OpOf(kind, {}, {})
    OBVIOUS
  <2>2. op \in GpuOp /\ op.kind = kind /\ op.reads = {}
    BY <2>1 DEF OpOf, GpuOp, Kinds
  <2>3. <<op>> \in Seq(GpuOp) /\ Len(<<op>>) = 1 /\ <<op>>[1] = op
    BY <2>2
  <2>4. Tidy(<<op>>)
    BY <2>2, <2>3 DEF Tidy, TidyAt
  <2>5. PICK b \in BOOLEAN : b = (kind = "begin")
    OBVIOUS
  <2>6. PICK open : open = [i \in 0..1 |-> IF i = 0 THEN a ELSE b]
    OBVIOUS
  <2>7. open \in [0..1 -> BOOLEAN] /\ open[0] = a /\ open[1] = b
    BY <2>6
  <2>8. Follows(open, <<op>>)
    BY <1>1, <2>2, <2>3, <2>5, <2>7 DEF Follows
  <2>9. Leads(<<op>>, a, b)
    BY <2>3, <2>7, <2>8 DEF Leads
  <2> QED BY <2>1, <2>3, <2>4, <2>5, <2>9 DEF Lawful
<1>2. Lawful(GuardBegin, FALSE, TRUE)
  <2>1. Lawful(<<OpOf("begin", {}, {})>>, FALSE, "begin" = "begin")
    BY <1>1
  <2>2. ("begin" = "begin") = TRUE
    OBVIOUS
  <2> QED BY <2>1, <2>2 DEF GuardBegin
<1>3. ASSUME NEW a \in BOOLEAN PROVE Lawful(GuardCommit, a, FALSE)
  <2>1. Lawful(<<OpOf("commit", {}, {})>>, a, "commit" = "begin")
    BY <1>1
  <2>2. ("commit" = "begin") = FALSE
    OBVIOUS
  <2> QED BY <2>1, <2>2 DEF GuardCommit
<1> QED BY <1>2, <1>3

-----------------------------------------------------------------------------
(* Operations that leave it as it was whether a graph is open. *)
Neutral(ops) == \A a \in BOOLEAN : Lawful(ops, a, a)

(* The buffers that are not zeroed. *)
Plain == GpuBuffers \ {"tail"}

(* Neutral operations one after the other. *)
LEMMA NeutralJoin ==
  ASSUME NEW x, NEW y, Neutral(x), Neutral(y)
  PROVE  Neutral(x \o y)
BY Join DEF Neutral

(* Kernels and copies are neutral. *)
LEMMA CallsAreNeutral ==
  /\ \A reads \in SUBSET Plain, writes \in SUBSET GpuBuffers : Neutral(Dispatch(reads, writes))
  /\ \A b \in Plain : Neutral(CopyTo(b)) /\ Neutral(CopyFrom(b))
  /\ \A from \in Plain, to \in Plain : Neutral(CopyRegion(from, to))
PROOF
<1>1. ASSUME NEW reads \in SUBSET Plain, NEW writes \in SUBSET GpuBuffers,
             NEW kind \in {"kernel", "upload", "download", "move"}
      PROVE  Neutral(<<OpOf(kind, reads, writes)>>)
  <2>1. kind \in Kinds \ {"begin", "commit", "zero"}
    BY DEF Kinds
  <2> QED BY <2>1, One DEF Neutral, Plain
<1>2. {} \in SUBSET Plain /\ {} \in SUBSET GpuBuffers
      /\ \A b \in Plain : {b} \in SUBSET Plain /\ {b} \in SUBSET GpuBuffers
  BY DEF Plain
<1>3. \A reads \in SUBSET Plain, writes \in SUBSET GpuBuffers : Neutral(Dispatch(reads, writes))
  BY <1>1 DEF Dispatch
<1>4. \A b \in Plain : Neutral(CopyTo(b)) /\ Neutral(CopyFrom(b))
  BY <1>1, <1>2 DEF CopyTo, CopyFrom
<1>5. \A from \in Plain, to \in Plain : Neutral(CopyRegion(from, to))
  BY <1>1, <1>2 DEF CopyRegion
<1> QED BY <1>3, <1>4, <1>5

(* So are those that are issued only sometimes. *)
LEMMA OnlyNeutral ==
  ASSUME NEW condition \in BOOLEAN, NEW ops, condition => Neutral(ops)
  PROVE  Neutral(Only(condition, ops))
BY Nothing DEF Neutral, Only

(* The kernel that reads the padded tail comes right after the one that     *)
(* fills it.                                                                *)
LEMMA TailNeutral ==
  ASSUME NEW kv \in Plain, NEW query \in Plain, NEW attention \in Plain
  PROVE  Neutral(FlashTail(kv) \o Dispatch({query, kv, "tail"}, {attention}))
PROOF
<1>1. PICK z, w, r : /\ z = OpOf("zero", {}, {"tail"}) /\ w = OpOf("kernel", {kv}, {"tail"})
                     /\ r = OpOf("kernel", {query, kv, "tail"}, {attention})
  OBVIOUS
<1>2. PICK ops : ops = <<z, w, r>>
  OBVIOUS
<1>5. z \in GpuOp /\ w \in GpuOp /\ r \in GpuOp
  <2>1. "tail" \in GpuBuffers /\ kv \in GpuBuffers /\ query \in GpuBuffers
        /\ attention \in GpuBuffers
    BY DEF GpuBuffers, Plain
  <2>2. "zero" \in Kinds /\ "kernel" \in Kinds
    BY DEF Kinds
  <2> QED BY <1>1, <2>1, <2>2 DEF OpOf, GpuOp
<1>3. FlashTail(kv) \o Dispatch({query, kv, "tail"}, {attention}) = ops
  <2>1. FlashTail(kv) = <<z>> \o <<w>>
    BY <1>1 DEF FlashTail, ZeroBuffer, Dispatch
  <2>2. Dispatch({query, kv, "tail"}, {attention}) = <<r>>
    BY <1>1 DEF Dispatch
  <2>3. <<z>> \o <<w>> = <<z, w>>
    <3>1. <<z>> \in Seq(GpuOp) /\ <<w>> \in Seq(GpuOp) /\ <<z, w>> \in Seq(GpuOp)
      BY <1>5
    <3>2. PICK zw : zw = <<z>> \o <<w>>
      OBVIOUS
    <3>3. zw \in Seq(GpuOp) /\ Len(zw) = 2 /\ zw[1] = z /\ zw[2] = w
      BY <3>1, <3>2, ConcatProperties
    <3>4. zw = <<z, w>>
      BY <3>1, <3>3, SeqEqual
    <3> QED BY <3>2, <3>4
  <2>4. <<z, w>> \o <<r>> = <<z, w, r>>
    <3>1. <<z, w>> \in Seq(GpuOp) /\ <<r>> \in Seq(GpuOp) /\ <<z, w, r>> \in Seq(GpuOp)
      BY <1>5
    <3>2. PICK zwr : zwr = <<z, w>> \o <<r>>
      OBVIOUS
    <3>3. zwr \in Seq(GpuOp) /\ Len(zwr) = 3 /\ zwr[1] = z /\ zwr[2] = w /\ zwr[3] = r
      BY <3>1, <3>2, ConcatProperties
    <3>4. zwr = <<z, w, r>>
      BY <3>1, <3>3, SeqEqual
    <3> QED BY <3>2, <3>4
  <2> QED BY <1>2, <2>1, <2>2, <2>3, <2>4
<1>4. /\ z.kind = "zero" /\ z.reads = {} /\ z.writes = {"tail"}
      /\ w.kind = "kernel" /\ w.reads = {kv} /\ w.writes = {"tail"}
      /\ r.kind = "kernel"
  BY <1>1 DEF OpOf
<1>6. /\ ops \in Seq(GpuOp) /\ Len(ops) = 3
      /\ ops[1] = z /\ ops[2] = w /\ ops[3] = r
  BY <1>2, <1>5
<1>7. Tidy(ops)
  <2>1. TidyAt(ops, 1)
    BY <1>4, <1>6 DEF TidyAt
  <2>2. TidyAt(ops, 2)
    <3>1. "tail" \notin w.reads
      BY <1>4 DEF Plain
    <3> QED BY <1>4, <1>6, <3>1 DEF TidyAt
  <2>3. TidyAt(ops, 3)
    BY <1>4, <1>6 DEF TidyAt
  <2> QED BY <1>6, <2>1, <2>2, <2>3 DEF Tidy
<1>8. ASSUME NEW a \in BOOLEAN PROVE Leads(ops, a, a)
  <2>1. PICK open : open = [i \in 0..3 |-> a]
    OBVIOUS
  <2>2. open \in [0..3 -> BOOLEAN] /\ \A i \in 0..3 : open[i] = a
    BY <2>1
  <2>3. Follows(open, ops)
    BY <1>4, <1>6, <2>2 DEF Follows
  <2> QED BY <1>6, <2>2, <2>3 DEF Leads
<1> QED BY <1>3, <1>6, <1>7, <1>8 DEF Neutral, Lawful

(* A set of numbers has a least element. *)
LEMMA LeastNumber ==
  ASSUME NEW T, T \subseteq Nat, T # {}
  PROVE  \E x \in T : \A y \in T : x <= y
PROOF
<1> DEFINE R == {p \in Nat \X Nat : p[1] < p[2]}
<1>1. IsWellFoundedOn(R, Nat)
  BY NatLessThanWellFounded DEF OpToRel
<1>2. PICK x \in T : \A y \in T : ~(<<y, x>> \in R)
  <2> HIDE DEF R
  <2> QED BY <1>1, WFMin
<1>3. ASSUME NEW y \in T PROVE x <= y
  <2>1. x \in Nat /\ y \in Nat /\ <<y, x>> \notin R
    BY <1>2
  <2>2. <<y, x>> \in Nat \X Nat /\ <<y, x>>[1] = y /\ <<y, x>>[2] = x
    BY <2>1
  <2>3. ~(y < x)
    BY <2>1, <2>2
  <2> QED BY <2>1, <2>3
<1> QED BY <1>3

(* A set that holds zero, and with a number below n the next one.          *)
LEMMA UpTo ==
  ASSUME NEW n \in Nat, NEW S, 0 \in S, \A k \in 0..(n - 1) : k \in S => k + 1 \in S
  PROVE  0..n \subseteq S
PROOF
<1> DEFINE T == {k \in 0..n : k \notin S}
<1> SUFFICES ASSUME T # {} PROVE FALSE
  OBVIOUS
<1>1. T \subseteq Nat
  OBVIOUS
<1>2. PICK x \in T : \A y \in T : x <= y
  BY <1>1, LeastNumber
<1>3. x \in 0..n /\ x \notin S /\ x # 0
  OBVIOUS
<1>4. x - 1 \in 0..(n - 1) /\ x - 1 + 1 = x /\ x - 1 \in 0..n
  BY <1>3
<1>5. x - 1 \in S
  BY <1>2, <1>4
<1> QED BY <1>3, <1>4, <1>5

(* FlattenSeq adds one sequence after the other. *)
Flattened(seqs) ==
  LET flatten[i \in 1..Len(seqs)] == IF i = 1 THEN seqs[i] ELSE flatten[i - 1] \o seqs[i]
  IN flatten

LEMMA FlattenRecursion ==
  ASSUME NEW seqs, NEW n \in Nat, Len(seqs) = n
  PROVE  \A k \in 1..n :
           Flattened(seqs)[k] = IF k = 1 THEN seqs[k] ELSE Flattened(seqs)[k - 1] \o seqs[k]
PROOF
<1> DEFINE Step(f, k) == IF k = 1 THEN seqs[k] ELSE f[k - 1] \o seqs[k]
           Run(m, f) == f = [k \in 1..m |-> f[k]] /\ \A k \in 1..m : f[k] = Step(f, k)
           S == {m \in Nat : \E f : Run(m, f)}
           F == Flattened(seqs)
<1>1. 0 \in S
  <2> DEFINE f == [k \in 1..0 |-> <<>>]
  <2>1. f = [k \in 1..0 |-> f[k]] /\ 1..0 = {}
    OBVIOUS
  <2> HIDE DEF f
  <2>2. Run(0, f)
    BY <2>1
  <2> HIDE DEF Run
  <2> QED BY <2>2
<1>2. ASSUME NEW m \in 0..(n - 1), m \in S PROVE m + 1 \in S
  <2>1. PICK f : Run(m, f)
    <3> HIDE DEF Run
    <3> QED BY <1>2
  <2> DEFINE g == [k \in 1..(m + 1) |-> IF k = m + 1 THEN Step(f, k) ELSE f[k]]
  <2>2. g = [k \in 1..(m + 1) |-> g[k]]
    OBVIOUS
  <2>3. ASSUME NEW k \in 1..(m + 1) PROVE g[k] = Step(g, k)
    <3>1. k # 1 => k - 1 \in 1..(m + 1) /\ k - 1 # m + 1
      OBVIOUS
    <3>2. k # 1 => g[k - 1] = f[k - 1]
      BY <3>1
    <3>3. Step(g, k) = Step(f, k)
      BY <3>2
    <3>4. CASE k = m + 1
      BY <3>3, <3>4
    <3>5. CASE k # m + 1
      <4>1. k \in 1..m /\ g[k] = f[k]
        BY <3>5
      <4>2. f[k] = Step(f, k)
        BY <2>1, <4>1
      <4> QED BY <3>3, <4>1, <4>2
    <3> QED BY <3>4, <3>5
  <2> HIDE DEF g
  <2>4. Run(m + 1, g)
    BY <2>2, <2>3
  <2> HIDE DEF Run
  <2>5. m + 1 \in Nat
    OBVIOUS
  <2> QED BY <2>4, <2>5
<1>3. n \in S
  <2> HIDE DEF S
  <2>1. 0..n \subseteq S
    BY <1>1, <1>2, UpTo
  <2> QED BY <2>1
<1>4. PICK h : Run(n, h)
  <2> HIDE DEF Run
  <2> QED BY <1>3
<1>5. h = [k \in 1..n |-> Step(h, k)]
  <2> HIDE DEF Step
  <2> QED BY <1>4
<1>6. F = CHOOSE f : f = [k \in 1..n |-> Step(f, k)]
  BY DEF Flattened
<1>7. F = [k \in 1..n |-> Step(F, k)]
  <2> HIDE DEF F, Step
  <2> QED BY <1>5, <1>6
<1>8. \A k \in 1..n : F[k] = Step(F, k)
  <2> HIDE DEF F, Step
  <2> QED BY <1>7
<1> QED BY <1>8

(* Lawful operations, repeated. *)
LEMMA FlattenLawful ==
  ASSUME NEW seqs, NEW n \in Nat, Len(seqs) = n, NEW a \in BOOLEAN,
         \A i \in 1..n : Lawful(seqs[i], a, a), n = 0 => seqs = <<>>
  PROVE  Lawful(FlattenSeq(seqs), a, a)
PROOF
<1>1. CASE n = 0
  <2>1. FlattenSeq(seqs) = <<>>
    BY <1>1 DEF FlattenSeq
  <2> QED BY <2>1, Nothing
<1>2. CASE n # 0
  <2>1. FlattenSeq(seqs) = Flattened(seqs)[n]
    BY <1>2 DEF FlattenSeq, Flattened
  <2> DEFINE S == {k \in Nat : k \in 1..n => Lawful(Flattened(seqs)[k], a, a)}
  <2>2. 0 \in S
    OBVIOUS
  <2>3. ASSUME NEW k \in 0..(n - 1), k \in S PROVE k + 1 \in S
    <3>1. k + 1 \in 1..n /\ k + 1 - 1 = k /\ k + 1 \in Nat
      OBVIOUS
    <3>2. Lawful(seqs[k + 1], a, a)
      BY <3>1
    <3>3. Flattened(seqs)[k + 1] =
            IF k + 1 = 1 THEN seqs[k + 1] ELSE Flattened(seqs)[k] \o seqs[k + 1]
      BY <3>1, FlattenRecursion
    <3>4. CASE k = 0
      BY <3>1, <3>2, <3>3, <3>4
    <3>5. CASE k # 0
      <4>1. Lawful(Flattened(seqs)[k], a, a)
        BY <2>3, <3>5
      <4>2. Lawful(Flattened(seqs)[k] \o seqs[k + 1], a, a)
        BY <3>2, <4>1, Join
      <4> QED BY <3>1, <3>3, <3>5, <4>2
    <3> QED BY <3>4, <3>5
  <2>4. 0..n \subseteq S
    <3> HIDE DEF S
    <3> QED BY <2>2, <2>3, UpTo
  <2>5. n \in 1..n /\ n \in 0..n
    BY <1>2
  <2> QED BY <2>1, <2>4, <2>5
<1> QED BY <1>1, <1>2

(* LinearLayer is neutral, with dumps or without. *)
LEMMA LinearNeutral ==
  ASSUME NEW dump \in BOOLEAN
  PROVE  Neutral(LinearLayer(dump))
PROOF
<1>1. /\ Neutral(Dispatch({"hidden"}, {"query"}))
      /\ Neutral(Dispatch({"query", "recurrent"}, {"attention", "recurrent"}))
      /\ Neutral(Dispatch({"attention", "hidden"}, {"hidden"}))
  BY CallsAreNeutral DEF Plain, GpuBuffers
<1>2. Neutral(CopyFrom("query")) /\ Neutral(CopyFrom("attention")) /\ Neutral(CopyFrom("hidden"))
  BY CallsAreNeutral DEF Plain, GpuBuffers
<1>3. /\ Neutral(Only(dump, CopyFrom("query"))) /\ Neutral(Only(dump, CopyFrom("attention")))
      /\ Neutral(Only(dump, CopyFrom("hidden")))
  BY <1>2, OnlyNeutral
<1> QED BY <1>1, <1>3, NeutralJoin DEF LinearLayer

-----------------------------------------------------------------------------
(* So is FullAttentionLayer, with a padded tail or without. *)
LEMMA FullNeutral ==
  ASSUME NEW hidden \in Plain, NEW kv \in Plain, NEW given \in BOOLEAN, NEW flash \in BOOLEAN
  PROVE  Neutral(FullAttentionLayer(hidden, kv, given, flash))
PROOF
<1>1. "query" \in Plain /\ "positions" \in Plain /\ "attention" \in Plain
  BY DEF Plain, GpuBuffers
<1>2. PICK a : a = Dispatch({hidden}, {"query"}) \o Only(~given, CopyTo("positions")) \o
                   Dispatch({"query", "positions"}, {"query"}) \o Dispatch({"query", kv}, {kv})
  OBVIOUS
<1>3. Neutral(a)
  <2>1. /\ {hidden} \in SUBSET Plain /\ {"query", "positions"} \in SUBSET Plain
        /\ {"query", kv} \in SUBSET Plain
        /\ {"query"} \in SUBSET GpuBuffers /\ {kv} \in SUBSET GpuBuffers
    BY <1>1 DEF Plain
  <2>2. /\ Neutral(Dispatch({hidden}, {"query"}))
        /\ Neutral(Dispatch({"query", "positions"}, {"query"}))
        /\ Neutral(Dispatch({"query", kv}, {kv}))
        /\ Neutral(CopyTo("positions"))
    BY <1>1, <2>1, CallsAreNeutral
  <2>3. Neutral(Only(~given, CopyTo("positions")))
    <3>1. (~given) \in BOOLEAN
      OBVIOUS
    <3> QED BY <2>2, <3>1, OnlyNeutral
  <2> QED BY <1>2, <2>2, <2>3, NeutralJoin
<1>4. Neutral(Dispatch({"attention", hidden}, {hidden}))
  <2>1. {"attention", hidden} \in SUBSET Plain /\ {hidden} \in SUBSET GpuBuffers
    BY <1>1 DEF Plain
  <2> QED BY <2>1, CallsAreNeutral
<1>5. CASE flash
  <2>1. PICK t, k, e : /\ t = FlashTail(kv) /\ k = Dispatch({"query", kv, "tail"}, {"attention"})
                       /\ e = Dispatch({"attention", hidden}, {hidden})
    OBVIOUS
  <2>2. FullAttentionLayer(hidden, kv, given, flash) = ((a \o t) \o k) \o e
    <3>1. {"query", kv} \cup {"tail"} = {"query", kv, "tail"}
      OBVIOUS
    <3>2. Only(flash, t) = t
      BY <1>5 DEF Only
    <3> QED BY <1>2, <1>5, <2>1, <3>1, <3>2 DEF FullAttentionLayer
  <2>3. Neutral(t \o k)
    BY <1>1, <2>1, TailNeutral
  <2>4. t \in Seq(GpuOp) /\ k \in Seq(GpuOp) /\ a \in Seq(GpuOp)
    <3>1. a \in Seq(GpuOp)
      BY <1>3 DEF Neutral, Lawful
    <3>2. "tail" \in GpuBuffers /\ kv \in GpuBuffers /\ "query" \in GpuBuffers
          /\ "attention" \in GpuBuffers
      BY <1>1 DEF GpuBuffers, Plain
    <3>3. "zero" \in Kinds /\ "kernel" \in Kinds
      BY DEF Kinds
    <3>4. /\ OpOf("zero", {}, {"tail"}) \in GpuOp /\ OpOf("kernel", {kv}, {"tail"}) \in GpuOp
          /\ OpOf("kernel", {"query", kv, "tail"}, {"attention"}) \in GpuOp
      BY <3>2, <3>3 DEF OpOf, GpuOp
    <3>5. PICK z, w, q : /\ z = OpOf("zero", {}, {"tail"}) /\ w = OpOf("kernel", {kv}, {"tail"})
                         /\ q = OpOf("kernel", {"query", kv, "tail"}, {"attention"})
      OBVIOUS
    <3>6. t = <<z>> \o <<w>> /\ k = <<q>>
      BY <2>1, <3>5 DEF FlashTail, ZeroBuffer, Dispatch
    <3>7. <<z>> \in Seq(GpuOp) /\ <<w>> \in Seq(GpuOp) /\ <<q>> \in Seq(GpuOp)
      BY <3>4, <3>5
    <3> QED BY <3>1, <3>6, <3>7, ConcatProperties
  <2>5. (a \o t) \o k = a \o (t \o k)
    BY <2>4, ConcatAssociative
  <2> QED BY <1>3, <1>4, <2>1, <2>2, <2>3, <2>5, NeutralJoin
<1>6. CASE ~flash
  <2>1. Neutral(Only(flash, FlashTail(kv)))
    BY <1>6, Nothing DEF Only, Neutral
  <2>2. Neutral(Dispatch({"query", kv}, {"attention"}))
    <3>1. {"query", kv} \in SUBSET Plain /\ {"attention"} \in SUBSET GpuBuffers
      BY <1>1 DEF Plain
    <3> QED BY <3>1, CallsAreNeutral
  <2>3. FullAttentionLayer(hidden, kv, given, flash) =
          a \o Only(flash, FlashTail(kv)) \o Dispatch({"query", kv}, {"attention"}) \o
          Dispatch({"attention", hidden}, {hidden})
    <3>1. {"query", kv} \cup {} = {"query", kv}
      OBVIOUS
    <3> QED BY <1>2, <1>6, <3>1 DEF FullAttentionLayer
  <2> QED BY <1>3, <1>4, <2>1, <2>2, <2>3, NeutralJoin
<1> QED BY <1>5, <1>6

(* Dump is neutral. *)
LEMMA DumpNeutral ==
  ASSUME NEW r \in MetalRequest, NEW b \in Plain
  PROVE  Neutral(Dump(r, b))
BY CallsAreNeutral, OnlyNeutral DEF Dump, MetalRequest

(* LmHead, OutputLogits and StoreBlock are neutral. *)
LEMMA HeadNeutral ==
  ASSUME NEW r \in MetalRequest
  PROVE  /\ \A argmax \in BOOLEAN : Neutral(LmHead(r, argmax))
         /\ Neutral(OutputLogits(r, "final_hidden"))
         /\ Neutral(StoreBlock)
PROOF
<1>1. /\ Neutral(Dispatch({"h_nextn"}, {"logits"})) /\ Neutral(Dispatch({"logits"}, {"argmax"}))
      /\ Neutral(Dispatch({"final_hidden"}, {"h_nextn"}))
      /\ Neutral(CopyFrom("kv")) /\ Neutral(CopyFrom("recurrent"))
      /\ Neutral(CopyFrom("hidden"))
  BY CallsAreNeutral DEF Plain, GpuBuffers
<1>2. Neutral(Dump(r, "logits")) /\ Neutral(Dump(r, "h_nextn"))
  BY DumpNeutral DEF Plain, GpuBuffers
<1>3. ASSUME NEW argmax \in BOOLEAN PROVE Neutral(LmHead(r, argmax))
  <2>1. Neutral(Only(argmax, Dispatch({"logits"}, {"argmax"})))
    BY <1>1, OnlyNeutral
  <2> QED BY <1>1, <1>2, <2>1, NeutralJoin DEF LmHead
<1>4. Neutral(OutputLogits(r, "final_hidden"))
  <2>1. Neutral(LmHead(r, TRUE))
    BY <1>3
  <2> QED BY <1>1, <1>2, <2>1, NeutralJoin DEF OutputLogits
<1>5. Neutral(StoreBlock)
  BY <1>1, NeutralJoin DEF StoreBlock
<1> QED BY <1>3, <1>4, <1>5

(* MtpForward is neutral. *)
LEMMA MtpForwardNeutral ==
  ASSUME NEW r \in MetalRequest, NEW ids \in Plain, NEW h \in Plain
  PROVE  Neutral(MtpForward(r, ids, h))
PROOF
<1>1. "mtp_hidden" \in Plain /\ "mtp_kv" \in Plain /\ "mtp_h" \in Plain
  BY DEF Plain, GpuBuffers
<1>2. {ids, h} \in SUBSET Plain /\ {"mtp_hidden"} \in SUBSET GpuBuffers
      /\ {"mtp_hidden"} \in SUBSET Plain /\ {"mtp_h"} \in SUBSET GpuBuffers
  BY <1>1 DEF Plain
<1>3. /\ Neutral(Dispatch({ids, h}, {"mtp_hidden"}))
      /\ Neutral(Dispatch({"mtp_hidden"}, {"mtp_h"}))
  BY <1>2, CallsAreNeutral
<1>4. r.flash \in BOOLEAN
  BY DEF MetalRequest
<1>5. Neutral(FullAttentionLayer("mtp_hidden", "mtp_kv", FALSE, r.flash))
  BY <1>1, <1>4, FullNeutral
<1> QED BY <1>3, <1>5, NeutralJoin DEF MtpForward

(* MtpProcess is neutral. *)
LEMMA MtpProcessNeutral ==
  ASSUME NEW r \in MetalRequest
  PROVE  Neutral(MtpProcess(r))
PROOF
<1>1. /\ Neutral(Dispatch({"hidden"}, {"h_nextn"}))
      /\ Neutral(Dispatch({"pending_h", "h_nextn"}, {"shifted"}))
      /\ Neutral(CopyTo("token_ids"))
      /\ Neutral(Dispatch({"h_nextn"}, {"pending_h"}))
  BY CallsAreNeutral DEF Plain, GpuBuffers
<1>2. Neutral(Dump(r, "h_nextn"))
  BY DumpNeutral DEF Plain, GpuBuffers
<1>3. Neutral(MtpForward(r, "token_ids", "shifted"))
  BY MtpForwardNeutral DEF Plain, GpuBuffers
<1> QED BY <1>1, <1>2, <1>3, NeutralJoin DEF MtpProcess

(* A chunk begins and ends with an open graph. *)
LEMMA ChunkLawful ==
  ASSUME NEW r \in MetalRequest
  PROVE  Lawful(Chunk(r), TRUE, TRUE)
PROOF
<1>1. Lawful(CommitAndRebegin, TRUE, TRUE)
  BY Guards, Join DEF CommitAndRebegin
<1>2. Lawful(LayerCommit(r), TRUE, TRUE)
  BY <1>1, Nothing DEF LayerCommit, Only
<1>3. Lawful(ChunkCommit(r), TRUE, TRUE)
  <2>1. Lawful(GuardCommit \o StoreBlock \o GuardBegin, TRUE, TRUE)
    <3>1. Lawful(GuardCommit, TRUE, FALSE) /\ Lawful(GuardBegin, FALSE, TRUE)
      BY Guards
    <3>2. Lawful(StoreBlock, FALSE, FALSE)
      BY HeadNeutral DEF Neutral
    <3> QED BY <3>1, <3>2, Join
  <2> QED BY <1>1, <2>1, Nothing DEF ChunkCommit, Only
<1>4. /\ Neutral(Dispatch({"first_hidden"}, {"hidden"})) /\ Neutral(CopyTo("positions"))
  BY CallsAreNeutral DEF Plain, GpuBuffers
<1>5. r.dump \in BOOLEAN /\ r.flash \in BOOLEAN
  BY DEF MetalRequest
<1>6. Neutral(LinearLayer(r.dump))
  BY <1>5, LinearNeutral
<1>7. Neutral(FullAttentionLayer("hidden", "kv", TRUE, r.flash))
  BY <1>5, FullNeutral DEF Plain, GpuBuffers
<1>8. Neutral(Only(r.drafts > 0, MtpProcess(r)))
  <2>1. (r.drafts > 0) \in BOOLEAN
    OBVIOUS
  <2> QED BY <2>1, MtpProcessNeutral, OnlyNeutral
<1>9. /\ Lawful(Dispatch({"first_hidden"}, {"hidden"}), TRUE, TRUE)
      /\ Lawful(CopyTo("positions"), TRUE, TRUE)
      /\ Lawful(LinearLayer(r.dump), TRUE, TRUE)
      /\ Lawful(FullAttentionLayer("hidden", "kv", TRUE, r.flash), TRUE, TRUE)
      /\ Lawful(Only(r.drafts > 0, MtpProcess(r)), TRUE, TRUE)
  BY <1>4, <1>6, <1>7, <1>8 DEF Neutral
<1> QED BY <1>2, <1>3, <1>9, Join DEF Chunk

-----------------------------------------------------------------------------
(* Prefill begins and ends without a graph. *)
LEMMA PrefillLawful ==
  ASSUME NEW r \in MetalRequest
  PROVE  Lawful(Prefill(r), FALSE, FALSE)
PROOF
<1>1. Lawful(GuardBegin, FALSE, TRUE) /\ Lawful(GuardCommit, TRUE, FALSE)
  BY Guards
<1>2. /\ Neutral(CopyTo("token_ids")) /\ Neutral(CopyTo("final_hidden"))
      /\ Neutral(CopyTo("kv")) /\ Neutral(CopyTo("recurrent")) /\ Neutral(CopyFrom("argmax"))
      /\ Neutral(Dispatch({"token_ids"}, {"first_hidden"}))
      /\ Neutral(Dispatch({"hidden"}, {"final_hidden"}))
  BY CallsAreNeutral DEF Plain, GpuBuffers
<1>3. Neutral(Dump(r, "first_hidden")) /\ Neutral(Dump(r, "final_hidden"))
  BY DumpNeutral DEF Plain, GpuBuffers
<1>4. Neutral(OutputLogits(r, "final_hidden"))
  BY HeadNeutral
<1>5. Lawful(FlattenSeq([i \in 1..r.chunks |-> Chunk(r)]), TRUE, TRUE)
  <2>1. PICK n \in Nat : n = r.chunks
    BY DEF MetalRequest
  <2>2. PICK seqs : seqs = [i \in 1..n |-> Chunk(r)]
    OBVIOUS
  <2>3. Len(seqs) = n /\ \A i \in 1..n : seqs[i] = Chunk(r)
    BY <2>2
  <2>4. \A i \in 1..n : Lawful(seqs[i], TRUE, TRUE)
    BY <2>3, ChunkLawful
  <2>5. n # 0
    BY <2>1 DEF MetalRequest
  <2>6. Lawful(FlattenSeq(seqs), TRUE, TRUE)
    BY <2>3, <2>4, <2>5, FlattenLawful
  <2> QED BY <2>1, <2>2, <2>6
<1>6. Lawful(PrefillChunks(r), FALSE, FALSE)
  <2>1. Lawful(CopyTo("token_ids"), FALSE, FALSE)
    BY <1>2 DEF Neutral
  <2>2. /\ Lawful(Dispatch({"token_ids"}, {"first_hidden"}), TRUE, TRUE)
        /\ Lawful(Dump(r, "first_hidden"), TRUE, TRUE)
        /\ Lawful(Dispatch({"hidden"}, {"final_hidden"}), TRUE, TRUE)
        /\ Lawful(Dump(r, "final_hidden"), TRUE, TRUE)
        /\ Lawful(OutputLogits(r, "final_hidden"), TRUE, TRUE)
    BY <1>2, <1>3, <1>4 DEF Neutral
  <2> QED BY <1>1, <1>5, <2>1, <2>2, Join DEF PrefillChunks
<1>7. Lawful(PrefillFromCache(r), FALSE, FALSE)
  <2>1. /\ Lawful(CopyTo("final_hidden"), FALSE, FALSE)
        /\ Lawful(OutputLogits(r, "final_hidden"), TRUE, TRUE)
    BY <1>2, <1>4 DEF Neutral
  <2> QED BY <1>1, <2>1, Join DEF PrefillFromCache
<1>8. Neutral(Only(r.restored # "none", CopyTo("kv") \o CopyTo("recurrent")))
  BY <1>2, NeutralJoin, OnlyNeutral
<1>9. /\ Lawful(Only(r.restored # "none", CopyTo("kv") \o CopyTo("recurrent")), FALSE, FALSE)
      /\ Lawful(IF r.restored = "all" THEN PrefillFromCache(r) ELSE PrefillChunks(r), FALSE, FALSE)
      /\ Lawful(CopyFrom("argmax"), FALSE, FALSE)
  BY <1>2, <1>6, <1>7, <1>8 DEF Neutral
<1> QED BY <1>9, Join DEF Prefill

(* So do DecodeTokens and SampleRow. *)
LEMMA DecodeTokensLawful ==
  ASSUME NEW r \in MetalRequest, NEW rows \in Nat
  PROVE  /\ Lawful(DecodeTokens(r, rows), FALSE, FALSE)
         /\ Lawful(SampleRow(rows), FALSE, FALSE)
PROOF
<1>1. Lawful(GuardBegin, FALSE, TRUE) /\ Lawful(GuardCommit, TRUE, FALSE)
  BY Guards
<1>2. /\ Neutral(CopyTo("token_ids")) /\ Neutral(Dispatch({"token_ids"}, {"hidden"}))
      /\ Neutral(Dispatch({"hidden"}, {"h_nextn"}))
      /\ Neutral(CopyFrom("argmax")) /\ Neutral(CopyFrom("logits"))
  BY CallsAreNeutral DEF Plain, GpuBuffers
<1>3. Neutral(LinearLayer(FALSE))
  BY LinearNeutral
<1>4. Neutral(FullAttentionLayer("hidden", "kv", FALSE, r.flash))
  <2>1. r.flash \in BOOLEAN
    BY DEF MetalRequest
  <2> QED BY <2>1, FullNeutral DEF Plain, GpuBuffers
<1>5. Neutral(Dump(r, "h_nextn"))
  BY DumpNeutral DEF Plain, GpuBuffers
<1>6. Neutral(LmHead(r, rows = 1))
  BY HeadNeutral
<1>7. /\ Lawful(CopyTo("token_ids"), TRUE, TRUE)
      /\ Lawful(Dispatch({"token_ids"}, {"hidden"}), TRUE, TRUE)
      /\ Lawful(LinearLayer(FALSE), TRUE, TRUE)
      /\ Lawful(FullAttentionLayer("hidden", "kv", FALSE, r.flash), TRUE, TRUE)
      /\ Lawful(Dispatch({"hidden"}, {"h_nextn"}), TRUE, TRUE)
      /\ Lawful(Dump(r, "h_nextn"), TRUE, TRUE)
      /\ Lawful(LmHead(r, rows = 1), TRUE, TRUE)
  BY <1>2, <1>3, <1>4, <1>5, <1>6 DEF Neutral
<1>8. Lawful(DecodeTokens(r, rows), FALSE, FALSE)
  BY <1>1, <1>7, Join DEF DecodeTokens
<1>9. Lawful(SampleRow(rows), FALSE, FALSE)
  BY <1>2 DEF SampleRow, Neutral
<1> QED BY <1>8, <1>9

(* The token ids or a draft; pending_h or what the last draft left. *)
LEMMA DraftBuffers ==
  ASSUME NEW r \in MetalRequest
  PROVE  /\ r.drafts \in Nat /\ r.drafts <= 2
         /\ \A i \in 1..r.drafts :
              /\ DraftBuffer[i] \in Plain
              /\ (IF i = 1 THEN "token_ids" ELSE DraftBuffer[i - 1]) \in Plain
              /\ (IF i = 1 THEN "pending_h" ELSE "mtp_h") \in Plain
              /\ Neutral(Dispatch({"mtp_h"}, {DraftBuffer[i]}))
              /\ Neutral(CopyFrom(DraftBuffer[i]))
              /\ Neutral(CopyTo("token_ids"))
PROOF
<1>1. Len(DraftBuffer) = 2 /\ DraftBuffer[1] = "draft1" /\ DraftBuffer[2] = "draft2"
  BY DEF DraftBuffer
<1>2. r.drafts \in Nat /\ r.drafts <= 2
  BY <1>1 DEF MetalRequest
<1>3. "draft1" \in Plain /\ "draft2" \in Plain /\ "token_ids" \in Plain
      /\ "pending_h" \in Plain /\ "mtp_h" \in Plain
  BY DEF Plain, GpuBuffers
<1>4. ASSUME NEW i \in 1..r.drafts
      PROVE  /\ DraftBuffer[i] \in Plain
             /\ (IF i = 1 THEN "token_ids" ELSE DraftBuffer[i - 1]) \in Plain
             /\ (IF i = 1 THEN "pending_h" ELSE "mtp_h") \in Plain
             /\ Neutral(Dispatch({"mtp_h"}, {DraftBuffer[i]}))
             /\ Neutral(CopyFrom(DraftBuffer[i]))
             /\ Neutral(CopyTo("token_ids"))
  <2>1. i = 1 \/ (i = 2 /\ i - 1 = 1)
    BY <1>2
  <2>2. /\ DraftBuffer[i] \in Plain
        /\ (IF i = 1 THEN "token_ids" ELSE DraftBuffer[i - 1]) \in Plain
    BY <1>1, <1>3, <2>1
  <2>3. {"mtp_h"} \in SUBSET Plain /\ {DraftBuffer[i]} \in SUBSET GpuBuffers
    BY <1>3, <2>2 DEF Plain
  <2> QED BY <1>3, <2>2, <2>3, CallsAreNeutral
<1> QED BY <1>2, <1>4

(* DraftTokens begins and ends without a graph. *)
LEMMA DraftsLawful ==
  ASSUME NEW r \in MetalRequest
  PROVE  Lawful(DraftTokens(r), FALSE, FALSE)
PROOF
<1>1. PICK n \in Nat : n = r.drafts
  BY DraftBuffers
<1>2. Lawful(GuardBegin, FALSE, TRUE) /\ Lawful(GuardCommit, TRUE, FALSE)
  BY Guards
<1>3. "token_ids" \in Plain /\ Neutral(CopyTo("token_ids"))
  BY CallsAreNeutral DEF Plain, GpuBuffers
<1>4. ASSUME NEW seqs, Len(seqs) = n, n = 0 => seqs = <<>>,
             NEW a \in BOOLEAN, \A i \in 1..n : Lawful(seqs[i], a, a)
      PROVE  Lawful(FlattenSeq(seqs), a, a)
  BY <1>4, FlattenLawful
<1>5. Lawful(DraftChain(r), FALSE, FALSE)
  <2>1. PICK seqs : seqs =
          [i \in 1..n |->
             MtpForward(r, IF i = 1 THEN "token_ids" ELSE DraftBuffer[i - 1],
                           IF i = 1 THEN "pending_h" ELSE "mtp_h") \o
             Dispatch({"mtp_h"}, {DraftBuffer[i]})]
    OBVIOUS
  <2>2. PICK reads : reads = [i \in 1..n |-> CopyFrom(DraftBuffer[i])]
    OBVIOUS
  <2>3. Lawful(FlattenSeq(seqs), TRUE, TRUE)
    <3>1. Len(seqs) = n
      BY <2>1
    <3>2. n = 0 => seqs = <<>>
      BY <2>1
    <3>3. ASSUME NEW i \in 1..n PROVE Lawful(seqs[i], TRUE, TRUE)
      <4>1. Neutral(MtpForward(r, IF i = 1 THEN "token_ids" ELSE DraftBuffer[i - 1],
                                  IF i = 1 THEN "pending_h" ELSE "mtp_h"))
        BY <1>1, DraftBuffers, MtpForwardNeutral
      <4>2. Neutral(Dispatch({"mtp_h"}, {DraftBuffer[i]}))
        BY <1>1, DraftBuffers
      <4>3. seqs[i] = MtpForward(r, IF i = 1 THEN "token_ids" ELSE DraftBuffer[i - 1],
                                    IF i = 1 THEN "pending_h" ELSE "mtp_h") \o
                      Dispatch({"mtp_h"}, {DraftBuffer[i]})
        BY <2>1
      <4>4. Neutral(seqs[i])
        BY <4>1, <4>2, <4>3, NeutralJoin
      <4> QED BY <4>4 DEF Neutral
    <3> QED BY <1>4, <3>1, <3>2, <3>3
  <2>4. Lawful(FlattenSeq(reads), FALSE, FALSE)
    <3>1. Len(reads) = n
      BY <2>2
    <3>2. n = 0 => reads = <<>>
      BY <2>2
    <3>3. ASSUME NEW i \in 1..n PROVE Lawful(reads[i], FALSE, FALSE)
      BY <1>1, <2>2, DraftBuffers DEF Neutral
    <3> QED BY <1>4, <3>1, <3>2, <3>3
  <2>5. Lawful(CopyTo("token_ids"), FALSE, FALSE)
    BY <1>3 DEF Neutral
  <2>6. DraftChain(r) = CopyTo("token_ids") \o GuardBegin \o FlattenSeq(seqs) \o
                        GuardCommit \o FlattenSeq(reads)
    BY <1>1, <2>1, <2>2 DEF DraftChain
  <2> QED BY <1>2, <2>3, <2>4, <2>5, <2>6, Join
<1>6. Lawful(DraftOneByOne(r), FALSE, FALSE)
  <2>1. PICK seqs : seqs =
          [i \in 1..n |->
             GuardBegin \o CopyTo("token_ids") \o
             MtpForward(r, "token_ids", IF i = 1 THEN "pending_h" ELSE "mtp_h") \o
             Dispatch({"mtp_h"}, {DraftBuffer[i]}) \o
             GuardCommit \o CopyFrom(DraftBuffer[i])]
    OBVIOUS
  <2>2. Len(seqs) = n
    BY <2>1
  <2>3. n = 0 => seqs = <<>>
    BY <2>1
  <2>4. ASSUME NEW i \in 1..n PROVE Lawful(seqs[i], FALSE, FALSE)
    <3>1. Neutral(MtpForward(r, "token_ids", IF i = 1 THEN "pending_h" ELSE "mtp_h"))
      BY <1>1, <1>3, DraftBuffers, MtpForwardNeutral
    <3>2. /\ Neutral(Dispatch({"mtp_h"}, {DraftBuffer[i]}))
          /\ Neutral(CopyFrom(DraftBuffer[i]))
      BY <1>1, DraftBuffers
    <3>3. /\ Lawful(CopyTo("token_ids"), TRUE, TRUE)
          /\ Lawful(MtpForward(r, "token_ids", IF i = 1 THEN "pending_h" ELSE "mtp_h"), TRUE, TRUE)
          /\ Lawful(Dispatch({"mtp_h"}, {DraftBuffer[i]}), TRUE, TRUE)
          /\ Lawful(CopyFrom(DraftBuffer[i]), FALSE, FALSE)
      BY <1>3, <3>1, <3>2 DEF Neutral
    <3>4. seqs[i] = GuardBegin \o CopyTo("token_ids") \o
                    MtpForward(r, "token_ids", IF i = 1 THEN "pending_h" ELSE "mtp_h") \o
                    Dispatch({"mtp_h"}, {DraftBuffer[i]}) \o
                    GuardCommit \o CopyFrom(DraftBuffer[i])
      BY <2>1
    <3> QED BY <1>2, <3>3, <3>4, Join
  <2>5. Lawful(FlattenSeq(seqs), FALSE, FALSE)
    BY <1>4, <2>2, <2>3, <2>4
  <2>6. DraftOneByOne(r) = FlattenSeq(seqs)
    BY <1>1, <2>1 DEF DraftOneByOne
  <2> QED BY <2>5, <2>6
<1> QED BY <1>5, <1>6 DEF DraftTokens

(* A whole request begins and ends without a graph. *)
LEMMA GenerateLawful ==
  ASSUME NEW r \in MetalRequest
  PROVE  Lawful(GenerateMetal(r), FALSE, FALSE)
PROOF
<1>1. Lawful(MtpRound(r), FALSE, FALSE)
  <2>1. /\ Neutral(CopyRegion("recurrent", "snapshot"))
        /\ Neutral(CopyRegion("snapshot", "recurrent"))
        /\ Neutral(Dispatch({"h_nextn"}, {"pending_h"}))
    BY CallsAreNeutral DEF Plain, GpuBuffers
  <2>2. 1 + r.drafts \in Nat /\ (IF r.accepted THEN 1 + r.drafts ELSE 1) \in Nat
    BY DraftBuffers
  <2>3. /\ Lawful(DecodeTokens(r, 1 + r.drafts), FALSE, FALSE)
        /\ Lawful(SampleRow(1 + r.drafts), FALSE, FALSE)
        /\ Lawful(DecodeTokens(r, 1), FALSE, FALSE)
        /\ Lawful(SampleRow(IF r.accepted THEN 1 + r.drafts ELSE 1), FALSE, FALSE)
    BY <2>2, DecodeTokensLawful
  <2>4. Lawful(DraftTokens(r), FALSE, FALSE)
    BY DraftsLawful
  <2>5. /\ Lawful(CopyRegion("recurrent", "snapshot"), FALSE, FALSE)
        /\ Lawful(CopyRegion("snapshot", "recurrent"), FALSE, FALSE)
        /\ Lawful(Dispatch({"h_nextn"}, {"pending_h"}), FALSE, FALSE)
    BY <2>1 DEF Neutral
  <2>6. Lawful(Only(~r.accepted, CopyRegion("snapshot", "recurrent") \o DecodeTokens(r, 1)),
               FALSE, FALSE)
    BY <2>3, <2>5, Join, Nothing DEF Only
  <2> QED BY <2>3, <2>4, <2>5, <2>6, Join DEF MtpRound
<1>2. Lawful(Decode(r), FALSE, FALSE)
  <2>1. Lawful(DecodeTokens(r, 1) \o SampleRow(1), FALSE, FALSE)
    BY DecodeTokensLawful, Join
  <2> QED BY <1>1, <2>1 DEF Decode
<1> QED BY <1>2, PrefillLawful, Join DEF GenerateMetal

(* The programs of generate_qwen35_metal are among those the theorems are   *)
(* about: they copy the padded tail between their kernels as                *)
(* ProgramAssumption asks, whatever the number of their chunks.             *)
THEOREM RequestProgramsQualify ==
  Buffers = GpuBuffers => \A p \in RequestPrograms : p \in Seq(Op) /\ ZeroesScratchOnly(p)
PROOF
<1> SUFFICES ASSUME Buffers = GpuBuffers, NEW p \in RequestPrograms
             PROVE  p \in Seq(Op) /\ ZeroesScratchOnly(p)
  OBVIOUS
<1>1. PICK r \in Requests : p = GenerateMetal(r)
  BY DEF RequestPrograms
<1>2. r \in MetalRequest
  BY MetalRequestAssumption DEF MetalRequest
<1>3. Lawful(p, FALSE, FALSE)
  BY <1>1, <1>2, GenerateLawful
<1>4. p \in Seq(GpuOp) /\ Tidy(p) /\ GpuOp = Op /\ DOMAIN p = 1..Len(p)
  BY <1>3 DEF Lawful, GpuOp, Op
<1>5. \A i \in 1..Len(p) : TidyAt(p, i) /\ p[i] \in GpuOp
  BY <1>4 DEF Tidy
<1>6. ASSUME NEW b, Zeroed(p, b) PROVE b = "tail"
  BY <1>4, <1>5, <1>6 DEF Zeroed, TidyAt
<1>7. ZeroesScratchOnly(p)
  <2> SUFFICES ASSUME NEW i \in 1..Len(p)
               PROVE  /\ p[i].kind = "zero" =>
                           /\ i + 1 \in 1..Len(p) /\ p[i + 1].kind = "kernel"
                           /\ p[i].writes \subseteq p[i + 1].writes
                      /\ \A b \in p[i].reads : Zeroed(p, b) =>
                           /\ p[i].kind = "kernel" /\ i > 2
                           /\ p[i - 2].kind = "zero" /\ b \in p[i - 2].writes
    BY <1>4 DEF ZeroesScratchOnly
  <2>1. TidyAt(p, i)
    BY <1>5
  <2>2. p[i].kind = "zero" =>
          /\ i + 1 \in 1..Len(p) /\ p[i + 1].kind = "kernel"
          /\ p[i].writes \subseteq p[i + 1].writes
    BY <2>1 DEF TidyAt
  <2>3. \A b \in p[i].reads : Zeroed(p, b) =>
          /\ p[i].kind = "kernel" /\ i > 2
          /\ p[i - 2].kind = "zero" /\ b \in p[i - 2].writes
    BY <1>6, <2>1 DEF TidyAt
  <2> QED BY <2>2, <2>3
<1> QED BY <1>4, <1>7

-----------------------------------------------------------------------------
(* Where a request may have an active graph: some account of where its      *)
(* program may have one open bears out the graph that is active now.        *)
GraphFollows ==
  program \in RequestPrograms =>
    \E open \in [0..Len(program) -> BOOLEAN] :
      /\ Follows(open, program)
      /\ status = "running" /\ graphActive => open[pc - 1]

LEMMA StepFollows == TypeOK /\ Guarded /\ GraphFollows /\ [Next]_vars => GraphFollows'
PROOF
<1> SUFFICES ASSUME TypeOK, Guarded, GraphFollows, [Next]_vars,
                    program' \in RequestPrograms
             PROVE  \E open \in [0..Len(program') -> BOOLEAN] :
                      /\ Follows(open, program')
                      /\ status' = "running" /\ graphActive' => open[pc' - 1]
  BY DEF GraphFollows
<1>1. program' = program
  BY DEF Next, vars, Begin, BeginRefused, Commit, Flush, Encode, Upload, Download, Move,
         Zero, Execute, WaitEnds, GpuFails, HostFails, Return, Completes
<1>2. PICK open \in [0..Len(program) -> BOOLEAN] :
        /\ Follows(open, program)
        /\ status = "running" /\ graphActive => open[pc - 1]
  BY <1>1 DEF GraphFollows
<1>3. SUFFICES ASSUME status' = "running", graphActive' PROVE open[pc' - 1]
  BY <1>1, <1>2
<1>4. /\ DOMAIN program = 1..Len(program) /\ Len(program) \in Nat
      /\ pc \in Nat /\ (pc + 1) - 1 = pc
  BY DEF TypeOK
<1>5. CASE Begin
  <2>1. pc \in 1..Len(program) /\ program[pc].kind = "begin" /\ pc' = pc + 1
    BY <1>4, <1>5 DEF Begin, Issues, Completes
  <2>2. open[pc]
    BY <1>2, <2>1 DEF Follows
  <2> QED BY <1>4, <2>1, <2>2
<1>6. CASE Commit
  <2>1. status = "running" /\ ~graphActive'
    BY <1>6 DEF Commit, CommitGraph, Issues, Guarded
  <2> QED BY <1>3, <2>1
<1>7. CASE Encode \/ Upload \/ Download \/ Move \/ Zero
  <2>1. /\ pc \in 1..Len(program) /\ program[pc].kind \notin {"begin", "commit"}
        /\ pc' = pc + 1 /\ graphActive' = graphActive /\ status = "running"
    BY <1>4, <1>7 DEF Encode, Upload, Download, Move, Zero, Issues, Completes
  <2>2. open[pc] = open[pc - 1]
    BY <1>2, <2>1 DEF Follows
  <2> QED BY <1>2, <1>3, <1>4, <2>1, <2>2
<1>8. CASE Flush
  <2>1. ~graphActive'
    BY <1>8 DEF Flush, CommitGraph
  <2> QED BY <1>3, <2>1
<1>9. CASE Execute \/ WaitEnds \/ UNCHANGED vars
  <2>1. UNCHANGED <<pc, graphActive, status>>
    BY <1>9 DEF Execute, WaitEnds, vars
  <2> QED BY <1>2, <1>3, <2>1
<1>10. CASE BeginRefused \/ GpuFails \/ HostFails \/ Return
  <2>1. status' # "running"
    BY <1>10 DEF BeginRefused, GpuFails, HostFails, Return
  <2> QED BY <1>3, <2>1
<1> QED BY <1>5, <1>6, <1>7, <1>8, <1>9, <1>10 DEF Next

(* No guard of a request begins a graph while another one is active: in     *)
(* every commit mode, over any number of chunks, with or without drafts     *)
(* (MpsGraphGuard::begin, MpsContext::begin_graph).                         *)
THEOREM RequestsBeginGraphs == Spec => []RequestsAreAccepted
PROOF
<1>1. Init => GraphFollows
  <2> SUFFICES ASSUME Init, program \in RequestPrograms
               PROVE  \E open \in [0..Len(program) -> BOOLEAN] :
                        /\ Follows(open, program)
                        /\ status = "running" /\ graphActive => open[pc - 1]
    BY DEF GraphFollows
  <2>1. PICK r \in Requests : program = GenerateMetal(r)
    BY DEF RequestPrograms
  <2>2. Leads(program, FALSE, FALSE)
    BY <2>1, GenerateLawful, MetalRequestAssumption DEF MetalRequest, Lawful
  <2>3. ~graphActive
    BY DEF Init
  <2> QED BY <2>2, <2>3 DEF Leads
<1>2. Init => Guarded
  BY DEF Init, Guarded
<1>3. TypeOK /\ GraphFollows => RequestsAreAccepted
  <2> SUFFICES ASSUME TypeOK, GraphFollows, program \in RequestPrograms,
                      Issues("begin"), graphActive
               PROVE  FALSE
    BY DEF RequestsAreAccepted, BeginIsAccepted
  <2>1. PICK open \in [0..Len(program) -> BOOLEAN] :
          /\ Follows(open, program)
          /\ status = "running" /\ graphActive => open[pc - 1]
    BY DEF GraphFollows
  <2>2. pc \in 1..Len(program) /\ program[pc].kind = "begin" /\ status = "running"
    BY DEF TypeOK, Issues
  <2>3. ~open[pc - 1]
    BY <2>1, <2>2 DEF Follows
  <2> QED BY <2>1, <2>2, <2>3
<1> QED BY <1>1, <1>2, <1>3, StepGuarded, StepFollows, TypeCorrect, PTL DEF Spec

=============================================================================
