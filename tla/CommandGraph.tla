---------------------------- MODULE CommandGraph ----------------------------
(***************************************************************************)
(* The command buffers of an MpsContext and the MpsGraphGuard that opens   *)
(* and closes a graph.  While a graph is active, kernels are only encoded; *)
(* they run, in order, when the graph is committed, and the host waits for *)
(* them.  With no active graph each kernel is committed on its own.  Host  *)
(* copies commit the active graph before they touch a buffer; zero_buffer  *)
(* does not.                                                               *)
(*                                                                         *)
(* A request is a program: the sequence of operations its thread issues.   *)
(* The contents of a buffer are the number of the operation that produced  *)
(* them, or Stale, when it computed from other inputs than those of its    *)
(* place in the program.  A buffer stands for the part of a GPU buffer     *)
(* that is read: zero_buffer pads the flash attention's tail with rows     *)
(* that the kernel masks.                                                  *)
(*                                                                         *)
(* ReadsDoNotFlush, UploadsDoNotFlush, UnguardedScope and CommitKeepsGraph *)
(* are mistakes the code could contain; nothing uses them.                 *)
(***************************************************************************)
EXTENDS Integers, Sequences

CONSTANTS
  Buffers,           \* the GPU buffers of the context
  Programs           \* the programs a request may run

Kinds == {"begin", "commit", "kernel", "upload", "download", "move", "zero"}

Op == [kind : Kinds, reads : SUBSET Buffers, writes : SUBSET Buffers]

Zeroed(p, b) == \E i \in DOMAIN p : p[i].kind = "zero" /\ b \in p[i].writes

(* attention_f32_batched zeroes its scratch buffer, encodes the kernel     *)
(* that copies the tail there, then the one that reads it; nothing else    *)
(* reads the scratch buffer.                                               *)
ZeroesScratchOnly(p) ==
  \A i \in DOMAIN p :
    /\ p[i].kind = "zero" =>
         /\ i + 1 \in DOMAIN p
         /\ p[i + 1].kind = "kernel"
         /\ p[i].writes \subseteq p[i + 1].writes
    /\ \A b \in p[i].reads : Zeroed(p, b) =>
         /\ p[i].kind = "kernel"
         /\ i > 2
         /\ p[i - 2].kind = "zero"
         /\ b \in p[i - 2].writes

ASSUME ProgramAssumption ==
  \A p \in Programs : p \in Seq(Op) /\ ZeroesScratchOnly(p)

VARIABLES
  program, pc,       \* what the request does, and its next operation
  mem,               \* contents of the buffers
  commands,          \* encoded kernels that have not run
  graphActive,       \* graph_active: there is an active_command_buffer
  waiting,           \* the host is in waitUntilCompleted
  guard,             \* MpsGraphGuard::active_
  status,            \* "running", "ok", "failed" or "refused"
  contents,          \* observer: what a buffer holds by program order
  host               \* what the last copy_from_buffer returned

vars == <<program, pc, mem, commands, graphActive, waiting, guard, status,
          contents, host>>

Stale == -1

Init ==
  /\ program \in Programs
  /\ pc = 1
  /\ mem = [b \in Buffers |-> 0]
  /\ commands = {}
  /\ graphActive = FALSE
  /\ waiting = FALSE
  /\ guard = FALSE
  /\ status = "running"
  /\ contents = [b \in Buffers |-> 0]
  /\ host = 0

-----------------------------------------------------------------------------
Issues(kind) ==
  /\ status = "running"
  /\ ~waiting
  /\ pc \in DOMAIN program
  /\ program[pc].kind = kind

Reads == program[pc].reads
Writes == program[pc].writes

Put(m, bs, v) == [b \in Buffers |-> IF b \in bs THEN v ELSE m[b]]

(* The operation returns; it wrote the buffers bs. *)
Completes(bs) ==
  /\ pc' = pc + 1
  /\ contents' = Put(contents, bs, pc)
  /\ UNCHANGED <<program, status>>

CommitKeepsGraph ==
  /\ graphActive' = graphActive
  /\ waiting' = TRUE

(* commit_graph with an active graph: it is inactive before the host waits. *)
CommitGraph ==
  /\ graphActive' = FALSE
  /\ waiting' = TRUE

ReadsDoNotFlush == {"upload", "move"}
UploadsDoNotFlush == {"download", "move"}

(* The operations that commit an active graph before they do their work. *)
Flushing == {"upload", "download", "move"}

MustFlush == program[pc].kind \in Flushing /\ graphActive

-----------------------------------------------------------------------------
Begin ==
  /\ Issues("begin")
  /\ ~graphActive
  /\ graphActive' = TRUE
  /\ guard' = TRUE
  /\ Completes({})
  /\ UNCHANGED <<mem, commands, waiting, host>>

(* begin_graph refuses; the guard forgets a graph it may have opened. *)
BeginRefused ==
  /\ Issues("begin")
  /\ graphActive
  /\ guard' = FALSE
  /\ status' = "refused"
  /\ UNCHANGED <<program, pc, mem, commands, graphActive, waiting, contents,
                 host>>

Commit ==
  /\ Issues("commit")
  /\ guard' = FALSE
  /\ IF guard /\ graphActive THEN CommitGraph
     ELSE UNCHANGED <<graphActive, waiting>>
  /\ Completes({})
  /\ UNCHANGED <<mem, commands, host>>

(* The implicit commit of a host copy, which leaves the guard as it is. *)
Flush ==
  /\ \E kind \in Flushing : Issues(kind)
  /\ graphActive
  /\ CommitGraph
  /\ UNCHANGED <<program, pc, mem, commands, guard, status, contents, host>>

(* A kernel goes to the active graph, or is committed and waited for. *)
Encode ==
  /\ Issues("kernel")
  /\ commands' = commands \cup
       {[at |-> pc, inputs |-> [b \in Reads |-> contents[b]], writes |-> Writes]}
  /\ waiting' = ~graphActive
  /\ Completes(Writes)
  /\ UNCHANGED <<mem, graphActive, guard, host>>

Upload ==
  /\ Issues("upload")
  /\ ~MustFlush
  /\ mem' = Put(mem, Writes, pc)
  /\ Completes(Writes)
  /\ UNCHANGED <<commands, graphActive, waiting, guard, host>>

Download ==
  /\ Issues("download")
  /\ ~MustFlush
  /\ \E b \in Reads : host' = mem[b]
  /\ Completes({})
  /\ UNCHANGED <<mem, commands, graphActive, waiting, guard>>

(* copy_buffer_region *)
Move ==
  /\ Issues("move")
  /\ ~MustFlush
  /\ mem' = Put(mem, Writes,
                IF \A b \in Reads : mem[b] = contents[b] THEN pc ELSE Stale)
  /\ Completes(Writes)
  /\ UNCHANGED <<commands, graphActive, waiting, guard, host>>

Zero ==
  /\ Issues("zero")
  /\ mem' = Put(mem, Writes, pc)
  /\ Completes(Writes)
  /\ UNCHANGED <<commands, graphActive, waiting, guard, host>>

-----------------------------------------------------------------------------
(* The GPU runs the kernel that was encoded first. *)
Execute ==
  /\ waiting
  /\ \E c \in commands :
       /\ \A d \in commands : c.at <= d.at
       /\ mem' = Put(mem, c.writes,
                     IF \A b \in DOMAIN c.inputs : mem[b] = c.inputs[b]
                     THEN c.at ELSE Stale)
       /\ commands' = commands \ {c}
  /\ UNCHANGED <<program, pc, graphActive, waiting, guard, status, contents,
                 host>>

(* waitUntilCompleted returns, with or without an error. *)
WaitEnds ==
  /\ waiting
  /\ commands = {}
  /\ waiting' = FALSE
  /\ UNCHANGED <<program, pc, mem, commands, graphActive, guard, status,
                 contents, host>>

UnguardedScope == UNCHANGED <<guard, graphActive, commands>>

(* ~MpsGraphGuard, at the end of its scope and on every error path. *)
LeaveScope ==
  /\ guard' = FALSE
  /\ graphActive' = (graphActive /\ ~guard)
  /\ commands' = IF guard THEN {} ELSE commands

GpuFails ==
  /\ status = "running"
  /\ waiting
  /\ waiting' = FALSE
  /\ commands' = {}
  /\ guard' = FALSE
  /\ status' = "failed"
  /\ UNCHANGED <<program, pc, mem, graphActive, contents, host>>

(* An operation is refused, or the host fails between two operations. *)
HostFails ==
  /\ status = "running"
  /\ ~waiting
  /\ pc \in DOMAIN program
  /\ LeaveScope
  /\ status' = "failed"
  /\ UNCHANGED <<program, pc, mem, waiting, contents, host>>

Return ==
  /\ status = "running"
  /\ ~waiting
  /\ pc \notin DOMAIN program
  /\ LeaveScope
  /\ status' = "ok"
  /\ UNCHANGED <<program, pc, mem, waiting, contents, host>>

Next ==
  \/ Begin \/ BeginRefused \/ Commit \/ Flush \/ Encode
  \/ Upload \/ Download \/ Move \/ Zero
  \/ Execute \/ WaitEnds \/ GpuFails \/ HostFails \/ Return

Spec == Init /\ [][Next]_vars

-----------------------------------------------------------------------------
TypeOK ==
  /\ program \in Seq(Op)
  /\ pc \in 1..(Len(program) + 1)
  /\ mem \in [Buffers -> 0..Len(program) \cup {Stale}]
  /\ \A c \in commands :
       /\ c.at \in 1..Len(program)
       /\ c.writes \subseteq Buffers /\ DOMAIN c.inputs \subseteq Buffers
  /\ graphActive \in BOOLEAN /\ waiting \in BOOLEAN /\ guard \in BOOLEAN
  /\ waiting => ~graphActive
  /\ commands # {} => waiting \/ graphActive
  /\ status \in {"running", "ok", "failed", "refused"}
  /\ contents \in [Buffers -> 0..Len(program)]
  /\ host \in 0..Len(program) \cup {Stale}

(* Deferring kernels to a graph is invisible: whatever the program, the    *)
(* host reads what a device returns that runs every operation at once.     *)
Eager == INSTANCE EagerDevice WITH issued <- pc

ImplementsEagerDevice == Eager!Spec

(* No kernel and no copy computes from a buffer that a later upload or     *)
(* zero_buffer has overtaken, or that an earlier kernel has yet to fill,   *)
(* even if nobody reads its result.                                        *)
NothingStale == \A b \in Buffers : mem[b] # Stale

(* Whether a request ends well, in the middle of a graph or by an error of *)
(* the GPU, its context has no active graph that the next begin_graph      *)
(* would be refused for.                                                   *)
GraphIsClosed == status \in {"ok", "failed"} => ~graphActive

(* No guard begins a graph while another one is active: begin_graph would  *)
(* refuse, and the guard lose the graph it has.                            *)
BeginIsAccepted == Issues("begin") => ~graphActive

=============================================================================
