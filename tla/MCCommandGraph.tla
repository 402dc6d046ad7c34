--------------------------- MODULE MCCommandGraph ---------------------------
(***************************************************************************)
(* The requests of generate_qwen35_metal that differ in the order of their *)
(* GPU operations, and every program of up to MaxCalls calls on two        *)
(* buffers and the scratch buffer that an attention with a padded tail     *)
(* uses.                                                                   *)
(***************************************************************************)
EXTENDS MetalPrograms

CONSTANT MaxCalls    \* bound on the calls of a program

(* The prefix cache needs one commit per chunk, and no MTP. *)
MCRequests ==
  {r \in [commit : {"off", "chunk", "layer"}, chunks : {1, 2},
          dump : BOOLEAN, cached : BOOLEAN, restored : {"none", "some", "all"},
          flash : BOOLEAN, drafts : {0, 2}, chained : BOOLEAN,
          accepted : BOOLEAN] :
     /\ r.cached => r.commit = "chunk" /\ r.drafts = 0
     /\ r.restored # "none" => r.cached
     /\ r.drafts = 0 => r.chained /\ r.accepted}

Attention ==
  ZeroBuffer("tail") \o Dispatch({"kv"}, {"tail"}) \o
  Dispatch({"tail"}, {"hidden"})

Calls ==
  {GuardBegin, GuardCommit, Dispatch({"kv"}, {"hidden"}),
   Dispatch({"kv", "hidden"}, {"kv"}), CopyTo("kv"), CopyFrom("hidden"),
   CopyRegion("hidden", "kv"), Attention}

MCAnyPrograms ==
  {FlattenSeq(calls) : calls \in UNION {[1..n -> Calls] : n \in 1..MaxCalls}}

MCPrograms == RequestPrograms \cup MCAnyPrograms

=============================================================================
