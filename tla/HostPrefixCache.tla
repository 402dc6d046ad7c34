--------------------------- MODULE HostPrefixCache ---------------------------
(***************************************************************************)
(* The process-wide Qwen35HostPrefixCache and the generation requests that *)
(* share it: each request with cache_prompt locks the cache's mutex for    *)
(* its whole generation, configures the cache for its model, looks its     *)
(* prompt up, restores the blocks it hit into its own device cache and     *)
(* commits the blocks it had to prefill.                                   *)
(*                                                                         *)
(* A KV row, a recurrent state and a hidden row are abstracted to what     *)
(* they were computed from: the model's weights and the tokens up to them. *)
(* A setting's layout is what Qwen35HostPrefixCacheLayout records of the   *)
(* model; its weights are what the model file holds.                       *)
(*                                                                         *)
(* AlwaysLockable, ConfigurationWithoutLayout and LeakedMutex are mistakes *)
(* the code could contain; no definition uses them.                        *)
(***************************************************************************)
EXTENDS PrefixCacheIndex

CONSTANTS
  Requests,          \* the threads that serve requests
  Free,              \* not a request: the mutex is not held
  Prompts,           \* the prompts a request may bring
  Settings,          \* layout, weights, capacity and minReuse of a request
  Unset,             \* not a member of Settings: configure was never called
  MaxServed          \* bound on the number of requests of a behaviour

ASSUME HostAssumption ==
  /\ Free \notin Requests
  /\ Unset \notin Settings
  /\ Prompts \subseteq Seq(Token) \ {<<>>}
  /\ \A s \in Settings : s.capacity \in Nat \ {0} /\ s.minReuse \in Nat
  /\ MaxServed \in Nat

VARIABLES
  configured,        \* layout_ and the configuration of index_
  index,             \* index_
  payloads,          \* payloads_, by hash
  mutex,             \* the request that holds the cache mutex
  served,            \* number of requests begun (bounded by MaxServed)
  pc, prompt, settings, cached, hits,        \* a request's progress and lookup
  rows, recurrent, hidden,                   \* its device cache
  repeated           \* observer: the last cached request, if it completed

cacheState == <<configured, index, payloads>>
deviceCache == <<rows, recurrent, hidden>>
request == <<prompt, settings>>
vars == <<configured, index, payloads, mutex, served, pc, prompt, settings,
          cached, hits, rows, recurrent, hidden, repeated>>

Computed(weights, tokens) == [weights |-> weights, tokens |-> tokens]

Nothing == Computed(Unset, <<>>)

(* What a prefill of these tokens on an empty device cache leaves behind. *)
FreshRows(weights, tokens) ==
  [p \in 1..Len(tokens) |-> Computed(weights, SubSeq(tokens, 1, p))]

Init ==
  /\ configured = Unset
  /\ index = EmptyIndex
  /\ payloads = <<>>
  /\ mutex = Free
  /\ served = 0
  /\ pc = [r \in Requests |-> "idle"]
  /\ prompt = [r \in Requests |-> <<>>]
  /\ settings = [r \in Requests |-> Unset]
  /\ cached = [r \in Requests |-> FALSE]
  /\ hits = [r \in Requests |-> 0]
  /\ rows = [r \in Requests |-> <<>>]
  /\ recurrent = [r \in Requests |-> Nothing]
  /\ hidden = [r \in Requests |-> Nothing]
  /\ repeated = Unset
-----------------------------------------------------------------------------
(* A request begins; with cache_prompt it first waits for the mutex. *)
Begin(r) ==
  /\ pc[r] = "idle"
  /\ served < MaxServed
  /\ served' = served + 1
  /\ \E tokens \in Prompts, s \in Settings, cachePrompt \in BOOLEAN :
       /\ prompt' = [prompt EXCEPT ![r] = tokens]
       /\ settings' = [settings EXCEPT ![r] = s]
       /\ pc' = [pc EXCEPT ![r] = IF cachePrompt THEN "lock" ELSE "open"]
  /\ UNCHANGED <<cacheState, mutex, cached, hits, deviceCache, repeated>>

AlwaysLockable == TRUE

Lockable == mutex = Free

Lock(r) ==
  /\ pc[r] = "lock"
  /\ Lockable
  /\ mutex' = r
  /\ pc' = [pc EXCEPT ![r] = "open"]
  /\ UNCHANGED <<cacheState, served, request, cached, hits, deviceCache, repeated>>

(* configure: a changed layout or configuration empties the cache. *)
ConfigurationWithoutLayout(s) == [capacity |-> s.capacity, minReuse |-> s.minReuse]

Configuration(s) ==
  [layout |-> s.layout, capacity |-> s.capacity, minReuse |-> s.minReuse]
ConfiguredIndex(s) ==
  IF configured = Configuration(s) THEN index ELSE EmptyIndex
ConfiguredPayloads(s) ==
  IF configured = Configuration(s) THEN payloads ELSE <<>>

(* The cache is used unless speculation, an image prompt, another commit   *)
(* mode or a block size that differs from the prefill chunk rules it out.  *)
OpenCached(r) ==
  /\ pc[r] = "open"
  /\ mutex = r
  /\ LET s == settings[r] IN
     /\ configured' = Configuration(s)
     /\ payloads' = ConfiguredPayloads(s)
     /\ index' = LookupIndex(ConfiguredIndex(s), prompt[r])
     /\ hits' = [hits EXCEPT ![r] =
                  ReusedBlocks(ConfiguredIndex(s), prompt[r], s.minReuse)]
  /\ cached' = [cached EXCEPT ![r] = TRUE]
  /\ pc' = [pc EXCEPT ![r] = "allocate"]
  /\ repeated' = Unset
  /\ UNCHANGED <<mutex, served, request, deviceCache>>

OpenUncached(r) ==
  /\ pc[r] = "open"
  /\ pc' = [pc EXCEPT ![r] = "allocate"]
  /\ UNCHANGED <<cacheState, mutex, served, request, cached, hits, deviceCache,
                 repeated>>

(* allocate_qwen35_metal_cache: zeroed buffers. *)
Allocate(r) ==
  /\ pc[r] = "allocate"
  /\ rows' = [rows EXCEPT ![r] = <<>>]
  /\ recurrent' = [recurrent EXCEPT ![r] = Computed(settings[r].weights, <<>>)]
  /\ hidden' = [hidden EXCEPT ![r] = Nothing]
  /\ pc' = [pc EXCEPT ![r] = IF hits[r] > 0 THEN "restore" ELSE "prefill"]
  /\ UNCHANGED <<cacheState, mutex, served, request, cached, hits, repeated>>

Payload(r, k) == payloads[BlockHash(prompt[r], k)]

(* restore: the KV rows of every block hit, the recurrent state of the     *)
(* last one; a missing payload is an error.                                *)
Restore(r) ==
  /\ pc[r] = "restore"
  /\ \A k \in 1..hits[r] : BlockHash(prompt[r], k) \in DOMAIN payloads
  /\ rows' = [rows EXCEPT ![r] =
       [p \in 1..(hits[r] * BlockTokens) |->
          LET k == (p - 1) \div BlockTokens + 1
          IN  Payload(r, k).rows[p - (k - 1) * BlockTokens]]]
  /\ recurrent' = [recurrent EXCEPT ![r] = Payload(r, hits[r]).recurrent]
  /\ pc' = [pc EXCEPT ![r] =
       IF hits[r] * BlockTokens = Len(prompt[r]) THEN "reuse" ELSE "prefill"]
  /\ UNCHANGED <<cacheState, mutex, served, request, cached, hits, hidden, repeated>>

(* A prompt hit to its end takes its last hidden row from the cache. *)
ReuseHidden(r) ==
  /\ pc[r] = "reuse"
  /\ BlockHash(prompt[r], hits[r]) \in DOMAIN payloads
  /\ hidden' = [hidden EXCEPT ![r] = Payload(r, hits[r]).hidden]
  /\ pc' = [pc EXCEPT ![r] = "decode"]
  /\ UNCHANGED <<cacheState, mutex, served, request, cached, hits, rows,
                 recurrent, repeated>>
-----------------------------------------------------------------------------
(* commit_block of the host cache for block k, whose rows were just        *)
(* computed.  A hash that has a payload is left as it is; else the index   *)
(* inserts the block, and the payload of an evicted block goes with it.    *)
CommitBlock(r, k, payload) ==
  LET hash == BlockHash(prompt[r], k)
      capacity == configured.capacity
  IN  IF hash \in DOMAIN payloads THEN UNCHANGED cacheState
      ELSE IF hash \in Hashes(index)
      THEN /\ index' = TouchBlock(index, prompt[r], k)
           /\ UNCHANGED <<configured, payloads>>
      ELSE LET evicted == {b.hash : b \in Evicted(index, capacity)}
               kept == DOMAIN payloads \ evicted
           IN  /\ index' = InsertBlock(index, capacity, prompt[r], k)
               /\ payloads' = [h \in kept \cup {hash} |->
                                 IF h = hash THEN payload ELSE payloads[h]]
               /\ UNCHANGED configured

(* One prefill chunk: its rows and recurrent state, then, for a cached     *)
(* request and a chunk that is a whole block, the commit.                  *)
PrefillChunk(r) ==
  LET start == Len(rows[r])
      end == IF start + BlockTokens <= Len(prompt[r])
             THEN start + BlockTokens ELSE Len(prompt[r])
      folded(p) == Computed(settings[r].weights,
                            recurrent[r].tokens \o SubSeq(prompt[r], start + 1, p))
  IN  /\ pc[r] = "prefill"
      /\ start < Len(prompt[r])
      /\ rows' = [rows EXCEPT ![r] =
           [p \in 1..end |-> IF p <= start THEN rows[r][p] ELSE folded(p)]]
      /\ recurrent' = [recurrent EXCEPT ![r] = folded(end)]
      /\ hidden' = [hidden EXCEPT ![r] = folded(end)]
      /\ pc' = [pc EXCEPT ![r] = IF end = Len(prompt[r]) THEN "decode" ELSE "prefill"]
      /\ IF cached[r] /\ end = start + BlockTokens /\ start % BlockTokens = 0
         THEN CommitBlock(r, end \div BlockTokens,
                          [rows |-> SubSeq(rows'[r], start + 1, end),
                           recurrent |-> recurrent'[r],
                           hidden |-> hidden'[r]])
         ELSE UNCHANGED cacheState
      /\ UNCHANGED <<mutex, served, request, cached, hits, repeated>>

LeakedMutex(r) == mutex

(* ~unique_lock releases the mutex if this request locked it. *)
ReleasedMutex(r) == IF mutex = r THEN Free ELSE mutex

(* The generation returns: what it kept is gone, its device cache is freed *)
(* and its lock released.                                                  *)
Return(r) ==
  /\ pc' = [pc EXCEPT ![r] = "idle"]
  /\ mutex' = ReleasedMutex(r)
  /\ prompt' = [prompt EXCEPT ![r] = <<>>]
  /\ settings' = [settings EXCEPT ![r] = Unset]
  /\ cached' = [cached EXCEPT ![r] = FALSE]
  /\ hits' = [hits EXCEPT ![r] = 0]
  /\ rows' = [rows EXCEPT ![r] = <<>>]
  /\ recurrent' = [recurrent EXCEPT ![r] = Nothing]
  /\ hidden' = [hidden EXCEPT ![r] = Nothing]
  /\ UNCHANGED <<cacheState, served>>

Finish(r) ==
  /\ pc[r] = "decode"
  /\ Return(r)
  /\ repeated' = IF cached[r] THEN prompt[r] ELSE repeated

(* Every step that touches a file, the device or the tokenizer may fail;   *)
(* in the prefill that includes read_payload, before the index changes.    *)
Fail(r) ==
  /\ pc[r] \notin {"idle", "lock"}
  /\ Return(r)
  /\ UNCHANGED repeated

Step(r) ==
  \/ Lock(r) \/ OpenCached(r) \/ OpenUncached(r) \/ Allocate(r) \/ Restore(r)
  \/ ReuseHidden(r) \/ PrefillChunk(r) \/ Finish(r)

Next == \E r \in Requests : Begin(r) \/ Step(r) \/ Fail(r)

Spec == Init /\ [][Next]_vars /\ \A r \in Requests : WF_vars(Step(r))
-----------------------------------------------------------------------------
(* Type correctness of the shared cache and of the requests. *)
TypeOK ==
  /\ configured \in {Configuration(s) : s \in Settings} \cup {Unset}
  /\ index.tick \in Nat
  /\ \A b \in index.blocks :
       /\ b.tokens \in Seq(Token) /\ Len(b.tokens) = BlockTokens
       /\ b.slot \in Nat /\ b.tick \in 1..index.tick
  /\ mutex \in Requests \cup {Free}
  /\ served \in 0..MaxServed
  /\ pc \in [Requests -> {"idle", "lock", "open", "allocate", "restore", "reuse",
                          "prefill", "decode"}]
  /\ prompt \in [Requests -> Prompts \cup {<<>>}]
  /\ settings \in [Requests -> Settings \cup {Unset}]
  /\ cached \in [Requests -> BOOLEAN]
  /\ hits \in [Requests -> Nat]
  /\ repeated \in Prompts \cup {Unset}

(* The index and the payload map, updated separately, describe the same    *)
(* blocks; no two blocks share a hash, a slot or an LRU stamp, and their   *)
(* slots are those below the capacity that were handed out.                *)
IndexMatchesPayloads ==
  /\ DOMAIN payloads = Hashes(index)
  /\ \A b, c \in index.blocks :
       b # c => b.hash # c.hash /\ b.slot # c.slot /\ b.tick # c.tick
  /\ configured # Unset =>
       /\ Cardinality(index.blocks) <= configured.capacity
       /\ {b.slot : b \in index.blocks} = 0..(Cardinality(index.blocks) - 1)

(* The blocks a lookup hit still have their payloads when they are         *)
(* restored, and the last one when its hidden row is read, although the    *)
(* device cache is allocated and other requests run in between.            *)
HitsStayResident ==
  \A r \in Requests :
    pc[r] \in {"allocate", "restore", "reuse"} =>
      \A k \in 1..hits[r] : BlockHash(prompt[r], k) \in DOMAIN payloads

(* Caching never changes what is computed: when the prefill is over, KV    *)
(* rows, recurrent state and last hidden row are those of a prefill of     *)
(* this prompt, by this model, without a cache.                            *)
PrefillIgnoresCache ==
  \A r \in Requests :
    pc[r] = "decode" =>
      /\ rows[r] = FreshRows(settings[r].weights, prompt[r])
      /\ recurrent[r] = Computed(settings[r].weights, prompt[r])
      /\ hidden[r] = Computed(settings[r].weights, prompt[r])

(* A prompt that was just served and fits in the cache is hit in full when *)
(* it comes again, whatever the cache held before: none of its blocks was  *)
(* evicted for another one, although blocks that already had a payload     *)
(* keep their old LRU stamp.                                               *)
RepeatIsFullHit ==
  repeated # Unset /\ Cardinality(CompleteBlocks(repeated)) <= configured.capacity =>
    HitBlocks(index, repeated) = CompleteBlocks(repeated)

(* Every request that began returns, also when it waits for the mutex and  *)
(* when the request that holds it fails.                                   *)
EveryRequestReturns == \A r \in Requests : pc[r] # "idle" ~> pc[r] = "idle"

=============================================================================
