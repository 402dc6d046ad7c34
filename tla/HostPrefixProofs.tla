-------------------------- MODULE HostPrefixProofs --------------------------
(***************************************************************************)
(* For any number of threads, prompts, models and blocks: index and        *)
(* payloads of the prefix cache agree, and what a lookup hit is there when *)
(* it is restored.  If no two histories share a hash, a prompt that comes  *)
(* again is hit in full when it fits; if a layout fixes the weights too,   *)
(* the cache never changes what a prefill computes.                        *)
(***************************************************************************)
EXTENDS HostPrefixCache, FiniteSetTheorems, SequenceTheorems, WellFoundedInduction,
        TLAPS

Hashed == {Hash(h) : h \in Seq(Token)}

Block == [hash : Hashed, parent : Hashed,
          tokens : {t \in Seq(Token) : Len(t) = BlockTokens},
          slot : Nat, tick : Nat \ {0}]

Distinct(blocks) ==
  \A b, c \in blocks : b # c => b.hash # c.hash /\ b.slot # c.slot /\ b.tick # c.tick

Slots(blocks) == {b.slot : b \in blocks}

(* An index as its operations leave it.                                    *)
Wellformed(ix) ==
  /\ ix \in [blocks : SUBSET Block, tick : Nat]
  /\ IsFiniteSet(ix.blocks)
  /\ \A b \in ix.blocks : b.tick <= ix.tick
  /\ Distinct(ix.blocks)
  /\ Slots(ix.blocks) = 0..(Cardinality(ix.blocks) - 1)

-----------------------------------------------------------------------------
(* A set of numbers has a least element. *)
LEMMA LeastNat ==
  ASSUME NEW T, T \subseteq Nat, T # {}
  PROVE  \E x \in T : \A y \in T : x <= y
PROOF
<1> DEFINE R == {p \in Nat \X Nat : p[1] < p[2]}
<1>1. IsWellFoundedOn(R, Nat)
  BY NatLessThanWellFounded DEF OpToRel
<1>2. PICK x \in T : \A y \in T : ~(<<y, x>> \in R)
  <2> HIDE DEF R
  <2> QED BY <1>1, WFMin
<1>3. ASSUME NEW y \in T PROVE x <= y
  <2>1. x \in Nat /\ y \in Nat /\ <<y, x>> \notin R
    BY <1>2
  <2>2. <<y, x>> \in Nat \X Nat /\ <<y, x>>[1] = y /\ <<y, x>>[2] = x
    BY <2>1
  <2>3. ~(y < x)
    BY <2>1, <2>2
  <2> QED BY <2>1, <2>3
<1> QED BY <1>3

(* A set of numbers up to n has a greatest one. *)
LEMMA GreatestOf ==
  ASSUME NEW n \in Nat, NEW T, T \subseteq 1..n, T # {}
  PROVE  \E x \in T : \A y \in T : y <= x
PROOF
<1> DEFINE U == {n - x : x \in T}
<1>1. U \subseteq Nat /\ U # {}
  <2>1. ASSUME NEW x \in T PROVE n - x \in Nat
    BY <2>1
  <2>2. PICK x \in T : TRUE
    OBVIOUS
  <2>3. n - x \in U
    BY <2>2
  <2> QED BY <2>1, <2>3
<1>2. PICK u \in U : \A v \in U : u <= v
  BY <1>1, LeastNat
<1>3. PICK x \in T : u = n - x
  OBVIOUS
<1>4. ASSUME NEW y \in T PROVE y <= x
  <2>1. n - y \in U /\ x \in 1..n /\ y \in 1..n
    OBVIOUS
  <2>2. n - x <= n - y
    BY <1>2, <1>3, <2>1
  <2> QED BY <2>1, <2>2
<1> QED BY <1>4

(* A set that holds every number below each of its members is counted by   *)
(* the last of them.                                                       *)
LEMMA InitialSegment ==
  ASSUME NEW n \in Nat, NEW S \in SUBSET (1..n), \A k \in S : 1..k \subseteq S
  PROVE  IsFiniteSet(S) /\ Cardinality(S) \in 0..n /\ S = 1..Cardinality(S)
PROOF
<1>1. IsFiniteSet(1..n) /\ Cardinality(1..n) = n
  BY FS_Interval
<1>2. IsFiniteSet(S) /\ Cardinality(S) \in Nat /\ Cardinality(S) <= n
  BY <1>1, FS_Subset, FS_CardinalityType
<1>3. ASSUME NEW k \in S PROVE k \in 1..Cardinality(S)
  <2>1. k \in Nat \ {0} /\ IsFiniteSet(1..k) /\ Cardinality(1..k) = k
    BY FS_Interval
  <2>2. k <= Cardinality(S)
    BY <1>2, <1>3, <2>1, FS_Subset
  <2> QED BY <1>2, <2>1, <2>2
<1>4. ASSUME NEW k \in 1..Cardinality(S), k \notin S PROVE FALSE
  <2>1. S \subseteq 1..(k - 1)
    <3>1. ASSUME NEW j \in S PROVE j \in 1..(k - 1)
      <4>1. j \in 1..n /\ 1..j \subseteq S
        OBVIOUS
      <4>2. ~(k \in 1..j)
        BY <1>4, <4>1
      <4> QED BY <1>2, <4>1, <4>2
    <3> QED BY <3>1
  <2>2. k \in Nat /\ k >= 1 /\ k <= Cardinality(S)
    BY <1>2, <1>4
  <2>3. IsFiniteSet(1..(k - 1)) /\ Cardinality(1..(k - 1)) = k - 1
    <3>1. 1 \in Int /\ k - 1 \in Int /\ (1 > k - 1 => k - 1 = 0)
      BY <2>2
    <3> QED BY <3>1, FS_Interval
  <2>4. Cardinality(S) <= k - 1
    BY <2>1, <2>3, FS_Subset
  <2> QED BY <1>2, <2>2, <2>4
<1>5. S = 1..Cardinality(S)
  <2>1. S \subseteq 1..Cardinality(S)
    BY <1>3
  <2>2. 1..Cardinality(S) \subseteq S
    BY <1>4
  <2> QED BY <2>1, <2>2
<1> QED BY <1>2, <1>5

(* Whole blocks and what remains. *)
LEMMA BlockEnd ==
  ASSUME NEW n \in Nat, NEW b \in Nat \ {0}, n % b = 0
  PROVE  /\ (n + b) \div b \in Nat \ {0}
         /\ ((n + b) \div b) * b = n + b
PROOF
<1> DEFINE q == n \div b
<1>1. n = b * q /\ q \in Nat
  BY Z3
<1> HIDE DEF q
<1>2. n + b = b * (q + 1)
  BY <1>1
<1>3. (b * (q + 1)) \div b = q + 1
  BY <1>1, Z3
<1> QED BY <1>1, <1>2, <1>3

(* The whole blocks of n tokens end within them. *)
LEMMA BlocksFit ==
  ASSUME NEW n \in Nat, NEW b \in Nat \ {0}
  PROVE  /\ n \div b \in Nat
         /\ \A k \in 0..(n \div b) : k * b \in 0..n
         /\ \A k \in Nat : k * b <= n => k <= n \div b
PROOF
<1> DEFINE q == n \div b
           m == n % b
<1>1. n = b * q + m /\ q \in Nat /\ m \in 0..(b - 1)
  BY Z3
<1> HIDE DEF q, m
<1>2. ASSUME NEW k \in 0..q PROVE k * b \in 0..n
  <2>1. k * b <= q * b /\ k * b \in Nat
    BY <1>1, <1>2, Z3
  <2> QED BY <1>1, <2>1
<1>3. ASSUME NEW k \in Nat, k * b <= n PROVE k <= q
  <2>1. CASE k >= q + 1
    <3>1. k * b >= (q + 1) * b
      BY <1>1, <2>1, Z3
    <3> QED BY <1>1, <1>3, <3>1
  <2> QED BY <1>1, <2>1
<1> QED BY <1>1, <1>2, <1>3 DEF q

(* The place of a row in its block. *)
LEMMA PlaceInBlock ==
  \A n \in Nat, b \in Nat \ {0} : \A p \in 1..(n * b) : \A k :
    k = (p - 1) \div b + 1 =>
      /\ k \in 1..n
      /\ p - (k - 1) * b \in 1..b
      /\ k * b - b + (p - (k - 1) * b) = p
PROOF
<1> SUFFICES ASSUME NEW n \in Nat, NEW b \in Nat \ {0}, NEW p \in 1..(n * b),
                    NEW k, k = (p - 1) \div b + 1
             PROVE  /\ k \in 1..n
                    /\ p - (k - 1) * b \in 1..b
                    /\ k * b - b + (p - (k - 1) * b) = p
  BY Zenon
<1>0. n * b \in Nat /\ p \in Nat \ {0} /\ p <= n * b
  OBVIOUS
<1> DEFINE q == (p - 1) \div b
           m == (p - 1) % b
<1>1. p - 1 = b * q + m /\ q \in Nat /\ m \in 0..(b - 1)
  BY <1>0, Z3
<1> HIDE DEF q, m
<1>2. k = q + 1
  BY DEF q
<1>3. q < n
  <2>1. CASE q >= n
    <3>1. q * b >= n * b
      BY <1>1, <2>1, Z3
    <3> QED BY <1>0, <1>1, <3>1
  <2> QED BY <1>1, <2>1
<1>4. (k - 1) * b = b * q /\ k * b - b = b * q
  BY <1>1, <1>2
<1> QED BY <1>0, <1>1, <1>2, <1>3, <1>4
-----------------------------------------------------------------------------
(* The block of a prompt that ends with k blocks, as a commit enters it. *)
LEMMA BlockOfPrompt ==
  ASSUME NEW tokens \in Seq(Token), NEW k \in Nat, k * BlockTokens <= Len(tokens)
  PROVE  /\ k * BlockTokens \in 0..Len(tokens)
         /\ History(tokens, k) \in Seq(Token)
         /\ Len(History(tokens, k)) = k * BlockTokens
         /\ BlockHash(tokens, k) \in Hashed
         /\ k > 0 => /\ ParentHash(tokens, k) \in Hashed
                     /\ BlockContent(tokens, k) \in Seq(Token)
                     /\ Len(BlockContent(tokens, k)) = BlockTokens
PROOF
<1> DEFINE n == k * BlockTokens
<1>1. BlockTokens \in Nat /\ BlockTokens > 0 /\ Len(tokens) \in Nat
  BY BlockAssumption
<1>2. n \in 0..Len(tokens)
  BY <1>1, Z3
<1>3. \A i \in 1..Len(tokens) : tokens[i] \in Token
  OBVIOUS
<1>4. n \in Int /\ 1 \in Int /\ \A i \in 1..n : tokens[i] \in Token
  BY <1>1, <1>2, <1>3
<1>5. SubSeq(tokens, 1, n) \in Seq(Token) /\ Len(SubSeq(tokens, 1, n)) = n
  <2> HIDE DEF n
  <2>1. /\ SubSeq(tokens, 1, n) \in Seq(Token)
        /\ Len(SubSeq(tokens, 1, n)) = IF 1 <= n THEN n - 1 + 1 ELSE 0
    BY <1>4, SubSeqProperties
  <2> QED BY <1>2, <2>1
<1>6. ASSUME k > 0
      PROVE  /\ ParentHash(tokens, k) \in Hashed
             /\ BlockContent(tokens, k) \in Seq(Token)
             /\ Len(BlockContent(tokens, k)) = BlockTokens
  <2> DEFINE m == (k - 1) * BlockTokens
  <2>1. m \in Nat /\ m + BlockTokens = n
    BY <1>1, <1>6, Z3
  <2> HIDE DEF m, n
  <2>2. /\ m \in Int /\ m + 1 \in Int
        /\ \A i \in 1..m : tokens[i] \in Token
        /\ \A i \in (m + 1)..n : tokens[i] \in Token
    BY <1>1, <1>2, <1>3, <2>1
  <2>3. SubSeq(tokens, 1, m) \in Seq(Token)
    BY <1>4, <2>2, SubSeqProperties
  <2>4. /\ SubSeq(tokens, m + 1, n) \in Seq(Token)
        /\ Len(SubSeq(tokens, m + 1, n)) = IF m + 1 <= n THEN n - (m + 1) + 1 ELSE 0
    BY <1>4, <2>2, SubSeqProperties
  <2>5. Len(SubSeq(tokens, m + 1, n)) = BlockTokens
    BY <1>1, <2>1, <2>4
  <2> QED BY <2>3, <2>4, <2>5 DEF ParentHash, History, BlockContent, Hashed, m, n
<1> QED BY <1>2, <1>5, <1>6 DEF History, BlockHash, Hashed

(* What a lookup hits is an initial segment of the prompt's blocks. *)
LEMMA HitsAreASegment ==
  ASSUME NEW ix, NEW tokens \in Seq(Token)
  PROVE  LET n == Cardinality(HitBlocks(ix, tokens)) IN
         /\ HitBlocks(ix, tokens) = 1..n
         /\ n \in Nat
         /\ n * BlockTokens <= Len(tokens)
         /\ \A k \in 1..n : k * BlockTokens <= Len(tokens)
         /\ \A k \in 1..n : BlockHash(tokens, k) \in Hashes(ix)
PROOF
<1> DEFINE S == HitBlocks(ix, tokens)
           d == Len(tokens) \div BlockTokens
<1>1. Len(tokens) \in Nat /\ BlockTokens \in Nat \ {0}
  BY BlockAssumption
<1>2. d \in Nat /\ \A k \in 0..d : k * BlockTokens \in 0..Len(tokens)
  BY <1>1, BlocksFit
<1>3. S \in SUBSET (1..d)
  BY DEF HitBlocks, CompleteBlocks
<1> HIDE DEF d
<1>4. \A k \in S : 1..k \subseteq S
  <2>1. ASSUME NEW k \in S, NEW j \in 1..k PROVE j \in S
    <3>1. k \in 1..d /\ j \in 1..d /\ 1..j \subseteq 1..k
      BY <1>2, <1>3, <2>1
    <3>2. \A i \in 1..k : Matches(ix, tokens, i)
      BY <2>1 DEF HitBlocks
    <3> QED BY <3>1, <3>2 DEF HitBlocks, CompleteBlocks, d
  <2> QED BY <2>1
<1> HIDE DEF S
<1>5. Cardinality(S) \in 0..d /\ S = 1..Cardinality(S)
  BY <1>2, <1>3, <1>4, InitialSegment
<1>6. \A k \in S : BlockHash(tokens, k) \in Hashes(ix)
  <2>1. ASSUME NEW k \in S PROVE BlockHash(tokens, k) \in Hashes(ix)
    <3>1. k \in 1..k
      BY <1>2, <1>3
    <3>2. Matches(ix, tokens, k)
      BY <3>1 DEF S, HitBlocks
    <3> QED BY <3>2 DEF Matches, Hashes
  <2> QED BY <2>1
<1>7. Cardinality(S) \in Nat /\ Cardinality(S) * BlockTokens <= Len(tokens)
  BY <1>1, <1>2, <1>5
<1>8. \A k \in 1..Cardinality(S) : k * BlockTokens <= Len(tokens)
  BY <1>1, <1>2, <1>5
<1> QED BY <1>5, <1>6, <1>7, <1>8 DEF S

(* Blocks that only change their stamps are the same blocks. *)
LEMMA Relabelled ==
  ASSUME NEW blocks \in SUBSET Block, IsFiniteSet(blocks), Distinct(blocks),
         NEW f \in [blocks -> Block],
         \A b \in blocks : f[b].hash = b.hash /\ f[b].slot = b.slot
  PROVE  LET T == {f[b] : b \in blocks} IN
         /\ T \in SUBSET Block
         /\ IsFiniteSet(T)
         /\ Cardinality(T) = Cardinality(blocks)
         /\ Slots(T) = Slots(blocks)
         /\ {b.hash : b \in T} = {b.hash : b \in blocks}
PROOF
<1> DEFINE T == {f[b] : b \in blocks}
<1>1. \A b \in blocks : f[b] \in Block
  OBVIOUS
<1>2. f \in [blocks -> T] /\ \A t \in T : \E b \in blocks : f[b] = t
  OBVIOUS
<1>3. \A b, c \in blocks : f[b] = f[c] => b = c
  BY DEF Distinct
<1>4. f \in Bijection(blocks, T)
  BY <1>2, <1>3 DEF Bijection, Injection, Surjection, IsInjective
<1>5. ExistsBijection(blocks, T)
  BY <1>4 DEF ExistsBijection
<1>6. IsFiniteSet(T) /\ Cardinality(T) = Cardinality(blocks)
  BY <1>5, FS_Bijection
<1>7. Slots(T) = Slots(blocks) /\ {b.hash : b \in T} = {b.hash : b \in blocks}
  BY DEF Slots
<1> QED BY <1>1, <1>6, <1>7

(* A lookup keeps the index wellformed and its blocks. *)
LEMMA LookupKeeps ==
  ASSUME NEW ix, Wellformed(ix), NEW tokens \in Seq(Token)
  PROVE  LET new == LookupIndex(ix, tokens) IN
         /\ Wellformed(new)
         /\ Hashes(new) = Hashes(ix)
         /\ Cardinality(new.blocks) = Cardinality(ix.blocks)
PROOF
<1> DEFINE walked == HitBlocks(ix, tokens)
           n == Cardinality(walked)
           stamped(b) == {k \in walked : b.hash = BlockHash(tokens, k)}
           touch(b) ==
             IF stamped(b) = {} THEN b
             ELSE LET k == CHOOSE k \in stamped(b) : \A j \in stamped(b) : j <= k
                  IN  [b EXCEPT !.tick = ix.tick + k]
           f == [b \in ix.blocks |-> touch(b)]
           T == {f[b] : b \in ix.blocks}
<1>1. walked = 1..n /\ n \in Nat
  BY HitsAreASegment
<1>2. /\ ix.blocks \in SUBSET Block /\ ix.tick \in Nat
      /\ IsFiniteSet(ix.blocks) /\ Distinct(ix.blocks)
      /\ \A b \in ix.blocks : b.tick <= ix.tick
  BY DEF Wellformed
<1>3. LookupIndex(ix, tokens) = [blocks |-> T, tick |-> ix.tick + n]
  BY DEF LookupIndex
<1> HIDE DEF n, walked
<1>4. ASSUME NEW b \in ix.blocks
      PROVE  \/ touch(b) = b
             \/ \E k \in 1..n : /\ b.hash = BlockHash(tokens, k)
                                /\ touch(b) = [b EXCEPT !.tick = ix.tick + k]
  <2>1. CASE stamped(b) = {}
    BY <2>1
  <2>2. CASE stamped(b) # {}
    <3>1. \E k \in stamped(b) : \A j \in stamped(b) : j <= k
      BY <1>1, <2>2, GreatestOf
    <3> DEFINE k == CHOOSE k \in stamped(b) : \A j \in stamped(b) : j <= k
    <3>2. k \in stamped(b)
      BY <3>1
    <3>3. touch(b) = [b EXCEPT !.tick = ix.tick + k]
      BY <2>2
    <3> HIDE DEF k, touch
    <3> QED BY <1>1, <3>2, <3>3
  <2> QED BY <2>1, <2>2
<1> HIDE DEF touch, stamped
<1>5. \A b \in ix.blocks :
        /\ f[b] \in Block /\ f[b].hash = b.hash /\ f[b].slot = b.slot
        /\ f[b].tick <= ix.tick + n
        /\ \/ f[b] = b
           \/ \E k \in 1..n : /\ b.hash = BlockHash(tokens, k)
                              /\ f[b].tick = ix.tick + k
  <2>1. ASSUME NEW b \in ix.blocks
        PROVE  /\ f[b] \in Block /\ f[b].hash = b.hash /\ f[b].slot = b.slot
               /\ f[b].tick <= ix.tick + n
               /\ \/ f[b] = b
                  \/ \E k \in 1..n : /\ b.hash = BlockHash(tokens, k)
                                     /\ f[b].tick = ix.tick + k
    <3>1. f[b] = touch(b) /\ b \in Block /\ b.tick <= ix.tick
      BY <1>2
    <3>2. CASE touch(b) = b
      BY <1>1, <1>2, <3>1, <3>2 DEF Block
    <3>3. ASSUME NEW k \in 1..n, b.hash = BlockHash(tokens, k),
                 touch(b) = [b EXCEPT !.tick = ix.tick + k]
          PROVE  /\ f[b] \in Block /\ f[b].hash = b.hash /\ f[b].slot = b.slot
                 /\ f[b].tick <= ix.tick + n /\ f[b].tick = ix.tick + k
      <4>1. ix.tick + k \in Nat \ {0} /\ ix.tick + k <= ix.tick + n
        BY <1>1, <1>2
      <4>2. b.hash \in Hashed /\ b.parent \in Hashed /\ b.slot \in Nat
        BY <3>1 DEF Block
      <4> HIDE DEF f
      <4> QED BY <3>1, <3>3, <4>1 DEF Block
    <3> QED BY <1>4, <3>2, <3>3
  <2> QED BY <2>1
<1> f \in [ix.blocks -> Block]
  BY <1>5
<1> HIDE DEF f
<1>6. /\ T \in SUBSET Block /\ IsFiniteSet(T)
      /\ Cardinality(T) = Cardinality(ix.blocks) /\ Slots(T) = Slots(ix.blocks)
      /\ {b.hash : b \in T} = {b.hash : b \in ix.blocks}
  BY <1>2, <1>5, Relabelled
<1>7. Distinct(T)
  <2>1. ASSUME NEW b \in ix.blocks, NEW c \in ix.blocks, f[b] # f[c]
        PROVE  f[b].hash # f[c].hash /\ f[b].slot # f[c].slot /\ f[b].tick # f[c].tick
    <3>1. b # c /\ b.hash # c.hash /\ b.slot # c.slot /\ b.tick # c.tick
      BY <1>2, <2>1 DEF Distinct
    <3>2. f[b].hash # f[c].hash /\ f[b].slot # f[c].slot
      BY <1>5, <3>1
    <3>3. b.tick \in Nat /\ c.tick \in Nat /\ b.tick <= ix.tick /\ c.tick <= ix.tick
      BY <1>2 DEF Block
    <3>4. f[b].tick # f[c].tick
      <4>1. CASE f[b] = b /\ f[c] = c
        BY <3>1, <4>1
      <4>2. ASSUME NEW k \in 1..n, f[b].tick = ix.tick + k, f[c] = c
            PROVE  f[b].tick # f[c].tick
        BY <1>1, <1>2, <3>3, <4>2
      <4>3. ASSUME NEW k \in 1..n, f[c].tick = ix.tick + k, f[b] = b
            PROVE  f[b].tick # f[c].tick
        BY <1>1, <1>2, <3>3, <4>3
      <4>4. ASSUME NEW j \in 1..n, NEW k \in 1..n, f[b].tick = ix.tick + j,
                   f[c].tick = ix.tick + k, b.hash = BlockHash(tokens, j),
                   c.hash = BlockHash(tokens, k)
            PROVE  f[b].tick # f[c].tick
        <5>1. j # k
          BY <3>1, <4>4
        <5> QED BY <1>1, <1>2, <4>4, <5>1
      <4> QED BY <1>5, <4>1, <4>2, <4>3, <4>4
    <3> QED BY <3>2, <3>4
  <2> QED BY <2>1 DEF Distinct
<1>8. \A b \in T : b.tick <= ix.tick + n
  BY <1>5
<1> QED
  <2>1. ix.tick + n \in Nat
    BY <1>1, <1>2
  <2>2. Slots(T) = 0..(Cardinality(T) - 1)
    BY <1>6 DEF Wellformed
  <2> HIDE DEF T
  <2> DEFINE new == LookupIndex(ix, tokens)
  <2>3. new.blocks = T /\ new.tick = ix.tick + n
        /\ new \in [blocks : SUBSET Block, tick : Nat]
    BY <1>3, <1>6, <2>1
  <2>4. Hashes(new) = Hashes(ix)
    BY <1>6, <2>3 DEF Hashes
  <2>5. Wellformed(new)
    BY <1>6, <1>7, <1>8, <2>2, <2>3 DEF Wellformed
  <2> QED BY <1>6, <2>3, <2>4, <2>5

(* So does a commit of a block the index already has. *)
LEMMA TouchKeeps ==
  ASSUME NEW ix, Wellformed(ix), NEW tokens \in Seq(Token), NEW k \in Nat
  PROVE  LET new == TouchBlock(ix, tokens, k) IN
         /\ Wellformed(new)
         /\ Hashes(new) = Hashes(ix)
         /\ Cardinality(new.blocks) = Cardinality(ix.blocks)
PROOF
<1> DEFINE h == BlockHash(tokens, k)
           touch(b) == IF b.hash = h THEN [b EXCEPT !.tick = ix.tick + 1] ELSE b
           f == [b \in ix.blocks |-> touch(b)]
           T == {f[b] : b \in ix.blocks}
           new == TouchBlock(ix, tokens, k)
<1>1. /\ ix.blocks \in SUBSET Block /\ ix.tick \in Nat
      /\ IsFiniteSet(ix.blocks) /\ Distinct(ix.blocks)
      /\ \A b \in ix.blocks : b.tick <= ix.tick
  BY DEF Wellformed
<1>2. new = [blocks |-> T, tick |-> ix.tick + 1]
  BY DEF TouchBlock
<1> HIDE DEF h, new
<1>3. \A b \in ix.blocks :
        /\ f[b] \in Block /\ f[b].hash = b.hash /\ f[b].slot = b.slot
        /\ f[b].tick = IF b.hash = h THEN ix.tick + 1 ELSE b.tick
  <2>1. ASSUME NEW b \in ix.blocks
        PROVE  /\ f[b] \in Block /\ f[b].hash = b.hash /\ f[b].slot = b.slot
               /\ f[b].tick = IF b.hash = h THEN ix.tick + 1 ELSE b.tick
    <3>1. f[b] = touch(b) /\ b \in Block /\ ix.tick + 1 \in Nat \ {0}
      BY <1>1
    <3> HIDE DEF f
    <3> QED BY <3>1 DEF Block
  <2> QED BY <2>1
<1> f \in [ix.blocks -> Block]
  BY <1>3
<1> HIDE DEF f
<1>4. /\ T \in SUBSET Block /\ IsFiniteSet(T)
      /\ Cardinality(T) = Cardinality(ix.blocks) /\ Slots(T) = Slots(ix.blocks)
      /\ {b.hash : b \in T} = {b.hash : b \in ix.blocks}
  BY <1>1, <1>3, Relabelled
<1>5. Distinct(T)
  <2>1. ASSUME NEW b \in ix.blocks, NEW c \in ix.blocks, f[b] # f[c]
        PROVE  f[b].hash # f[c].hash /\ f[b].slot # f[c].slot /\ f[b].tick # f[c].tick
    <3>1. b # c /\ b.hash # c.hash /\ b.slot # c.slot /\ b.tick # c.tick
      BY <1>1, <2>1 DEF Distinct
    <3>2. b.tick \in Nat /\ c.tick \in Nat /\ b.tick <= ix.tick /\ c.tick <= ix.tick
      BY <1>1 DEF Block
    <3> QED BY <1>1, <1>3, <3>1, <3>2
  <2> QED BY <2>1 DEF Distinct
<1>6. \A b \in T : b.tick <= ix.tick + 1
  <2>1. ASSUME NEW b \in ix.blocks PROVE f[b].tick <= ix.tick + 1
    <3>1. b.tick \in Nat /\ b.tick <= ix.tick
      BY <1>1 DEF Block
    <3> QED BY <1>1, <1>3, <3>1
  <2> QED BY <2>1
<1>7. Slots(T) = 0..(Cardinality(T) - 1)
  BY <1>4 DEF Wellformed
<1> HIDE DEF T
<1>8. new.blocks = T /\ new.tick = ix.tick + 1 /\ ix.tick + 1 \in Nat
      /\ new \in [blocks : SUBSET Block, tick : Nat]
  BY <1>1, <1>2, <1>4
<1>9. Hashes(new) = Hashes(ix)
  BY <1>4, <1>8 DEF Hashes
<1>10. Wellformed(new)
  BY <1>4, <1>5, <1>6, <1>7, <1>8 DEF Wellformed
<1> QED BY <1>4, <1>8, <1>9, <1>10 DEF new

(* A commit of a new block evicts at most one, takes its slot, and leaves  *)
(* the index wellformed and no larger than the capacity.                   *)
LEMMA InsertKeeps ==
  ASSUME NEW ix, Wellformed(ix), NEW capacity \in Nat \ {0},
         Cardinality(ix.blocks) <= capacity,
         NEW tokens \in Seq(Token), NEW k \in Nat \ {0},
         k * BlockTokens <= Len(tokens), BlockHash(tokens, k) \notin Hashes(ix)
  PROVE  LET new == InsertBlock(ix, capacity, tokens, k) IN
         /\ Wellformed(new)
         /\ Cardinality(new.blocks) <= capacity
         /\ Hashes(new) = (Hashes(ix) \ {b.hash : b \in Evicted(ix, capacity)})
                            \cup {BlockHash(tokens, k)}
PROOF
<1> DEFINE n == Cardinality(ix.blocks)
           block == [hash |-> BlockHash(tokens, k), parent |-> ParentHash(tokens, k),
                     tokens |-> BlockContent(tokens, k),
                     slot |-> AllocatedSlot(ix, capacity), tick |-> ix.tick + 1]
           kept == ix.blocks \ Evicted(ix, capacity)
           new == InsertBlock(ix, capacity, tokens, k)
<1>1. /\ ix.blocks \in SUBSET Block /\ ix.tick \in Nat
      /\ IsFiniteSet(ix.blocks) /\ Distinct(ix.blocks)
      /\ \A b \in ix.blocks : b.tick <= ix.tick
      /\ Slots(ix.blocks) = 0..(n - 1)
  BY DEF Wellformed
<1>2. n \in Nat
  BY <1>1, FS_CardinalityType
<1>3. new = [blocks |-> kept \cup {block}, tick |-> ix.tick + 1]
  BY DEF InsertBlock
<1>4. /\ IsFiniteSet(kept) /\ kept \subseteq ix.blocks
      /\ AllocatedSlot(ix, capacity) \in Nat
      /\ Slots(kept) \cup {AllocatedSlot(ix, capacity)} = 0..Cardinality(kept)
      /\ AllocatedSlot(ix, capacity) \notin Slots(kept)
      /\ Cardinality(kept) \in Nat /\ Cardinality(kept) < capacity
      /\ Evicted(ix, capacity) \subseteq ix.blocks
  <2>1. CASE n < capacity
    <3>1. /\ kept = ix.blocks /\ AllocatedSlot(ix, capacity) = n
          /\ Evicted(ix, capacity) = {}
      BY <2>1 DEF Evicted, AllocatedSlot
    <3> HIDE DEF kept
    <3> QED BY <1>1, <1>2, <2>1, <3>1
  <2>2. CASE ~(n < capacity)
    <3>1. ix.blocks # {}
      BY <1>1, <1>2, <2>2, FS_EmptySet
    <3>2. \E b \in ix.blocks : \A c \in ix.blocks : b.tick <= c.tick
      <4> DEFINE ticks == {b.tick : b \in ix.blocks}
      <4>1. ticks \subseteq Nat /\ ticks # {}
        BY <1>1, <3>1 DEF Block
      <4>2. PICK x \in ticks : \A y \in ticks : x <= y
        BY <4>1, LeastNat
      <4> QED BY <4>2
    <3> DEFINE e == LeastRecentlyUsed(ix.blocks)
    <3>3. e \in ix.blocks
      BY <3>2 DEF LeastRecentlyUsed
    <3>4. /\ kept = ix.blocks \ {e} /\ AllocatedSlot(ix, capacity) = e.slot
          /\ Evicted(ix, capacity) = {e}
      BY <2>2 DEF Evicted, AllocatedSlot
    <3> HIDE DEF e, kept
    <3>5. IsFiniteSet(kept) /\ Cardinality(kept) = n - 1
      BY <1>1, <3>3, <3>4, FS_RemoveElement
    <3>6. e.slot \in Nat /\ e.slot \notin Slots(kept)
      BY <1>1, <3>3, <3>4 DEF Slots, Distinct, Block
    <3>7. Slots(kept) \cup {e.slot} = Slots(ix.blocks)
      BY <3>3, <3>4 DEF Slots
    <3>8. n > 0
      BY <1>1, <1>2, <3>1, FS_EmptySet
    <3>9. /\ Cardinality(kept) \in Nat /\ Cardinality(kept) < capacity
          /\ 0..(n - 1) = 0..Cardinality(kept)
      <4>1. n <= capacity
        OBVIOUS
      <4> HIDE DEF n
      <4> QED BY <1>2, <3>5, <3>8, <4>1
    <3>10. Slots(kept) \cup {e.slot} = 0..Cardinality(kept)
      BY <1>1, <3>7, <3>9
    <3>11. kept \subseteq ix.blocks /\ {e} \subseteq ix.blocks
      BY <3>3, <3>4
    <3> QED BY <3>4, <3>5, <3>6, <3>9, <3>10, <3>11
  <2> QED BY <2>1, <2>2
<1>5. block \in Block
  <2>1. /\ BlockHash(tokens, k) \in Hashed /\ ParentHash(tokens, k) \in Hashed
        /\ BlockContent(tokens, k) \in Seq(Token)
        /\ Len(BlockContent(tokens, k)) = BlockTokens
    BY BlockOfPrompt
  <2> QED BY <1>1, <1>4, <2>1 DEF Block
<1>6. /\ block.hash = BlockHash(tokens, k) /\ block.slot = AllocatedSlot(ix, capacity)
      /\ block.tick = ix.tick + 1
  OBVIOUS
<1> HIDE DEF block, new
<1>7. Distinct(kept \cup {block})
  <2>1. ASSUME NEW b \in kept
        PROVE  block.hash # b.hash /\ block.slot # b.slot /\ block.tick # b.tick
    <3>1. b \in ix.blocks /\ b.slot \in Slots(kept)
      BY <1>4 DEF Slots
    <3>2. b.hash \in Hashes(ix) /\ b.tick \in Nat /\ b.tick <= ix.tick
      BY <1>1, <3>1 DEF Hashes, Block
    <3> QED BY <1>1, <1>4, <1>6, <3>1, <3>2
  <2> HIDE DEF kept
  <2>2. ASSUME NEW b \in kept, NEW c \in kept, b # c
        PROVE  b.hash # c.hash /\ b.slot # c.slot /\ b.tick # c.tick
    BY <1>1, <1>4, <2>2 DEF Distinct
  <2> QED BY <2>1, <2>2 DEF Distinct
<1>8. Hashes(new) = (Hashes(ix) \ {b.hash : b \in Evicted(ix, capacity)})
                       \cup {BlockHash(tokens, k)}
  <2>1. Evicted(ix, capacity) \cap kept = {} /\ Evicted(ix, capacity) \subseteq ix.blocks
    BY <1>4
  <2>2. {b.hash : b \in kept} = Hashes(ix) \ {b.hash : b \in Evicted(ix, capacity)}
    BY <1>1, <2>1 DEF Hashes, Distinct
  <2>3. Hashes(new) = {b.hash : b \in kept} \cup {block.hash}
    BY <1>3 DEF Hashes
  <2> QED BY <1>6, <2>2, <2>3
<1> HIDE DEF kept
<1>9. block \notin kept
  BY <1>4, <1>6 DEF Slots
<1>10. /\ IsFiniteSet(kept \cup {block})
       /\ Cardinality(kept \cup {block}) = Cardinality(kept) + 1
  BY <1>4, <1>9, FS_AddElement
<1>11. Slots(kept \cup {block}) = 0..(Cardinality(kept \cup {block}) - 1)
  <2>1. Slots(kept \cup {block}) = Slots(kept) \cup {block.slot}
    BY DEF Slots
  <2>2. Cardinality(kept \cup {block}) - 1 = Cardinality(kept)
    BY <1>4, <1>10
  <2> QED BY <1>4, <1>6, <2>1, <2>2
<1>12. \A b \in kept \cup {block} : b.tick <= ix.tick + 1
  <2>1. ASSUME NEW b \in kept PROVE b.tick <= ix.tick + 1
    <3>1. b.tick \in Nat /\ b.tick <= ix.tick
      BY <1>1, <1>4 DEF Block
    <3> QED BY <1>1, <3>1
  <2> QED BY <1>1, <1>6, <2>1
<1>13. new.blocks = kept \cup {block} /\ new.tick = ix.tick + 1 /\ ix.tick + 1 \in Nat
       /\ new \in [blocks : SUBSET Block, tick : Nat]
  BY <1>1, <1>3, <1>4, <1>5
<1>14. Wellformed(new)
  BY <1>7, <1>10, <1>11, <1>12, <1>13 DEF Wellformed
<1>15. Cardinality(new.blocks) <= capacity
  BY <1>4, <1>10, <1>13
<1> QED BY <1>8, <1>14, <1>15 DEF new
-----------------------------------------------------------------------------
Busy == {"allocate", "restore", "reuse", "prefill", "decode"}

(* What holds of a request, and of its claim on the shared cache: the      *)
(* request that uses the cache holds the mutex, and the cache is           *)
(* configured for its model.                                               *)
Sharing(r) ==
  /\ pc[r] # "idle" => prompt[r] \in Prompts /\ settings[r] \in Settings
  /\ cached[r] => /\ mutex = r /\ pc[r] \in Busy
                  /\ configured = Configuration(settings[r])
  /\ hits[r] > 0 => cached[r]
  /\ pc[r] \in {"restore", "reuse"} => hits[r] > 0
  /\ hits[r] * BlockTokens <= Len(prompt[r])

CacheInv ==
  /\ Wellformed(index)
  /\ DOMAIN payloads = Hashes(index)
  /\ \A s \in Settings :
       configured = Configuration(s) => Cardinality(index.blocks) <= s.capacity

Inv ==
  /\ TypeOK
  /\ CacheInv
  /\ \A r \in Requests : Sharing(r)
  /\ HitsStayResident

(* Every request has a device cache, whose rows are counted.               *)
Counted ==
  /\ DOMAIN rows = Requests /\ DOMAIN recurrent = Requests /\ DOMAIN hidden = Requests
  /\ \A r \in Requests : Len(rows[r]) \in Nat

(* A cache that was just configured. *)
LEMMA EmptyIsWellformed ==
  Wellformed(EmptyIndex) /\ Hashes(EmptyIndex) = {} /\ Cardinality(EmptyIndex.blocks) = 0
PROOF
<1>1. EmptyIndex.blocks = {} /\ EmptyIndex.tick = 0
      /\ EmptyIndex \in [blocks : SUBSET Block, tick : Nat]
  BY DEF EmptyIndex
<1>2. IsFiniteSet(EmptyIndex.blocks) /\ Cardinality(EmptyIndex.blocks) = 0
  BY <1>1, FS_EmptySet
<1>3. Slots(EmptyIndex.blocks) = 0..(Cardinality(EmptyIndex.blocks) - 1)
  BY <1>1, <1>2 DEF Slots
<1> QED BY <1>1, <1>2, <1>3 DEF Wellformed, Distinct, Hashes

(* The cache starts empty and unused. *)
LEMMA InitInv == Init => Inv
PROOF
<1> SUFFICES ASSUME Init PROVE Inv
  OBVIOUS
<1>1. CacheInv
  <2>1. DOMAIN payloads = {} /\ index = EmptyIndex
    BY DEF Init
  <2> QED BY <2>1, EmptyIsWellformed, HostAssumption DEF CacheInv
<1>2. TypeOK
  BY HostAssumption DEF Init, TypeOK, EmptyIndex
<1>3. ASSUME NEW r \in Requests PROVE Sharing(r)
  <2>1. 0 * BlockTokens = 0 /\ Len(<<>>) = 0
    BY BlockAssumption
  <2> QED BY <2>1 DEF Init, Sharing
<1> QED BY <1>1, <1>2, <1>3 DEF Inv, HitsStayResident, Init

(* A commit keeps index and payloads in step. *)
LEMMA CommitKeeps ==
  ASSUME Inv, NEW r \in Requests, cached[r], NEW k \in Nat \ {0},
         k * BlockTokens <= Len(prompt[r]), NEW payload, CommitBlock(r, k, payload)
  PROVE  CacheInv' /\ configured' = configured
PROOF
<1> DEFINE hash == BlockHash(prompt[r], k)
           capacity == configured.capacity
<1>1. /\ CacheInv /\ TypeOK /\ pc[r] # "idle"
      /\ prompt[r] \in Seq(Token) /\ settings[r] \in Settings
      /\ configured = Configuration(settings[r])
  BY HostAssumption DEF Inv, Sharing, Busy
<1>2. /\ capacity = settings[r].capacity /\ capacity \in Nat \ {0}
      /\ Cardinality(index.blocks) <= capacity
      /\ \A s \in Settings : configured = Configuration(s) => s.capacity = capacity
  BY <1>1, HostAssumption DEF CacheInv, Configuration
<1>3. Wellformed(index) /\ DOMAIN payloads = Hashes(index)
  BY <1>1 DEF CacheInv
<1>4. CASE hash \in DOMAIN payloads
  BY <1>1, <1>4 DEF CommitBlock, cacheState, CacheInv
<1>5. CASE hash \notin DOMAIN payloads
  <2>1. hash \notin Hashes(index)
    BY <1>3, <1>5
  <2> DEFINE evicted == {b.hash : b \in Evicted(index, capacity)}
             kept == DOMAIN payloads \ evicted
  <2>2. /\ index' = InsertBlock(index, capacity, prompt[r], k)
        /\ payloads' = [h \in kept \cup {hash} |->
                           IF h = hash THEN payload ELSE payloads[h]]
        /\ configured' = configured
    BY <1>5, <2>1 DEF CommitBlock
  <2>3. /\ Wellformed(index')
        /\ Cardinality(index'.blocks) <= capacity
        /\ Hashes(index') = (Hashes(index) \ evicted) \cup {hash}
    <3> HIDE DEF capacity
    <3> QED BY <1>1, <1>2, <1>3, <2>1, <2>2, InsertKeeps
  <2>4. DOMAIN payloads' = Hashes(index')
    BY <1>3, <2>2, <2>3
  <2> HIDE DEF capacity
  <2> QED BY <1>2, <2>2, <2>3, <2>4 DEF CacheInv
<1> QED BY <1>4, <1>5

(* A wellformed index has the types that TypeOK asks for. *)
LEMMA IndexTypes ==
  ASSUME NEW ix, Wellformed(ix)
  PROVE  /\ ix.tick \in Nat
         /\ \A b \in ix.blocks : /\ b.tokens \in Seq(Token) /\ Len(b.tokens) = BlockTokens
                                /\ b.slot \in Nat /\ b.tick \in 1..ix.tick
PROOF
<1>1. /\ ix.tick \in Nat /\ ix.blocks \in SUBSET Block
      /\ \A b \in ix.blocks : b.tick <= ix.tick
  BY DEF Wellformed
<1>2. ASSUME NEW b \in ix.blocks
      PROVE  /\ b.tokens \in Seq(Token) /\ Len(b.tokens) = BlockTokens
             /\ b.slot \in Nat /\ b.tick \in 1..ix.tick
  <2>1. b \in Block /\ b.tick <= ix.tick
    BY <1>1
  <2>2. b.tick \in Nat /\ b.tick >= 1
    BY <2>1 DEF Block
  <2> QED BY <1>1, <2>1, <2>2 DEF Block
<1> QED BY <1>1, <1>2

(* A request that is not where it uses the cache has hit nothing. *)
LEMMA NothingHit ==
  ASSUME Inv, NEW r \in Requests, pc[r] \notin Busy
  PROVE  ~cached[r] /\ hits[r] = 0
PROOF
<1>1. hits[r] \in Nat /\ Sharing(r)
  BY DEF Inv, TypeOK
<1> QED BY <1>1 DEF Sharing

(* The cache has one user at a time. *)
LEMMA OneUser ==
  ASSUME Inv, NEW r \in Requests, NEW q \in Requests, q # r,
         mutex = r \/ mutex = Free
  PROVE  ~cached[q] /\ hits[q] = 0
PROOF
<1>1. hits[q] \in Nat /\ Sharing(q) /\ Free \notin Requests
  BY HostAssumption DEF Inv, TypeOK
<1> QED BY <1>1 DEF Sharing

(* A request begins without a claim on the cache. *)
LEMMA BeginInv ==
  ASSUME Inv, NEW r \in Requests, Begin(r)
  PROVE  Inv'
PROOF
<1>1. PICK tokens \in Prompts, s \in Settings, cachePrompt \in BOOLEAN :
        /\ prompt' = [prompt EXCEPT ![r] = tokens]
        /\ settings' = [settings EXCEPT ![r] = s]
        /\ pc' = [pc EXCEPT ![r] = IF cachePrompt THEN "lock" ELSE "open"]
  BY DEF Begin
<1>2. TypeOK'
  BY <1>1, HostAssumption DEF Inv, TypeOK, Begin, cacheState, deviceCache
<1>3. CacheInv'
  BY DEF Inv, CacheInv, Begin, cacheState
<1>4. ~cached[r] /\ hits[r] = 0
  BY NothingHit DEF Begin, Busy
<1>5. ASSUME NEW q \in Requests PROVE Sharing(q)'
  <2>1. Sharing(q) /\ TypeOK
    BY DEF Inv
  <2>2. CASE q = r
    <3>1. /\ pc'[r] \in {"lock", "open"} /\ prompt'[r] = tokens /\ settings'[r] = s
          /\ hits'[r] = 0 /\ ~cached'[r]
      BY <1>1, <1>4, <2>1 DEF TypeOK, Begin
    <3>2. 0 * BlockTokens <= Len(tokens)
      BY BlockAssumption, HostAssumption
    <3> QED BY <2>2, <3>1, <3>2 DEF Sharing
  <2>3. CASE q # r
    BY <1>1, <2>1, <2>3 DEF TypeOK, Begin, Sharing, cacheState
  <2> QED BY <2>2, <2>3
<1>6. HitsStayResident'
  BY <1>1 DEF Inv, TypeOK, Begin, HitsStayResident, cacheState
<1> QED BY <1>2, <1>3, <1>5, <1>6 DEF Inv

(* Whoever takes the mutex finds no user of the cache. *)
LEMMA LockInv ==
  ASSUME Inv, NEW r \in Requests, Lock(r)
  PROVE  Inv'
PROOF
<1>1. mutex = Free /\ mutex' = r /\ pc' = [pc EXCEPT ![r] = "open"] /\ pc[r] = "lock"
  BY DEF Lock, Lockable
<1>2. TypeOK'
  BY <1>1 DEF Inv, TypeOK, Lock, cacheState, request, deviceCache
<1>3. CacheInv'
  BY DEF Inv, CacheInv, Lock, cacheState
<1>4. ASSUME NEW q \in Requests PROVE Sharing(q)'
  <2>1. Sharing(q) /\ TypeOK /\ ~cached[q]
    BY <1>1, NothingHit, OneUser DEF Inv, Busy
  <2> QED BY <1>1, <2>1 DEF TypeOK, Lock, Sharing, cacheState, request
<1>5. HitsStayResident'
  BY <1>1 DEF Inv, TypeOK, Lock, HitsStayResident, cacheState, request
<1> QED BY <1>2, <1>3, <1>4, <1>5 DEF Inv

(* A lookup only counts hits whose payloads survived the configuration.     *)
LEMMA OpenCachedInv ==
  ASSUME Inv, NEW r \in Requests, OpenCached(r)
  PROVE  Inv'
PROOF
<1> DEFINE s == settings[r]
           ix == ConfiguredIndex(s)
<1>1. /\ mutex = r /\ pc[r] = "open" /\ s \in Settings
      /\ prompt[r] \in Prompts /\ prompt[r] \in Seq(Token) /\ TypeOK
  BY HostAssumption DEF Inv, Sharing, OpenCached
<1>2. /\ configured' = Configuration(s) /\ payloads' = ConfiguredPayloads(s)
      /\ index' = LookupIndex(ix, prompt[r])
      /\ hits' = [hits EXCEPT ![r] = ReusedBlocks(ix, prompt[r], s.minReuse)]
      /\ cached' = [cached EXCEPT ![r] = TRUE]
      /\ pc' = [pc EXCEPT ![r] = "allocate"] /\ repeated' = Unset
      /\ UNCHANGED <<mutex, served, prompt, settings>>
  BY DEF OpenCached, request
<1>3. /\ Wellformed(ix) /\ DOMAIN payloads' = Hashes(ix)
      /\ \A t \in Settings : configured' = Configuration(t) =>
           Cardinality(ix.blocks) <= t.capacity
  <2>1. CASE configured = Configuration(s)
    BY <1>2, <2>1 DEF Inv, CacheInv, ConfiguredIndex, ConfiguredPayloads
  <2>2. CASE configured # Configuration(s)
    <3>1. ix = EmptyIndex /\ payloads' = <<>>
      BY <1>2, <2>2 DEF ConfiguredIndex, ConfiguredPayloads
    <3> QED BY <3>1, EmptyIsWellformed, HostAssumption
  <2> QED BY <2>1, <2>2
<1> HIDE DEF ix
<1>4. /\ Wellformed(index') /\ Hashes(index') = Hashes(ix)
      /\ Cardinality(index'.blocks) = Cardinality(ix.blocks)
  BY <1>1, <1>2, <1>3, LookupKeeps
<1>5. CacheInv'
  BY <1>3, <1>4 DEF CacheInv
<1>6. /\ hits'[r] \in Nat /\ hits'[r] * BlockTokens <= Len(prompt[r])
      /\ \A k \in 1..hits'[r] : BlockHash(prompt[r], k) \in Hashes(ix)
  <2> DEFINE n == Cardinality(HitBlocks(ix, prompt[r]))
  <2>1. /\ n \in Nat /\ n * BlockTokens <= Len(prompt[r])
        /\ \A k \in 1..n : BlockHash(prompt[r], k) \in Hashes(ix)
    BY <1>1, HitsAreASegment
  <2>2. hits'[r] \in {0, n}
    BY <1>1, <1>2 DEF TypeOK, ReusedBlocks
  <2>3. 0 * BlockTokens <= Len(prompt[r])
    BY <1>1, BlockAssumption
  <2> HIDE DEF n
  <2> QED BY <2>1, <2>2, <2>3
<1>7. TypeOK'
  <2>1. \A q \in Requests : hits'[q] \in Nat
    BY <1>1, <1>2, <1>6 DEF TypeOK
  <2>2. hits' \in [Requests -> Nat]
    BY <1>1, <1>2, <2>1 DEF TypeOK
  <2>3. /\ index'.tick \in Nat
        /\ \A b \in index'.blocks :
             /\ b.tokens \in Seq(Token) /\ Len(b.tokens) = BlockTokens
             /\ b.slot \in Nat /\ b.tick \in 1..index'.tick
    BY <1>4, IndexTypes
  <2> QED BY <1>1, <1>2, <2>2, <2>3 DEF TypeOK
<1>8. ASSUME NEW q \in Requests PROVE Sharing(q)'
  <2>1. CASE q = r
    <3>1. /\ pc'[r] = "allocate" /\ cached'[r] /\ mutex' = r
          /\ prompt'[r] = prompt[r] /\ settings'[r] = s
      BY <1>1, <1>2 DEF TypeOK
    <3> QED BY <1>1, <1>2, <1>6, <2>1, <3>1 DEF Sharing, Busy
  <2>2. CASE q # r
    <3>1. Sharing(q) /\ ~cached[q] /\ hits[q] = 0
      BY <1>1, <2>2, OneUser DEF Inv
    <3> QED BY <1>1, <1>2, <2>2, <3>1 DEF TypeOK, Sharing
  <2> QED BY <2>1, <2>2
<1>9. ASSUME NEW q \in Requests, NEW k \in 1..hits'[q]
      PROVE  BlockHash(prompt'[q], k) \in DOMAIN payloads'
  <2>1. CASE q = r
    BY <1>2, <1>3, <1>6, <1>9, <2>1
  <2>2. CASE q # r
    <3>1. hits'[q] = 0
      BY <1>1, <1>2, <2>2, OneUser DEF TypeOK
    <3> QED BY <1>9, <3>1
  <2> QED BY <2>1, <2>2
<1> QED BY <1>5, <1>7, <1>8, <1>9 DEF Inv, HitsStayResident

(* The steps that leave cache, mutex and hits alone. *)
LEMMA QuietInv ==
  ASSUME Inv, NEW r \in Requests,
         UNCHANGED <<cacheState, mutex, served, request, cached, hits, repeated>>,
         NEW from \in Busy \cup {"open"}, NEW to \in Busy,
         pc[r] = from, pc' = [pc EXCEPT ![r] = to],
         to \in {"restore", "reuse"} => hits[r] > 0,
         to \in {"allocate", "restore", "reuse"} =>
           from \in {"allocate", "restore"} \/ hits[r] = 0
  PROVE  Inv'
PROOF
<1>1. /\ UNCHANGED <<configured, index, payloads, mutex, served, prompt, settings,
                     cached, hits, repeated>>
      /\ TypeOK
  BY DEF Inv, cacheState, request
<1>2. TypeOK'
  BY <1>1 DEF TypeOK, Busy
<1>3. CacheInv'
  BY <1>1 DEF Inv, CacheInv
<1>4. ASSUME NEW q \in Requests PROVE Sharing(q)'
  BY <1>1 DEF Inv, TypeOK, Sharing, Busy
<1>5. HitsStayResident'
  <2>1. ASSUME NEW q \in Requests, pc'[q] \in {"allocate", "restore", "reuse"},
               NEW k \in 1..hits[q]
        PROVE  BlockHash(prompt[q], k) \in DOMAIN payloads
    BY <1>1, <2>1 DEF Inv, TypeOK, HitsStayResident, Busy
  <2> QED BY <1>1, <2>1 DEF HitsStayResident
<1> QED BY <1>2, <1>3, <1>4, <1>5 DEF Inv

(* A chunk that is committed may evict, but nobody else counts on a hit. *)
LEMMA PrefillInv ==
  ASSUME Inv, NEW r \in Requests, PrefillChunk(r), Len(rows[r]) \in Nat
  PROVE  Inv'
PROOF
<1> DEFINE start == Len(rows[r])
           end == IF start + BlockTokens <= Len(prompt[r])
                  THEN start + BlockTokens ELSE Len(prompt[r])
<1>1. /\ pc[r] = "prefill" /\ start < Len(prompt[r])
      /\ pc' = [pc EXCEPT ![r] = IF end = Len(prompt[r]) THEN "decode" ELSE "prefill"]
      /\ UNCHANGED <<mutex, served, prompt, settings, cached, hits, repeated>>
  BY DEF PrefillChunk, request
<1>2. CASE UNCHANGED cacheState
  <2>1. UNCHANGED <<cacheState, mutex, served, request, cached, hits, repeated>>
    BY <1>1, <1>2 DEF request
  <2>2. CASE end = Len(prompt[r])
    <3>1. pc' = [pc EXCEPT ![r] = "decode"]
      BY <1>1, <2>2
    <3> QED BY <1>1, <2>1, <3>1, QuietInv DEF Busy
  <2>3. CASE end # Len(prompt[r])
    <3>1. pc' = [pc EXCEPT ![r] = "prefill"]
      BY <1>1, <2>3
    <3> QED BY <1>1, <2>1, <3>1, QuietInv DEF Busy
  <2> QED BY <2>2, <2>3
<1>3. CASE ~UNCHANGED cacheState
  <2>1. /\ cached[r] /\ end = start + BlockTokens /\ start % BlockTokens = 0
        /\ CommitBlock(r, end \div BlockTokens,
                       [rows |-> SubSeq(rows'[r], start + 1, end),
                        recurrent |-> recurrent'[r], hidden |-> hidden'[r]])
    BY <1>3 DEF PrefillChunk
  <2>2. /\ start \in Nat /\ TypeOK /\ Len(prompt[r]) \in Nat
        /\ BlockTokens \in Nat \ {0}
    BY HostAssumption, BlockAssumption, <1>1 DEF Inv, Sharing
  <2>3. /\ end \div BlockTokens \in Nat \ {0}
        /\ (end \div BlockTokens) * BlockTokens <= Len(prompt[r])
    <3>1. end <= Len(prompt[r])
      BY <2>1, <2>2
    <3> HIDE DEF start, end
    <3> QED BY <2>1, <2>2, <3>1, BlockEnd
  <2> HIDE DEF start, end
  <2>4. CacheInv' /\ configured' = configured
    BY <2>1, <2>3, CommitKeeps
  <2>5. TypeOK'
    <3>1. /\ index'.tick \in Nat
          /\ \A b \in index'.blocks :
               /\ b.tokens \in Seq(Token) /\ Len(b.tokens) = BlockTokens
               /\ b.slot \in Nat /\ b.tick \in 1..index'.tick
      BY <2>4, IndexTypes DEF CacheInv
    <3> QED BY <1>1, <2>2, <2>4, <3>1 DEF TypeOK
  <2>6. ASSUME NEW q \in Requests PROVE Sharing(q)'
    BY <1>1, <2>2, <2>4 DEF Inv, TypeOK, Sharing, Busy
  <2>7. ASSUME NEW q \in Requests, pc'[q] \in {"allocate", "restore", "reuse"}
        PROVE  hits'[q] = 0
    <3>1. q # r
      BY <1>1, <2>2, <2>7 DEF TypeOK
    <3>2. mutex = r
      BY <2>1 DEF Inv, Sharing
    <3> QED BY <1>1, <3>1, <3>2, OneUser
  <2>8. HitsStayResident'
    <3>1. \A k \in 1..0 : FALSE
      OBVIOUS
    <3> QED BY <2>7, <3>1 DEF HitsStayResident
  <2> QED BY <2>4, <2>5, <2>6, <2>8 DEF Inv
<1> QED BY <1>2, <1>3

(* A request that returns, served or failed, gives up its claim. *)
LEMMA ReturnInv ==
  ASSUME Inv, NEW r \in Requests, Return(r), pc[r] # "idle",
         repeated' \in {repeated, prompt[r]}
  PROVE  Inv'
PROOF
<1>1. /\ pc' = [pc EXCEPT ![r] = "idle"]
      /\ mutex' = IF mutex = r THEN Free ELSE mutex
      /\ prompt' = [prompt EXCEPT ![r] = <<>>]
      /\ settings' = [settings EXCEPT ![r] = Unset]
      /\ cached' = [cached EXCEPT ![r] = FALSE]
      /\ hits' = [hits EXCEPT ![r] = 0]
      /\ UNCHANGED <<configured, index, payloads, served>>
      /\ TypeOK /\ prompt[r] \in Prompts
  BY DEF Inv, Sharing, Return, ReleasedMutex, cacheState
<1>2. TypeOK'
  BY <1>1 DEF TypeOK
<1>3. CacheInv'
  BY <1>1 DEF Inv, CacheInv
<1>4. ASSUME NEW q \in Requests PROVE Sharing(q)'
  <2>1. CASE q = r
    <3>1. 0 * BlockTokens <= Len(<<>>)
      BY BlockAssumption
    <3> QED BY <1>1, <2>1, <3>1 DEF TypeOK, Sharing
  <2>2. CASE q # r
    BY <1>1, <2>2 DEF Inv, TypeOK, Sharing
  <2> QED BY <2>1, <2>2
<1>5. HitsStayResident'
  BY <1>1 DEF Inv, TypeOK, HitsStayResident
<1> QED BY <1>2, <1>3, <1>4, <1>5 DEF Inv

(* Every step of a request. *)
LEMMA StepInv ==
  ASSUME Inv, Counted, NEW r \in Requests, Begin(r) \/ Step(r) \/ Fail(r)
  PROVE  Inv'
PROOF
<1>1. CASE Begin(r)
  BY <1>1, BeginInv
<1>2. CASE Lock(r)
  BY <1>2, LockInv
<1>3. CASE OpenCached(r)
  BY <1>3, OpenCachedInv
<1>4. CASE OpenUncached(r)
  <2>1. /\ UNCHANGED <<cacheState, mutex, served, request, cached, hits, repeated>>
        /\ pc[r] = "open" /\ pc' = [pc EXCEPT ![r] = "allocate"]
    BY <1>4 DEF OpenUncached
  <2>2. hits[r] = 0
    BY <2>1, NothingHit DEF Busy
  <2> QED BY <2>1, <2>2, QuietInv DEF Busy
<1>5. CASE Allocate(r)
  <2>1. /\ UNCHANGED <<cacheState, mutex, served, request, cached, hits, repeated>>
        /\ pc[r] = "allocate"
        /\ pc' = [pc EXCEPT ![r] = IF hits[r] > 0 THEN "restore" ELSE "prefill"]
    BY <1>5 DEF Allocate
  <2>2. CASE hits[r] > 0
    <3>1. pc' = [pc EXCEPT ![r] = "restore"]
      BY <2>1, <2>2
    <3> QED BY <2>1, <2>2, <3>1, QuietInv DEF Busy
  <2>3. CASE ~(hits[r] > 0)
    <3>1. pc' = [pc EXCEPT ![r] = "prefill"]
      BY <2>1, <2>3
    <3> QED BY <2>1, <3>1, QuietInv DEF Busy
  <2> QED BY <2>2, <2>3
<1>6. CASE Restore(r)
  <2>1. /\ UNCHANGED <<cacheState, mutex, served, request, cached, hits, repeated>>
        /\ pc[r] = "restore"
        /\ pc' = [pc EXCEPT ![r] =
             IF hits[r] * BlockTokens = Len(prompt[r]) THEN "reuse" ELSE "prefill"]
    BY <1>6 DEF Restore
  <2>2. CASE hits[r] * BlockTokens = Len(prompt[r])
    <3>1. pc' = [pc EXCEPT ![r] = "reuse"] /\ hits[r] > 0
      BY <2>1, <2>2 DEF Inv, Sharing
    <3> QED BY <2>1, <3>1, QuietInv DEF Busy
  <2>3. CASE hits[r] * BlockTokens # Len(prompt[r])
    <3>1. pc' = [pc EXCEPT ![r] = "prefill"]
      BY <2>1, <2>3
    <3> QED BY <2>1, <3>1, QuietInv DEF Busy
  <2> QED BY <2>2, <2>3
<1>7. CASE ReuseHidden(r)
  <2>1. /\ UNCHANGED <<cacheState, mutex, served, request, cached, hits, repeated>>
        /\ pc[r] = "reuse" /\ pc' = [pc EXCEPT ![r] = "decode"]
    BY <1>7 DEF ReuseHidden
  <2> QED BY <2>1, QuietInv DEF Busy
<1>8. CASE PrefillChunk(r)
  BY <1>8, PrefillInv DEF Counted
<1>9. CASE Finish(r)
  BY <1>9, ReturnInv DEF Finish
<1>10. CASE Fail(r)
  BY <1>10, ReturnInv DEF Fail
<1> QED
  BY <1>1, <1>2, <1>3, <1>4, <1>5, <1>6, <1>7, <1>8, <1>9, <1>10 DEF Step

(* The length of a function on 1..n. *)
LEMMA LengthOf ==
  ASSUME NEW n \in Nat, NEW f, f = [p \in 1..n |-> f[p]]
  PROVE  Len(f) = n
PROOF
<1> DEFINE S == {f[p] : p \in 1..n}
<1>1. f \in [1..n -> S]
  OBVIOUS
<1>2. f \in Seq(S)
  BY <1>1
<1> QED BY <1>1, <1>2

(* Every step leaves sequences of rows. *)
LEMMA StepCounted ==
  ASSUME Inv, Counted, NEW r \in Requests, Begin(r) \/ Step(r) \/ Fail(r)
  PROVE  Counted'
PROOF
<1> DEFINE start == Len(rows[r])
           end == IF start + BlockTokens <= Len(prompt[r])
                  THEN start + BlockTokens ELSE Len(prompt[r])
<1>1. Len(<<>>) = 0 /\ BlockTokens \in Nat \ {0} /\ hits[r] \in Nat /\ start \in Nat
  BY BlockAssumption DEF Inv, TypeOK, Counted
<1>0. DOMAIN recurrent' = Requests /\ DOMAIN hidden' = Requests
  BY DEF Counted, Step, Begin, Lock, OpenCached, OpenUncached, Allocate, Restore,
         ReuseHidden, PrefillChunk, Finish, Fail, Return, deviceCache
<1>2. CASE UNCHANGED rows
  BY <1>0, <1>2 DEF Counted
<1>3. ASSUME NEW value, rows' = [rows EXCEPT ![r] = value], Len(value) \in Nat
      PROVE  Counted'
  <2>1. /\ DOMAIN rows' = Requests
        /\ \A q \in Requests : rows'[q] = IF q = r THEN value ELSE rows[q]
    BY <1>3 DEF Counted
  <2> QED BY <1>0, <1>3, <2>1 DEF Counted
<1>4. CASE Restore(r)
  <2> DEFINE value == [p \in 1..(hits[r] * BlockTokens) |->
                        LET k == (p - 1) \div BlockTokens + 1
                        IN  Payload(r, k).rows[p - (k - 1) * BlockTokens]]
  <2>1. rows' = [rows EXCEPT ![r] = value]
    BY <1>4 DEF Restore
  <2>2. /\ hits[r] * BlockTokens \in Nat
        /\ value = [p \in 1..(hits[r] * BlockTokens) |-> value[p]]
    BY <1>1, Z3
  <2> HIDE DEF value
  <2>3. Len(value) \in Nat
    BY <2>2, LengthOf
  <2> QED BY <1>3, <2>1, <2>3
<1>5. CASE PrefillChunk(r)
  <2> DEFINE folded(p) == Computed(settings[r].weights,
                            recurrent[r].tokens \o SubSeq(prompt[r], start + 1, p))
             value == [p \in 1..end |-> IF p <= start THEN rows[r][p] ELSE folded(p)]
  <2>1. rows' = [rows EXCEPT ![r] = value]
    BY <1>5 DEF PrefillChunk
  <2>2. end \in Nat /\ value = [p \in 1..end |-> value[p]]
    <3>1. pc[r] # "idle" /\ prompt[r] \in Seq(Token)
      BY <1>5, HostAssumption DEF PrefillChunk, Inv, Sharing
    <3> QED BY <1>1, <3>1
  <2> HIDE DEF value, end
  <2>3. Len(value) \in Nat
    BY <2>2, LengthOf
  <2> QED BY <1>3, <2>1, <2>3
<1>6. CASE rows' = [rows EXCEPT ![r] = <<>>]
  BY <1>1, <1>3, <1>6
<1> QED
  BY <1>2, <1>4, <1>5, <1>6
  DEF Step, Begin, Lock, OpenCached, OpenUncached, Allocate, ReuseHidden, Finish, Fail,
      Return, deviceCache

(* The invariant holds in every behaviour. *)
LEMMA Invariance == Spec => [](Inv /\ Counted)
PROOF
<1>1. Init => Inv /\ Counted
  <2>1. Init => Counted
    BY DEF Init, Counted
  <2> QED BY <2>1, InitInv
<1>2. Inv /\ Counted /\ [Next]_vars => Inv' /\ Counted'
  <2> SUFFICES ASSUME Inv, Counted, [Next]_vars PROVE Inv' /\ Counted'
    OBVIOUS
  <2>1. CASE Next
    BY <2>1, StepInv, StepCounted DEF Next
  <2>2. CASE UNCHANGED vars
    <3>1. Inv'
      BY <2>2 DEF vars, Inv, TypeOK, CacheInv, Sharing, HitsStayResident
    <3>2. Counted'
      BY <2>2 DEF vars, Counted
    <3> QED BY <3>1, <3>2
  <2> QED BY <2>1, <2>2
<1> QED BY <1>1, <1>2, PTL DEF Spec

(* Cache, mutex and requests keep their types. *)
THEOREM TypeCorrect == Spec => []TypeOK
PROOF
<1>1. Inv => TypeOK
  BY DEF Inv
<1> QED BY Invariance, <1>1, PTL

(* What a lookup hit has its payload until the request has restored it. *)
THEOREM HitsAreThere == Spec => []HitsStayResident
PROOF
<1>1. Inv => HitsStayResident
  BY DEF Inv
<1> QED BY Invariance, <1>1, PTL

(* Index and payloads describe the same blocks, whose slots are the first  *)
(* ones below the capacity, whatever was committed, evicted and            *)
(* reconfigured.                                                           *)
THEOREM IndexAndPayloadsAgree == Spec => []IndexMatchesPayloads
PROOF
<1>1. Inv => IndexMatchesPayloads
  <2> SUFFICES ASSUME Inv PROVE IndexMatchesPayloads
    OBVIOUS
  <2>1. DOMAIN payloads = Hashes(index) /\ Wellformed(index)
    BY DEF Inv, CacheInv
  <2>2. configured # Unset => Cardinality(index.blocks) <= configured.capacity
    <3> SUFFICES ASSUME configured # Unset
                 PROVE  Cardinality(index.blocks) <= configured.capacity
      OBVIOUS
    <3>1. PICK s \in Settings : configured = Configuration(s)
      BY DEF Inv, TypeOK
    <3> QED BY <3>1 DEF Inv, CacheInv, Configuration
  <2> QED BY <2>1, <2>2 DEF IndexMatchesPayloads, Wellformed, Distinct, Slots
<1> QED BY Invariance, <1>1, PTL
-----------------------------------------------------------------------------
(* What compute_hash and the layout would have to guarantee for the cache  *)
(* to be transparent: MCHostPrefixReplaced shows what happens without the  *)
(* second.                                                                 *)
NoCollision == \A g, h \in Seq(Token) : Hash(g) = Hash(h) => g = h
LayoutFixesWeights == \A s, t \in Settings : s.layout = t.layout => s.weights = t.weights

(* A payload holds what this history left behind in a model's cache.       *)
StandsFor(payload, history, weights) ==
  /\ \A i \in 1..BlockTokens : payload.rows[i] =
       Computed(weights, SubSeq(history, 1, Len(history) - BlockTokens + i))
  /\ payload.recurrent = Computed(weights, history)
  /\ payload.hidden = Computed(weights, history)

PayloadsStand ==
  \A s \in Settings : configured = Configuration(s) =>
    \A h \in Seq(Token) :
      Hash(h) \in DOMAIN payloads => StandsFor(payloads[Hash(h)], h, s.weights)

(* The first n tokens of the prompt are in the device cache.               *)
Filled(r, n) ==
  /\ rows[r] = [p \in 1..n |-> Computed(settings[r].weights, SubSeq(prompt[r], 1, p))]
  /\ recurrent[r] = Computed(settings[r].weights, SubSeq(prompt[r], 1, n))

Device(r) ==
  /\ pc[r] = "prefill" =>
       \E n \in Nat : n < Len(prompt[r]) /\ Filled(r, n)
  /\ pc[r] = "reuse" =>
       Filled(r, Len(prompt[r])) /\ hits[r] * BlockTokens = Len(prompt[r])
  /\ pc[r] = "decode" =>
       /\ Filled(r, Len(prompt[r]))
       /\ hidden[r] = Computed(settings[r].weights, SubSeq(prompt[r], 1, Len(prompt[r])))

(* Prefixes of a prefix, and a prefix extended. *)
LEMMA Prefixes ==
  ASSUME NEW tokens \in Seq(Token), NEW n \in 0..Len(tokens)
  PROVE  /\ SubSeq(tokens, 1, n) \in Seq(Token)
         /\ Len(SubSeq(tokens, 1, n)) = n
         /\ \A p \in 1..n : SubSeq(SubSeq(tokens, 1, n), 1, p) = SubSeq(tokens, 1, p)
         /\ \A p \in n..Len(tokens) :
              SubSeq(tokens, 1, n) \o SubSeq(tokens, n + 1, p) = SubSeq(tokens, 1, p)
PROOF
<1>1. Len(tokens) \in Nat /\ n \in Nat /\ n <= Len(tokens)
  OBVIOUS
<1>2. \A i \in 1..n : tokens[i] \in Token
  BY <1>1
<1>3. /\ SubSeq(tokens, 1, n) \in Seq(Token)
      /\ Len(SubSeq(tokens, 1, n)) = IF 1 <= n THEN n - 1 + 1 ELSE 0
  BY <1>1, <1>2, SubSeqProperties
<1>4. ASSUME NEW p \in 1..n
      PROVE  SubSeq(SubSeq(tokens, 1, n), 1, p) = SubSeq(tokens, 1, p)
  <2>1. /\ 1 \in 1..Len(tokens) /\ n \in 1..Len(tokens)
        /\ 1 \in 1..(n - 1 + 1) /\ p \in 1..(n - 1 + 1)
    BY <1>1
  <2>2. SubSeq(SubSeq(tokens, 1, n), 1, p) = SubSeq(tokens, 1 + 1 - 1, 1 + p - 1)
    BY <2>1, SubSeqOfSubSeq
  <2>3. 1 + 1 - 1 = 1 /\ 1 + p - 1 = p
    BY <1>1
  <2> QED BY <2>2, <2>3
<1>5. ASSUME NEW p \in n..Len(tokens)
      PROVE  SubSeq(tokens, 1, n) \o SubSeq(tokens, n + 1, p) = SubSeq(tokens, 1, p)
  <2>1. 1 \in 1..(Len(tokens) + 1) /\ n \in (1 - 1)..Len(tokens)
    BY <1>1
  <2> QED BY <2>1, ConcatAdjacentSubSeq
<1> QED BY <1>1, <1>3, <1>4, <1>5

(* What a restore takes from payloads that stand for the prompt's blocks.  *)
LEMMA RestoredRows ==
  ASSUME Inv, PayloadsStand, NEW r \in Requests, pc[r] \in {"restore", "reuse"}
  PROVE  LET n == hits[r] * BlockTokens
             w == settings[r].weights
         IN  /\ n \in 0..Len(prompt[r])
             /\ \A p \in 1..n :
                  LET k == (p - 1) \div BlockTokens + 1
                  IN  Payload(r, k).rows[p - (k - 1) * BlockTokens] =
                        Computed(w, SubSeq(prompt[r], 1, p))
             /\ Payload(r, hits[r]).recurrent = Computed(w, SubSeq(prompt[r], 1, n))
             /\ Payload(r, hits[r]).hidden = Computed(w, SubSeq(prompt[r], 1, n))
PROOF
<1> DEFINE n == hits[r] * BlockTokens
           w == settings[r].weights
<1>1. /\ hits[r] \in Nat \ {0} /\ BlockTokens \in Nat \ {0} /\ cached[r]
      /\ settings[r] \in Settings /\ configured = Configuration(settings[r])
      /\ prompt[r] \in Seq(Token) /\ n <= Len(prompt[r]) /\ Len(prompt[r]) \in Nat
  BY HostAssumption, BlockAssumption DEF Inv, TypeOK, Sharing
<1>2. n \in 0..Len(prompt[r])
  <2>1. n \in Nat
    BY <1>1, Z3
  <2> HIDE DEF n
  <2> QED BY <1>1, <2>1
<1>3. ASSUME NEW k \in 1..hits[r]
      PROVE  /\ k * BlockTokens \in 0..Len(prompt[r])
             /\ StandsFor(Payload(r, k), SubSeq(prompt[r], 1, k * BlockTokens), w)
             /\ Len(SubSeq(prompt[r], 1, k * BlockTokens)) = k * BlockTokens
  <2>1. k * BlockTokens <= n
    BY <1>1, <1>3, Z3
  <2>2. k * BlockTokens \in Nat
    BY <1>1, <1>3, Z3
  <2>3. k * BlockTokens <= Len(prompt[r])
    <3> DEFINE m == k * BlockTokens
    <3> HIDE DEF m, n
    <3> QED BY <1>1, <1>2, <2>1, <2>2 DEF m
  <2>4. BlockHash(prompt[r], k) \in DOMAIN payloads
    BY <1>3 DEF Inv, HitsStayResident
  <2>5. /\ k * BlockTokens \in 0..Len(prompt[r])
        /\ History(prompt[r], k) \in Seq(Token)
        /\ Len(History(prompt[r], k)) = k * BlockTokens
    BY <1>1, <2>3, BlockOfPrompt
  <2>6. StandsFor(payloads[Hash(History(prompt[r], k))], History(prompt[r], k), w)
    BY <1>1, <2>4, <2>5 DEF PayloadsStand, BlockHash
  <2> QED BY <2>5, <2>6 DEF Payload, BlockHash, History
<1>4. ASSUME NEW p \in 1..n, NEW k, k = (p - 1) \div BlockTokens + 1
      PROVE  Payload(r, k).rows[p - (k - 1) * BlockTokens] =
               Computed(w, SubSeq(prompt[r], 1, p))
  <2> DEFINE i == p - (k - 1) * BlockTokens
             m == k * BlockTokens
  <2>1. k \in 1..hits[r] /\ i \in 1..BlockTokens /\ m - BlockTokens + i = p
    <3>1. /\ hits[r] \in Nat /\ BlockTokens \in Nat \ {0}
          /\ p \in 1..(hits[r] * BlockTokens) /\ k = (p - 1) \div BlockTokens + 1
      BY <1>1, <1>4
    <3> HIDE DEF n
    <3>2. /\ k \in 1..hits[r]
          /\ p - (k - 1) * BlockTokens \in 1..BlockTokens
          /\ k * BlockTokens - BlockTokens + (p - (k - 1) * BlockTokens) = p
      <4>1. \A q \in 1..(hits[r] * BlockTokens) : \A j :
              j = (q - 1) \div BlockTokens + 1 =>
                /\ j \in 1..hits[r]
                /\ q - (j - 1) * BlockTokens \in 1..BlockTokens
                /\ j * BlockTokens - BlockTokens + (q - (j - 1) * BlockTokens) = q
        BY <3>1, PlaceInBlock, Zenon
      <4> QED BY <3>1, <4>1, Zenon
    <3> QED BY <3>2
  <2> HIDE DEF i
  <2>2. Payload(r, k).rows[i] = Computed(w, SubSeq(SubSeq(prompt[r], 1, m), 1, p))
    BY <1>3, <2>1 DEF StandsFor
  <2>3. m \in 0..Len(prompt[r])
    BY <1>3, <2>1
  <2> HIDE DEF m
  <2>4. p \in 1..m
    BY <1>1, <2>1, <2>3
  <2>5. SubSeq(SubSeq(prompt[r], 1, m), 1, p) = SubSeq(prompt[r], 1, p)
    BY <1>1, <2>3, <2>4, Prefixes
  <2> QED BY <2>2, <2>5 DEF i
<1>5. /\ Payload(r, hits[r]).recurrent = Computed(w, SubSeq(prompt[r], 1, n))
      /\ Payload(r, hits[r]).hidden = Computed(w, SubSeq(prompt[r], 1, n))
  <2>1. hits[r] \in 1..hits[r]
    BY <1>1
  <2> QED BY <1>3, <2>1 DEF StandsFor
<1> QED BY <1>2, <1>4, <1>5

(* What a prefill chunk adds. *)
LEMMA ChunkFills ==
  ASSUME Inv, Counted, NEW r \in Requests, Device(r), PrefillChunk(r)
  PROVE  LET start == Len(rows[r])
             end == IF start + BlockTokens <= Len(prompt[r])
                    THEN start + BlockTokens ELSE Len(prompt[r])
         IN  /\ start \in Nat /\ end \in Nat /\ end <= Len(prompt[r])
             /\ rows'[r] = [p \in 1..end |->
                             Computed(settings[r].weights, SubSeq(prompt[r], 1, p))]
             /\ recurrent'[r] = Computed(settings[r].weights, SubSeq(prompt[r], 1, end))
             /\ hidden'[r] = Computed(settings[r].weights, SubSeq(prompt[r], 1, end))
             /\ pc' = [pc EXCEPT ![r] =
                         IF end = Len(prompt[r]) THEN "decode" ELSE "prefill"]
PROOF
<1> DEFINE start == Len(rows[r])
           end == IF start + BlockTokens <= Len(prompt[r])
                  THEN start + BlockTokens ELSE Len(prompt[r])
           w == settings[r].weights
           folded(p) == Computed(w, recurrent[r].tokens \o SubSeq(prompt[r], start + 1, p))
           new == [p \in 1..end |-> IF p <= start THEN rows[r][p] ELSE folded(p)]
<1>1. /\ prompt[r] \in Seq(Token) /\ Len(prompt[r]) \in Nat
      /\ BlockTokens \in Nat \ {0} /\ pc[r] = "prefill"
      /\ DOMAIN rows = Requests /\ DOMAIN recurrent = Requests /\ DOMAIN hidden = Requests
  BY HostAssumption, BlockAssumption DEF Inv, Sharing, Counted, PrefillChunk
<1>2. PICK n \in Nat : n < Len(prompt[r]) /\ Filled(r, n)
  BY <1>1 DEF Device
<1>3. start = n
  <2>1. rows[r] = [p \in 1..n |-> rows[r][p]]
    BY <1>2 DEF Filled
  <2> QED BY <2>1, LengthOf
<1>4. /\ rows' = [rows EXCEPT ![r] = new]
      /\ recurrent' = [recurrent EXCEPT ![r] = folded(end)]
      /\ hidden' = [hidden EXCEPT ![r] = folded(end)]
      /\ pc' = [pc EXCEPT ![r] = IF end = Len(prompt[r]) THEN "decode" ELSE "prefill"]
      /\ prompt' = prompt /\ settings' = settings
  BY DEF PrefillChunk, request
<1>5. end \in Nat /\ n <= end /\ end <= Len(prompt[r]) /\ n \in 0..Len(prompt[r])
  BY <1>1, <1>2, <1>3
<1>6. ASSUME NEW p \in n..end PROVE folded(p) = Computed(w, SubSeq(prompt[r], 1, p))
  <2>1. recurrent[r].tokens = SubSeq(prompt[r], 1, n)
    BY <1>2 DEF Filled, Computed
  <2>2. p \in n..Len(prompt[r])
    BY <1>1, <1>5, <1>6
  <2>3. SubSeq(prompt[r], 1, n) \o SubSeq(prompt[r], n + 1, p) = SubSeq(prompt[r], 1, p)
    BY <1>1, <1>5, <2>2, Prefixes
  <2> QED BY <1>3, <2>1, <2>3
<1> HIDE DEF end, start, folded
<1>7. ASSUME NEW p \in 1..end
      PROVE  (IF p <= start THEN rows[r][p] ELSE folded(p))
               = Computed(w, SubSeq(prompt[r], 1, p))
  <2>1. CASE p <= n
    <3>1. p \in 1..n
      BY <1>2, <1>5, <2>1
    <3> QED BY <1>2, <1>3, <2>1, <3>1 DEF Filled
  <2>2. CASE ~(p <= n)
    <3>1. p \in n..end
      BY <1>2, <1>5, <2>2
    <3> QED BY <1>3, <1>6, <2>2, <3>1
  <2> QED BY <2>1, <2>2
<1>8. /\ new = [p \in 1..end |-> Computed(w, SubSeq(prompt[r], 1, p))]
      /\ folded(end) = Computed(w, SubSeq(prompt[r], 1, end))
  <2>1. end \in n..end
    BY <1>2, <1>5
  <2> QED BY <1>6, <1>7, <2>1
<1> HIDE DEF new
<1>9. /\ rows'[r] = [p \in 1..end |-> Computed(w, SubSeq(prompt[r], 1, p))]
      /\ recurrent'[r] = Computed(w, SubSeq(prompt[r], 1, end))
      /\ hidden'[r] = Computed(w, SubSeq(prompt[r], 1, end))
  BY <1>1, <1>4, <1>8
<1> QED BY <1>2, <1>3, <1>4, <1>5, <1>9 DEF end, start

(* The payload of a block that a chunk commits stands for its history. *)
LEMMA CommittedPayload ==
  ASSUME NEW tokens \in Seq(Token), NEW w, NEW start \in Nat, NEW end,
         end = start + BlockTokens, end <= Len(tokens),
         NEW all, all = [p \in 1..end |-> Computed(w, SubSeq(tokens, 1, p))],
         NEW payload, payload.rows = SubSeq(all, start + 1, end),
         payload.recurrent = Computed(w, SubSeq(tokens, 1, end)),
         payload.hidden = Computed(w, SubSeq(tokens, 1, end))
  PROVE  StandsFor(payload, SubSeq(tokens, 1, end), w)
PROOF
<1>1. /\ BlockTokens \in Nat \ {0} /\ Len(tokens) \in Nat /\ end \in Nat
      /\ end \in 0..Len(tokens)
  BY BlockAssumption
<1>2. Len(SubSeq(tokens, 1, end)) = end
  BY <1>1, Prefixes
<1>3. ASSUME NEW i \in 1..BlockTokens
      PROVE  payload.rows[i] =
               Computed(w, SubSeq(SubSeq(tokens, 1, end), 1, end - BlockTokens + i))
  <2>1. /\ start + i \in 1..end /\ end - BlockTokens + i = start + i
        /\ start + 1 + i - 1 = start + i /\ i \in 1..(end - (start + 1) + 1)
        /\ start + 1 \in Int /\ end \in Int
    BY <1>1
  <2> DEFINE S == {all[p] : p \in (start + 1)..end}
  <2>2. \A p \in (start + 1)..end : all[p] \in S
    OBVIOUS
  <2> HIDE DEF S
  <2>3. SubSeq(all, start + 1, end)[i] = all[start + 1 + i - 1]
    BY <2>1, <2>2, SubSeqProperties
  <2>4. all[start + i] = Computed(w, SubSeq(tokens, 1, start + i))
    BY <2>1
  <2>5. SubSeq(SubSeq(tokens, 1, end), 1, start + i) = SubSeq(tokens, 1, start + i)
    BY <1>1, <2>1, Prefixes
  <2> QED BY <2>1, <2>3, <2>4, <2>5
<1> QED BY <1>2, <1>3 DEF StandsFor

(* A payload is what its history left behind, for the model configured now. *)
LEMMA StepStands ==
  ASSUME NoCollision, LayoutFixesWeights, Inv, Counted, PayloadsStand,
         NEW r \in Requests, Device(r), Begin(r) \/ Step(r) \/ Fail(r)
  PROVE  PayloadsStand'
PROOF
<1>1. CASE UNCHANGED cacheState
  BY <1>1 DEF cacheState, PayloadsStand
<1>2. CASE OpenCached(r)
  <2>1. /\ configured' = Configuration(settings[r])
        /\ payloads' = ConfiguredPayloads(settings[r])
    BY <1>2 DEF OpenCached
  <2>2. CASE configured = Configuration(settings[r])
    BY <2>1, <2>2 DEF ConfiguredPayloads, PayloadsStand
  <2>3. CASE configured # Configuration(settings[r])
    <3>1. DOMAIN payloads' = {}
      BY <2>1, <2>3 DEF ConfiguredPayloads
    <3> QED BY <3>1 DEF PayloadsStand
  <2> QED BY <2>2, <2>3
<1>3. CASE PrefillChunk(r) /\ ~UNCHANGED cacheState
  <2> DEFINE start == Len(rows[r])
             end == IF start + BlockTokens <= Len(prompt[r])
                    THEN start + BlockTokens ELSE Len(prompt[r])
             k == end \div BlockTokens
             w == settings[r].weights
             payload == [rows |-> SubSeq(rows'[r], start + 1, end),
                         recurrent |-> recurrent'[r], hidden |-> hidden'[r]]
             h == SubSeq(prompt[r], 1, end)
  <2>1. /\ cached[r] /\ end = start + BlockTokens /\ start % BlockTokens = 0
        /\ CommitBlock(r, k, payload)
    BY <1>3 DEF PrefillChunk
  <2>2. /\ prompt[r] \in Seq(Token) /\ Len(prompt[r]) \in Nat
        /\ BlockTokens \in Nat \ {0} /\ settings[r] \in Settings
        /\ configured = Configuration(settings[r])
    BY HostAssumption, BlockAssumption, <2>1 DEF Inv, Sharing, Busy
  <2>3. /\ start \in Nat /\ end \in Nat /\ end <= Len(prompt[r])
        /\ rows'[r] = [p \in 1..end |-> Computed(w, SubSeq(prompt[r], 1, p))]
        /\ recurrent'[r] = Computed(w, SubSeq(prompt[r], 1, end))
        /\ hidden'[r] = Computed(w, SubSeq(prompt[r], 1, end))
    BY <1>3, ChunkFills
  <2> HIDE DEF start, end
  <2>4. StandsFor(payload, h, w)
    <3>1. /\ payload.rows = SubSeq(rows'[r], start + 1, end)
          /\ payload.recurrent = recurrent'[r] /\ payload.hidden = hidden'[r]
      OBVIOUS
    <3> DEFINE all == rows'[r]
               tokens == prompt[r]
    <3>2. /\ all = [p \in 1..end |-> Computed(w, SubSeq(tokens, 1, p))]
          /\ payload.rows = SubSeq(all, start + 1, end)
          /\ payload.recurrent = Computed(w, SubSeq(tokens, 1, end))
          /\ payload.hidden = Computed(w, SubSeq(tokens, 1, end))
      BY <2>3, <3>1
    <3>3. /\ tokens \in Seq(Token) /\ start \in Nat /\ end <= Len(tokens)
          /\ end = start + BlockTokens
      BY <2>1, <2>2, <2>3
    <3> HIDE DEF payload, all, tokens, w
    <3>4. StandsFor(payload, SubSeq(tokens, 1, end), w)
      BY <3>2, <3>3, CommittedPayload
    <3> QED BY <3>4 DEF tokens
  <2>5. k * BlockTokens = end /\ BlockHash(prompt[r], k) = Hash(h) /\ h \in Seq(Token)
    <3>1. k * BlockTokens = end
      BY <2>1, <2>2, <2>3, BlockEnd
    <3>2. h \in Seq(Token)
      BY <2>2, <2>3, Prefixes
    <3> HIDE DEF k
    <3> QED BY <3>1, <3>2 DEF BlockHash, History
  <2> HIDE DEF payload, k, h
  <2>6. /\ configured' = configured
        /\ \A g \in DOMAIN payloads' :
             \/ payloads'[g] = payload /\ g = Hash(h)
             \/ g \in DOMAIN payloads /\ payloads'[g] = payloads[g]
    <3> DEFINE kept == DOMAIN payloads
                         \ {b.hash : b \in Evicted(index, configured.capacity)}
    <3>1. \/ UNCHANGED <<configured, payloads>>
          \/ /\ payloads' = [g \in kept \cup {Hash(h)} |->
                               IF g = Hash(h) THEN payload ELSE payloads[g]]
             /\ configured' = configured
      BY <2>1, <2>5 DEF CommitBlock, cacheState
    <3>2. kept \subseteq DOMAIN payloads
      OBVIOUS
    <3> HIDE DEF kept
    <3>3. CASE UNCHANGED <<configured, payloads>>
      BY <3>3
    <3>4. CASE /\ payloads' = [g \in kept \cup {Hash(h)} |->
                               IF g = Hash(h) THEN payload ELSE payloads[g]]
               /\ configured' = configured
      <4>1. ASSUME NEW g \in DOMAIN payloads'
            PROVE  \/ payloads'[g] = payload /\ g = Hash(h)
                   \/ g \in DOMAIN payloads /\ payloads'[g] = payloads[g]
        <5>1. g \in kept \cup {Hash(h)}
          BY <3>4, <4>1
        <5>2. payloads'[g] = IF g = Hash(h) THEN payload ELSE payloads[g]
          BY <3>4, <5>1
        <5> QED BY <3>2, <5>1, <5>2
      <4> QED BY <3>4, <4>1
    <3> QED BY <3>1, <3>3, <3>4
  <2>7. ASSUME NEW s \in Settings, configured' = Configuration(s),
               NEW g \in Seq(Token), Hash(g) \in DOMAIN payloads'
        PROVE  StandsFor(payloads'[Hash(g)], g, s.weights)
    <3>1. CASE payloads'[Hash(g)] = payload /\ Hash(g) = Hash(h)
      <4>1. g = h
        BY <2>5, <3>1 DEF NoCollision
      <4>2. s.layout = settings[r].layout
        BY <2>2, <2>6, <2>7 DEF Configuration
      <4>3. s.weights = w
        BY <2>2, <4>2 DEF LayoutFixesWeights
      <4> QED BY <2>4, <3>1, <4>1, <4>3
    <3>2. CASE Hash(g) \in DOMAIN payloads /\ payloads'[Hash(g)] = payloads[Hash(g)]
      BY <2>6, <2>7, <3>2 DEF PayloadsStand
    <3> QED BY <2>6, <2>7, <3>1, <3>2
  <2> QED BY <2>7 DEF PayloadsStand
<1> QED
  BY <1>1, <1>2, <1>3
  DEF Step, Begin, Lock, OpenUncached, Allocate, Restore, ReuseHidden, Finish, Fail, Return

(* From allocation to decoding, the device cache holds a prefix of the      *)
(* prompt, wherever its rows came from.                                    *)
LEMMA StepDevice ==
  ASSUME Inv, Counted, PayloadsStand, NEW r \in Requests, Device(r),
         Begin(r) \/ Step(r) \/ Fail(r)
  PROVE  Device(r)'
PROOF
<1>1. /\ TypeOK /\ Sharing(r)
      /\ DOMAIN rows = Requests /\ DOMAIN recurrent = Requests /\ DOMAIN hidden = Requests
      /\ BlockTokens \in Nat \ {0} /\ hits[r] \in Nat
  BY BlockAssumption DEF Inv, TypeOK, Counted
<1>2. CASE pc'[r] \in {"idle", "lock", "open", "allocate", "restore"}
  BY <1>2 DEF Device
<1>3. ASSUME pc[r] # "idle"
      PROVE  /\ prompt[r] \in Seq(Token) /\ prompt[r] # <<>>
             /\ Len(prompt[r]) \in Nat /\ Len(prompt[r]) > 0
  BY <1>1, <1>3, HostAssumption DEF Sharing
<1>4. CASE Allocate(r) /\ pc'[r] = "prefill"
  <2>1. /\ rows'[r] = <<>> /\ recurrent'[r] = Computed(settings[r].weights, <<>>)
        /\ prompt' = prompt /\ settings' = settings /\ pc[r] # "idle"
    BY <1>1, <1>4 DEF Allocate, request
  <2>2. SubSeq(prompt[r], 1, 0) = <<>>
    BY <1>3, <2>1, SubSeqEmpty
  <2>3. <<>> = [p \in 1..0 |-> Computed(settings[r].weights, SubSeq(prompt[r], 1, p))]
    OBVIOUS
  <2>4. /\ rows'[r] = [p \in 1..0 |->
                        Computed(settings'[r].weights, SubSeq(prompt'[r], 1, p))]
        /\ recurrent'[r] = Computed(settings'[r].weights, SubSeq(prompt'[r], 1, 0))
        /\ 0 < Len(prompt'[r])
    BY <1>3, <2>1, <2>2, <2>3
  <2> QED BY <1>4, <2>4 DEF Device, Filled
<1>5. CASE Restore(r)
  <2> DEFINE n == hits[r] * BlockTokens
             value == [p \in 1..n |->
                        LET k == (p - 1) \div BlockTokens + 1
                        IN  Payload(r, k).rows[p - (k - 1) * BlockTokens]]
             w == settings[r].weights
  <2>1. /\ pc[r] = "restore" /\ prompt' = prompt /\ settings' = settings /\ hits' = hits
        /\ rows' = [rows EXCEPT ![r] = value]
        /\ recurrent' = [recurrent EXCEPT ![r] = Payload(r, hits[r]).recurrent]
        /\ pc' = [pc EXCEPT ![r] = IF n = Len(prompt[r]) THEN "reuse" ELSE "prefill"]
    BY <1>5 DEF Restore, request
  <2>2. /\ n \in 0..Len(prompt[r])
        /\ \A p \in 1..n :
             LET k == (p - 1) \div BlockTokens + 1
             IN  Payload(r, k).rows[p - (k - 1) * BlockTokens] =
                   Computed(w, SubSeq(prompt[r], 1, p))
        /\ Payload(r, hits[r]).recurrent = Computed(w, SubSeq(prompt[r], 1, n))
    BY <2>1, RestoredRows
  <2>3. value = [p \in 1..n |-> Computed(w, SubSeq(prompt[r], 1, p))]
    BY <2>2, Zenon
  <2> HIDE DEF value
  <2>4. /\ rows'[r] = [p \in 1..n |-> Computed(w, SubSeq(prompt[r], 1, p))]
        /\ recurrent'[r] = Computed(w, SubSeq(prompt[r], 1, n))
    BY <1>1, <2>1, <2>2, <2>3
  <2>5. pc'[r] = IF n = Len(prompt[r]) THEN "reuse" ELSE "prefill"
    BY <1>1, <2>1 DEF TypeOK
  <2>6. hits'[r] * BlockTokens = n
    BY <2>1
  <2> HIDE DEF n
  <2>7. n \in Nat /\ n <= Len(prompt[r]) /\ Len(prompt[r]) \in Nat
    BY <1>3, <2>1, <2>2
  <2>8. CASE n = Len(prompt[r])
    <3>1. pc'[r] = "reuse"
      BY <2>5, <2>8
    <3> QED BY <2>1, <2>4, <2>6, <2>8, <3>1 DEF Device, Filled
  <2>9. CASE n # Len(prompt[r])
    <3>1. pc'[r] = "prefill" /\ n < Len(prompt[r])
      BY <2>5, <2>7, <2>9
    <3>2. /\ rows'[r] = [p \in 1..n |->
                          Computed(settings'[r].weights, SubSeq(prompt'[r], 1, p))]
          /\ recurrent'[r] = Computed(settings'[r].weights, SubSeq(prompt'[r], 1, n))
          /\ n < Len(prompt'[r]) /\ n \in Nat
      BY <2>1, <2>4, <2>7, <3>1
    <3> QED BY <3>1, <3>2 DEF Device, Filled
  <2> QED BY <2>8, <2>9
<1>6. CASE ReuseHidden(r)
  <2> DEFINE n == hits[r] * BlockTokens
             w == settings[r].weights
  <2>1. /\ pc[r] = "reuse" /\ prompt' = prompt /\ settings' = settings
        /\ rows' = rows /\ recurrent' = recurrent
        /\ hidden' = [hidden EXCEPT ![r] = Payload(r, hits[r]).hidden]
        /\ pc' = [pc EXCEPT ![r] = "decode"]
    BY <1>6 DEF ReuseHidden, request
  <2>2. Payload(r, hits[r]).hidden = Computed(w, SubSeq(prompt[r], 1, n))
    BY <2>1, RestoredRows
  <2>3. Filled(r, Len(prompt[r])) /\ n = Len(prompt[r])
    BY <2>1 DEF Device
  <2>4. hidden'[r] = Computed(w, SubSeq(prompt[r], 1, Len(prompt[r])))
    BY <1>1, <2>1, <2>2, <2>3
  <2>5. pc'[r] = "decode"
    BY <1>1, <2>1 DEF TypeOK
  <2> QED BY <2>1, <2>3, <2>4, <2>5 DEF Device, Filled
<1>7. CASE PrefillChunk(r)
  <2> DEFINE start == Len(rows[r])
             end == IF start + BlockTokens <= Len(prompt[r])
                    THEN start + BlockTokens ELSE Len(prompt[r])
             w == settings[r].weights
  <2>1. /\ start \in Nat /\ end \in Nat /\ end <= Len(prompt[r])
        /\ rows'[r] = [p \in 1..end |-> Computed(w, SubSeq(prompt[r], 1, p))]
        /\ recurrent'[r] = Computed(w, SubSeq(prompt[r], 1, end))
        /\ hidden'[r] = Computed(w, SubSeq(prompt[r], 1, end))
        /\ pc' = [pc EXCEPT ![r] = IF end = Len(prompt[r]) THEN "decode" ELSE "prefill"]
    BY <1>7, ChunkFills
  <2>2. prompt' = prompt /\ settings' = settings /\ pc[r] # "idle"
    BY <1>7 DEF PrefillChunk, request
  <2> HIDE DEF end, start
  <2>3. pc'[r] = IF end = Len(prompt[r]) THEN "decode" ELSE "prefill"
    BY <1>1, <2>1 DEF TypeOK
  <2>4. end # Len(prompt[r]) => end < Len(prompt[r])
    BY <1>3, <2>1, <2>2
  <2> QED BY <2>1, <2>2, <2>3, <2>4 DEF Device, Filled
<1> QED
  <2>1. CASE Begin(r) \/ Lock(r) \/ OpenCached(r) \/ OpenUncached(r) \/ Finish(r) \/ Fail(r)
    <3>1. pc'[r] \in {"idle", "lock", "open", "allocate"}
      BY <1>1, <2>1 DEF TypeOK, Begin, Lock, OpenCached, OpenUncached, Finish, Fail, Return
    <3> QED BY <1>2, <3>1
  <2>2. CASE Allocate(r)
    <3>1. pc'[r] \in {"restore", "prefill"}
      BY <1>1, <2>2 DEF TypeOK, Allocate
    <3> QED BY <1>2, <1>4, <2>2, <3>1
  <2> QED BY <1>5, <1>6, <1>7, <2>1, <2>2 DEF Step

(* The steps of one request leave the device caches of the others alone. *)
LEMMA OtherDevices ==
  ASSUME Inv, Counted, NEW r \in Requests, NEW q \in Requests, q # r, Device(q),
         Begin(r) \/ Step(r) \/ Fail(r)
  PROVE  Device(q)'
PROOF
<1>1. /\ TypeOK
      /\ DOMAIN rows = Requests /\ DOMAIN recurrent = Requests /\ DOMAIN hidden = Requests
  BY DEF Inv, Counted
<1>2. /\ pc'[q] = pc[q] /\ prompt'[q] = prompt[q] /\ settings'[q] = settings[q]
      /\ hits'[q] = hits[q]
  BY <1>1 DEF TypeOK, Begin, Step, Lock, OpenCached, OpenUncached, Allocate, Restore,
              ReuseHidden, PrefillChunk, Finish, Fail, Return, request
<1>3. rows'[q] = rows[q] /\ recurrent'[q] = recurrent[q] /\ hidden'[q] = hidden[q]
  BY <1>1 DEF Begin, Step, Lock, OpenCached, OpenUncached, Allocate, Restore,
              ReuseHidden, PrefillChunk, Finish, Fail, Return, deviceCache
<1> QED BY <1>2, <1>3 DEF Device, Filled

(* Caching never changes what a prefill computes: if no two histories      *)
(* share a hash and a layout fixes the weights, KV rows, recurrent state   *)
(* and hidden row are those of a prefill without a cache.                  *)
THEOREM CacheIsTransparent ==
  ASSUME NoCollision, LayoutFixesWeights
  PROVE  Spec => []PrefillIgnoresCache
PROOF
<1> DEFINE J == PayloadsStand /\ \A r \in Requests : Device(r)
<1>1. Init => J
  BY DEF Init, PayloadsStand, Device
<1>2. Inv /\ Counted /\ J /\ [Next]_vars => J'
  <2> SUFFICES ASSUME Inv, Counted, J, [Next]_vars PROVE J'
    OBVIOUS
  <2>1. ASSUME NEW r \in Requests, Begin(r) \/ Step(r) \/ Fail(r) PROVE J'
    <3>1. PayloadsStand'
      BY <2>1, StepStands
    <3>2. ASSUME NEW q \in Requests PROVE Device(q)'
      <4>1. CASE q = r
        BY <2>1, <4>1, StepDevice
      <4>2. CASE q # r
        BY <2>1, <4>2, OtherDevices
      <4> QED BY <4>1, <4>2
    <3> QED BY <3>1, <3>2
  <2>2. CASE UNCHANGED vars
    <3>1. PayloadsStand'
      BY <2>2 DEF vars, PayloadsStand
    <3>2. ASSUME NEW q \in Requests PROVE Device(q)'
      <4>1. Device(q)
        OBVIOUS
      <4> QED BY <2>2, <4>1 DEF vars, Device, Filled
    <3> QED BY <3>1, <3>2
  <2> QED BY <2>1, <2>2 DEF Next
<1>3. Inv /\ J => PrefillIgnoresCache
  <2> SUFFICES ASSUME Inv, J, NEW r \in Requests, pc[r] = "decode"
               PROVE  /\ rows[r] = FreshRows(settings[r].weights, prompt[r])
                      /\ recurrent[r] = Computed(settings[r].weights, prompt[r])
                      /\ hidden[r] = Computed(settings[r].weights, prompt[r])
    BY DEF PrefillIgnoresCache
  <2>1. prompt[r] \in Seq(Token)
    BY HostAssumption DEF Inv, Sharing
  <2>2. SubSeq(prompt[r], 1, Len(prompt[r])) = prompt[r]
    BY <2>1, SubSeqFull
  <2> QED BY <2>2 DEF Device, Filled, FreshRows
<1> QED BY Invariance, <1>1, <1>2, <1>3, PTL DEF Spec
-----------------------------------------------------------------------------
(* A repeated prompt is hit in full.  A commit that finds a payload leaves *)
(* the old stamp of its block, so that a later commit of the same request  *)
(* might evict it.  It does not, because of the order of the stamps: a     *)
(* block whose parent was evicted is the next one to be evicted, hence it  *)
(* is gone when a request that has to commit its parent comes to it.       *)
Blocks(tokens) == Len(tokens) \div BlockTokens

BlockOf(b, tokens, k) ==
  /\ b.hash = BlockHash(tokens, k)
  /\ b.parent = ParentHash(tokens, k)
  /\ b.tokens = BlockContent(tokens, k)

Committed(ix) ==
  \A b \in ix.blocks : \E p \in Prompts : \E k \in 1..Blocks(p) : BlockOf(b, p, k)

(* A child that is younger than its parent was stamped right after it.     *)
Chained(ix) ==
  \A b, c \in ix.blocks : c.parent = b.hash /\ b.tick < c.tick => c.tick = b.tick + 1

Orphan(ix, c) == c.parent # Hash(<<>>) /\ c.parent \notin Hashes(ix)

OrphanIsOldest(ix, capacity) ==
  \A c \in ix.blocks : Orphan(ix, c) =>
    /\ \A d \in ix.blocks : c.tick <= d.tick
    /\ Cardinality(ix.blocks) >= capacity

Present(ix, tokens, m) == \A j \in 1..m : BlockHash(tokens, j) \in Hashes(ix)

(* The first m blocks of a prompt have the last m stamps, as far as the    *)
(* cache has room for them, and the next one is not there.                 *)
Recent(ix, tokens, m, capacity) ==
  /\ m <= capacity => Present(ix, tokens, m)
  /\ m > 0 => BlockHash(tokens, m) \in Hashes(ix)
  /\ \A b \in ix.blocks : \A j \in 1..m :
       b.hash = BlockHash(tokens, j) => b.tick + m = ix.tick + j
  /\ m < Blocks(tokens) => BlockHash(tokens, m + 1) \notin Hashes(ix)

Ordered(ix, capacity) ==
  Committed(ix) /\ Chained(ix) /\ OrphanIsOldest(ix, capacity)

(* The blocks of a prompt that are complete. *)
LEMMA PromptBlocks ==
  ASSUME NEW p \in Prompts
  PROVE  /\ p \in Seq(Token) /\ Len(p) \in Nat /\ Blocks(p) \in Nat
         /\ CompleteBlocks(p) = 1..Blocks(p)
         /\ \A k \in 0..Blocks(p) : k \in Nat /\ k * BlockTokens \in 0..Len(p)
         /\ \A k \in Nat : k * BlockTokens <= Len(p) => k <= Blocks(p)
         /\ BlockHash(p, 0) = Hash(<<>>)
         /\ \A k \in Nat : ParentHash(p, k + 1) = BlockHash(p, k)
PROOF
<1>1. p \in Seq(Token) /\ Len(p) \in Nat /\ BlockTokens \in Nat \ {0}
  BY HostAssumption, BlockAssumption
<1>2. /\ Blocks(p) \in Nat
      /\ \A k \in 0..Blocks(p) : k * BlockTokens \in 0..Len(p)
      /\ \A k \in Nat : k * BlockTokens <= Len(p) => k <= Blocks(p)
  BY <1>1, BlocksFit DEF Blocks
<1>3. BlockHash(p, 0) = Hash(<<>>)
  <2>1. 0 * BlockTokens = 0 /\ SubSeq(p, 1, 0) = <<>>
    BY <1>1, SubSeqEmpty
  <2> QED BY <2>1 DEF BlockHash, History
<1>4. ASSUME NEW k \in Nat PROVE ParentHash(p, k + 1) = BlockHash(p, k)
  <2>1. k + 1 - 1 = k
    OBVIOUS
  <2> QED BY <2>1 DEF ParentHash, BlockHash
<1> QED BY <1>1, <1>2, <1>3, <1>4 DEF CompleteBlocks, Blocks

(* The rest of a prefix. *)
LEMMA SuffixOfPrefix ==
  ASSUME NEW tokens \in Seq(Token), NEW n \in 1..Len(tokens), NEW i \in 1..n
  PROVE  SubSeq(SubSeq(tokens, 1, n), i, n) = SubSeq(tokens, i, n)
PROOF
<1>1. /\ Len(tokens) \in Nat /\ 1 \in 1..Len(tokens)
      /\ i \in 1..(n - 1 + 1) /\ n \in 1..(n - 1 + 1)
  OBVIOUS
<1>2. SubSeq(SubSeq(tokens, 1, n), i, n) = SubSeq(tokens, 1 + i - 1, 1 + n - 1)
  BY <1>1, SubSeqOfSubSeq
<1>3. 1 + i - 1 = i /\ 1 + n - 1 = n
  BY <1>1
<1> QED BY <1>2, <1>3

(* Without collisions a hash names the blocks of one history. *)
LEMMA SameHistory ==
  ASSUME NoCollision, NEW p \in Prompts, NEW q \in Prompts,
         NEW j \in 0..Blocks(p), NEW k \in 0..Blocks(q),
         BlockHash(p, j) = BlockHash(q, k)
  PROVE  /\ j = k
         /\ \A i \in 0..j : BlockHash(p, i) = BlockHash(q, i)
         /\ j > 0 => /\ ParentHash(p, j) = ParentHash(q, k)
                     /\ BlockContent(p, j) = BlockContent(q, k)
PROOF
<1> DEFINE n == j * BlockTokens
<1>1. /\ p \in Seq(Token) /\ q \in Seq(Token) /\ Len(p) \in Nat /\ Len(q) \in Nat
      /\ j \in Nat /\ k \in Nat /\ BlockTokens \in Nat \ {0}
      /\ n \in 0..Len(p) /\ k * BlockTokens \in 0..Len(q)
  BY PromptBlocks, BlockAssumption
<1>2. /\ History(p, j) \in Seq(Token) /\ Len(History(p, j)) = n
      /\ History(q, k) \in Seq(Token) /\ Len(History(q, k)) = k * BlockTokens
  BY <1>1, Prefixes DEF History
<1>3. History(p, j) = History(q, k)
  BY <1>2 DEF NoCollision, BlockHash
<1>4. j = k
  <2>1. j * BlockTokens = k * BlockTokens
    BY <1>2, <1>3
  <2> HIDE DEF n
  <2> QED BY <1>1, <2>1, Z3
<1>5. SubSeq(p, 1, n) = SubSeq(q, 1, n) /\ n \in 0..Len(q)
  BY <1>1, <1>3, <1>4 DEF History
<1>6. ASSUME NEW i \in 0..j PROVE History(p, i) = History(q, i)
  <2>1. i * BlockTokens \in 0..n
    <3>1. i * BlockTokens <= j * BlockTokens /\ i * BlockTokens \in Nat
      BY <1>1, <1>6, Z3
    <3> QED BY <1>1, <3>1
  <2> DEFINE m == i * BlockTokens
  <2>2. m \in 0..n
    BY <2>1
  <2> HIDE DEF m, n
  <2>3. CASE m = 0
    BY <1>1, <2>3, SubSeqEmpty DEF History, m
  <2>4. CASE m # 0
    <3>1. m \in 1..n
      BY <1>1, <2>2, <2>4
    <3>2. /\ SubSeq(SubSeq(p, 1, n), 1, m) = SubSeq(p, 1, m)
          /\ SubSeq(SubSeq(q, 1, n), 1, m) = SubSeq(q, 1, m)
      BY <1>1, <1>5, <3>1, Prefixes
    <3> QED BY <1>5, <3>2 DEF History, m
  <2> QED BY <2>3, <2>4
<1>7. ASSUME j > 0
      PROVE  /\ ParentHash(p, j) = ParentHash(q, k)
             /\ BlockContent(p, j) = BlockContent(q, k)
  <2>1. j - 1 \in 0..j
    BY <1>1, <1>7
  <2>2. ParentHash(p, j) = ParentHash(q, k)
    BY <1>4, <1>6, <2>1 DEF ParentHash
  <2> DEFINE m == (j - 1) * BlockTokens
  <2>3. m \in Nat /\ m + BlockTokens = n
    BY <1>1, <1>7, Z3
  <2> HIDE DEF m, n
  <2>4. n \in 1..Len(p) /\ n \in 1..Len(q) /\ m + 1 \in 1..n
    BY <1>1, <1>5, <2>3
  <2>5. /\ SubSeq(SubSeq(p, 1, n), m + 1, n) = SubSeq(p, m + 1, n)
        /\ SubSeq(SubSeq(q, 1, n), m + 1, n) = SubSeq(q, m + 1, n)
    BY <1>1, <2>4, SuffixOfPrefix
  <2>6. BlockContent(p, j) = BlockContent(q, k)
    BY <1>4, <1>5, <2>5 DEF BlockContent, m, n
  <2> QED BY <2>2, <2>6
<1> QED BY <1>4, <1>6, <1>7 DEF BlockHash

(* A block with the hash of a prompt's block is that block. *)
LEMMA HashNamesBlock ==
  ASSUME NoCollision, NEW ix, Committed(ix), NEW p \in Prompts, NEW k \in 1..Blocks(p)
  PROVE  /\ \A b \in ix.blocks :
              b.hash = BlockHash(p, k) => /\ BlockOf(b, p, k)
                                          /\ b.parent = BlockHash(p, k - 1)
         /\ BlockHash(p, k) \in Hashes(ix) => Matches(ix, p, k)
         /\ BlockHash(p, k) # Hash(<<>>)
PROOF
<1>1. Blocks(p) \in Nat /\ k \in 0..Blocks(p) /\ k \in Nat /\ k > 0
  BY PromptBlocks
<1>2. ASSUME NEW b \in ix.blocks, b.hash = BlockHash(p, k)
      PROVE  BlockOf(b, p, k) /\ b.parent = BlockHash(p, k - 1)
  <2>1. PICK q \in Prompts : \E i \in 1..Blocks(q) : BlockOf(b, q, i)
    BY <1>2 DEF Committed
  <2>2. PICK i \in 1..Blocks(q) : BlockOf(b, q, i)
    BY <2>1
  <2>3. i \in 0..Blocks(q) /\ BlockHash(p, k) = BlockHash(q, i)
    BY <1>2, <2>2, PromptBlocks DEF BlockOf
  <2>4. ParentHash(p, k) = ParentHash(q, i) /\ BlockContent(p, k) = BlockContent(q, i)
    BY <1>1, <2>3, SameHistory
  <2>5. ParentHash(p, k) = BlockHash(p, k - 1)
    BY DEF ParentHash, BlockHash
  <2> QED BY <1>2, <2>2, <2>4, <2>5 DEF BlockOf
<1>3. BlockHash(p, k) \in Hashes(ix) => Matches(ix, p, k)
  BY <1>2 DEF Hashes, Matches, BlockOf
<1>4. BlockHash(p, k) # Hash(<<>>)
  <2>1. 0 \in 0..Blocks(p) /\ BlockHash(p, 0) = Hash(<<>>)
    BY <1>1, PromptBlocks
  <2>2. BlockHash(p, k) = BlockHash(p, 0) => k = 0
    BY <1>1, <2>1, SameHistory
  <2> QED BY <1>1, <2>1, <2>2
<1> QED BY <1>2, <1>3, <1>4

(* What a lookup does to every block. *)
LEMMA LookupStamps ==
  ASSUME NoCollision, NEW ix, Wellformed(ix), NEW p \in Prompts
  PROVE  LET n == Cardinality(HitBlocks(ix, p))
             new == LookupIndex(ix, p)
         IN  /\ n \in Nat /\ n \in 0..Blocks(p) /\ HitBlocks(ix, p) = 1..n
             /\ new.tick = ix.tick + n
             /\ \E f \in [ix.blocks -> Block] :
                  /\ new.blocks = {f[b] : b \in ix.blocks}
                  /\ \A b \in ix.blocks :
                       /\ f[b].hash = b.hash /\ f[b].parent = b.parent
                       /\ f[b].tokens = b.tokens
                       /\ \A k \in 1..n : b.hash = BlockHash(p, k) =>
                                            f[b].tick = ix.tick + k
                       /\ (\A k \in 1..n : b.hash # BlockHash(p, k)) => f[b] = b
PROOF
<1> DEFINE walked == HitBlocks(ix, p)
           n == Cardinality(walked)
           stamped(b) == {k \in walked : b.hash = BlockHash(p, k)}
           touch(b) ==
             IF stamped(b) = {} THEN b
             ELSE LET k == CHOOSE k \in stamped(b) : \A j \in stamped(b) : j <= k
                  IN  [b EXCEPT !.tick = ix.tick + k]
           f == [b \in ix.blocks |-> touch(b)]
<1>0. p \in Seq(Token) /\ Blocks(p) \in Nat
  BY PromptBlocks
<1>1. walked = 1..n /\ n \in Nat /\ n * BlockTokens <= Len(p)
  BY <1>0, HitsAreASegment
<1>2. n \in 0..Blocks(p)
  <2> HIDE DEF n, walked
  <2> QED BY <1>0, <1>1, PromptBlocks
<1>3. ix.blocks \in SUBSET Block /\ ix.tick \in Nat
  BY DEF Wellformed
<1> DEFINE new == LookupIndex(ix, p)
<1>4. new.blocks = {touch(b) : b \in ix.blocks} /\ new.tick = ix.tick + n
  BY DEF LookupIndex
<1> HIDE DEF new
<1> HIDE DEF n, walked
<1>5. ASSUME NEW b \in ix.blocks
      PROVE  /\ touch(b) \in Block
             /\ touch(b).hash = b.hash /\ touch(b).parent = b.parent
             /\ touch(b).tokens = b.tokens
             /\ \A k \in 1..n : b.hash = BlockHash(p, k) => touch(b).tick = ix.tick + k
             /\ (\A k \in 1..n : b.hash # BlockHash(p, k)) => touch(b) = b
  <2>1. b \in Block
    BY <1>3
  <2>2. ASSUME NEW k \in 1..n, b.hash = BlockHash(p, k)
        PROVE  touch(b) = [b EXCEPT !.tick = ix.tick + k]
    <3>1. ASSUME NEW j \in 1..n, b.hash = BlockHash(p, j) PROVE j = k
      <4>1. j \in 0..Blocks(p) /\ k \in 0..Blocks(p)
        BY <1>0, <1>1, <1>2
      <4>2. BlockHash(p, j) = BlockHash(p, k)
        BY <2>2, <3>1
      <4> QED BY <4>1, <4>2, SameHistory
    <3>2. stamped(b) = {k} /\ k \in Nat
      BY <1>1, <2>2, <3>1
    <3> HIDE DEF stamped
    <3>3. (CHOOSE i \in stamped(b) : \A j \in stamped(b) : j <= i) = k
      BY <3>2
    <3> QED BY <3>2, <3>3
  <2>3. ASSUME \A k \in 1..n : b.hash # BlockHash(p, k) PROVE touch(b) = b
    <3>1. stamped(b) = {}
      BY <1>1, <2>3
    <3> QED BY <3>1
  <2> HIDE DEF touch
  <2>4. ASSUME NEW k \in 1..n, b.hash = BlockHash(p, k)
        PROVE  /\ touch(b) \in Block /\ touch(b).tick = ix.tick + k
               /\ touch(b).hash = b.hash /\ touch(b).parent = b.parent
               /\ touch(b).tokens = b.tokens
    <3>1. ix.tick + k \in Nat \ {0}
      BY <1>1, <1>3
    <3> QED BY <2>1, <2>2, <2>4, <3>1 DEF Block
  <2> QED BY <2>1, <2>3, <2>4
<1> HIDE DEF touch
<1>6. f \in [ix.blocks -> Block] /\ \A b \in ix.blocks : f[b] = touch(b)
  BY <1>5
<1>7. {touch(b) : b \in ix.blocks} = {f[b] : b \in ix.blocks}
  BY <1>6
<1>8. new.tick = ix.tick + n /\ new.blocks = {f[b] : b \in ix.blocks}
  BY <1>4, <1>7
<1> HIDE DEF f
<1>9. \A b \in ix.blocks :
        /\ f[b].hash = b.hash /\ f[b].parent = b.parent /\ f[b].tokens = b.tokens
        /\ \A k \in 1..n : b.hash = BlockHash(p, k) => f[b].tick = ix.tick + k
        /\ (\A k \in 1..n : b.hash # BlockHash(p, k)) => f[b] = b
  BY <1>5, <1>6
<1> QED BY <1>1, <1>2, <1>6, <1>8, <1>9 DEF new, n, walked

(* A lookup keeps the order, and makes the blocks it hits the most recent. *)
LEMMA LookupOrders ==
  ASSUME NoCollision, NEW ix, Wellformed(ix), NEW capacity, Ordered(ix, capacity),
         NEW p \in Prompts
  PROVE  LET n == Cardinality(HitBlocks(ix, p))
             new == LookupIndex(ix, p)
         IN  /\ n \in 0..Blocks(p)
             /\ Ordered(new, capacity) /\ Recent(new, p, n, capacity)
             /\ Present(new, p, n)
PROOF
<1> DEFINE n == Cardinality(HitBlocks(ix, p))
           new == LookupIndex(ix, p)
<1>1. /\ p \in Seq(Token) /\ Blocks(p) \in Nat
      /\ Committed(ix) /\ Chained(ix) /\ OrphanIsOldest(ix, capacity)
  BY PromptBlocks DEF Ordered
<1>2. /\ ix.blocks \in SUBSET Block /\ ix.tick \in Nat
      /\ \A b \in ix.blocks : b.tick \in Nat /\ b.tick <= ix.tick
  BY DEF Wellformed, Block
<1>3. n \in Nat /\ n \in 0..Blocks(p) /\ HitBlocks(ix, p) = 1..n
  BY LookupStamps
<1>4. new.tick = ix.tick + n
  BY LookupStamps
<1>5. PICK f \in [ix.blocks -> Block] :
        /\ new.blocks = {f[b] : b \in ix.blocks}
        /\ \A b \in ix.blocks :
             /\ f[b].hash = b.hash /\ f[b].parent = b.parent /\ f[b].tokens = b.tokens
             /\ \A k \in 1..n : b.hash = BlockHash(p, k) => f[b].tick = ix.tick + k
             /\ (\A k \in 1..n : b.hash # BlockHash(p, k)) => f[b] = b
  BY LookupStamps
<1>6. /\ Hashes(new) = Hashes(ix)
      /\ Cardinality(new.blocks) = Cardinality(ix.blocks)
      /\ Wellformed(new)
  BY <1>1, LookupKeeps
<1>7. \A k \in 1..n : BlockHash(p, k) \in Hashes(ix)
  BY <1>1, HitsAreASegment
<1>8. n < Blocks(p) => BlockHash(p, n + 1) \notin Hashes(ix)
  <2> SUFFICES ASSUME n < Blocks(p), BlockHash(p, n + 1) \in Hashes(ix) PROVE FALSE
    OBVIOUS
  <2> HIDE DEF n
  <2>1. n + 1 \in 1..Blocks(p) /\ n + 1 \notin 1..n
    BY <1>1, <1>3
  <2>2. Matches(ix, p, n + 1)
    BY <1>1, <2>1, HashNamesBlock
  <2>3. \A j \in 1..n : Matches(ix, p, j)
    <3>1. ASSUME NEW j \in 1..n PROVE Matches(ix, p, j)
      <4>1. j \in HitBlocks(ix, p) /\ j \in 1..j
        BY <1>3
      <4> QED BY <4>1 DEF HitBlocks
    <3> QED BY <3>1
  <2>4. \A j \in 1..(n + 1) : j \in 1..n \/ j = n + 1
    BY <1>3
  <2>5. n + 1 \in HitBlocks(ix, p)
    BY <2>1, <2>2, <2>3, <2>4, PromptBlocks DEF HitBlocks
  <2> QED BY <1>3, <2>1, <2>5
<1> HIDE DEF n, new
<1>9. ASSUME NEW c \in ix.blocks
      PROVE  \/ f[c] = c
             \/ \E k \in 1..n :
                  /\ c.hash = BlockHash(p, k) /\ f[c].tick = ix.tick + k
                  /\ c.parent = BlockHash(p, k - 1)
  <2>1. ASSUME NEW k \in 1..n, c.hash = BlockHash(p, k)
        PROVE  c.parent = BlockHash(p, k - 1) /\ f[c].tick = ix.tick + k
    <3>1. k \in 1..Blocks(p)
      BY <1>1, <1>3
    <3>2. c.parent = BlockHash(p, k - 1)
      BY <1>1, <2>1, <3>1, HashNamesBlock
    <3> QED BY <1>5, <2>1, <3>2
  <2> QED BY <1>5, <2>1
<1>10. \A b \in ix.blocks : b.hash # Hash(<<>>)
  <2>1. ASSUME NEW b \in ix.blocks PROVE b.hash # Hash(<<>>)
    <3>1. PICK q \in Prompts : \E k \in 1..Blocks(q) : BlockOf(b, q, k)
      BY <1>1 DEF Committed
    <3>2. PICK k \in 1..Blocks(q) : BlockOf(b, q, k)
      BY <3>1
    <3>3. BlockHash(q, k) # Hash(<<>>)
      BY <1>1, HashNamesBlock
    <3> QED BY <3>2, <3>3 DEF BlockOf
  <2> QED BY <2>1
<1>11. Committed(new)
  <2>1. ASSUME NEW b \in ix.blocks
        PROVE  \E q \in Prompts : \E k \in 1..Blocks(q) : BlockOf(f[b], q, k)
    BY <1>1, <1>5 DEF Committed, BlockOf
  <2> QED BY <1>5, <2>1 DEF Committed
<1>12. Chained(new)
  <2>1. ASSUME NEW b \in ix.blocks, NEW c \in ix.blocks,
               f[c].parent = f[b].hash, f[b].tick < f[c].tick
        PROVE  f[c].tick = f[b].tick + 1
    <3>1. c.parent = b.hash
      BY <1>5, <2>1
    <3>2. CASE f[c] = c
      <4>1. f[b] = b
        <5>1. ASSUME NEW k \in 1..n, f[b].tick = ix.tick + k PROVE FALSE
          BY <1>2, <1>3, <2>1, <3>2, <5>1
        <5> QED BY <1>9, <5>1
      <4> QED BY <1>1, <2>1, <3>1, <3>2, <4>1 DEF Chained
    <3>3. ASSUME NEW k \in 1..n, f[c].tick = ix.tick + k, c.parent = BlockHash(p, k - 1)
          PROVE  f[c].tick = f[b].tick + 1
      <4>1. CASE k = 1
        <5>1. b.hash = Hash(<<>>)
          BY <3>1, <3>3, <4>1, PromptBlocks
        <5> QED BY <1>10, <5>1
      <4>2. CASE k # 1
        <5>1. k - 1 \in 1..n
          BY <1>3, <4>2
        <5>2. f[b].tick = ix.tick + (k - 1)
          BY <1>5, <3>1, <3>3, <5>1
        <5> QED BY <1>2, <1>3, <3>3, <5>2
      <4> QED BY <4>1, <4>2
    <3> QED BY <1>9, <3>2, <3>3
  <2> QED BY <1>5, <2>1 DEF Chained
<1>13. OrphanIsOldest(new, capacity)
  <2>1. ASSUME NEW c \in ix.blocks, Orphan(new, f[c])
        PROVE  /\ \A d \in ix.blocks : f[c].tick <= f[d].tick
               /\ Cardinality(new.blocks) >= capacity
    <3>1. Orphan(ix, c)
      BY <1>5, <1>6, <2>1 DEF Orphan
    <3>2. f[c] = c
      <4>1. ASSUME NEW k \in 1..n, c.parent = BlockHash(p, k - 1) PROVE FALSE
        <5>1. CASE k = 1
          BY <3>1, <4>1, <5>1, PromptBlocks DEF Orphan
        <5>2. CASE k # 1
          <6>1. k - 1 \in 1..n
            BY <1>3, <5>2
          <6> QED BY <1>7, <3>1, <4>1, <6>1 DEF Orphan
        <5> QED BY <5>1, <5>2
      <4> QED BY <1>9, <4>1
    <3>3. /\ \A d \in ix.blocks : c.tick <= d.tick
          /\ Cardinality(ix.blocks) >= capacity
      BY <1>1, <3>1 DEF OrphanIsOldest
    <3>4. ASSUME NEW d \in ix.blocks PROVE f[c].tick <= f[d].tick
      <4>1. ASSUME NEW k \in 1..n, f[d].tick = ix.tick + k PROVE c.tick <= f[d].tick
        BY <1>2, <1>3, <4>1
      <4> QED BY <1>9, <3>2, <3>3, <4>1
    <3> QED BY <1>6, <3>3, <3>4
  <2> QED BY <1>5, <2>1 DEF OrphanIsOldest
<1>14. Recent(new, p, n, capacity) /\ Present(new, p, n)
  <2>1. Present(new, p, n)
    BY <1>6, <1>7 DEF Present
  <2>2. n > 0 => BlockHash(p, n) \in Hashes(new)
    BY <1>3, <1>6, <1>7
  <2>3. ASSUME NEW b \in ix.blocks, NEW j \in 1..n, f[b].hash = BlockHash(p, j)
        PROVE  f[b].tick + n = new.tick + j
    <3>1. f[b].tick = ix.tick + j
      BY <1>5, <2>3
    <3> QED BY <1>2, <1>3, <1>4, <3>1
  <2>4. \A b \in new.blocks : \A j \in 1..n :
          b.hash = BlockHash(p, j) => b.tick + n = new.tick + j
    BY <1>5, <2>3
  <2> QED BY <1>6, <1>8, <2>1, <2>2, <2>4 DEF Recent
<1> QED BY <1>3, <1>11, <1>12, <1>13, <1>14 DEF Ordered, n, new

(* Blocks with different stamps between two numbers. *)
LEMMA StampsCount ==
  ASSUME NEW blocks, IsFiniteSet(blocks), Distinct(blocks), NEW lo \in Nat, NEW hi \in Nat,
         lo <= hi, \A b \in blocks : b.tick \in lo..hi
  PROVE  Cardinality(blocks) <= hi - lo + 1
PROOF
<1> DEFINE f == [b \in blocks |-> b.tick]
<1>1. f \in Injection(blocks, lo..hi)
  BY DEF Distinct, Injection, IsInjective
<1>2. IsFiniteSet(lo..hi) /\ Cardinality(lo..hi) = hi - lo + 1
  BY FS_Interval
<1> QED BY <1>1, <1>2, FS_Injection

(* What a full index evicts is its oldest block. *)
LEMMA OldestIsEvicted ==
  ASSUME NEW ix, Wellformed(ix), NEW capacity \in Nat \ {0},
         Cardinality(ix.blocks) <= capacity
  PROVE  \/ Evicted(ix, capacity) = {} /\ Cardinality(ix.blocks) < capacity
         \/ \E e \in ix.blocks :
              /\ Evicted(ix, capacity) = {e}
              /\ \A d \in ix.blocks : e.tick <= d.tick
              /\ Cardinality(ix.blocks) = capacity
PROOF
<1> DEFINE n == Cardinality(ix.blocks)
<1>1. ix.blocks \in SUBSET Block /\ IsFiniteSet(ix.blocks) /\ n \in Nat
  BY FS_CardinalityType DEF Wellformed
<1>2. CASE n < capacity
  BY <1>2 DEF Evicted
<1>3. CASE ~(n < capacity)
  <2>1. ix.blocks # {} /\ n = capacity
    BY <1>1, <1>3, FS_EmptySet
  <2> DEFINE ticks == {b.tick : b \in ix.blocks}
  <2>2. ticks \subseteq Nat /\ ticks # {}
    BY <1>1, <2>1 DEF Block
  <2>3. PICK x \in ticks : \A y \in ticks : x <= y
    BY <2>2, LeastNat
  <2>4. \E b \in ix.blocks : \A c \in ix.blocks : b.tick <= c.tick
    BY <2>3
  <2> DEFINE e == LeastRecentlyUsed(ix.blocks)
  <2>5. e \in ix.blocks /\ \A d \in ix.blocks : e.tick <= d.tick
    BY <2>4 DEF LeastRecentlyUsed
  <2>6. Evicted(ix, capacity) = {e}
    BY <1>3 DEF Evicted
  <2> HIDE DEF e
  <2> QED BY <2>1, <2>5, <2>6
<1> QED BY <1>2, <1>3

(* A commit of the next block keeps the order.                             *)
LEMMA InsertOrders ==
  ASSUME NoCollision, NEW ix, Wellformed(ix), NEW capacity \in Nat \ {0},
         Cardinality(ix.blocks) <= capacity, Ordered(ix, capacity),
         NEW p \in Prompts, NEW m \in Nat, m < Blocks(p), Recent(ix, p, m, capacity)
  PROVE  LET new == InsertBlock(ix, capacity, p, m + 1)
         IN  Ordered(new, capacity) /\ Recent(new, p, m + 1, capacity)
PROOF
<1> DEFINE new == InsertBlock(ix, capacity, p, m + 1)
           x == [hash |-> BlockHash(p, m + 1), parent |-> ParentHash(p, m + 1),
                 tokens |-> BlockContent(p, m + 1),
                 slot |-> AllocatedSlot(ix, capacity), tick |-> ix.tick + 1]
           E == Evicted(ix, capacity)
           kept == ix.blocks \ E
           t == ix.tick
<1>1. /\ p \in Seq(Token) /\ Blocks(p) \in Nat /\ m + 1 \in Nat \ {0}
      /\ m + 1 \in 1..Blocks(p) /\ m \in 0..Blocks(p)
      /\ (m + 1) * BlockTokens <= Len(p) /\ Len(p) \in Nat
      /\ BlockHash(p, 0) = Hash(<<>>)
      /\ Committed(ix) /\ Chained(ix) /\ OrphanIsOldest(ix, capacity)
  <2>1. p \in Seq(Token) /\ Blocks(p) \in Nat /\ Len(p) \in Nat
    BY PromptBlocks
  <2>2. m + 1 \in 0..Blocks(p) /\ m + 1 \in Nat \ {0} /\ m \in 0..Blocks(p)
    BY <2>1
  <2>3. (m + 1) * BlockTokens \in 0..Len(p) /\ BlockHash(p, 0) = Hash(<<>>)
    BY <2>2, PromptBlocks
  <2> QED BY <2>1, <2>2, <2>3 DEF Ordered
<1>2. /\ ix.blocks \in SUBSET Block /\ t \in Nat /\ IsFiniteSet(ix.blocks)
      /\ Distinct(ix.blocks)
      /\ \A b \in ix.blocks : b.tick \in Nat /\ b.tick <= t
  BY DEF Wellformed, Block
<1>3. new.blocks = kept \cup {x} /\ new.tick = t + 1
  BY DEF InsertBlock
<1>4. /\ x.hash = BlockHash(p, m + 1) /\ x.parent = BlockHash(p, m) /\ x.tick = t + 1
      /\ BlockOf(x, p, m + 1)
  BY PromptBlocks DEF BlockOf
<1> HIDE DEF x
<1>5. /\ x.hash \notin Hashes(ix)
      /\ m <= capacity => Present(ix, p, m)
      /\ m > 0 => BlockHash(p, m) \in Hashes(ix)
      /\ \A b \in ix.blocks : \A j \in 1..m :
           b.hash = BlockHash(p, j) => b.tick + m = t + j
  BY <1>4 DEF Recent
<1>6. /\ Wellformed(new)
      /\ Hashes(new) = (Hashes(ix) \ {b.hash : b \in E}) \cup {x.hash}
  BY <1>1, <1>4, <1>5, InsertKeeps
<1>7. \/ E = {} /\ Cardinality(ix.blocks) < capacity
      \/ \E e \in ix.blocks :
           /\ E = {e} /\ Cardinality(ix.blocks) = capacity
           /\ \A d \in ix.blocks : e.tick <= d.tick
  BY OldestIsEvicted
<1> HIDE DEF new, E
<1>8. \A b \in ix.blocks : b.hash # Hash(<<>>)
  <2>1. ASSUME NEW b \in ix.blocks PROVE b.hash # Hash(<<>>)
    <3>1. PICK q \in Prompts : \E k \in 1..Blocks(q) : BlockOf(b, q, k)
      BY <1>1 DEF Committed
    <3>2. PICK k \in 1..Blocks(q) : BlockOf(b, q, k)
      BY <3>1
    <3>3. BlockHash(q, k) # Hash(<<>>)
      BY <1>1, HashNamesBlock
    <3> QED BY <3>2, <3>3 DEF BlockOf
  <2> QED BY <2>1
(* No orphan survives an insertion: it was the oldest of a full index. *)
<1>9. ASSUME NEW c \in kept PROVE ~Orphan(ix, c)
  <2> SUFFICES ASSUME Orphan(ix, c) PROVE FALSE
    OBVIOUS
  <2>1. c \in ix.blocks /\ c \notin E
    OBVIOUS
  <2>2. (\A d \in ix.blocks : c.tick <= d.tick) /\ Cardinality(ix.blocks) >= capacity
    BY <1>1, <2>1 DEF OrphanIsOldest
  <2>3. Cardinality(ix.blocks) \in Nat
    BY <1>2, FS_CardinalityType
  <2>4. PICK e \in ix.blocks : E = {e} /\ \A d \in ix.blocks : e.tick <= d.tick
    BY <1>7, <2>2, <2>3
  <2>5. c.tick = e.tick
    BY <1>2, <2>1, <2>2, <2>4
  <2> QED BY <1>2, <2>1, <2>4, <2>5 DEF Distinct
<1>10. Committed(new)
  BY <1>1, <1>3, <1>4 DEF Committed
<1>11. Chained(new)
  <2>1. ASSUME NEW b \in kept, x.parent = b.hash PROVE x.tick = b.tick + 1
    <3>1. b \in ix.blocks /\ b.hash = BlockHash(p, m)
      BY <1>4, <2>1
    <3>2. m > 0
      <4>1. m = 0 => b.hash = Hash(<<>>)
        BY <1>1, <3>1
      <4> QED BY <1>8, <3>1, <4>1
    <3>3. m \in 1..m
      BY <3>2
    <3>4. b.tick + m = t + m
      BY <1>5, <3>1, <3>3
    <3> QED BY <1>2, <1>4, <3>1, <3>4
  <2>2. ASSUME NEW c \in kept PROVE ~(x.tick < c.tick)
    BY <1>2, <1>4
  <2>3. ASSUME NEW b \in kept, NEW c \in kept, c.parent = b.hash, b.tick < c.tick
        PROVE  c.tick = b.tick + 1
    BY <1>1, <2>3 DEF Chained
  <2>4. ~(x.tick < x.tick)
    BY <1>2, <1>4
  <2> HIDE DEF kept
  <2> QED BY <1>3, <2>1, <2>2, <2>3, <2>4 DEF Chained
<1>12. OrphanIsOldest(new, capacity)
  <2>1. ASSUME NEW e \in ix.blocks, E = {e}, Cardinality(ix.blocks) = capacity
        PROVE  Cardinality(new.blocks) >= capacity
    <3>1. IsFiniteSet(kept) /\ Cardinality(kept) = capacity - 1
      BY <1>2, <2>1, FS_RemoveElement
    <3>2. x \notin kept
      BY <1>5 DEF Hashes
    <3> HIDE DEF kept
    <3>3. Cardinality(kept \cup {x}) = Cardinality(kept) + 1
      BY <3>1, <3>2, FS_AddElement
    <3> QED BY <1>3, <3>1, <3>3
  <2>2. ASSUME NEW c \in kept, Orphan(new, c)
        PROVE  /\ \A d \in kept \cup {x} : c.tick <= d.tick
               /\ Cardinality(new.blocks) >= capacity
    <3>1. c.parent \in Hashes(ix) /\ c.parent \notin Hashes(new)
      BY <1>9, <2>2 DEF Orphan
    <3>2. PICK e \in ix.blocks : /\ E = {e} /\ Cardinality(ix.blocks) = capacity
                                 /\ \A d \in ix.blocks : e.tick <= d.tick
      BY <1>6, <1>7, <3>1
    <3>3. c.parent = e.hash /\ c \in ix.blocks /\ c # e
      BY <1>6, <3>1, <3>2
    <3>4. e.tick < c.tick
      BY <1>2, <3>2, <3>3 DEF Distinct
    <3>5. c.tick = e.tick + 1
      BY <1>1, <3>3, <3>4 DEF Chained
    <3>6. ASSUME NEW d \in kept PROVE c.tick <= d.tick
      <4>1. d \in ix.blocks /\ d # e
        BY <3>2
      <4>2. e.tick <= d.tick /\ e.tick # d.tick
        BY <1>2, <3>2, <4>1 DEF Distinct
      <4> QED BY <1>2, <3>5, <4>1, <4>2
    <3>7. c.tick <= x.tick
      BY <1>2, <1>4, <3>3
    <3> QED BY <2>1, <3>2, <3>6, <3>7
  <2>3. ASSUME Orphan(new, x)
        PROVE  /\ \A d \in kept \cup {x} : x.tick <= d.tick
               /\ Cardinality(new.blocks) >= capacity
    <3>1. m > 0 /\ BlockHash(p, m) \notin Hashes(new)
      BY <1>1, <1>4, <2>3 DEF Orphan
    <3>2. BlockHash(p, m) \in Hashes(ix)
      BY <1>5, <3>1
    <3>3. PICK e \in ix.blocks : /\ E = {e} /\ Cardinality(ix.blocks) = capacity
                                 /\ \A d \in ix.blocks : e.tick <= d.tick
      BY <1>6, <1>7, <3>1, <3>2
    <3>4. e.hash = BlockHash(p, m)
      BY <1>6, <3>1, <3>2, <3>3
    <3>5. e.tick = t
      <4>1. e.tick + m = t + m
        BY <1>5, <3>1, <3>4
      <4> QED BY <1>2, <4>1
    <3>6. ASSUME NEW d \in kept PROVE FALSE
      <4>1. d \in ix.blocks /\ d # e
        BY <3>3
      <4>2. d.tick = e.tick
        BY <1>2, <3>3, <3>5, <4>1
      <4> QED BY <1>2, <4>1, <4>2 DEF Distinct
    <3> QED BY <1>2, <1>4, <2>1, <3>3, <3>6
  <2> HIDE DEF kept
  <2> QED BY <1>3, <2>2, <2>3 DEF OrphanIsOldest
<1>13. m + 1 <= capacity => Present(new, p, m + 1)
  <2> SUFFICES ASSUME m + 1 <= capacity, NEW j \in 1..(m + 1)
               PROVE  BlockHash(p, j) \in Hashes(new)
    BY DEF Present
  <2>1. CASE j = m + 1
    BY <1>4, <1>6, <2>1
  <2>2. CASE j # m + 1
    <3>1. j \in 1..m /\ m <= capacity
      BY <2>2
    <3>2. BlockHash(p, j) \in Hashes(ix)
      BY <1>5, <3>1 DEF Present
    <3>3. ASSUME NEW e \in ix.blocks, Cardinality(ix.blocks) = capacity,
                 \A d \in ix.blocks : e.tick <= d.tick, e.hash = BlockHash(p, j)
          PROVE  FALSE
      <4>1. e.tick + m = t + j /\ e.tick \in Nat /\ e.tick <= t
        BY <1>2, <1>5, <3>1, <3>3
      <4>2. \A b \in ix.blocks : b.tick \in e.tick..t
        BY <1>2, <3>3
      <4>3. Cardinality(ix.blocks) <= t - e.tick + 1
        BY <1>2, <4>1, <4>2, StampsCount
      <4>4. t - e.tick = m - j /\ m - j + 1 <= m
        BY <1>2, <3>1, <4>1
      <4> QED BY <3>3, <4>3, <4>4
    <3>4. BlockHash(p, j) \notin {b.hash : b \in E}
      BY <1>7, <3>3
    <3> QED BY <1>6, <3>2, <3>4
  <2> QED BY <2>1, <2>2
<1>14. ASSUME NEW b \in kept \cup {x}, NEW j \in 1..(m + 1), b.hash = BlockHash(p, j)
       PROVE  b.tick + (m + 1) = new.tick + j
  <2>1. j \in 0..Blocks(p) /\ m + 1 \in 0..Blocks(p)
    BY <1>1
  <2>2. CASE b = x
    <3>1. j = m + 1
      BY <1>4, <1>14, <2>1, <2>2, SameHistory
    <3> QED BY <1>2, <1>3, <1>4, <2>2, <3>1
  <2>3. CASE b \in kept
    <3>1. j # m + 1
      BY <1>4, <1>5, <1>14, <2>3 DEF Hashes
    <3>2. j \in 1..m
      BY <3>1
    <3>3. b.tick + m = t + j
      BY <1>5, <1>14, <2>3, <3>2
    <3> QED BY <1>2, <1>3, <2>3, <3>2, <3>3
  <2> QED BY <2>2, <2>3
<1>15. m + 1 < Blocks(p) => BlockHash(p, m + 1 + 1) \notin Hashes(new)
  <2> SUFFICES ASSUME m + 1 < Blocks(p), BlockHash(p, m + 1 + 1) \in Hashes(new)
               PROVE  FALSE
    OBVIOUS
  <2>1. /\ m + 1 + 1 \in 1..Blocks(p) /\ m + 1 + 1 \in 0..Blocks(p)
        /\ m + 1 \in 0..Blocks(p) /\ m + 1 + 1 # m + 1 /\ m + 1 + 1 - 1 = m + 1
    BY <1>1
  <2>2. BlockHash(p, m + 1 + 1) # x.hash
    BY <1>4, <2>1, SameHistory
  <2>3. PICK c \in kept : c.hash = BlockHash(p, m + 1 + 1)
    BY <1>3, <2>2 DEF Hashes
  <2>4. c.parent = BlockHash(p, m + 1)
    BY <1>1, <2>1, <2>3, HashNamesBlock
  <2>5. BlockHash(p, m + 1) # Hash(<<>>)
    BY <1>1, HashNamesBlock
  <2>6. Orphan(ix, c)
    BY <1>4, <1>5, <2>4, <2>5 DEF Orphan
  <2> QED BY <1>9, <2>6
<1>16. Recent(new, p, m + 1, capacity)
  <2>1. BlockHash(p, m + 1) \in Hashes(new)
    BY <1>4, <1>6
  <2>2. \A b \in new.blocks : \A j \in 1..(m + 1) :
          b.hash = BlockHash(p, j) => b.tick + (m + 1) = new.tick + j
    BY <1>3, <1>14
  <2> QED BY <1>13, <1>15, <2>1, <2>2 DEF Recent
<1> QED BY <1>10, <1>11, <1>12, <1>16 DEF Ordered, new
IndexOrdered ==
  /\ Committed(index) /\ Chained(index)
  /\ \A s \in Settings :
       configured = Configuration(s) => OrphanIsOldest(index, s.capacity)

(* How far a cached request has come: its first m blocks are recent.       *)
Kept(r) ==
  \E m \in 0..Blocks(prompt[r]) :
    /\ Recent(index, prompt[r], m, configured.capacity)
    /\ hits[r] <= m
    /\ pc[r] \in {"allocate", "restore", "reuse"} => Present(index, prompt[r], m)
    /\ pc[r] = "prefill" => \E j \in 0..m : /\ Len(rows[r]) = j * BlockTokens
                                            /\ j < m => Present(index, prompt[r], m)
    /\ pc[r] \in {"reuse", "decode"} => m = Blocks(prompt[r])

(* After a cached request completed, and until the next one looks up.      *)
RepeatKept ==
  repeated # Unset =>
    /\ \A r \in Requests : ~cached[r]
    /\ Blocks(repeated) <= configured.capacity => Present(index, repeated, Blocks(repeated))

OrderInv == IndexOrdered /\ (\A r \in Requests : cached[r] => Kept(r)) /\ RepeatKept

(* What the other requests know of the cache stays true if it is left alone. *)
LEMMA OthersKept ==
  ASSUME Inv, Counted, NEW r \in Requests, NEW q \in Requests, q # r,
         Begin(r) \/ Step(r) \/ Fail(r),
         UNCHANGED <<configured, index>>, cached[q] => Kept(q)
  PROVE  cached'[q] => Kept(q)'
PROOF
<1>1. TypeOK /\ DOMAIN rows = Requests
  BY DEF Inv, Counted
<1>2. /\ pc'[q] = pc[q] /\ prompt'[q] = prompt[q] /\ cached'[q] = cached[q]
      /\ hits'[q] = hits[q] /\ rows'[q] = rows[q]
  BY <1>1 DEF TypeOK, Begin, Step, Lock, OpenCached, OpenUncached, Allocate, Restore,
              ReuseHidden, PrefillChunk, Finish, Fail, Return, request, deviceCache
<1> QED BY <1>2 DEF Kept

(* A lookup puts the blocks it hits in order. *)
LEMMA OpenCachedOrders ==
  ASSUME NoCollision, Inv, OrderInv, NEW r \in Requests, OpenCached(r)
  PROVE  OrderInv'
PROOF
<1> DEFINE s == settings[r]
           ix == ConfiguredIndex(s)
           p == prompt[r]
           n == Cardinality(HitBlocks(ix, p))
<1>1. /\ TypeOK /\ Sharing(r) /\ pc[r] = "open" /\ mutex = r
      /\ p \in Prompts /\ s \in Settings /\ p \in Seq(Token)
      /\ Blocks(p) \in Nat /\ BlockTokens \in Nat \ {0}
  <2>1. TypeOK /\ Sharing(r) /\ pc[r] = "open" /\ mutex = r
    BY DEF OpenCached, Inv
  <2>2. p \in Prompts /\ s \in Settings
    BY <2>1 DEF Sharing
  <2> QED BY <2>1, <2>2, PromptBlocks, BlockAssumption
<1>2. /\ configured' = Configuration(s) /\ index' = LookupIndex(ix, p)
      /\ hits' = [hits EXCEPT ![r] = ReusedBlocks(ix, p, s.minReuse)]
      /\ cached' = [cached EXCEPT ![r] = TRUE]
      /\ pc' = [pc EXCEPT ![r] = "allocate"] /\ prompt' = prompt /\ repeated' = Unset
  BY DEF OpenCached, request
<1>3. Wellformed(ix) /\ Ordered(ix, s.capacity)
  <2>1. CASE configured = Configuration(s)
    BY <1>1, <2>1 DEF ConfiguredIndex, Inv, CacheInv, OrderInv, IndexOrdered, Ordered
  <2>2. CASE configured # Configuration(s)
    <3>1. ix = EmptyIndex /\ EmptyIndex.blocks = {}
      BY <2>2 DEF ConfiguredIndex, EmptyIndex
    <3> HIDE DEF ix
    <3> QED BY <3>1, EmptyIsWellformed DEF Ordered, Committed, Chained, OrphanIsOldest
  <2> QED BY <2>1, <2>2
<1> HIDE DEF ix, s
<1>4. /\ n \in 0..Blocks(p) /\ Ordered(index', s.capacity)
      /\ Recent(index', p, n, s.capacity) /\ Present(index', p, n)
  BY <1>1, <1>2, <1>3, LookupOrders
<1>5. s.capacity = configured'.capacity
  BY <1>2 DEF Configuration
<1>6. IndexOrdered'
  <2>1. ASSUME NEW t \in Settings, configured' = Configuration(t)
        PROVE  t.capacity = s.capacity
    BY <1>2, <2>1 DEF Configuration
  <2> QED BY <1>4, <2>1 DEF Ordered, IndexOrdered
<1> HIDE DEF n
<1>7. ReusedBlocks(ix, p, s.minReuse) <= n
  <2>1. n \in Nat
    BY <1>1, <1>4
  <2>2. ReusedBlocks(ix, p, s.minReuse) \in {0, n}
    BY DEF ReusedBlocks, n
  <2> QED BY <2>1, <2>2
<1>8. Kept(r)'
  <2>1. /\ hits'[r] = ReusedBlocks(ix, p, s.minReuse)
        /\ pc'[r] = "allocate" /\ prompt'[r] = p
    BY <1>1, <1>2 DEF TypeOK
  <2> HIDE DEF p
  <2>2. /\ n \in 0..Blocks(prompt'[r])
        /\ Recent(index', prompt'[r], n, configured'.capacity) /\ hits'[r] <= n
        /\ Present(index', prompt'[r], n)
    BY <1>4, <1>5, <1>7, <2>1
  <2> QED BY <2>1, <2>2 DEF Kept
<1>9. \A q \in Requests : cached'[q] => Kept(q)'
  <2>1. ASSUME NEW q \in Requests, q # r PROVE ~cached'[q]
    BY <1>1, <1>2, <2>1, OneUser DEF TypeOK
  <2> QED BY <1>8, <2>1
<1> QED BY <1>2, <1>6, <1>9 DEF OrderInv, RepeatKept

(* Whole blocks end where the next one begins. *)
LEMMA WholeBlocks ==
  ASSUME NEW j \in Nat, NEW b \in Nat \ {0}
  PROVE  /\ (j * b) % b = 0 /\ j * b \in Nat /\ (j + 1) * b = j * b + b
         /\ \A k \in Nat : k * b = j * b + b => k = j + 1
         /\ \A k \in Nat : k * b < j * b + b => k <= j
PROOF
<1>1. j * b \in Nat /\ (j + 1) * b = j * b + b
  BY Z3
<1>2. (j * b) % b = 0
  BY Z3
<1>3. ASSUME NEW k \in Nat, k * b = j * b + b PROVE k = j + 1
  BY <1>3, Z3
<1>4. ASSUME NEW k \in Nat, k * b < j * b + b PROVE k <= j
  <2>1. CASE k >= j + 1
    <3>1. k * b >= (j + 1) * b
      BY <2>1, Z3
    <3>2. k * b \in Nat
      BY Z3
    <3> QED BY <1>1, <1>4, <3>1, <3>2
  <2> QED BY <2>1
<1> QED BY <1>1, <1>2, <1>3, <1>4

(* A chunk of a cached request either finds its block, or commits the one  *)
(* that comes after those that are recent.                                 *)
LEMMA PrefillOrders ==
  ASSUME NoCollision, Inv, Counted, OrderInv, NEW r \in Requests, cached[r],
         PrefillChunk(r)
  PROVE  IndexOrdered' /\ Kept(r)'
PROOF
<1> DEFINE p == prompt[r]
           start == Len(rows[r])
           end == IF start + BlockTokens <= Len(p) THEN start + BlockTokens ELSE Len(p)
           c == configured.capacity
<1>1. /\ TypeOK /\ p \in Prompts /\ settings[r] \in Settings /\ pc[r] = "prefill"
      /\ configured = Configuration(settings[r]) /\ DOMAIN rows = Requests
      /\ start \in Nat /\ start < Len(p)
  BY DEF Inv, Sharing, Counted, PrefillChunk
<1>2. /\ Len(p) \in Nat /\ Blocks(p) \in Nat /\ BlockTokens \in Nat \ {0}
      /\ \A k \in 0..Blocks(p) : k * BlockTokens \in 0..Len(p)
      /\ \A k \in Nat : k * BlockTokens <= Len(p) => k <= Blocks(p)
  BY <1>1, PromptBlocks, BlockAssumption
<1>3. /\ c = settings[r].capacity /\ c \in Nat \ {0} /\ Wellformed(index)
      /\ Cardinality(index.blocks) <= c /\ Ordered(index, c)
      /\ DOMAIN payloads = Hashes(index)
  BY <1>1, HostAssumption DEF Configuration, Inv, CacheInv, OrderInv, IndexOrdered, Ordered
<1>4. PICK m \in 0..Blocks(p) :
        /\ Recent(index, p, m, c) /\ hits[r] <= m
        /\ \E j \in 0..m : start = j * BlockTokens /\ (j < m => Present(index, p, m))
  BY <1>1 DEF OrderInv, Kept
<1>5. PICK j \in 0..m : start = j * BlockTokens /\ (j < m => Present(index, p, m))
  BY <1>4
<1>6. /\ end \in Nat /\ start < end /\ end <= Len(p)
      /\ end = start + BlockTokens \/ (end = Len(p) /\ Len(p) < start + BlockTokens)
  BY <1>1, <1>2
<1>7. /\ \E value : /\ rows' = [rows EXCEPT ![r] = value]
                    /\ value = [i \in 1..end |-> value[i]]
      /\ pc' = [pc EXCEPT ![r] = IF end = Len(p) THEN "decode" ELSE "prefill"]
      /\ IF end = start + BlockTokens /\ start % BlockTokens = 0
         THEN \E payload : CommitBlock(r, end \div BlockTokens, payload)
         ELSE UNCHANGED cacheState
      /\ prompt' = prompt /\ hits' = hits
  <2> DEFINE folded(i) == Computed(settings[r].weights,
                            recurrent[r].tokens \o SubSeq(prompt[r], start + 1, i))
             value == [i \in 1..end |-> IF i <= start THEN rows[r][i] ELSE folded(i)]
  <2>1. /\ rows' = [rows EXCEPT ![r] = value]
        /\ pc' = [pc EXCEPT ![r] = IF end = Len(p) THEN "decode" ELSE "prefill"]
        /\ IF end = start + BlockTokens /\ start % BlockTokens = 0
           THEN \E payload : CommitBlock(r, end \div BlockTokens, payload)
           ELSE UNCHANGED cacheState
        /\ prompt' = prompt /\ hits' = hits
    BY DEF PrefillChunk, request
  <2>2. value = [i \in 1..end |-> value[i]]
    OBVIOUS
  <2> HIDE DEF value, end
  <2> QED BY <2>1, <2>2
<1> HIDE DEF start, end, p
<1>8. /\ Len(rows'[r]) = end
      /\ pc'[r] = IF end = Len(p) THEN "decode" ELSE "prefill"
      /\ prompt'[r] = p /\ hits'[r] = hits[r]
  <2>1. PICK value : /\ rows' = [rows EXCEPT ![r] = value]
                     /\ value = [i \in 1..end |-> value[i]]
    BY <1>7
  <2>2. Len(value) = end
    BY <1>6, <2>1, LengthOf
  <2> QED BY <1>1, <1>7, <2>1, <2>2 DEF TypeOK, p
<1>9. /\ m \in Nat /\ j \in Nat /\ start % BlockTokens = 0
      /\ (j + 1) * BlockTokens = start + BlockTokens
      /\ \A k \in Nat : k * BlockTokens = start + BlockTokens => k = j + 1
      /\ \A k \in Nat : k * BlockTokens < start + BlockTokens => k <= j
  <2>1. m \in Nat /\ j \in Nat /\ start = j * BlockTokens
    BY <1>2, <1>5
  <2>2. /\ (j * BlockTokens) % BlockTokens = 0
        /\ (j + 1) * BlockTokens = j * BlockTokens + BlockTokens
        /\ \A k \in Nat : k * BlockTokens = j * BlockTokens + BlockTokens => k = j + 1
        /\ \A k \in Nat : k * BlockTokens < j * BlockTokens + BlockTokens => k <= j
    BY <1>2, <2>1, WholeBlocks
  <2> QED BY <2>1, <2>2
(* What is left to show, once index and the recent blocks are known. *)
<1>10. ASSUME NEW k \in 0..Blocks(p), configured' = configured,
              Ordered(index', c), Recent(index', p, k, c), m <= k,
              end < Len(p) => \E i \in 0..k : /\ end = i * BlockTokens
                                              /\ i < k => Present(index', p, k),
              end = Len(p) => k = Blocks(p)
       PROVE  IndexOrdered' /\ Kept(r)'
  <2>1. IndexOrdered'
    <3>1. ASSUME NEW t \in Settings, configured' = Configuration(t) PROVE t.capacity = c
      BY <1>10, <3>1 DEF Configuration
    <3> HIDE DEF c
    <3> QED BY <1>10, <3>1 DEF Ordered, IndexOrdered
  <2>2. /\ k \in 0..Blocks(prompt'[r])
        /\ Recent(index', prompt'[r], k, configured'.capacity) /\ hits'[r] <= k
    <3>1. hits[r] \in Nat /\ k \in Nat
      BY <1>1, <1>10, <1>2 DEF TypeOK
    <3> QED BY <1>4, <1>8, <1>9, <1>10, <3>1
  <2>3. pc'[r] = "prefill" =>
          \E i \in 0..k : /\ Len(rows'[r]) = i * BlockTokens
                          /\ i < k => Present(index', prompt'[r], k)
    BY <1>2, <1>6, <1>8, <1>10
  <2>4. pc'[r] = "decode" => k = Blocks(prompt'[r])
    BY <1>8, <1>10
  <2>5. pc'[r] \notin {"allocate", "restore", "reuse"}
    BY <1>8
  <2> QED BY <2>1, <2>2, <2>3, <2>4, <2>5 DEF Kept
<1>11. CASE end # start + BlockTokens
  <2>1. index' = index /\ configured' = configured
    BY <1>7, <1>11 DEF cacheState
  <2>2. end = Len(p) /\ Blocks(p) * BlockTokens <= Len(p)
    BY <1>2, <1>6, <1>11
  <2>3. Blocks(p) <= j
    <3>1. Blocks(p) * BlockTokens \in 0..Len(p)
      BY <1>2
    <3>2. Blocks(p) * BlockTokens < start + BlockTokens
      BY <1>1, <1>2, <1>6, <1>11, <2>2, <3>1
    <3> QED BY <1>2, <1>9, <3>2
  <2>4. m = Blocks(p)
    BY <1>2, <1>9, <2>3
  <2> QED BY <1>2, <1>3, <1>4, <1>9, <1>10, <2>1, <2>2, <2>4
<1>12. CASE end = start + BlockTokens
  <2> DEFINE k == end \div BlockTokens
  <2>1. k = j + 1 /\ k * BlockTokens = end
    <3>1. k \in Nat \ {0} /\ k * BlockTokens = start + BlockTokens
      BY <1>1, <1>2, <1>9, <1>12, BlockEnd
    <3> HIDE DEF k
    <3> QED BY <1>9, <1>12, <3>1
  <2>2. PICK payload : CommitBlock(r, k, payload)
    BY <1>7, <1>9, <1>12
  <2> HIDE DEF k
  <2>3. j + 1 <= Blocks(p)
    BY <1>2, <1>6, <1>9, <2>1
  <2>4. end = Len(p) => j + 1 = Blocks(p)
    <3>1. ASSUME end = Len(p) PROVE Blocks(p) <= j + 1
      <4>1. Blocks(p) * BlockTokens \in 0..Len(p)
        BY <1>2
      <4>2. (j + 1) * BlockTokens = end /\ j + 1 \in Nat
        BY <1>9, <2>1
      <4>3. (j + 1 + 1) * BlockTokens = (j + 1) * BlockTokens + BlockTokens
            /\ \A i \in Nat : i * BlockTokens < (j + 1) * BlockTokens + BlockTokens
                                => i <= j + 1
        BY <1>2, <4>2, WholeBlocks
      <4>4. Blocks(p) * BlockTokens < (j + 1) * BlockTokens + BlockTokens
        BY <1>2, <3>1, <4>1, <4>2
      <4> QED BY <1>2, <4>3, <4>4
    <3> QED BY <1>2, <1>9, <2>3, <3>1
  <2>5. CASE j < m
    <3>1. j + 1 \in 1..m /\ Present(index, p, m)
      BY <1>5, <1>9, <2>5
    <3>2. BlockHash(p, k) \in DOMAIN payloads
      BY <1>3, <2>1, <3>1 DEF Present
    <3>3. index' = index /\ configured' = configured
      BY <2>2, <3>2 DEF CommitBlock, cacheState, p
    <3>4. j + 1 \in 0..m /\ end = (j + 1) * BlockTokens
      BY <1>9, <2>1, <3>1
    <3>5. end = Len(p) => m = Blocks(p)
      BY <1>2, <1>9, <2>4, <3>1
    <3> QED BY <1>3, <1>4, <1>9, <1>10, <3>1, <3>3, <3>4, <3>5
  <2>6. CASE ~(j < m)
    <3>1. j = m /\ m < Blocks(p) /\ k = m + 1
      BY <1>2, <1>9, <2>1, <2>3, <2>6
    <3>2. BlockHash(p, k) \notin Hashes(index)
      BY <1>4, <3>1 DEF Recent
    <3>3. index' = InsertBlock(index, c, p, m + 1) /\ configured' = configured
      <4>1. BlockHash(p, k) \notin DOMAIN payloads
        BY <1>3, <3>2
      <4> QED BY <2>2, <3>1, <3>2, <4>1 DEF CommitBlock, p
    <3> HIDE DEF c
    <3>4. Ordered(index', c) /\ Recent(index', p, m + 1, c)
      BY <1>1, <1>3, <1>4, <1>9, <3>1, <3>3, InsertOrders
    <3>5. /\ m + 1 \in 0..Blocks(p) /\ m <= m + 1 /\ m + 1 \in 0..(m + 1)
          /\ end = (m + 1) * BlockTokens /\ ~(m + 1 < m + 1)
      BY <1>2, <1>9, <2>1, <3>1
    <3> QED BY <1>10, <2>4, <3>1, <3>3, <3>4, <3>5
  <2> QED BY <2>5, <2>6
<1> QED BY <1>11, <1>12

(* The other steps of a cached request that goes on. *)
LEMMA QuietOrders ==
  ASSUME NoCollision, Inv, Counted, NEW r \in Requests, Kept(r), cached[r],
         Allocate(r) \/ Restore(r) \/ ReuseHidden(r)
  PROVE  Kept(r)'
PROOF
<1>1. /\ TypeOK /\ Sharing(r) /\ DOMAIN rows = Requests /\ prompt[r] \in Prompts
      /\ hits[r] \in Nat /\ BlockTokens \in Nat \ {0}
      /\ Blocks(prompt[r]) \in Nat /\ Len(prompt[r]) \in Nat
  <2>1. /\ TypeOK /\ Sharing(r) /\ DOMAIN rows = Requests /\ prompt[r] \in Prompts
        /\ hits[r] \in Nat
    BY DEF Inv, Counted, TypeOK, Sharing, Busy
  <2> QED BY <2>1, PromptBlocks, BlockAssumption
<1>2. PICK m \in 0..Blocks(prompt[r]) :
        /\ Recent(index, prompt[r], m, configured.capacity)
        /\ hits[r] <= m /\ Present(index, prompt[r], m)
        /\ pc[r] = "reuse" => m = Blocks(prompt[r])
  BY DEF Kept, Allocate, Restore, ReuseHidden
<1>3. /\ index' = index /\ configured' = configured /\ prompt' = prompt /\ hits' = hits
      /\ m \in Nat /\ hits[r] \in 0..m
  BY <1>1, <1>2 DEF Allocate, Restore, ReuseHidden, cacheState, request
<1>4. ASSUME NEW j \in 0..m, pc'[r] = "prefill" => Len(rows'[r]) = j * BlockTokens,
             pc'[r] \in {"reuse", "decode"} => m = Blocks(prompt[r])
      PROVE  Kept(r)'
  BY <1>2, <1>3, <1>4 DEF Kept
<1>5. CASE Allocate(r)
  <2>1. /\ Len(rows'[r]) = 0 * BlockTokens /\ 0 \in 0..m
        /\ pc'[r] \notin {"reuse", "decode"}
    BY <1>1, <1>3, <1>5 DEF Allocate, TypeOK
  <2> QED BY <1>4, <2>1
<1>6. CASE Restore(r)
  <2> DEFINE n == hits[r] * BlockTokens
             value == [i \in 1..n |->
                        LET k == (i - 1) \div BlockTokens + 1
                        IN  Payload(r, k).rows[i - (k - 1) * BlockTokens]]
  <2>1. /\ rows' = [rows EXCEPT ![r] = value]
        /\ pc'[r] = IF n = Len(prompt[r]) THEN "reuse" ELSE "prefill"
    BY <1>1, <1>6 DEF Restore, TypeOK
  <2>2. n \in Nat /\ value = [i \in 1..n |-> value[i]]
    BY <1>1, Z3
  <2> HIDE DEF value, n
  <2>3. Len(rows'[r]) = n
    BY <1>1, <2>1, <2>2, LengthOf
  <2>4. ASSUME n = Len(prompt[r]) PROVE m = Blocks(prompt[r])
    <3>1. hits[r] * BlockTokens = Len(prompt[r])
      BY <2>4 DEF n
    <3>2. Blocks(prompt[r]) <= hits[r]
      <4>1. Blocks(prompt[r]) * BlockTokens \in 0..Len(prompt[r])
        <5>1. Blocks(prompt[r]) \in 0..Blocks(prompt[r])
          BY <1>1
        <5> QED BY <1>1, <5>1, PromptBlocks
      <4>2. Blocks(prompt[r]) * BlockTokens < hits[r] * BlockTokens + BlockTokens
        BY <1>1, <3>1, <4>1
      <4> QED BY <1>1, <4>2, WholeBlocks
    <3> QED BY <1>1, <1>2, <1>3, <3>2
  <2>5. pc'[r] \in {"reuse", "decode"} => m = Blocks(prompt[r])
    BY <2>1, <2>4
  <2> QED BY <1>3, <1>4, <2>3, <2>5 DEF n
<1>7. CASE ReuseHidden(r)
  <2>1. pc[r] = "reuse" /\ pc'[r] = "decode"
    BY <1>1, <1>7 DEF ReuseHidden, TypeOK
  <2>2. m = Blocks(prompt[r])
    BY <1>2, <2>1
  <2> QED BY <1>3, <1>4, <2>1, <2>2
<1> QED BY <1>5, <1>6, <1>7

(* Every step keeps the order. *)
LEMMA StepOrders ==
  ASSUME NoCollision, Inv, Counted, OrderInv, NEW r \in Requests,
         Begin(r) \/ Step(r) \/ Fail(r)
  PROVE  OrderInv'
PROOF
<1>1. /\ TypeOK /\ Sharing(r) /\ DOMAIN rows = Requests
      /\ \A q \in Requests : q # r /\ cached[r] => ~cached[q]
  <2>1. ASSUME NEW q \in Requests, q # r, cached[r] PROVE ~cached[q]
    <3>1. mutex = r
      BY <2>1 DEF Inv, Sharing
    <3> QED BY <2>1, <3>1, OneUser
  <2> QED BY <2>1 DEF Inv, Counted
<1>2. CASE OpenCached(r)
  BY <1>2, OpenCachedOrders
<1>3. CASE PrefillChunk(r) /\ cached[r]
  <2>1. IndexOrdered' /\ Kept(r)' /\ cached' = cached /\ repeated' = repeated
    BY <1>3, PrefillOrders DEF PrefillChunk
  <2>2. repeated = Unset
    BY <1>3 DEF OrderInv, RepeatKept
  <2> QED BY <1>1, <1>3, <2>1, <2>2 DEF OrderInv, RepeatKept
<1>4. ASSUME ~OpenCached(r), ~(PrefillChunk(r) /\ cached[r]) PROVE OrderInv'
  <2>1. index' = index /\ configured' = configured
    BY <1>4 DEF Step, Begin, Lock, OpenUncached, Allocate, Restore, ReuseHidden,
                PrefillChunk, Finish, Fail, Return, cacheState
  <2>2. IndexOrdered'
    BY <2>1 DEF OrderInv, IndexOrdered
  <2>3. ASSUME NEW q \in Requests, q # r PROVE cached'[q] => Kept(q)'
    BY <2>1, <2>3, OthersKept DEF OrderInv
  <2>4. cached'[r] => Kept(r)'
    <3>1. CASE Allocate(r) \/ Restore(r) \/ ReuseHidden(r)
      <4>1. cached' = cached
        BY <3>1 DEF Allocate, Restore, ReuseHidden
      <4> QED BY <3>1, <4>1, QuietOrders DEF OrderInv
    <3>2. CASE Begin(r) \/ Lock(r) \/ OpenUncached(r) \/ PrefillChunk(r)
      <4>1. cached' = cached
        BY <3>2 DEF Begin, Lock, OpenUncached, PrefillChunk
      <4>2. ~cached[r]
        BY <1>1, <1>4, <3>2 DEF Begin, Lock, OpenUncached, Sharing, Busy
      <4> QED BY <4>1, <4>2
    <3>3. CASE Finish(r) \/ Fail(r)
      BY <1>1, <3>3 DEF Finish, Fail, Return, TypeOK
    <3> QED BY <1>4, <3>1, <3>2, <3>3 DEF Step
  <2>5. RepeatKept'
    <3>1. CASE repeated' = repeated
      <4>1. \A q \in Requests : ~cached[q] => ~cached'[q]
        BY <1>1, <1>4 DEF TypeOK, Step, Begin, Lock, OpenUncached, Allocate, Restore,
                          ReuseHidden, PrefillChunk, Finish, Fail, Return
      <4> QED BY <2>1, <3>1, <4>1 DEF OrderInv, RepeatKept
    <3>2. CASE repeated' # repeated
      <4>1. Finish(r) /\ cached[r] /\ repeated' = prompt[r]
        BY <1>4, <3>2 DEF Step, Begin, Lock, OpenUncached, Allocate, Restore,
                          ReuseHidden, PrefillChunk, Finish, Fail
      <4>2. \A q \in Requests : ~cached'[q]
        BY <1>1, <4>1 DEF TypeOK, Finish, Return
      <4>3. Recent(index, prompt[r], Blocks(prompt[r]), configured.capacity)
        BY <4>1 DEF OrderInv, Kept, Finish
      <4> QED BY <2>1, <4>1, <4>2, <4>3 DEF RepeatKept, Recent
    <3> QED BY <3>1, <3>2
  <2> QED BY <2>2, <2>3, <2>4, <2>5 DEF OrderInv
<1> QED BY <1>2, <1>3, <1>4

(* A prompt that was just served and fits in the cache is hit in full when *)
(* it comes again, if no two histories share a hash: whatever the cache    *)
(* held, and whatever the request found there, evicted and committed.      *)
THEOREM RepeatsAreFullHits ==
  ASSUME NoCollision
  PROVE  Spec => []RepeatIsFullHit
PROOF
<1>1. Init => OrderInv
  <2> SUFFICES ASSUME Init PROVE OrderInv
    OBVIOUS
  <2>1. index.blocks = {} /\ repeated = Unset /\ \A r \in Requests : ~cached[r]
    BY DEF Init, EmptyIndex
  <2> QED BY <2>1 DEF OrderInv, IndexOrdered, Committed, Chained, OrphanIsOldest, RepeatKept
<1>2. Inv /\ Counted /\ OrderInv /\ [Next]_vars => OrderInv'
  <2> SUFFICES ASSUME Inv, Counted, OrderInv, [Next]_vars PROVE OrderInv'
    OBVIOUS
  <2>1. CASE Next
    BY <2>1, StepOrders DEF Next
  <2>2. CASE UNCHANGED vars
    BY <2>2 DEF vars, OrderInv, IndexOrdered, RepeatKept, Kept
  <2> QED BY <2>1, <2>2
<1>3. Inv /\ OrderInv => RepeatIsFullHit
  <2> SUFFICES ASSUME Inv, OrderInv, repeated # Unset,
                      Cardinality(CompleteBlocks(repeated)) <= configured.capacity
               PROVE  HitBlocks(index, repeated) = CompleteBlocks(repeated)
    BY DEF RepeatIsFullHit
  <2> DEFINE n == Blocks(repeated)
  <2>1. /\ repeated \in Prompts /\ n \in Nat /\ CompleteBlocks(repeated) = 1..n
        /\ Committed(index)
    <3>1. repeated \in Prompts
      BY DEF Inv, TypeOK
    <3> QED BY <3>1, PromptBlocks DEF OrderInv, IndexOrdered
  <2> HIDE DEF n
  <2>2. Cardinality(1..n) = n
    BY <2>1, FS_Interval
  <2>3. Present(index, repeated, n)
    BY <2>1, <2>2 DEF OrderInv, RepeatKept, n
  <2>4. \A k \in 1..n : Matches(index, repeated, k)
    BY <2>1, <2>3, HashNamesBlock DEF Present, n
  <2>5. \A k \in 1..n : \A j \in 1..k : j \in 1..n
    BY <2>1
  <2> QED BY <2>1, <2>4, <2>5 DEF HitBlocks
<1> QED BY Invariance, <1>1, <1>2, <1>3, PTL DEF Spec

=============================================================================
