------------------------- MODULE CpuInferenceProofs -------------------------
(***************************************************************************)
(* For any models, requests and number of layers, and any interleaving of  *)
(* calls and faults: generate_cpu answers a request with the generation    *)
(* the request itself determines, or with an error that something caused.  *)
(* What the proof needs of the model is that it answers numbers.           *)
(***************************************************************************)
EXTENDS CpuInference, FiniteSetTheorems, SequenceTheorems, WellFoundedInduction, TLAPS

(* The tokens a model selects are numbers, like those of a prompt. *)
TokensAreNumbers ==
  \A r \in Requests : \A h \in Seq(Nat) : \A n \in Nat :
    NextToken(r.dir, r.seed, h, n) \in Nat

-----------------------------------------------------------------------------
(* A set of numbers has a least element. *)
LEMMA LeastNumber ==
  ASSUME NEW T, T \subseteq Nat, T # {}
  PROVE  \E x \in T : \A y \in T : x <= y
PROOF
<1> DEFINE R == {p \in Nat \X Nat : p[1] < p[2]}
<1>1. IsWellFoundedOn(R, Nat)
  BY NatLessThanWellFounded DEF OpToRel
<1>2. PICK x \in T : \A y \in T : ~(<<y, x>> \in R)
  <2> HIDE DEF R
  <2> QED BY <1>1, WFMin
<1>3. ASSUME NEW y \in T PROVE x <= y
  <2>1. x \in Nat /\ y \in Nat /\ <<y, x>> \notin R
    BY <1>2
  <2>2. <<y, x>> \in Nat \X Nat /\ <<y, x>>[1] = y /\ <<y, x>>[2] = x
    BY <2>1
  <2>3. ~(y < x)
    BY <2>1, <2>2
  <2> QED BY <2>1, <2>3
<1> QED BY <1>3

(* A set that holds zero, and with a number below n the next one.          *)
LEMMA UpTo ==
  ASSUME NEW n \in Nat, NEW S, 0 \in S, \A k \in 0..(n - 1) : k \in S => k + 1 \in S
  PROVE  0..n \subseteq S
PROOF
<1> DEFINE T == {k \in 0..n : k \notin S}
<1> SUFFICES ASSUME T # {} PROVE FALSE
  OBVIOUS
<1>1. T \subseteq Nat
  OBVIOUS
<1>2. PICK x \in T : \A y \in T : x <= y
  BY <1>1, LeastNumber
<1>3. x \in 0..n /\ x \notin S /\ x # 0
  OBVIOUS
<1>4. x - 1 \in 0..(n - 1) /\ x - 1 + 1 = x /\ x - 1 \in 0..n
  BY <1>3
<1>5. x - 1 \in S
  BY <1>2, <1>4
<1> QED BY <1>3, <1>4, <1>5
-----------------------------------------------------------------------------
(* One step of a generation, and the tokens after each of its steps.       *)
Longer(r, so, n) ==
  LET next == NextToken(r.dir, r.seed, r.prompt \o so, n)
  IN IF Len(so) < n - 1 \/ next \in EosTokens THEN so ELSE Append(so, next)

After(r) ==
  LET after[n \in 0..r.maxNewTokens] ==
        IF n = 0 THEN <<>>
        ELSE LET so == after[n - 1]
                 next == NextToken(r.dir, r.seed, r.prompt \o so, n)
             IN IF Len(so) < n - 1 \/ next \in EosTokens THEN so ELSE Append(so, next)
  IN after

(* The recursion is that of the definition. *)
LEMMA AfterIsLonger ==
  ASSUME NEW r \in Requests
  PROVE  /\ Service!Generation(r) = After(r)[r.maxNewTokens]
         /\ After(r)[0] = <<>>
         /\ \A n \in 1..r.maxNewTokens : After(r)[n] = Longer(r, After(r)[n - 1], n)
PROOF
<1> DEFINE max == r.maxNewTokens
           Next1(f, k) == IF k = 0 THEN <<>> ELSE Longer(r, f[k - 1], k)
           S == {n \in Nat : \E f : f = [k \in 0..n |-> Next1(f, k)]}
<1>1. max \in Nat
  BY RequestsAssumption
<1>2. 0 \in S
  <2> DEFINE f == [k \in 0..0 |-> <<>>]
  <2>1. f = [k \in 0..0 |-> Next1(f, k)]
    OBVIOUS
  <2> HIDE DEF f, Next1
  <2> QED BY <2>1
<1>3. ASSUME NEW n \in 0..(max - 1), n \in S PROVE n + 1 \in S
  <2> HIDE DEF Next1
  <2>1. PICK f : f = [k \in 0..n |-> Next1(f, k)]
    BY <1>3
  <2> DEFINE g == [k \in 0..(n + 1) |-> IF k = n + 1 THEN Next1(f, k) ELSE f[k]]
  <2>2. ASSUME NEW k \in 0..(n + 1) PROVE g[k] = Next1(g, k)
    <3>1. k = 0 \/ (k - 1 \in 0..n /\ g[k - 1] = f[k - 1])
      BY <1>1
    <3>2. Next1(g, k) = Next1(f, k)
      <4> HIDE DEF g
      <4> QED BY <3>1 DEF Next1
    <3>3. k # n + 1 => k \in 0..n
      BY <1>1
    <3> QED BY <2>1, <3>2, <3>3
  <2>3. g = [k \in 0..(n + 1) |-> Next1(g, k)]
    BY <2>2
  <2> HIDE DEF g
  <2>4. n + 1 \in Nat
    BY <1>1
  <2> QED BY <2>3, <2>4
<1>4. \E f : f = [k \in 0..max |-> Next1(f, k)]
  <2> HIDE DEF Next1, S
  <2>1. 0..max \subseteq S
    BY <1>1, <1>2, <1>3, UpTo
  <2>2. max \in S
    BY <1>1, <2>1
  <2> QED BY <2>2 DEF S
<1>5. After(r) = CHOOSE f : f = [k \in 0..max |-> Next1(f, k)]
  BY DEF After, Longer
<1>6. After(r) = [k \in 0..max |-> Next1(After(r), k)]
  <2> HIDE DEF Next1
  <2> QED BY <1>4, <1>5
<1>7. \A n \in 1..max : n \in 0..max /\ n # 0
  BY <1>1
<1>8. 0 \in 0..max
  BY <1>1
<1>9. After(r)[0] = <<>>
  BY <1>6, <1>8
<1>10. \A n \in 1..max : After(r)[n] = Longer(r, After(r)[n - 1], n)
  BY <1>6, <1>7
<1>11. Service!Generation(r) = After(r)[max]
  BY DEF Service!Generation, After
<1> QED BY <1>9, <1>10, <1>11

(* Tokens that are the first ones of a generation.                         *)
Generating(r, so) == so \in Seq(Nat) /\ Len(so) <= r.maxNewTokens /\ After(r)[Len(so)] = so

(* A generation begins with no token. *)
LEMMA GenerationBegins ==
  ASSUME NEW r \in Requests PROVE Generating(r, <<>>)
PROOF
BY AfterIsLonger, RequestsAssumption DEF Generating

(* It goes on until it is long enough or selects an end token.             *)
LEMMA GenerationGoesOn ==
  ASSUME TokensAreNumbers, NEW r \in Requests, NEW so, Generating(r, so),
         Len(so) < r.maxNewTokens
  PROVE  LET next == NextToken(r.dir, r.seed, r.prompt \o so, Len(so) + 1) IN
         /\ next \in Nat
         /\ next \notin EosTokens => Generating(r, Append(so, next))
         /\ next \in EosTokens => Service!Generation(r) = so
PROOF
<1> DEFINE n == Len(so)
           max == r.maxNewTokens
           next == NextToken(r.dir, r.seed, r.prompt \o so, n + 1)
<1>1. /\ so \in Seq(Nat) /\ n \in Nat /\ max \in Nat /\ n < max /\ r.prompt \in Seq(Nat)
      /\ After(r)[n] = so
  BY RequestsAssumption DEF Generating
<1>2. r.prompt \o so \in Seq(Nat) /\ n + 1 \in Nat
  BY <1>1
<1>3. next \in Nat
  BY <1>2 DEF TokensAreNumbers
<1> HIDE DEF max
<1>4. n + 1 \in 1..max /\ n + 1 - 1 = n
  BY <1>1
<1>5. After(r)[n + 1] = Longer(r, so, n + 1)
  BY <1>1, <1>4, AfterIsLonger DEF max
<1>6. After(r)[n + 1] = IF next \in EosTokens THEN so ELSE Append(so, next)
  BY <1>1, <1>4, <1>5 DEF Longer
<1> HIDE DEF next
<1>7. ASSUME next \notin EosTokens PROVE Generating(r, Append(so, next))
  <2>1. Append(so, next) \in Seq(Nat) /\ Len(Append(so, next)) = n + 1
    BY <1>1, <1>3
  <2> QED BY <1>4, <1>6, <1>7, <2>1 DEF Generating, max
<1>8. ASSUME next \in EosTokens PROVE After(r)[max] = so
  <2> DEFINE S == {k \in Nat : k > n /\ k <= max => After(r)[k] = so}
  <2>1. 0 \in S
    BY <1>1
  <2>2. ASSUME NEW k \in 0..(max - 1), k \in S PROVE k + 1 \in S
    <3>1. k + 1 \in 1..max /\ k + 1 - 1 = k /\ k \in Nat /\ k + 1 \in Nat
      BY <1>1
    <3>2. CASE k + 1 <= n
      BY <1>1, <3>1, <3>2
    <3>3. CASE k = n
      BY <1>6, <1>8, <3>1, <3>3
    <3>4. CASE k > n
      <4>1. After(r)[k] = so
        BY <1>1, <2>2, <3>1, <3>4
      <4>2. After(r)[k + 1] = Longer(r, so, k + 1)
        BY <3>1, <4>1, AfterIsLonger DEF max
      <4>3. Len(so) < k + 1 - 1
        BY <1>1, <3>1, <3>4
      <4> QED BY <3>1, <4>2, <4>3 DEF Longer
    <3> QED BY <1>1, <3>1, <3>2, <3>3, <3>4
  <2> HIDE DEF S
  <2>3. 0..max \subseteq S
    BY <1>1, <2>1, <2>2, UpTo
  <2> QED BY <1>1, <2>3 DEF S
<1> QED BY <1>3, <1>7, <1>8, AfterIsLonger DEF max, next

(* A generation that is long enough is over.                               *)
LEMMA GenerationEnds ==
  ASSUME NEW r \in Requests, NEW so, Generating(r, so), Len(so) = r.maxNewTokens
  PROVE  Service!Generation(r) = so
PROOF
BY AfterIsLonger DEF Generating
-----------------------------------------------------------------------------
(* What the rows of a layer stand for, in a cache that holds a text.       *)
RowOf(text, layer, q) == IF layer = 0 THEN <<text[q + 1]>> ELSE SubSeq(text, 1, q + 1)

(* A cache of this capacity has a place for each row.                      *)
Places(rows, capacity) == DOMAIN rows = 0..(Layers * capacity - 1)

(* The first k layers hold n tokens of a text.                             *)
HoldsIn(rows, capacity, text, n, k) ==
  \A layer \in 0..(k - 1), q \in 0..(n - 1) :
    rows[Offset(capacity, layer, q)] = RowOf(text, layer, q)

(* Different rows have different places.                                   *)
LEMMA OffsetsDiffer ==
  ASSUME NEW capacity \in Nat, NEW j \in 0..(Layers - 1), NEW k \in 0..(Layers - 1),
         NEW p \in 0..(capacity - 1), NEW q \in 0..(capacity - 1)
  PROVE  /\ Offset(capacity, j, p) \in 0..(Layers * capacity - 1)
         /\ Offset(capacity, j, p) = Offset(capacity, k, q) => j = k /\ p = q
PROOF
<1>1. /\ Layers \in Nat /\ j \in Nat /\ k \in Nat /\ p \in Nat /\ q \in Nat
      /\ j < Layers /\ k < Layers /\ p < capacity /\ q < capacity
  BY LayersAssumption
<1>2. ASSUME NEW a \in Nat, NEW b \in Nat, a < b
      PROVE  a * capacity + capacity <= b * capacity /\ a * capacity \in Nat
             /\ b * capacity \in Nat
  BY <1>2, Z3
<1>3. j * capacity + capacity <= Layers * capacity /\ j * capacity \in Nat
      /\ Layers * capacity \in Nat
  BY <1>1, <1>2
<1>4. Offset(capacity, j, p) \in 0..(Layers * capacity - 1)
  BY <1>1, <1>3 DEF Offset
<1>5. ASSUME Offset(capacity, j, p) = Offset(capacity, k, q) PROVE j = k /\ p = q
  <2>1. j * capacity + p = k * capacity + q
    BY <1>5 DEF Offset
  <2>2. CASE j < k
    <3>1. j * capacity + capacity <= k * capacity
      BY <1>1, <1>2, <2>2
    <3> QED BY <1>1, <1>2, <2>1, <2>2, <3>1
  <2>3. CASE k < j
    <3>1. k * capacity + capacity <= j * capacity
      BY <1>1, <1>2, <2>3
    <3> QED BY <1>1, <1>2, <2>1, <2>3, <3>1
  <2>4. CASE j = k
    BY <1>1, <1>3, <2>1, <2>4
  <2> QED BY <1>1, <2>2, <2>3, <2>4
<1> QED BY <1>4, <1>5

(* One layer: it stores its row and attends to all rows so far.            *)
Layer(below, capacity, k, at) ==
  LET stored == [below.rows EXCEPT ![Offset(capacity, k - 1, at)] = below.hidden]
  IN [rows |-> stored, hidden |-> Attend(stored, capacity, k - 1, at)]

(* The pass through the layers is the recursion of its definition. *)
LEMMA ThroughLayers ==
  ASSUME NEW rows, NEW capacity, NEW token, NEW at
  PROVE  LET pass == Through(rows, capacity, token, at) IN
         /\ pass[0] = [rows |-> rows, hidden |-> <<token>>]
         /\ \A k \in 1..Layers : pass[k] = Layer(pass[k - 1], capacity, k, at)
PROOF
<1> DEFINE pass == Through(rows, capacity, token, at)
           first == [rows |-> rows, hidden |-> <<token>>]
           Next1(f, k) == IF k = 0 THEN first ELSE Layer(f[k - 1], capacity, k, at)
           S == {n \in Nat : \E f : f = [k \in 0..n |-> Next1(f, k)]}
<1>1. Layers \in Nat
  BY LayersAssumption
<1>2. 0 \in S
  <2> DEFINE f == [k \in 0..0 |-> first]
  <2>1. f = [k \in 0..0 |-> Next1(f, k)]
    OBVIOUS
  <2> HIDE DEF f, Next1
  <2> QED BY <2>1
<1>3. ASSUME NEW n \in 0..(Layers - 1), n \in S PROVE n + 1 \in S
  <2> HIDE DEF Next1
  <2>1. PICK f : f = [k \in 0..n |-> Next1(f, k)]
    BY <1>3
  <2> DEFINE g == [k \in 0..(n + 1) |-> IF k = n + 1 THEN Next1(f, k) ELSE f[k]]
  <2>2. ASSUME NEW k \in 0..(n + 1) PROVE g[k] = Next1(g, k)
    <3>1. k = 0 \/ (k - 1 \in 0..n /\ g[k - 1] = f[k - 1])
      BY <1>1
    <3>2. Next1(g, k) = Next1(f, k)
      <4> HIDE DEF g
      <4> QED BY <3>1 DEF Next1
    <3>3. k # n + 1 => k \in 0..n
      BY <1>1
    <3> QED BY <2>1, <3>2, <3>3
  <2>3. g = [k \in 0..(n + 1) |-> Next1(g, k)]
    BY <2>2
  <2> HIDE DEF g
  <2>4. n + 1 \in Nat
    BY <1>1
  <2> QED BY <2>3, <2>4
<1>4. \E f : f = [k \in 0..Layers |-> Next1(f, k)]
  <2> HIDE DEF Next1, S
  <2>1. 0..Layers \subseteq S
    BY <1>1, <1>2, <1>3, UpTo
  <2>2. Layers \in S
    BY <1>1, <2>1
  <2> QED BY <2>2 DEF S
<1>5. pass = CHOOSE f : f = [k \in 0..Layers |-> Next1(f, k)]
  BY DEF Through, Layer
<1>6. pass = [k \in 0..Layers |-> Next1(pass, k)]
  <2> HIDE DEF Next1, pass
  <2> QED BY <1>4, <1>5
<1> HIDE DEF pass
<1>7. 0 \in 0..Layers /\ \A k \in 1..Layers : k \in 0..Layers /\ k # 0
  BY <1>1
<1>8. pass[0] = first
  BY <1>6, <1>7
<1>9. \A k \in 1..Layers : pass[k] = Layer(pass[k - 1], capacity, k, at)
  BY <1>6, <1>7
<1> QED BY <1>8, <1>9 DEF pass

(* Whatever the rows are, a token that ran through any number of layers    *)
(* left each of them in its place.                                         *)
LEMMA ThroughKeepsPlaces ==
  ASSUME NEW rows, NEW capacity, NEW token, NEW at, NEW k \in 0..Layers,
         Places(rows, capacity)
  PROVE  Places(Through(rows, capacity, token, at)[k].rows, capacity)
PROOF
<1> DEFINE pass == Through(rows, capacity, token, at)
           S == {j \in Nat : j <= Layers => Places(pass[j].rows, capacity)}
<1>1. Layers \in Nat
  BY LayersAssumption
<1>0. /\ pass[0] = [rows |-> rows, hidden |-> <<token>>]
      /\ \A j \in 1..Layers : pass[j] = Layer(pass[j - 1], capacity, j, at)
  BY ThroughLayers
<1> HIDE DEF pass
<1>2. 0 \in S
  BY <1>0
<1>3. ASSUME NEW j \in 0..(Layers - 1), j \in S PROVE j + 1 \in S
  <2>1. j + 1 \in 1..Layers /\ j + 1 - 1 = j /\ j <= Layers
    BY <1>1
  <2>2. pass[j + 1] = Layer(pass[j], capacity, j + 1, at)
    BY <1>0, <2>1
  <2>3. Places(pass[j].rows, capacity)
    BY <1>3, <2>1
  <2>4. DOMAIN pass[j + 1].rows = DOMAIN pass[j].rows
    BY <2>2 DEF Layer
  <2> QED BY <2>1, <2>3, <2>4 DEF Places
<1> HIDE DEF S
<1>4. 0..Layers \subseteq S
  BY <1>1, <1>2, <1>3, UpTo
<1> QED BY <1>1, <1>4 DEF S, pass

(* Prefixes of a text. *)
LEMMA TextPrefix ==
  ASSUME NEW text \in Seq(Nat), NEW n \in 1..Len(text)
  PROVE  /\ SubSeq(text, 1, n) \in Seq(Nat) /\ Len(SubSeq(text, 1, n)) = n
         /\ SubSeq(text, 1, n) = [i \in 1..n |-> text[i]]
         /\ \A m \in 1..n : SubSeq(SubSeq(text, 1, n), 1, m) = SubSeq(text, 1, m)
PROOF
<1>1. Len(text) \in Nat /\ n \in Nat /\ n >= 1 /\ n <= Len(text)
  OBVIOUS
<1>2. \A i \in 1..n : text[i] \in Nat
  BY <1>1
<1>3. /\ SubSeq(text, 1, n) \in Seq(Nat)
      /\ Len(SubSeq(text, 1, n)) = IF 1 <= n THEN n - 1 + 1 ELSE 0
  BY <1>1, <1>2, SubSeqProperties
<1>4. \A i \in 1..n : SubSeq(text, 1, n)[i] = text[i]
  <2>1. ASSUME NEW i \in 1..n PROVE SubSeq(text, 1, n)[i] = text[i]
    <3>1. i \in 1..(n - 1 + 1) /\ 1 + i - 1 = i
      BY <1>1
    <3>2. SubSeq(text, 1, n)[i] = text[1 + i - 1]
      BY <1>1, <1>2, <3>1, SubSeqProperties
    <3> QED BY <3>1, <3>2
  <2> QED BY <2>1
<1>5. SubSeq(text, 1, n) = [i \in 1..n |-> text[i]]
  <2>1. SubSeq(text, 1, n) = [i \in 1..n |-> SubSeq(text, 1, n)[i]]
    BY <1>1, <1>3
  <2> QED BY <1>4, <2>1
<1>6. ASSUME NEW m \in 1..n
      PROVE  SubSeq(SubSeq(text, 1, n), 1, m) = SubSeq(text, 1, m)
  <2>1. /\ 1 \in 1..Len(text) /\ n \in 1..Len(text)
        /\ 1 \in 1..(n - 1 + 1) /\ m \in 1..(n - 1 + 1)
    BY <1>1
  <2>2. SubSeq(SubSeq(text, 1, n), 1, m) = SubSeq(text, 1 + 1 - 1, 1 + m - 1)
    BY <2>1, SubSeqOfSubSeq
  <2>3. 1 + 1 - 1 = 1 /\ 1 + m - 1 = m
    BY <1>1
  <2> QED BY <2>2, <2>3
<1> QED BY <1>1, <1>3, <1>5, <1>6

(* The row of a text is no mark. *)
LEMMA RowsAreTokens ==
  ASSUME NEW text \in Seq(Nat), NEW layer \in Nat, NEW q \in 0..(Len(text) - 1)
  PROVE  RowOf(text, layer, q) \in Seq(Nat)
         /\ RowOf(text, layer, q) \notin {Nothing, Garbled}
PROOF
<1>1. q + 1 \in 1..Len(text)
  OBVIOUS
<1>2. SubSeq(text, 1, q + 1) \in Seq(Nat) /\ <<text[q + 1]>> \in Seq(Nat)
  BY <1>1, TextPrefix
<1> QED BY <1>2, MarksAssumption DEF RowOf

(* Attention over the rows of one text yields that text. *)
LEMMA AttendsToText ==
  ASSUME NEW text \in Seq(Nat), NEW at \in 0..(Len(text) - 1), NEW layer \in Nat,
         NEW rows, NEW capacity,
         \A q \in 0..at : rows[Offset(capacity, layer, q)] = RowOf(text, layer, q)
  PROVE  Attend(rows, capacity, layer, at) = RowOf(text, layer + 1, at)
PROOF
<1> DEFINE row(p) == rows[Offset(capacity, layer, p)]
<1>1. Len(text) \in Nat /\ at \in Nat /\ at + 1 \in 1..Len(text) /\ at \in 0..at
      /\ \A q \in 0..at : q \in 0..(Len(text) - 1)
  OBVIOUS
<1>2. \A q \in 0..at : row(q) = RowOf(text, layer, q) /\ row(q) \notin {Nothing, Garbled}
  BY <1>1, RowsAreTokens
<1>3. RowOf(text, layer + 1, at) = SubSeq(text, 1, at + 1)
  BY DEF RowOf
<1>4. CASE layer = 0
  <2>1. Attend(rows, capacity, layer, at) = [n \in 1..(at + 1) |-> row(n - 1)[1]]
    BY <1>2, <1>4 DEF Attend
  <2>2. ASSUME NEW n \in 1..(at + 1) PROVE row(n - 1)[1] = text[n]
    <3>1. n - 1 \in 0..at /\ n - 1 + 1 = n
      BY <1>1
    <3>2. row(n - 1) = <<text[n]>>
      BY <1>2, <1>4, <3>1 DEF RowOf
    <3> QED BY <3>2
  <2> HIDE DEF row
  <2>3. SubSeq(text, 1, at + 1) = [n \in 1..(at + 1) |-> text[n]]
    BY <1>1, TextPrefix
  <2> QED BY <1>3, <2>1, <2>2, <2>3
<1>5. CASE layer # 0
  <2>1. row(at) = SubSeq(text, 1, at + 1)
    BY <1>1, <1>2, <1>5 DEF RowOf
  <2>2. ASSUME NEW p \in 0..at PROVE row(p) = SubSeq(row(at), 1, p + 1)
    <3>1. row(p) = SubSeq(text, 1, p + 1)
      BY <1>2, <1>5 DEF RowOf
    <3>2. p + 1 \in 1..(at + 1)
      BY <1>1
    <3> QED BY <1>1, <2>1, <3>1, <3>2, TextPrefix
  <2> QED BY <1>2, <1>3, <1>5, <2>1, <2>2 DEF Attend
<1> QED BY <1>4, <1>5

(* One layer more.                                                         *)
LEMMA LayerHolds ==
  ASSUME NEW text \in Seq(Nat), NEW capacity \in Nat, NEW at \in 0..(Len(text) - 1),
         at < capacity, NEW k \in 0..(Layers - 1), NEW below,
         Places(below.rows, capacity),
         HoldsIn(below.rows, capacity, text, at, Layers),
         HoldsIn(below.rows, capacity, text, at + 1, k),
         below.hidden = RowOf(text, k, at)
  PROVE  LET above == Layer(below, capacity, k + 1, at) IN
         /\ Places(above.rows, capacity)
         /\ HoldsIn(above.rows, capacity, text, at, Layers)
         /\ HoldsIn(above.rows, capacity, text, at + 1, k + 1)
         /\ above.hidden = RowOf(text, k + 1, at)
PROOF
<1> DEFINE rows == below.rows
           stored == [rows EXCEPT ![Offset(capacity, k, at)] = below.hidden]
           above == Layer(below, capacity, k + 1, at)
<1>1. /\ Layers \in Nat /\ k \in Nat /\ at \in Nat /\ k < Layers /\ k + 1 - 1 = k
      /\ at \in 0..(capacity - 1)
  BY LayersAssumption
<1>2. above.rows = stored /\ above.hidden = Attend(stored, capacity, k, at)
  BY <1>1 DEF Layer
<1>3. Offset(capacity, k, at) \in DOMAIN rows
  BY <1>1, OffsetsDiffer DEF Places
<1> HIDE DEF above
<1>4. DOMAIN stored = DOMAIN rows /\ stored[Offset(capacity, k, at)] = RowOf(text, k, at)
  BY <1>3
<1>5. ASSUME NEW j \in 0..(Layers - 1), NEW q \in 0..(capacity - 1), j # k \/ q # at
      PROVE  stored[Offset(capacity, j, q)] = rows[Offset(capacity, j, q)]
  <2>1. /\ Offset(capacity, j, q) # Offset(capacity, k, at)
        /\ Offset(capacity, j, q) \in DOMAIN rows
    BY <1>1, <1>5, OffsetsDiffer DEF Places
  <2> QED BY <2>1
<1> HIDE DEF stored
<1>6. HoldsIn(stored, capacity, text, at, Layers)
  <2>1. ASSUME NEW j \in 0..(Layers - 1), NEW q \in 0..(at - 1)
        PROVE  stored[Offset(capacity, j, q)] = RowOf(text, j, q)
    <3>1. q \in 0..(capacity - 1) /\ q # at
      BY <1>1
    <3>2. stored[Offset(capacity, j, q)] = rows[Offset(capacity, j, q)]
      BY <1>5, <3>1
    <3> QED BY <3>2 DEF HoldsIn
  <2> QED BY <2>1 DEF HoldsIn
<1>7. HoldsIn(stored, capacity, text, at + 1, k + 1)
  <2>1. ASSUME NEW j \in 0..(k + 1 - 1), NEW q \in 0..(at + 1 - 1)
        PROVE  stored[Offset(capacity, j, q)] = RowOf(text, j, q)
    <3>1. j \in 0..(Layers - 1) /\ q \in 0..(capacity - 1)
      BY <1>1
    <3>2. CASE j = k /\ q = at
      BY <1>4, <3>2
    <3>3. CASE q # at
      <4>1. q \in 0..(at - 1)
        BY <1>1, <3>3
      <4> QED BY <1>6, <3>1, <4>1 DEF HoldsIn
    <3>4. CASE j # k
      <4>1. j \in 0..(k - 1)
        BY <1>1, <3>4
      <4>2. stored[Offset(capacity, j, q)] = rows[Offset(capacity, j, q)]
        BY <1>5, <3>1, <3>4
      <4> QED BY <4>1, <4>2 DEF HoldsIn
    <3> QED BY <3>2, <3>3, <3>4
  <2> QED BY <2>1 DEF HoldsIn
<1>8. \A q \in 0..at : stored[Offset(capacity, k, q)] = RowOf(text, k, q)
  <2>1. k \in 0..(k + 1 - 1) /\ \A q \in 0..at : q \in 0..(at + 1 - 1)
    BY <1>1
  <2> QED BY <1>7, <2>1 DEF HoldsIn
<1>9. above.hidden = RowOf(text, k + 1, at)
  BY <1>1, <1>2, <1>8, AttendsToText
<1> QED BY <1>2, <1>4, <1>6, <1>7, <1>9 DEF Places, above

(* A token that runs through the model after the text before it leaves the *)
(* rows of the text that it ends, and the hidden state of that text.       *)
LEMMA ThroughHolds ==
  ASSUME NEW text \in Seq(Nat), NEW capacity \in Nat, NEW at \in 0..(Len(text) - 1),
         at < capacity, NEW rows, Places(rows, capacity),
         HoldsIn(rows, capacity, text, at, Layers)
  PROVE  LET last == Through(rows, capacity, text[at + 1], at)[Layers] IN
         /\ HoldsIn(last.rows, capacity, text, at + 1, Layers)
         /\ last.hidden = SubSeq(text, 1, at + 1)
PROOF
<1> DEFINE token == text[at + 1]
           pass == Through(rows, capacity, token, at)
           Good(k) == /\ Places(pass[k].rows, capacity)
                      /\ HoldsIn(pass[k].rows, capacity, text, at, Layers)
                      /\ HoldsIn(pass[k].rows, capacity, text, at + 1, k)
                      /\ pass[k].hidden = RowOf(text, k, at)
           S == {k \in Nat : k <= Layers => Good(k)}
<1> HIDE DEF token
<1>0. /\ pass[0] = [rows |-> rows, hidden |-> <<token>>]
      /\ \A j \in 1..Layers : pass[j] = Layer(pass[j - 1], capacity, j, at)
  BY ThroughLayers
<1> HIDE DEF pass
<1>1. Layers \in Nat /\ Layers > 0
  BY LayersAssumption
<1>2. 0 \in S
  <2>1. pass[0].rows = rows /\ pass[0].hidden = RowOf(text, 0, at)
    BY <1>0 DEF RowOf, token
  <2>2. HoldsIn(rows, capacity, text, at + 1, 0)
    BY DEF HoldsIn
  <2> QED BY <2>1, <2>2
<1>3. ASSUME NEW k \in 0..(Layers - 1), k \in S PROVE k + 1 \in S
  <2>1. k + 1 \in 1..Layers /\ k + 1 - 1 = k /\ k <= Layers /\ k + 1 \in Nat
    BY <1>1
  <2>2. pass[k + 1] = Layer(pass[k], capacity, k + 1, at)
    BY <1>0, <2>1
  <2>3. Good(k)
    BY <1>3, <2>1
  <2> DEFINE below == pass[k]
  <2> HIDE DEF below
  <2>4. LET above == Layer(below, capacity, k + 1, at) IN
        /\ Places(above.rows, capacity)
        /\ HoldsIn(above.rows, capacity, text, at, Layers)
        /\ HoldsIn(above.rows, capacity, text, at + 1, k + 1)
        /\ above.hidden = RowOf(text, k + 1, at)
    BY <2>3, LayerHolds DEF below
  <2>5. Good(k + 1)
    BY <2>2, <2>4 DEF below
  <2> QED BY <2>1, <2>5
<1> HIDE DEF S
<1>4. 0..Layers \subseteq S
  BY <1>1, <1>2, <1>3, UpTo
<1>5. Good(Layers)
  BY <1>1, <1>4 DEF S
<1>6. RowOf(text, Layers, at) = SubSeq(text, 1, at + 1)
  BY <1>1 DEF RowOf
<1> QED BY <1>5, <1>6 DEF pass, token

(* The same for a token that is appended to a text. *)
LEMMA TokenRuns ==
  ASSUME NEW text \in Seq(Nat), NEW token \in Nat, NEW capacity \in Nat,
         Len(text) < capacity, NEW rows, Places(rows, capacity),
         HoldsIn(rows, capacity, text, Len(text), Layers)
  PROVE  LET last == Through(rows, capacity, token, Len(text))[Layers] IN
         /\ HoldsIn(last.rows, capacity, Append(text, token), Len(text) + 1, Layers)
         /\ last.hidden = Append(text, token)
PROOF
<1> DEFINE n == Len(text)
           new == Append(text, token)
<1>1. /\ new \in Seq(Nat) /\ Len(new) = n + 1 /\ new[n + 1] = token /\ n \in Nat
      /\ \A i \in 1..n : new[i] = text[i]
  OBVIOUS
<1> HIDE DEF new
<1>2. ASSUME NEW m \in 1..n PROVE SubSeq(new, 1, m) = SubSeq(text, 1, m)
  <2>1. m \in 1..Len(new) /\ m \in 1..Len(text)
    BY <1>1
  <2>2. SubSeq(new, 1, m) = [i \in 1..m |-> new[i]]
    BY <1>1, <2>1, TextPrefix
  <2>3. SubSeq(text, 1, m) = [i \in 1..m |-> text[i]]
    BY <2>1, TextPrefix
  <2>4. \A i \in 1..m : new[i] = text[i]
    BY <1>1
  <2> QED BY <2>2, <2>3, <2>4
<1>3. HoldsIn(rows, capacity, new, n, Layers)
  <2>1. ASSUME NEW layer \in 0..(Layers - 1), NEW q \in 0..(n - 1)
        PROVE  RowOf(new, layer, q) = RowOf(text, layer, q)
    <3>1. q + 1 \in 1..n
      BY <1>1
    <3> QED BY <1>1, <1>2, <3>1 DEF RowOf
  <2> QED BY <2>1 DEF HoldsIn
<1>4. n \in 0..(Len(new) - 1)
  BY <1>1
<1> HIDE DEF n
<1>5. LET last == Through(rows, capacity, new[n + 1], n)[Layers] IN
      /\ HoldsIn(last.rows, capacity, new, n + 1, Layers)
      /\ last.hidden = SubSeq(new, 1, n + 1)
  BY <1>1, <1>3, <1>4, ThroughHolds DEF n
<1>6. SubSeq(new, 1, n + 1) = new
  BY <1>1, SubSeqFull
<1> QED BY <1>1, <1>5, <1>6 DEF new, n

(* A prompt and the tokens that follow it. *)
LEMMA PromptAndTokens ==
  ASSUME NEW r \in Requests, NEW so \in Seq(Nat)
  PROVE  /\ r.prompt \in Seq(Nat) /\ Len(r.prompt) \in Nat /\ Len(so) \in Nat
         /\ r.prompt \o so \in Seq(Nat)
         /\ Len(r.prompt \o so) = Len(r.prompt) + Len(so)
         /\ r.prompt \o <<>> = r.prompt
         /\ \A t \in Nat : r.prompt \o Append(so, t) = Append(r.prompt \o so, t)
PROOF
<1> DEFINE p == r.prompt
<1>1. p \in Seq(Nat) /\ Len(p) \in Nat /\ Len(so) \in Nat
  BY RequestsAssumption
<1> HIDE DEF p
<1>2. p \o so \in Seq(Nat) /\ Len(p \o so) = Len(p) + Len(so)
  BY <1>1, ConcatProperties
<1>3. p \o <<>> = p
  BY <1>1, ConcatEmptySeq
<1>4. ASSUME NEW t \in Nat PROVE p \o Append(so, t) = Append(p \o so, t)
  <2> DEFINE one == <<t>>
             both == p \o so
  <2>1. one \in Seq(Nat)
    OBVIOUS
  <2>2. Append(so, t) = so \o one
    BY <1>1, AppendIsConcat
  <2> HIDE DEF both
  <2>3. Append(both, t) = both \o one
    BY <1>2, AppendIsConcat DEF both
  <2> HIDE DEF one
  <2>4. (p \o so) \o one = p \o (so \o one)
    BY <1>1, <2>1, ConcatAssociative
  <2> QED BY <2>2, <2>3, <2>4 DEF both
<1> QED BY <1>1, <1>2, <1>3, <1>4 DEF p

(* The capacity of a run state is the first doubling that is enough.       *)
LEMMA BucketIsEnough ==
  ASSUME NEW n \in Nat PROVE Bucket(n) \in Nat /\ Bucket(n) >= n
PROOF
<1> DEFINE Next1(f, k) == IF k = 0 THEN MinimumBucket ELSE 2 * f[k - 1]
           S == {m \in Nat : \E f : f = [k \in 0..m |-> Next1(f, k)]}
           doubled == CHOOSE f : f = [k \in 0..n |-> Next1(f, k)]
<1>1. MinimumBucket \in Nat /\ MinimumBucket > 0
  BY BucketAssumption
<1>2. 0 \in S
  <2> DEFINE f == [k \in 0..0 |-> MinimumBucket]
  <2>1. f = [k \in 0..0 |-> Next1(f, k)]
    OBVIOUS
  <2> HIDE DEF f, Next1
  <2> QED BY <2>1
<1>3. ASSUME NEW m \in 0..(n - 1), m \in S PROVE m + 1 \in S
  <2> HIDE DEF Next1
  <2>1. PICK f : f = [k \in 0..m |-> Next1(f, k)]
    BY <1>3
  <2> DEFINE g == [k \in 0..(m + 1) |-> IF k = m + 1 THEN Next1(f, k) ELSE f[k]]
  <2>2. ASSUME NEW k \in 0..(m + 1) PROVE g[k] = Next1(g, k)
    <3>1. k = 0 \/ (k - 1 \in 0..m /\ g[k - 1] = f[k - 1])
      OBVIOUS
    <3>2. Next1(g, k) = Next1(f, k)
      <4> HIDE DEF g
      <4> QED BY <3>1 DEF Next1
    <3>3. k # m + 1 => k \in 0..m
      OBVIOUS
    <3> QED BY <2>1, <3>2, <3>3
  <2>3. g = [k \in 0..(m + 1) |-> Next1(g, k)]
    BY <2>2
  <2> HIDE DEF g
  <2> QED BY <2>3
<1>4. \E f : f = [k \in 0..n |-> Next1(f, k)]
  <2> HIDE DEF Next1, S
  <2>1. 0..n \subseteq S
    BY <1>2, <1>3, UpTo
  <2>2. n \in S
    BY <2>1
  <2> QED BY <2>2 DEF S
<1>5. doubled = [k \in 0..n |-> Next1(doubled, k)]
  <2> HIDE DEF Next1
  <2> QED BY <1>4
<1> DEFINE enough(k) == /\ doubled[k] >= n
                        /\ \A j \in 0..(k - 1) : doubled[j] < n
           k0 == CHOOSE k \in 0..n : enough(k)
<1>6. Bucket(n) = doubled[k0]
  BY DEF Bucket
<1> HIDE DEF doubled
<1>7. doubled[0] = MinimumBucket /\ \A k \in 1..n : doubled[k] = 2 * doubled[k - 1]
  <2>1. \A k \in 0..n : doubled[k] = Next1(doubled, k)
    <3> HIDE DEF Next1
    <3> QED BY <1>5
  <2> QED BY <2>1
<1> DEFINE T == {k \in Nat : k <= n => doubled[k] \in Nat /\ doubled[k] > k}
<1>8. 0 \in T
  BY <1>1, <1>7
<1>9. ASSUME NEW k \in 0..(n - 1), k \in T PROVE k + 1 \in T
  <2>1. k + 1 \in 1..n /\ k + 1 - 1 = k /\ k <= n
    OBVIOUS
  <2>2. doubled[k] \in Nat /\ doubled[k] > k /\ doubled[k + 1] = 2 * doubled[k]
    BY <1>7, <1>9, <2>1
  <2>3. doubled[k + 1] \in Nat /\ doubled[k + 1] > k + 1
    BY <2>2
  <2> QED BY <2>3
<1>10. \A k \in 0..n : doubled[k] \in Nat /\ doubled[k] > k
  <2> HIDE DEF T
  <2>1. 0..n \subseteq T
    BY <1>8, <1>9, UpTo
  <2> QED BY <2>1 DEF T
<1>11. \E k \in 0..n : enough(k)
  <2> DEFINE U == {k \in 0..n : doubled[k] >= n}
  <2>1. n \in U /\ U \subseteq Nat
    BY <1>10
  <2>2. PICK x \in U : \A y \in U : x <= y
    BY <2>1, LeastNumber
  <2>3. x \in 0..n /\ doubled[x] >= n
    OBVIOUS
  <2>4. ASSUME NEW j \in 0..(x - 1) PROVE doubled[j] < n
    <3>1. j \in 0..n /\ ~(x <= j)
      BY <2>3
    <3>2. j \notin U
      BY <2>2, <3>1
    <3> QED BY <1>10, <3>1, <3>2
  <2> QED BY <2>3, <2>4
<1>12. k0 \in 0..n /\ enough(k0)
  <2> HIDE DEF enough
  <2> QED BY <1>11
<1> HIDE DEF k0
<1> QED BY <1>6, <1>10, <1>12
-----------------------------------------------------------------------------
(* The inductive invariant: what a call has reached, and what outlives it. *)
LocalPc == {"load", "prepare", "prefill", "decode", "verify", "replay", "reselect",
            "compare"}
GraphPc == {"lookup", "create", "graph_prefill", "graph_decode", "readback"}

(* The statistics of an answer with these rows.                            *)
Reported(rows) ==
  /\ report.used \in {rows, rows - 1} /\ report.used < report.capacity
  /\ report.used = rows - 1 => answer.finish = "length"
  /\ report.used \in Nat /\ report.capacity \in Nat

AnswerInv ==
  /\ request \in Requests
  /\ pc \in {"idle", "warm"} \cup LocalPc \cup GraphPc
  /\ pc \in LocalPc \cup GraphPc => answer = Waiting /\ ~Refused(request)
  /\ pc \in {"idle", "warm"} => answer.status \in {"ok", "error", "refused"}
  /\ pc = "warm" => answer.status = "ok"
  /\ answer.status = "error" => faulted
  /\ answer.status = "ok" => Reported(Len(request.prompt) + Len(answer.tokens))
  /\ pc \in {"load", "prepare", "lookup", "create"} => position = 0 /\ generated = <<>>

Shaped(c) == c.capacity \in Nat /\ c.used \in Nat /\ Places(c.rows, c.capacity)

(* A cache that holds n tokens of a text. *)
Held(c, text, n) == c.used = n /\ HoldsIn(c.rows, c.capacity, text, n, Layers)

LocalShape ==
  /\ DOMAIN cache = Local
  /\ \A d \in Local :
       /\ cache[d] = [capacity |-> cache[d].capacity, used |-> cache[d].used,
                      rows |-> cache[d].rows]
       /\ Shaped(cache[d])
  /\ weightsReady => uploaded = WeightCount

(* The cache of a request, while it runs a text that fits in the room.     *)
Runs(c, text, n, room) == n \in Nat /\ Held(c, text, n) /\ c.capacity >= room

Prefilling ==
  /\ generated = <<>>
  /\ position < Len(request.prompt)
  /\ Runs(cache[Device], request.prompt, position, Capacity(request))

Decoding ==
  /\ Generating(request, generated)
  /\ hidden = request.prompt \o generated
  /\ position = Len(request.prompt) + Len(generated)
  /\ Runs(cache[Device], request.prompt \o generated, position, Capacity(request))

(* The text is complete and its statistics are taken; recomputing it has   *)
(* come this far.                                                          *)
Verifying ==
  /\ generated = Service!Generation(request)
  /\ Generating(request, generated)
  /\ report.used = Len(request.prompt) + Len(generated)
  /\ report.used < report.capacity /\ report.capacity \in Nat
  /\ pc # "compare" => Generating(request, recomputed)
  /\ pc = "compare" => recomputed = Service!Generation(request)
  /\ pc \in {"replay", "reselect"} => Len(recomputed) < request.maxNewTokens
  /\ pc = "replay" =>
       /\ position < Len(request.prompt \o recomputed)
       /\ Runs(cache[Device], request.prompt \o recomputed, position,
               Len(request.prompt) + Len(recomputed) + 1)
  /\ pc = "reselect" => hidden = request.prompt \o recomputed

LocalRun ==
  /\ pc \in LocalPc \ {"load"} => loaded = request.dir /\ Device \in Local
  /\ pc \in LocalPc \ {"load", "prepare"} /\ Device = "mps" => weightsReady
  /\ pc \in {"prepare", "prefill", "decode"} => recomputed = <<>>
  /\ pc = "prefill" => Prefilling
  /\ pc = "decode" => Decoding
  /\ pc \in {"verify", "replay", "reselect", "compare"} => Verifying

WarmSlot(s) ==
  /\ s = [dir |-> s.dir, compiled |-> s.compiled, warmedCapacity |-> s.warmedCapacity,
          warmedMaxNewTokens |-> s.warmedMaxNewTokens]
  /\ s.warmedCapacity \in Nat
  /\ \A p \in 0..(s.warmedCapacity - 1) : <<s.warmedCapacity, p>> \in s.compiled

GraphShape == slot # NoCacheYet => WarmSlot(slot)

RunShape ==
  /\ run = [capacity |-> run.capacity, used |-> run.used, rows |-> run.rows,
            tokens |-> run.tokens, status |-> run.status]
  /\ Shaped(run)
  /\ DOMAIN run.tokens = 0..(run.capacity - 1)
  /\ run.capacity >= Capacity(request)

GraphPrefilling ==
  /\ generated = <<>>
  /\ position < Len(request.prompt)
  /\ Runs(run, request.prompt, position, Capacity(request))
  /\ run.status = InitialStatus

GraphDecoding ==
  /\ Generating(request, generated)
  /\ Len(generated) < request.maxNewTokens
  /\ hidden = request.prompt \o generated
  /\ position = Len(request.prompt) + Len(generated)
  /\ Runs(run, request.prompt \o generated, position, Capacity(request))
  /\ run.status = [count |-> Len(generated), reason |-> 2, stop |-> FALSE]
  /\ \A i \in 1..Len(generated) : run.tokens[i - 1] = generated[i]

(* What the GPU recorded is the generation, and says how it ended.         *)
Recorded ==
  LET n == run.status.count
      rows == Len(request.prompt) + n
  IN  /\ n \in Nat /\ n <= request.maxNewTokens
      /\ Service!Generation(request) = [i \in 1..n |-> run.tokens[i - 1]]
      /\ run.status.reason = IF n < request.maxNewTokens THEN 1 ELSE 2
      /\ \/ run.used = rows
         \/ run.used = rows - 1 /\ n = request.maxNewTokens
      /\ run.used < run.capacity

GraphRun ==
  /\ pc \in (GraphPc \ {"lookup"}) \cup {"warm"} => WarmSlot(slot)
  /\ pc \in GraphPc \ {"lookup"} => slot.dir = request.dir
  /\ pc \in {"graph_prefill", "graph_decode", "readback"} => RunShape
  /\ pc = "graph_prefill" => GraphPrefilling
  /\ pc = "graph_decode" => GraphDecoding
  /\ pc = "readback" => Recorded

CallInv == AnswerInv /\ LocalShape /\ LocalRun /\ GraphShape /\ GraphRun

(* A step of the service, or one that its caller does not see.             *)
Visible == Service!Next \/ UNCHANGED <<request, answer>>
-----------------------------------------------------------------------------
(* What an answer does to the caller. *)
LEMMA AnswersVisible ==
  ASSUME answer = Waiting, request' = request,
         \/ answer' = [status |-> "error"]
         \/ /\ answer'.status = "ok"
            /\ answer' = Service!Text(request, Service!Generation(request))
  PROVE  Visible
PROOF
<1>1. answer.status = "none"
  BY DEF Waiting
<1>2. answer' \in Service!Promised(request)
  BY DEF Service!Promised
<1> QED BY <1>1, <1>2 DEF Visible, Service!Next, Service!Answer

(* A call that fails because something did leaves nothing half done that   *)
(* the next one would trip over.                                           *)
LEMMA FaultKeeps ==
  ASSUME CallInv, pc \in LocalPc \cup GraphPc, Fault, LocalShape', GraphShape'
  PROVE  CallInv' /\ Visible
PROOF
<1>1. /\ answer = Waiting /\ answer' = [status |-> "error"] /\ pc' = "idle"
      /\ request' = request /\ faulted' = TRUE /\ request \in Requests
  BY DEF CallInv, AnswerInv, Fault, Fail
<1>2. Visible
  BY <1>1, AnswersVisible
<1>3. answer'.status = "error"
  BY <1>1
<1>4. AnswerInv'
  BY <1>1, <1>3 DEF AnswerInv, LocalPc, GraphPc
<1>5. LocalRun' /\ GraphRun'
  BY <1>1 DEF LocalRun, GraphRun, LocalPc, GraphPc
<1> QED BY <1>2, <1>4, <1>5 DEF CallInv

(* A step of a CPU backend that goes on with its call. *)
LEMMA LocalGoesOn ==
  ASSUME CallInv, pc \in LocalPc, pc' \in LocalPc \ {"load", "prepare"},
         UNCHANGED <<request, answer, faulted>>, UNCHANGED graphVars, LocalShape', LocalRun'
  PROVE  CallInv' /\ Visible
PROOF
<1>1. answer = Waiting /\ request \in Requests /\ ~Refused(request) /\ answer.status = "none"
  BY DEF CallInv, AnswerInv, Waiting
<1>2. AnswerInv'
  BY <1>1 DEF CallInv, AnswerInv, LocalPc
<1>3. GraphShape' /\ GraphRun'
  BY DEF CallInv, GraphShape, GraphRun, graphVars, LocalPc, GraphPc
<1>4. Visible
  BY DEF Visible
<1> QED BY <1>2, <1>3, <1>4 DEF CallInv

(* A new cache is empty. *)
LEMMA FreshIsShaped ==
  ASSUME NEW capacity \in Nat
  PROVE  LET c == FreshCache(capacity) IN
         /\ Shaped(c) /\ c = [capacity |-> c.capacity, used |-> c.used, rows |-> c.rows]
         /\ c.capacity = capacity /\ c.used = 0
PROOF
BY DEF FreshCache, Shaped, Places, EmptyRows

(* The facts of a call that is being served on the CPU. *)
LEMMA LocalFacts ==
  ASSUME CallInv, pc \in LocalPc
  PROVE  /\ request \in Requests /\ request.prompt \in Seq(Nat)
         /\ request.maxNewTokens \in Nat \ {0}
         /\ Len(request.prompt) \in Nat /\ Len(request.prompt) > 0
         /\ Capacity(request) \in Nat
         /\ Capacity(request) = Len(request.prompt) + request.maxNewTokens + 1
         /\ LocalShape /\ LocalRun /\ answer = Waiting
PROOF
<1>1. /\ request \in Requests /\ ~Refused(request) /\ LocalShape /\ LocalRun
      /\ answer = Waiting
  BY DEF CallInv, AnswerInv
<1>2. /\ request.prompt \in Seq(Nat) /\ request.maxNewTokens \in Nat
      /\ request.prompt # <<>> /\ request.maxNewTokens # 0
  BY <1>1, RequestsAssumption DEF Refused
<1>3. Len(request.prompt) \in Nat /\ Len(request.prompt) > 0
  BY <1>2
<1> QED BY <1>1, <1>2, <1>3 DEF Capacity

(* One of the caches changes, into one with a place for each of its rows.   *)
LEMMA CacheChanges ==
  ASSUME LocalShape, NEW d \in Local, NEW c, cache' = [cache EXCEPT ![d] = c],
         Shaped(c), c = [capacity |-> c.capacity, used |-> c.used, rows |-> c.rows],
         UNCHANGED <<weightsReady, uploaded>>
  PROVE  LocalShape' /\ cache'[d] = c
PROOF
<1>1. /\ DOMAIN cache' = Local /\ cache'[d] = c
      /\ \A e \in Local : e # d => cache'[e] = cache[e]
  BY DEF LocalShape
<1>2. (weightsReady => uploaded = WeightCount)'
  BY DEF LocalShape, WeightCount
<1> QED BY <1>1, <1>2 DEF LocalShape

(* The model of this request is loaded, or another one whose caches are new. *)
LEMMA LoadKeeps ==
  ASSUME CallInv, LoadModel, UNCHANGED graphVars
  PROVE  CallInv' /\ Visible
PROOF
<1>1. /\ pc = "load" /\ request.device \in Local /\ pc' = "prepare"
      /\ UNCHANGED <<request, answer, position, generated, faulted>>
      /\ recomputed' = <<>> /\ loaded' = request.dir
      /\ \/ UNCHANGED <<uploaded, weightsReady, cache>>
         \/ /\ weightsReady' = FALSE
            /\ cache' = [d \in Local |-> NoCache]
  BY DEF LoadModel, Serving
<1>2. LocalShape'
  <2>1. CASE UNCHANGED <<uploaded, weightsReady, cache>>
    BY <2>1 DEF CallInv, LocalShape, Shaped
  <2>2. CASE weightsReady' = FALSE /\ cache' = [d \in Local |-> NoCache]
    <3>1. /\ Shaped(NoCache)
          /\ NoCache = [capacity |-> NoCache.capacity, used |-> NoCache.used,
                        rows |-> NoCache.rows]
      BY FreshIsShaped DEF NoCache
    <3> QED BY <2>2, <3>1 DEF LocalShape
  <2> QED BY <1>1, <2>1, <2>2
<1>3. AnswerInv'
  <2>1. answer.status = "none"
    BY <1>1 DEF CallInv, AnswerInv, LocalPc, Waiting
  <2> QED BY <1>1, <2>1 DEF CallInv, AnswerInv, LocalPc
<1>4. LocalRun'
  BY <1>1 DEF LocalRun, LocalPc, Device
<1>5. GraphShape' /\ GraphRun'
  BY <1>1 DEF CallInv, GraphShape, GraphRun, graphVars, GraphPc
<1>6. Visible
  BY <1>1 DEF Visible
<1> QED BY <1>2, <1>3, <1>4, <1>5, <1>6 DEF CallInv

(* A model that cannot be loaded replaces nothing. *)
LEMMA LoadFailsKeeps ==
  ASSUME CallInv, LoadFails, UNCHANGED graphVars
  PROVE  CallInv' /\ Visible
PROOF
<1>1. pc = "load" /\ Fault /\ UNCHANGED modelVars
  BY DEF LoadFails
<1>2. LocalShape' /\ GraphShape'
  BY <1>1 DEF CallInv, LocalShape, GraphShape, modelVars, graphVars, Shaped
<1> QED BY <1>1, <1>2, FaultKeeps DEF LocalPc

(* The weights are ready when the last of them is there. *)
LEMMA UploadKeeps ==
  ASSUME CallInv, UploadWeights, UNCHANGED graphVars
  PROVE  CallInv' /\ Visible
PROOF
<1>1. /\ pc = "prepare" /\ ~weightsReady /\ UNCHANGED <<loaded, cache, recomputed>>
      /\ \/ uploaded' = WeightCount /\ UNCHANGED callVars
         \/ Fault /\ UNCHANGED weightsReady
  BY DEF UploadWeights
<1>2. LocalShape' /\ GraphShape'
  <2>1. (weightsReady => uploaded = WeightCount)'
    BY <1>1 DEF WeightCount
  <2> QED BY <1>1, <2>1 DEF CallInv, LocalShape, GraphShape, graphVars, Shaped
<1>3. CASE uploaded' = WeightCount /\ UNCHANGED callVars
  <2>1. AnswerInv'
    BY <1>3 DEF CallInv, AnswerInv, callVars, Reported
  <2>2. LocalRun'
    BY <1>1, <1>3 DEF CallInv, LocalRun, callVars, Device, LocalPc
  <2>3. GraphRun'
    BY <1>1, <1>3 DEF CallInv, GraphRun, callVars, GraphPc
  <2>4. Visible
    BY <1>3 DEF Visible, callVars
  <2> QED BY <1>2, <2>1, <2>2, <2>3, <2>4 DEF CallInv
<1>4. CASE Fault
  BY <1>1, <1>2, <1>4, FaultKeeps DEF LocalPc
<1> QED BY <1>1, <1>3, <1>4

(* A cache that was reset holds no token of any text, and has room.        *)
LEMMA ResetIsEmpty ==
  ASSUME LocalShape, NEW d \in Local, NEW capacity \in Nat
  PROVE  LET c == Reset(d, capacity) IN
         /\ Shaped(c) /\ c = [capacity |-> c.capacity, used |-> c.used, rows |-> c.rows]
         /\ \A text : Runs(c, text, 0, capacity)
PROOF
<1> DEFINE c == Reset(d, capacity)
           old == cache[d]
<1>1. /\ Shaped(old)
      /\ old = [capacity |-> old.capacity, used |-> old.used, rows |-> old.rows]
  BY DEF LocalShape
<1> HIDE DEF old
<1>2. CASE d = "mps" /\ old.capacity >= capacity
  <2>1. c = [old EXCEPT !.used = 0]
    BY <1>2 DEF Reset, old
  <2> HIDE DEF c
  <2>2. c = [capacity |-> old.capacity, used |-> 0, rows |-> old.rows]
    BY <1>1, <2>1
  <2>3. \A text : HoldsIn(c.rows, c.capacity, text, 0, Layers)
    BY DEF HoldsIn
  <2> QED BY <1>1, <1>2, <2>2, <2>3 DEF Shaped, Runs, Held, c
<1>3. CASE ~(d = "mps" /\ old.capacity >= capacity)
  <2>1. c = FreshCache(capacity)
    BY <1>3 DEF Reset, old
  <2> HIDE DEF c
  <2>2. /\ Shaped(c) /\ c = [capacity |-> c.capacity, used |-> c.used, rows |-> c.rows]
        /\ c.capacity = capacity /\ c.used = 0
    BY <2>1, FreshIsShaped
  <2>3. \A text : HoldsIn(c.rows, c.capacity, text, 0, Layers)
    BY DEF HoldsIn
  <2> QED BY <2>2, <2>3 DEF Runs, Held, c
<1> QED BY <1>2, <1>3

(* The cache is reset, or its new workspace cannot be had. *)
LEMMA ResetKeeps ==
  ASSUME CallInv, ResetCache, UNCHANGED graphVars
  PROVE  CallInv' /\ Visible
PROOF
<1>1. /\ pc = "prepare" /\ Device \in Local /\ (Device = "mps" => weightsReady)
      /\ UNCHANGED <<loaded, uploaded, weightsReady, recomputed>>
      /\ \/ /\ cache' = [cache EXCEPT ![Device] = Reset(Device, Capacity(request))]
            /\ pc' = "prefill"
            /\ UNCHANGED <<request, answer, position, hidden, generated, report, faulted>>
         \/ Fault /\ UNCHANGED cache
  BY DEF ResetCache, Serving, Device
<1>2. /\ request.prompt \in Seq(Nat) /\ Capacity(request) \in Nat
      /\ Len(request.prompt) > 0 /\ LocalShape /\ LocalRun
  BY <1>1, LocalFacts DEF LocalPc
<1>3. position = 0 /\ generated = <<>>
  BY <1>1 DEF CallInv, AnswerInv
<1>4. CASE /\ cache' = [cache EXCEPT ![Device] = Reset(Device, Capacity(request))]
           /\ pc' = "prefill"
           /\ UNCHANGED <<request, answer, position, hidden, generated, report, faulted>>
  <2> DEFINE c == Reset(Device, Capacity(request))
  <2>1. /\ Shaped(c) /\ c = [capacity |-> c.capacity, used |-> c.used, rows |-> c.rows]
        /\ Runs(c, request.prompt, 0, Capacity(request))
    BY <1>1, <1>2, ResetIsEmpty
  <2>2. cache' = [cache EXCEPT ![Device] = c]
    BY <1>4
  <2> HIDE DEF c
  <2>3. LocalShape' /\ cache'[Device] = c
    BY <1>1, <1>2, <2>1, <2>2, CacheChanges
  <2>4. Prefilling'
    BY <1>2, <1>3, <1>4, <2>1, <2>3 DEF Prefilling, Device, Capacity, Runs, Held
  <2>5. LocalRun'
    BY <1>1, <1>2, <1>4, <2>4 DEF LocalRun, LocalPc, Device
  <2> QED BY <1>1, <1>4, <2>3, <2>5, LocalGoesOn DEF LocalPc
<1>5. CASE Fault /\ UNCHANGED cache
  <2>1. LocalShape' /\ GraphShape'
    BY <1>1, <1>5 DEF CallInv, LocalShape, GraphShape, graphVars, Shaped, WeightCount
  <2> QED BY <1>1, <1>5, <2>1, FaultKeeps DEF LocalPc
<1> QED BY <1>1, <1>4, <1>5
(* A cache that holds the first p tokens of a text, and has room for the next. *)
Reads(c, text, p, room) ==
  Shaped(c) /\ text \in Seq(Nat) /\ p < Len(text) /\ p < c.capacity /\ Runs(c, text, p, room)

(* A cache that holds a whole text, and has room for one more token. *)
Appends(c, text, token, p, room) ==
  /\ Shaped(c) /\ text \in Seq(Nat) /\ token \in Nat
  /\ p = Len(text) /\ p < c.capacity /\ Runs(c, text, p, room)

(* The next token of a text, as the rows of any cache see it. *)
LEMMA PassReads ==
  ASSUME NEW c, NEW text, NEW p, NEW room, Reads(c, text, p, room)
  PROVE  LET last == Through(c.rows, c.capacity, text[p + 1], p)[Layers] IN
         /\ Places(last.rows, c.capacity)
         /\ HoldsIn(last.rows, c.capacity, text, p + 1, Layers)
         /\ last.hidden = SubSeq(text, 1, p + 1)
         /\ UsedAfter(c.used, p) = p + 1 /\ p + 1 \in Nat
PROOF
<1> DEFINE token == text[p + 1]
           last == Through(c.rows, c.capacity, token, p)[Layers]
<1>1. c.used = p /\ HoldsIn(c.rows, c.capacity, text, p, Layers) /\ p < c.capacity
      /\ c.capacity \in Nat /\ Places(c.rows, c.capacity) /\ p \in 0..(Len(text) - 1)
      /\ text \in Seq(Nat)
  BY DEF Reads, Runs, Held, Shaped
<1>2. /\ HoldsIn(last.rows, c.capacity, text, p + 1, Layers)
      /\ last.hidden = SubSeq(text, 1, p + 1)
  BY <1>1, ThroughHolds
<1>3. Layers \in 0..Layers
  BY LayersAssumption
<1>4. Places(last.rows, c.capacity)
  <2> HIDE DEF token
  <2> QED BY <1>1, <1>3, ThroughKeepsPlaces
<1>5. UsedAfter(c.used, p) = p + 1 /\ p + 1 \in Nat
  BY <1>1 DEF UsedAfter
<1> QED BY <1>2, <1>4, <1>5

(* A token appended to a text. *)
LEMMA PassAppends ==
  ASSUME NEW c, NEW text, NEW token, NEW p, NEW room, Appends(c, text, token, p, room)
  PROVE  LET last == Through(c.rows, c.capacity, token, p)[Layers] IN
         /\ Places(last.rows, c.capacity)
         /\ HoldsIn(last.rows, c.capacity, Append(text, token), p + 1, Layers)
         /\ last.hidden = Append(text, token)
         /\ UsedAfter(c.used, p) = p + 1 /\ p + 1 \in Nat
PROOF
<1> DEFINE last == Through(c.rows, c.capacity, token, p)[Layers]
<1>1. c.used = p /\ HoldsIn(c.rows, c.capacity, text, p, Layers) /\ p < c.capacity
      /\ c.capacity \in Nat /\ Places(c.rows, c.capacity) /\ p = Len(text) /\ p \in Nat
      /\ text \in Seq(Nat) /\ token \in Nat
  BY DEF Appends, Runs, Held, Shaped
<1>2. /\ HoldsIn(last.rows, c.capacity, Append(text, token), p + 1, Layers)
      /\ last.hidden = Append(text, token)
  BY <1>1, TokenRuns
<1>3. Layers \in 0..Layers
  BY LayersAssumption
<1>4. Places(last.rows, c.capacity)
  BY <1>1, <1>3, ThroughKeepsPlaces
<1>5. UsedAfter(c.used, p) = p + 1 /\ p + 1 \in Nat
  BY <1>1 DEF UsedAfter
<1> QED BY <1>2, <1>4, <1>5

(* The next token of a text that the cache holds so far. *)
LEMMA ForwardReads ==
  ASSUME NEW c, NEW text, NEW p, NEW room, Reads(c, text, p, room),
         c = [capacity |-> c.capacity, used |-> c.used, rows |-> c.rows],
         NEW step, step = Forward(c, text[p + 1], p)
  PROVE  /\ Shaped(step.cache) /\ Runs(step.cache, text, p + 1, room)
         /\ step.cache = [capacity |-> step.cache.capacity, used |-> step.cache.used,
                          rows |-> step.cache.rows]
         /\ step.hidden = SubSeq(text, 1, p + 1)
PROOF
<1> DEFINE token == text[p + 1]
<1>1. PICK last : last = Through(c.rows, c.capacity, token, p)[Layers]
  OBVIOUS
<1>2. /\ Places(last.rows, c.capacity)
      /\ HoldsIn(last.rows, c.capacity, text, p + 1, Layers)
      /\ last.hidden = SubSeq(text, 1, p + 1)
      /\ UsedAfter(c.used, p) = p + 1 /\ p + 1 \in Nat
  BY <1>1, PassReads
<1>3. Shaped(c) /\ c.capacity >= room
  BY DEF Reads, Runs
<1>4. /\ step.cache = [c EXCEPT !.rows = last.rows, !.used = UsedAfter(@, p)]
      /\ step.hidden = last.hidden
  BY <1>1 DEF Forward
<1>5. step.cache = [capacity |-> c.capacity, used |-> p + 1, rows |-> last.rows]
  BY <1>2, <1>4
<1>6. Shaped(step.cache) /\ Runs(step.cache, text, p + 1, room)
  BY <1>2, <1>3, <1>5 DEF Shaped, Runs, Held
<1>7. step.cache = [capacity |-> step.cache.capacity, used |-> step.cache.used,
                    rows |-> step.cache.rows]
  BY <1>5
<1> QED BY <1>2, <1>4, <1>6, <1>7

(* A token that is appended to the text the cache holds. *)
LEMMA ForwardAppends ==
  ASSUME NEW c, NEW text, NEW token, NEW p, NEW room, Appends(c, text, token, p, room),
         c = [capacity |-> c.capacity, used |-> c.used, rows |-> c.rows],
         NEW step, step = Forward(c, token, p)
  PROVE  /\ Shaped(step.cache) /\ Runs(step.cache, Append(text, token), p + 1, room)
         /\ step.cache = [capacity |-> step.cache.capacity, used |-> step.cache.used,
                          rows |-> step.cache.rows]
         /\ step.hidden = Append(text, token)
PROOF
<1>1. PICK last : last = Through(c.rows, c.capacity, token, p)[Layers]
  OBVIOUS
<1>2. /\ Places(last.rows, c.capacity)
      /\ HoldsIn(last.rows, c.capacity, Append(text, token), p + 1, Layers)
      /\ last.hidden = Append(text, token)
      /\ UsedAfter(c.used, p) = p + 1 /\ p + 1 \in Nat
  BY <1>1, PassAppends
<1>3. Shaped(c) /\ c.capacity >= room
  BY DEF Appends, Runs
<1>4. /\ step.cache = [c EXCEPT !.rows = last.rows, !.used = UsedAfter(@, p)]
      /\ step.hidden = last.hidden
  BY <1>1 DEF Forward
<1>5. step.cache = [capacity |-> c.capacity, used |-> p + 1, rows |-> last.rows]
  BY <1>2, <1>4
<1>6. Shaped(step.cache) /\ Runs(step.cache, Append(text, token), p + 1, room)
  BY <1>2, <1>3, <1>5 DEF Shaped, Runs, Held
<1>7. step.cache = [capacity |-> step.cache.capacity, used |-> step.cache.used,
                    rows |-> step.cache.rows]
  BY <1>5
<1> QED BY <1>2, <1>4, <1>6, <1>7

(* A kernel that fails leaves rows of this text among the others. *)
LEMMA ForwardFailsKeeps ==
  ASSUME CallInv, pc \in LocalPc, NEW token, ForwardFails(token), UNCHANGED graphVars
  PROVE  CallInv' /\ Visible
PROOF
<1>1. Fault /\ UNCHANGED <<loaded, uploaded, weightsReady, recomputed>> /\ LocalShape
  BY DEF ForwardFails, CallInv
<1>2. "mps" \in Local
  BY DEF Local
<1> DEFINE old == cache["mps"]
           pass == Through(old.rows, old.capacity, token, position)
<1>3. PICK k \in 0..Layers : cache' = [cache EXCEPT !["mps"].rows = pass[k].rows]
  BY DEF ForwardFails
<1>4. /\ Shaped(old)
      /\ old = [capacity |-> old.capacity, used |-> old.used, rows |-> old.rows]
  BY <1>1, <1>2 DEF LocalShape
<1>5. Places(pass[k].rows, old.capacity)
  BY <1>4, ThroughKeepsPlaces DEF Shaped
<1> DEFINE c == [old EXCEPT !.rows = pass[k].rows]
<1>6. cache' = [cache EXCEPT !["mps"] = c]
  BY <1>3
<1> HIDE DEF pass, old
<1>7. c = [capacity |-> old.capacity, used |-> old.used, rows |-> pass[k].rows]
  BY <1>4
<1> HIDE DEF c
<1>8. /\ Shaped(c)
      /\ c = [capacity |-> c.capacity, used |-> c.used, rows |-> c.rows]
  BY <1>4, <1>5, <1>7 DEF Shaped
<1>9. LocalShape'
  BY <1>1, <1>2, <1>6, <1>8, CacheChanges
<1>10. GraphShape'
  BY DEF CallInv, GraphShape, graphVars
<1> QED BY <1>1, <1>9, <1>10, FaultKeeps

(* One token of the prompt, or of the text that is recomputed. *)
LEMMA RunTokenKeeps ==
  ASSUME CallInv, RunToken, UNCHANGED graphVars
  PROVE  CallInv' /\ Visible
PROOF
<1>text. PICK text : text = Running
  OBVIOUS
<1>token. PICK token : token = text[position + 1]
  OBVIOUS
<1>c. PICK c : c = cache[Device]
  OBVIOUS
<1>step. PICK step : step = Forward(c, token, position)
  OBVIOUS
<1>1. pc \in {"prefill", "replay"} /\ pc \in LocalPc
  BY DEF RunToken, LocalPc
<1>2. /\ request \in Requests /\ request.prompt \in Seq(Nat)
      /\ Len(request.prompt) \in Nat /\ request.maxNewTokens \in Nat \ {0}
      /\ Capacity(request) \in Nat
      /\ Capacity(request) = Len(request.prompt) + request.maxNewTokens + 1
      /\ LocalShape /\ LocalRun
  BY <1>1, LocalFacts
<1>3. Device \in Local /\ loaded = request.dir /\ (Device = "mps" => weightsReady)
  BY <1>1, <1>2 DEF LocalRun, LocalPc
<1>4. /\ Shaped(c)
      /\ c = [capacity |-> c.capacity, used |-> c.used, rows |-> c.rows]
  BY <1>2, <1>3, <1>c DEF LocalShape
<1>5. CASE pc = "prefill"
  <2>1. Prefilling
    BY <1>2, <1>5 DEF LocalRun
  <2>2. text = request.prompt
    BY <1>2, <1>5, <1>text, PromptAndTokens DEF Running
  <2>3. /\ text \in Seq(Nat) /\ position \in Nat /\ position < Len(text)
        /\ Runs(c, text, position, Capacity(request))
        /\ position < c.capacity
    BY <1>2, <1>4, <1>c, <2>1, <2>2 DEF Prefilling, Runs, Shaped
  <2>4. /\ Shaped(step.cache)
        /\ Runs(step.cache, text, position + 1, Capacity(request))
        /\ step.cache = [capacity |-> step.cache.capacity, used |-> step.cache.used,
                         rows |-> step.cache.rows]
        /\ step.hidden = SubSeq(text, 1, position + 1)
    <3>1. Reads(c, text, position, Capacity(request))
      BY <1>4, <2>3 DEF Reads
    <3> QED BY <1>4, <1>token, <1>step, <3>1, ForwardReads
  <2>5. Fits(Device, position)
    BY <1>2, <1>3, <1>c, <2>3 DEF Fits, LocalShape
  <2>6. CASE ForwardFails(token)
    BY <1>1, <2>6, ForwardFailsKeeps
  <2>7. CASE /\ cache' = [cache EXCEPT ![Device] = step.cache]
             /\ hidden' = step.hidden
             /\ position' = position + 1
             /\ pc' = IF position + 1 = Len(text) THEN "decode" ELSE pc
             /\ UNCHANGED <<request, answer, generated, report, faulted,
                            loaded, uploaded, weightsReady, recomputed>>
    <3>1. LocalShape' /\ cache'[Device] = step.cache
      BY <1>2, <1>3, <2>4, <2>7, CacheChanges
    <3>2. generated = <<>> /\ recomputed = <<>>
      BY <1>2, <1>5, <2>1 DEF Prefilling, LocalRun
    <3>3. CASE position + 1 = Len(text)
      <4>1. hidden' = request.prompt
        BY <2>2, <2>3, <2>4, <2>7, <3>3, SubSeqFull
      <4>2. request.prompt \o <<>> = request.prompt /\ Len(<<>>) = 0
        BY <1>2, PromptAndTokens
      <4>3. Generating(request, <<>>)
        BY <1>2, GenerationBegins
      <4>4. /\ position' = Len(request.prompt) + 0
            /\ Runs(cache'[Device], request.prompt, position', Capacity(request))
        BY <1>2, <2>2, <2>4, <2>7, <3>1, <3>3
      <4>5. Decoding'
        BY <2>7, <3>2, <4>1, <4>2, <4>3, <4>4
        DEF Decoding, Device, Capacity, Generating, After, Runs, Held
      <4>6. LocalRun' /\ pc' = "decode"
        BY <1>3, <2>7, <3>2, <3>3, <4>5 DEF LocalRun, LocalPc, Device
      <4> QED BY <1>1, <2>7, <3>1, <4>6, LocalGoesOn DEF LocalPc
    <3>4. CASE position + 1 # Len(text)
      <4>1. position' < Len(request.prompt)
        BY <2>2, <2>3, <2>7, <3>4
      <4>2. Prefilling'
        BY <2>2, <2>4, <2>7, <3>1, <3>2, <4>1
        DEF Prefilling, Device, Capacity, Runs, Held
      <4>3. LocalRun' /\ pc' = "prefill"
        BY <1>3, <1>5, <2>7, <3>2, <3>4, <4>2 DEF LocalRun, LocalPc, Device
      <4> QED BY <1>1, <2>7, <3>1, <4>3, LocalGoesOn DEF LocalPc
    <3> QED BY <3>3, <3>4
  <2> QED BY <1>5, <2>5, <2>6, <2>7, <1>text, <1>token, <1>c, <1>step DEF RunToken
<1>6. CASE pc = "replay"
  <2>1. Verifying
    BY <1>2, <1>6 DEF LocalRun
  <2> DEFINE room == Len(request.prompt) + Len(recomputed) + 1
  <2>2. text = request.prompt \o recomputed
    BY <1>6, <1>text DEF Running
  <2>3. /\ text \in Seq(Nat) /\ recomputed \in Seq(Nat) /\ Len(recomputed) \in Nat
        /\ Len(text) = Len(request.prompt) + Len(recomputed)
    BY <1>2, <1>6, <2>1, <2>2, PromptAndTokens DEF Verifying, Generating
  <2>4. /\ position \in Nat /\ position < Len(text) /\ room \in Nat
        /\ Runs(c, text, position, room) /\ position < c.capacity
    BY <1>2, <1>4, <1>6, <1>c, <2>1, <2>2, <2>3 DEF Verifying, Runs, Shaped
  <2> HIDE DEF room
  <2>5. /\ Shaped(step.cache) /\ Runs(step.cache, text, position + 1, room)
        /\ step.cache = [capacity |-> step.cache.capacity, used |-> step.cache.used,
                         rows |-> step.cache.rows]
        /\ step.hidden = SubSeq(text, 1, position + 1)
    <3>1. Reads(c, text, position, room)
      BY <1>4, <2>3, <2>4 DEF Reads
    <3> QED BY <1>4, <1>token, <1>step, <3>1, ForwardReads
  <2>6. Fits(Device, position)
    BY <1>2, <1>3, <1>c, <2>4 DEF Fits, LocalShape
  <2>7. CASE ForwardFails(token)
    BY <1>1, <2>7, ForwardFailsKeeps
  <2>8. CASE /\ cache' = [cache EXCEPT ![Device] = step.cache]
             /\ hidden' = step.hidden
             /\ position' = position + 1
             /\ pc' = IF position + 1 = Len(text) THEN "reselect" ELSE pc
             /\ UNCHANGED <<request, answer, generated, report, faulted,
                            loaded, uploaded, weightsReady, recomputed>>
    <3>1. LocalShape' /\ cache'[Device] = step.cache
      BY <1>2, <1>3, <2>5, <2>8, CacheChanges
    <3>2. Verifying'
      <4>1. /\ pc' \in {"replay", "reselect"}
            /\ pc' = "reselect" => hidden' = request.prompt \o recomputed
            /\ pc' = "replay" => position' < Len(request.prompt \o recomputed)
        <5>1. pc' = IF position + 1 = Len(text) THEN "reselect" ELSE pc
          BY <2>8
        <5>2. position + 1 = Len(text) => SubSeq(text, 1, position + 1) = text
          BY <2>3, SubSeqFull
        <5>3. position + 1 # Len(text) => position + 1 < Len(text)
          BY <2>3, <2>4
        <5> QED BY <1>6, <2>2, <2>5, <2>8, <5>1, <5>2, <5>3
      <4>2. Runs(cache'[Device], request.prompt \o recomputed, position',
                 Len(request.prompt) + Len(recomputed) + 1)
        BY <2>2, <2>5, <2>8, <3>1 DEF room
      <4> QED BY <1>6, <2>1, <2>8, <4>1, <4>2
              DEF Verifying, Device, Generating, After, Runs, Held
    <3>3. pc' \in {"replay", "reselect"}
      BY <1>6, <2>8
    <3>4. LocalRun'
      BY <1>3, <2>8, <3>2, <3>3 DEF LocalRun, LocalPc, Device
    <3> QED BY <1>1, <2>8, <3>1, <3>3, <3>4, LocalGoesOn DEF LocalPc
  <2> QED BY <1>6, <2>6, <2>7, <2>8, <1>text, <1>token, <1>c, <1>step DEF RunToken
<1> QED BY <1>1, <1>5, <1>6
(* What is selected in a state that stands for the text so far. *)
LEMMA SelectedIsNext ==
  ASSUME request \in Requests, NEW so \in Seq(Nat), hidden = request.prompt \o so, NEW n
  PROVE  Selected(request.dir, n)
           = NextToken(request.dir, request.seed, request.prompt \o so, n)
PROOF
<1>1. hidden # Garbled
  BY PromptAndTokens, MarksAssumption
<1> QED BY <1>1 DEF Selected

(* One more token after a prompt and the tokens so far. *)
LEMMA OneMoreToken ==
  ASSUME NEW r \in Requests, NEW so \in Seq(Nat), NEW t \in Nat
  PROVE  /\ r.prompt \o Append(so, t) = Append(r.prompt \o so, t)
         /\ Append(so, t) \in Seq(Nat) /\ Len(Append(so, t)) = Len(so) + 1
PROOF
<1>1. r.prompt \o Append(so, t) = Append(r.prompt \o so, t)
  BY PromptAndTokens
<1>2. Append(so, t) \in Seq(Nat) /\ Len(Append(so, t)) = Len(so) + 1
  OBVIOUS
<1> QED BY <1>1, <1>2

(* Room for the next token of a text within the limit. *)
LEMMA DecodeTokenKeeps ==
  ASSUME TokensAreNumbers, CallInv, DecodeToken, UNCHANGED graphVars
  PROVE  CallInv' /\ Visible
PROOF
<1>0. PICK token : token = Selected(loaded, Len(generated) + 1)
  OBVIOUS
<1>c. PICK c : c = cache[Device]
  OBVIOUS
<1>step. PICK step : step = Forward(c, token, position)
  OBVIOUS
<1>text. PICK text : text = request.prompt \o generated
  OBVIOUS
<1>1. pc = "decode" /\ pc \in LocalPc /\ Len(generated) < request.maxNewTokens
      /\ token \notin EosTokens
  BY <1>0 DEF DecodeToken, LocalPc
<1>2. /\ request \in Requests /\ request.maxNewTokens \in Nat
      /\ Len(request.prompt) \in Nat /\ Capacity(request) \in Nat
      /\ Capacity(request) = Len(request.prompt) + request.maxNewTokens + 1
      /\ LocalShape /\ LocalRun
  BY <1>1, LocalFacts
<1>3. /\ Device \in Local /\ loaded = request.dir /\ (Device = "mps" => weightsReady)
      /\ recomputed = <<>> /\ Decoding
  BY <1>1, <1>2 DEF LocalRun, LocalPc
<1>4. /\ Shaped(c)
      /\ c = [capacity |-> c.capacity, used |-> c.used, rows |-> c.rows]
  BY <1>2, <1>3, <1>c DEF LocalShape
<1>5. generated \in Seq(Nat) /\ Generating(request, generated)
  BY <1>3 DEF Decoding, Generating
<1>6. /\ text \in Seq(Nat) /\ Len(generated) \in Nat
      /\ Len(text) = Len(request.prompt) + Len(generated)
  BY <1>2, <1>5, <1>text, PromptAndTokens
<1>7. token = NextToken(request.dir, request.seed, text, Len(generated) + 1)
  BY <1>0, <1>2, <1>3, <1>5, <1>text, SelectedIsNext DEF Decoding
<1>8. token \in Nat /\ Generating(request, Append(generated, token))
  BY <1>1, <1>2, <1>5, <1>7, <1>text, GenerationGoesOn
<1>9. request.prompt \o Append(generated, token) = Append(text, token)
      /\ Len(Append(generated, token)) = Len(generated) + 1
  BY <1>2, <1>5, <1>8, <1>text, OneMoreToken
<1>10. /\ position = Len(text) /\ position \in Nat
       /\ Runs(c, text, position, Capacity(request)) /\ position < c.capacity
  <2>1. position = Len(text) /\ Runs(c, text, position, Capacity(request))
    BY <1>3, <1>6, <1>c, <1>text DEF Decoding
  <2>2. c.capacity \in Nat /\ c.capacity >= Capacity(request)
    BY <1>4, <2>1 DEF Shaped, Runs
  <2> QED BY <1>1, <1>2, <1>6, <2>1, <2>2
<1>11. Fits(Device, position)
  BY <1>2, <1>3, <1>10, <1>c DEF Fits, LocalShape
<1>12. CASE ForwardFails(token)
  BY <1>1, <1>12, ForwardFailsKeeps
<1>13. CASE /\ generated' = Append(generated, token)
            /\ cache' = [cache EXCEPT ![Device] = step.cache]
            /\ hidden' = step.hidden
            /\ position' = position + 1
            /\ UNCHANGED <<request, answer, pc, report, faulted,
                           loaded, uploaded, weightsReady, recomputed>>
  <2>1. /\ Shaped(step.cache)
        /\ Runs(step.cache, Append(text, token), position + 1, Capacity(request))
        /\ step.cache = [capacity |-> step.cache.capacity, used |-> step.cache.used,
                         rows |-> step.cache.rows]
        /\ step.hidden = Append(text, token)
    <3>1. /\ token \in Nat /\ text \in Seq(Nat) /\ position = Len(text)
          /\ position < c.capacity /\ Runs(c, text, position, Capacity(request))
      BY <1>6, <1>8, <1>10
    <3>2. Appends(c, text, token, position, Capacity(request))
      BY <1>4, <3>1 DEF Appends
    <3> QED BY <1>4, <1>step, <3>2, ForwardAppends
  <2>2. LocalShape' /\ cache'[Device] = step.cache
    BY <1>2, <1>3, <1>13, <2>1, CacheChanges
  <2> DEFINE new == Append(generated, token)
  <2>3. Generating(request, new) /\ generated' = new
    BY <1>8, <1>13
  <2>4. /\ hidden' = request.prompt \o new
        /\ position' = Len(request.prompt) + Len(new)
        /\ Runs(cache'[Device], request.prompt \o new, position', Capacity(request))
    <3>1. request.prompt \o new = Append(text, token) /\ Len(new) = Len(generated) + 1
      BY <1>9
    <3> HIDE DEF new
    <3>2. hidden' = request.prompt \o new
      BY <1>13, <2>1, <3>1
    <3>3. position' = position + 1
      BY <1>13
    <3>4. position' = Len(request.prompt) + Len(new)
      <4>1. position = Len(request.prompt) + Len(generated)
        BY <1>6, <1>10
      <4>2. Len(request.prompt) \in Nat /\ Len(generated) \in Nat
        BY <1>2, <1>6
      <4>3. Len(new) = Len(generated) + 1
        BY <3>1
      <4>4. \A a, b \in Nat : (a + b) + 1 = a + (b + 1)
        OBVIOUS
      <4> QED BY <3>3, <4>1, <4>2, <4>3, <4>4, Zenon
    <3>5. Runs(cache'[Device], request.prompt \o new, position', Capacity(request))
      BY <2>1, <2>2, <3>1, <3>3
    <3> QED BY <3>2, <3>4, <3>5
  <2> HIDE DEF new
  <2>5. Decoding'
    BY <1>13, <2>3, <2>4 DEF Decoding, Device, Capacity, Generating, After, Runs, Held
  <2>6. LocalRun' /\ pc' = "decode"
    BY <1>1, <1>3, <1>13, <2>5 DEF LocalRun, LocalPc, Device
  <2> QED BY <1>1, <1>13, <2>2, <2>6, LocalGoesOn DEF LocalPc
<1> QED BY <1>0, <1>11, <1>12, <1>13, <1>c, <1>step DEF DecodeToken

(* A call that is answered with its text, and the statistics of its rows.   *)
LEMMA AnsweredKeeps ==
  ASSUME CallInv, pc \in LocalPc, pc' = "idle", UNCHANGED request, UNCHANGED graphVars,
         LocalShape', generated \in Seq(Nat),
         answer' = [status |-> "ok", tokens |-> generated,
                    finish |-> Finished(request, generated)],
         report'.used = Len(request.prompt) + Len(generated),
         report'.used < report'.capacity, report'.capacity \in Nat
  PROVE  CallInv'
PROOF
<1>1. request \in Requests /\ Len(request.prompt) \in Nat /\ Len(generated) \in Nat
  BY LocalFacts
<1>2. answer'.status = "ok" /\ answer'.tokens = generated
  OBVIOUS
<1>3. Reported(Len(request.prompt) + Len(answer.tokens))'
  BY <1>1, <1>2 DEF Reported
<1>4. AnswerInv'
  BY <1>1, <1>2, <1>3 DEF AnswerInv, LocalPc, GraphPc
<1>5. LocalRun' /\ GraphRun'
  BY DEF LocalRun, GraphRun, LocalPc, GraphPc
<1>6. GraphShape'
  BY DEF CallInv, GraphShape, graphVars
<1> QED BY <1>4, <1>5, <1>6 DEF CallInv

(* The text is complete: it is answered, or recomputed first. *)
LEMMA DecodeEndsKeeps ==
  ASSUME TokensAreNumbers, CallInv, DecodeEnds, UNCHANGED graphVars
  PROVE  CallInv' /\ Visible
PROOF
<1> DEFINE c == cache[Device]
<1>1. /\ pc = "decode" /\ pc \in LocalPc
      /\ report' = [used |-> c.used, capacity |-> c.capacity]
      /\ UNCHANGED <<request, position, hidden, generated, faulted, modelVars>>
      /\ \/ Len(generated) = request.maxNewTokens
         \/ Selected(loaded, Len(generated) + 1) \in EosTokens
      /\ IF request.verify THEN pc' = "verify" /\ UNCHANGED answer
         ELSE Respond(generated, Finished(request, generated))
  BY DEF DecodeEnds, LocalPc
<1>2. /\ request \in Requests /\ request.maxNewTokens \in Nat
      /\ Len(request.prompt) \in Nat /\ Capacity(request) \in Nat
      /\ Capacity(request) = Len(request.prompt) + request.maxNewTokens + 1
      /\ LocalShape /\ LocalRun /\ answer = Waiting
  BY <1>1, LocalFacts
<1>3. /\ Device \in Local /\ loaded = request.dir /\ (Device = "mps" => weightsReady)
      /\ recomputed = <<>> /\ Decoding
  BY <1>1, <1>2 DEF LocalRun, LocalPc
<1>4. Shaped(c)
  BY <1>2, <1>3 DEF LocalShape
<1>5. /\ generated \in Seq(Nat) /\ Generating(request, generated)
      /\ Len(generated) \in Nat /\ Len(generated) <= request.maxNewTokens
  BY <1>3 DEF Decoding, Generating
<1>6. Service!Generation(request) = generated
  <2>1. CASE Len(generated) = request.maxNewTokens
    BY <1>2, <1>5, <2>1, GenerationEnds
  <2>2. CASE Len(generated) # request.maxNewTokens
    <3>1. Selected(loaded, Len(generated) + 1)
            = NextToken(request.dir, request.seed, request.prompt \o generated,
                        Len(generated) + 1)
      BY <1>2, <1>3, <1>5, SelectedIsNext DEF Decoding
    <3>2. Len(generated) < request.maxNewTokens
      BY <1>2, <1>5, <2>2
    <3> QED BY <1>1, <1>2, <1>5, <2>2, <3>1, <3>2, GenerationGoesOn
  <2> QED BY <2>1, <2>2
<1>7. /\ report'.used = Len(request.prompt) + Len(generated)
      /\ report'.used < report'.capacity
      /\ report'.used \in Nat /\ report'.capacity \in Nat
  <2>1. c.used = Len(request.prompt) + Len(generated) /\ c.capacity >= Capacity(request)
        /\ c.capacity \in Nat
    BY <1>3, <1>4 DEF Decoding, Runs, Held, Shaped
  <2> HIDE DEF c
  <2> QED BY <1>1, <1>2, <1>5, <2>1
<1>8. LocalShape'
  BY <1>1, <1>2 DEF LocalShape, modelVars, Shaped, WeightCount
<1>9. CASE request.verify
  <2>1. pc' = "verify" /\ UNCHANGED answer /\ recomputed' = <<>>
    BY <1>1, <1>3, <1>9 DEF modelVars
  <2>2. Generating(request, <<>>)
    BY <1>2, GenerationBegins
  <2>3. Verifying'
    BY <1>1, <1>5, <1>6, <1>7, <2>1, <2>2
    DEF Verifying, Generating, After, Service!Generation
  <2>4. LocalRun'
    BY <1>1, <1>3, <2>1, <2>3 DEF LocalRun, LocalPc, Device, modelVars
  <2> QED BY <1>1, <1>8, <2>1, <2>4, LocalGoesOn DEF LocalPc
<1>10. CASE ~request.verify
  <2>1. /\ answer' = [status |-> "ok", tokens |-> generated,
                      finish |-> Finished(request, generated)]
        /\ pc' = "idle"
    BY <1>1, <1>10 DEF Respond
  <2>2. answer' = Service!Text(request, Service!Generation(request))
    BY <1>6, <2>1 DEF Service!Text, Service!FinishReason, Finished
  <2>3. Visible
    BY <1>1, <1>2, <2>1, <2>2, AnswersVisible
  <2> QED BY <1>1, <1>2, <1>5, <1>7, <1>8, <2>1, <2>3, AnsweredKeeps
<1> QED BY <1>9, <1>10
(* What is said of a complete text stays true while it is recomputed. *)
LEMMA TextStays ==
  ASSUME Verifying, UNCHANGED <<request, generated, report>>
  PROVE  /\ (generated = Service!Generation(request))' /\ Generating(request, generated)'
         /\ (report.used = Len(request.prompt) + Len(generated))'
         /\ (report.used < report.capacity /\ report.capacity \in Nat)'
PROOF
<1>1. (generated = Service!Generation(request))'
  <2>1. Service!Generation(request)' = Service!Generation(request)
    BY DEF Service!Generation
  <2> QED BY <2>1 DEF Verifying
<1>2. Generating(request, generated)'
  BY DEF Verifying, Generating, After
<1>3. /\ (report.used = Len(request.prompt) + Len(generated))'
      /\ (report.used < report.capacity /\ report.capacity \in Nat)'
  BY DEF Verifying
<1> QED BY <1>1, <1>2, <1>3

(* The cache is reset for the prefix that is recomputed. *)
LEMMA ReplayKeeps ==
  ASSUME CallInv, Replay, UNCHANGED graphVars
  PROVE  CallInv' /\ Visible
PROOF
<1> DEFINE room == Len(request.prompt) + Len(recomputed) + 1
           c == Reset(Device, room)
<1>1. /\ pc = "verify" /\ pc \in LocalPc /\ pc' = "replay" /\ position' = 0
      /\ Len(recomputed) < request.maxNewTokens
      /\ cache' = [cache EXCEPT ![Device] = c]
      /\ UNCHANGED <<request, answer, hidden, generated, report, faulted,
                     loaded, uploaded, weightsReady, recomputed>>
  BY DEF Replay, LocalPc
<1>2. /\ request \in Requests /\ Len(request.prompt) \in Nat /\ Len(request.prompt) > 0
      /\ LocalShape /\ LocalRun
  BY <1>1, LocalFacts
<1>3. Device \in Local /\ loaded = request.dir /\ (Device = "mps" => weightsReady) /\ Verifying
  BY <1>1, <1>2 DEF LocalRun, LocalPc
<1>4. recomputed \in Seq(Nat) /\ Len(recomputed) \in Nat
  BY <1>1, <1>3 DEF Verifying, Generating
<1>5. Len(request.prompt \o recomputed) > 0
  <2>1. Len(request.prompt \o recomputed) = Len(request.prompt) + Len(recomputed)
    BY <1>2, <1>4, PromptAndTokens
  <2> QED BY <1>2, <1>4, <2>1
<1>6. room \in Nat
  BY <1>2, <1>4
<1> HIDE DEF room
<1>7. /\ Shaped(c) /\ c = [capacity |-> c.capacity, used |-> c.used, rows |-> c.rows]
      /\ Runs(c, request.prompt \o recomputed, 0, room)
  BY <1>2, <1>3, <1>6, ResetIsEmpty
<1> HIDE DEF c
<1>8. LocalShape' /\ cache'[Device] = c
  BY <1>1, <1>2, <1>3, <1>7, CacheChanges
<1>9. Verifying'
  <2>1. /\ (generated = Service!Generation(request))' /\ Generating(request, generated)'
        /\ (report.used = Len(request.prompt) + Len(generated))'
        /\ (report.used < report.capacity /\ report.capacity \in Nat)'
    BY <1>1, <1>3, TextStays
  <2>2. Generating(request, recomputed)'
    BY <1>1, <1>3 DEF Verifying, Generating, After
  <2>3. Runs(cache[Device], request.prompt \o recomputed, position,
             Len(request.prompt) + Len(recomputed) + 1)'
    BY <1>1, <1>7, <1>8 DEF Device, Runs, Held, room
  <2> QED BY <1>1, <1>5, <2>1, <2>2, <2>3 DEF Verifying
<1>10. LocalRun'
  BY <1>1, <1>3, <1>9 DEF LocalRun, LocalPc, Device
<1> QED BY <1>1, <1>8, <1>10, LocalGoesOn DEF LocalPc

(* The token after the prefix is that of the generation. *)
LEMMA ReselectKeeps ==
  ASSUME TokensAreNumbers, CallInv, Reselect, UNCHANGED graphVars
  PROVE  CallInv' /\ Visible
PROOF
<1>0. PICK token : token = Selected(loaded, Len(recomputed) + 1)
  OBVIOUS
<1>1. /\ pc = "reselect" /\ pc \in LocalPc
      /\ \/ token \in EosTokens /\ pc' = "compare" /\ UNCHANGED recomputed
         \/ token \notin EosTokens /\ pc' = "verify" /\ recomputed' = Append(recomputed, token)
      /\ UNCHANGED <<request, answer, position, hidden, generated, report, faulted,
                     loaded, uploaded, weightsReady, cache>>
  BY <1>0 DEF Reselect, LocalPc
<1>2. request \in Requests /\ LocalShape /\ LocalRun
  BY <1>1, LocalFacts
<1>3. Device \in Local /\ loaded = request.dir /\ (Device = "mps" => weightsReady) /\ Verifying
  BY <1>1, <1>2 DEF LocalRun, LocalPc
<1>4. /\ Generating(request, recomputed) /\ recomputed \in Seq(Nat)
      /\ Len(recomputed) < request.maxNewTokens /\ hidden = request.prompt \o recomputed
  BY <1>1, <1>3 DEF Verifying, Generating
<1>5. token = NextToken(request.dir, request.seed, request.prompt \o recomputed,
                        Len(recomputed) + 1)
  BY <1>0, <1>2, <1>3, <1>4, SelectedIsNext
<1>6. /\ token \notin EosTokens => Generating(request, Append(recomputed, token))
      /\ token \in EosTokens => Service!Generation(request) = recomputed
  BY <1>2, <1>4, <1>5, GenerationGoesOn
<1>7. /\ pc' = "verify" => Generating(request, recomputed')
      /\ pc' = "compare" => recomputed' = Service!Generation(request)
      /\ pc' \in {"verify", "compare"}
  BY <1>1, <1>6
<1>8. /\ pc' = "verify" => Generating(request, recomputed)'
      /\ pc' = "compare" => (recomputed = Service!Generation(request))'
  BY <1>1, <1>7 DEF Generating, After, Service!Generation
<1>9. Verifying'
  <2>1. /\ (generated = Service!Generation(request))' /\ Generating(request, generated)'
        /\ (report.used = Len(request.prompt) + Len(generated))'
        /\ (report.used < report.capacity /\ report.capacity \in Nat)'
    BY <1>1, <1>3, TextStays
  <2> QED BY <1>7, <1>8, <2>1 DEF Verifying
<1>10. LocalShape'
  BY <1>1, <1>2 DEF LocalShape, Shaped, WeightCount
<1>11. LocalRun'
  BY <1>1, <1>3, <1>7, <1>9 DEF LocalRun, LocalPc, Device
<1> QED BY <1>1, <1>7, <1>10, <1>11, LocalGoesOn DEF LocalPc

(* What was recomputed is the generation too. *)
LEMMA CompareKeeps ==
  ASSUME CallInv, Compare, UNCHANGED graphVars
  PROVE  CallInv' /\ Visible
PROOF
<1>1. /\ pc \in {"verify", "compare"} /\ pc \in LocalPc
      /\ pc = "verify" => Len(recomputed) = request.maxNewTokens
      /\ UNCHANGED <<faulted, modelVars>>
      /\ IF recomputed = generated
         THEN /\ Respond(generated, Finished(request, generated))
              /\ UNCHANGED <<request, position, hidden, generated, report, calls>>
         ELSE Fail
  BY DEF Compare, LocalPc
<1>2. request \in Requests /\ LocalShape /\ LocalRun /\ answer = Waiting
  BY <1>1, LocalFacts
<1>3. Verifying
  BY <1>1, <1>2 DEF LocalRun
<1>4. /\ generated = Service!Generation(request) /\ generated \in Seq(Nat)
      /\ report.used = Len(request.prompt) + Len(generated)
      /\ report.used < report.capacity /\ report.capacity \in Nat
  BY <1>3 DEF Verifying, Generating
<1>5. recomputed = generated
  <2>1. CASE pc = "compare"
    BY <1>3, <2>1 DEF Verifying
  <2>2. CASE pc = "verify"
    BY <1>1, <1>2, <1>3, <1>4, <2>2, GenerationEnds DEF Verifying
  <2> QED BY <1>1, <2>1, <2>2
<1>6. /\ answer' = [status |-> "ok", tokens |-> generated,
                    finish |-> Finished(request, generated)]
      /\ pc' = "idle" /\ UNCHANGED <<request, report>>
  BY <1>1, <1>5 DEF Respond
<1>7. answer' = Service!Text(request, Service!Generation(request))
  BY <1>4, <1>6 DEF Service!Text, Service!FinishReason, Finished
<1>8. Visible
  BY <1>2, <1>6, <1>7, AnswersVisible
<1>9. LocalShape'
  BY <1>1, <1>2 DEF LocalShape, modelVars, Shaped, WeightCount
<1> QED BY <1>1, <1>4, <1>6, <1>8, <1>9, AnsweredKeeps
-----------------------------------------------------------------------------
(* What the MPSGraph backend does, the CPU's caches do not notice. *)
LEMMA QuietLocal ==
  ASSUME CallInv, UNCHANGED modelVars, pc' \notin LocalPc
  PROVE  LocalShape' /\ LocalRun'
PROOF
<1>1. LocalShape'
  BY DEF CallInv, LocalShape, modelVars, Shaped, WeightCount
<1>2. LocalRun'
  BY DEF LocalRun, LocalPc
<1> QED BY <1>1, <1>2

(* A step of the MPSGraph backend that goes on with its call. *)
LEMMA GraphGoesOn ==
  ASSUME CallInv, pc \in GraphPc, pc' \in GraphPc \ {"lookup"},
         UNCHANGED <<request, answer, faulted>>, UNCHANGED modelVars,
         pc' = "create" => position' = 0 /\ generated' = <<>>, GraphShape', GraphRun'
  PROVE  CallInv' /\ Visible
PROOF
<1>1. answer = Waiting /\ request \in Requests /\ ~Refused(request) /\ answer.status = "none"
  BY DEF CallInv, AnswerInv, Waiting
<1>2. AnswerInv'
  BY <1>1 DEF CallInv, AnswerInv, GraphPc, LocalPc
<1>3. LocalShape' /\ LocalRun'
  BY QuietLocal DEF GraphPc, LocalPc
<1>4. Visible
  BY DEF Visible
<1> QED BY <1>2, <1>3, <1>4 DEF CallInv

(* The facts of a call that is being served by MPSGraph. *)
LEMMA GraphFacts ==
  ASSUME CallInv, pc \in GraphPc
  PROVE  /\ request \in Requests /\ request.prompt \in Seq(Nat)
         /\ request.maxNewTokens \in Nat \ {0}
         /\ Len(request.prompt) \in Nat /\ Len(request.prompt) > 0
         /\ Capacity(request) \in Nat
         /\ Capacity(request) = Len(request.prompt) + request.maxNewTokens + 1
         /\ GraphShape /\ GraphRun /\ answer = Waiting
PROOF
<1>1. /\ request \in Requests /\ ~Refused(request) /\ GraphShape /\ GraphRun
      /\ answer = Waiting
  BY DEF CallInv, AnswerInv
<1>2. /\ request.prompt \in Seq(Nat) /\ request.maxNewTokens \in Nat
      /\ request.prompt # <<>> /\ request.maxNewTokens # 0
  BY <1>1, RequestsAssumption DEF Refused
<1>3. Len(request.prompt) \in Nat /\ Len(request.prompt) > 0
  BY <1>2
<1> QED BY <1>1, <1>2, <1>3 DEF Capacity

(* A compilation adds to what was compiled. *)
LEMMA CompiledStaysWarm ==
  ASSUME NEW s, WarmSlot(s), NEW capacity, NEW p
  PROVE  LET t == Compiled(s, capacity, p) IN WarmSlot(t) /\ t.dir = s.dir
PROOF
<1> DEFINE t == Compiled(s, capacity, p)
<1>1. s = [dir |-> s.dir, compiled |-> s.compiled, warmedCapacity |-> s.warmedCapacity,
           warmedMaxNewTokens |-> s.warmedMaxNewTokens]
  BY DEF WarmSlot
<1>2. t = [dir |-> s.dir, compiled |-> s.compiled \cup {<<capacity, p>>},
           warmedCapacity |-> s.warmedCapacity, warmedMaxNewTokens |-> s.warmedMaxNewTokens]
  BY <1>1 DEF Compiled
<1> HIDE DEF t
<1>3. /\ t = [dir |-> t.dir, compiled |-> t.compiled, warmedCapacity |-> t.warmedCapacity,
              warmedMaxNewTokens |-> t.warmedMaxNewTokens]
      /\ t.dir = s.dir /\ t.warmedCapacity = s.warmedCapacity
      /\ s.compiled \subseteq t.compiled
  BY <1>2
<1>4. WarmSlot(t)
  BY <1>3 DEF WarmSlot
<1> QED BY <1>3, <1>4 DEF t

(* The context of the request's directory. *)
LEMMA LookupKeeps ==
  ASSUME CallInv, LookupSlot, UNCHANGED modelVars
  PROVE  CallInv' /\ Visible
PROOF
<1>1. /\ pc = "lookup" /\ pc \in GraphPc /\ pc' = "create"
      /\ UNCHANGED <<request, answer, position, generated, faulted>>
      /\ slot' = IF slot # NoCacheYet /\ slot.dir = request.dir
                 THEN slot ELSE NewSlot(request.dir)
  BY DEF LookupSlot, GraphPc
<1>2. GraphShape /\ position = 0 /\ generated = <<>>
  BY <1>1 DEF CallInv, AnswerInv
<1>3. WarmSlot(NewSlot(request.dir)) /\ NewSlot(request.dir).dir = request.dir
  BY DEF WarmSlot, NewSlot
<1>4. WarmSlot(slot') /\ slot'.dir = request.dir
  <2> HIDE DEF NewSlot
  <2>1. CASE slot # NoCacheYet /\ slot.dir = request.dir
    BY <1>1, <1>2, <2>1 DEF GraphShape
  <2>2. CASE ~(slot # NoCacheYet /\ slot.dir = request.dir)
    BY <1>1, <1>3, <2>2
  <2> QED BY <2>1, <2>2
<1>5. GraphShape'
  BY <1>4 DEF GraphShape, WarmSlot
<1>6. GraphRun'
  BY <1>1, <1>4 DEF GraphRun, GraphPc, WarmSlot
<1> QED BY <1>1, <1>2, <1>5, <1>6, GraphGoesOn DEF GraphPc

(* The state of the run has room for the whole text. *)
LEMMA CreateKeeps ==
  ASSUME CallInv, CreateRun, UNCHANGED modelVars
  PROVE  CallInv' /\ Visible
PROOF
<1>1. /\ pc = "create" /\ pc \in GraphPc /\ pc' = "graph_prefill"
      /\ run' = FreshRun(TotalCapacity(request))
      /\ UNCHANGED <<request, answer, position, generated, faulted, slot>>
  BY DEF CreateRun, GraphPc
<1>2. /\ request \in Requests /\ Len(request.prompt) > 0 /\ Capacity(request) \in Nat
      /\ Capacity(request) = Len(request.prompt) + request.maxNewTokens + 1
      /\ GraphShape /\ GraphRun
  BY <1>1, GraphFacts
<1>3. position = 0 /\ generated = <<>>
  BY <1>1 DEF CallInv, AnswerInv
<1> DEFINE room == TotalCapacity(request)
<1>4. room \in Nat /\ room >= Capacity(request)
  BY <1>2, BucketIsEnough DEF TotalCapacity
<1> HIDE DEF room
<1>5. run' = [capacity |-> room, used |-> 0, rows |-> EmptyRows(room),
              tokens |-> [n \in 0..(room - 1) |-> 0], status |-> InitialStatus]
  BY <1>1 DEF FreshRun, room
<1>6. Places(EmptyRows(room), room)
  BY DEF Places, EmptyRows
<1>7. \A text : HoldsIn(EmptyRows(room), room, text, 0, Layers)
  BY DEF HoldsIn
<1>8. RunShape'
  BY <1>1, <1>4, <1>5, <1>6 DEF RunShape, Shaped, Capacity
<1>9. GraphPrefilling'
  BY <1>1, <1>2, <1>3, <1>4, <1>5, <1>7 DEF GraphPrefilling, Runs, Held, Capacity
<1>10. GraphShape'
  BY <1>1, <1>2 DEF GraphShape, WarmSlot
<1>11. GraphRun'
  BY <1>1, <1>2, <1>8, <1>9 DEF GraphRun, GraphPc, WarmSlot
<1> QED BY <1>1, <1>10, <1>11, GraphGoesOn DEF GraphPc
(* One token of the prompt. *)
LEMMA GraphPrefillKeeps ==
  ASSUME CallInv, GraphPrefill, UNCHANGED modelVars
  PROVE  CallInv' /\ Visible
PROOF
<1>0. PICK token : token = request.prompt[position + 1]
  OBVIOUS
<1>1. pc = "graph_prefill" /\ pc \in GraphPc
  BY DEF GraphPrefill, GraphPc
<1>2. /\ request \in Requests /\ request.prompt \in Seq(Nat)
      /\ request.maxNewTokens \in Nat \ {0}
      /\ Len(request.prompt) \in Nat /\ Capacity(request) \in Nat
      /\ Capacity(request) = Len(request.prompt) + request.maxNewTokens + 1
      /\ GraphShape /\ GraphRun
  BY <1>1, GraphFacts
<1>3. GraphPrefilling /\ RunShape /\ WarmSlot(slot) /\ slot.dir = request.dir
  BY <1>1, <1>2 DEF GraphRun, GraphPc
<1>4. Shaped(run) /\ run.capacity \in Nat /\ run.capacity >= Capacity(request)
  BY <1>3 DEF RunShape, Shaped
<1>5. /\ position \in Nat /\ position < Len(request.prompt) /\ position < run.capacity
      /\ Runs(run, request.prompt, position, Capacity(request))
      /\ generated = <<>> /\ run.status = InitialStatus
  BY <1>2, <1>3, <1>4 DEF GraphPrefilling, Runs
<1>6. PICK last : last = Through(run.rows, run.capacity, token, position)[Layers]
  OBVIOUS
<1>7. /\ Places(last.rows, run.capacity)
      /\ HoldsIn(last.rows, run.capacity, request.prompt, position + 1, Layers)
      /\ last.hidden = SubSeq(request.prompt, 1, position + 1)
      /\ UsedAfter(run.used, position) = position + 1
  <2> DEFINE end == Through(run.rows, run.capacity, token, position)[Layers]
  <2>1. Reads(run, request.prompt, position, Capacity(request))
    BY <1>2, <1>4, <1>5 DEF Reads
  <2>2. /\ Places(end.rows, run.capacity)
        /\ HoldsIn(end.rows, run.capacity, request.prompt, position + 1, Layers)
        /\ end.hidden = SubSeq(request.prompt, 1, position + 1)
        /\ UsedAfter(run.used, position) = position + 1
    BY <1>0, <2>1, PassReads
  <2> QED BY <1>6, <2>2
<1>8. /\ run' = [run EXCEPT !.rows = last.rows, !.used = position + 1]
      /\ hidden' = last.hidden
      /\ slot' = Compiled(slot, run.capacity, position)
      /\ position' = position + 1
      /\ pc' = IF position + 1 = Len(request.prompt) THEN "graph_decode" ELSE pc
      /\ UNCHANGED <<request, answer, generated, report, faulted>>
  BY <1>0, <1>2, <1>4, <1>5, <1>6, <1>7 DEF GraphPrefill, RunForward
<1>9. run' = [capacity |-> run.capacity, used |-> position + 1, rows |-> last.rows,
              tokens |-> run.tokens, status |-> run.status]
  BY <1>3, <1>8 DEF RunShape
<1>10. RunShape'
  <2>1. run'.capacity = run.capacity /\ run'.used = position + 1 /\ run'.rows = last.rows
        /\ run'.tokens = run.tokens
    BY <1>9
  <2>2. Shaped(run)'
    BY <1>4, <1>5, <1>7, <2>1 DEF Shaped
  <2>3. (DOMAIN run.tokens = 0..(run.capacity - 1) /\ run.capacity >= Capacity(request))'
    BY <1>3, <1>8, <2>1 DEF RunShape, Capacity
  <2>4. (run = [capacity |-> run.capacity, used |-> run.used, rows |-> run.rows,
                tokens |-> run.tokens, status |-> run.status])'
    BY <1>9
  <2> QED BY <2>2, <2>3, <2>4 DEF RunShape
<1>11. WarmSlot(slot') /\ slot'.dir = request.dir
  BY <1>3, <1>8, CompiledStaysWarm
<1>12. GraphShape'
  BY <1>11 DEF GraphShape, WarmSlot
<1>13. /\ Runs(run', request.prompt, position + 1, Capacity(request))
       /\ run'.status = InitialStatus
  BY <1>4, <1>5, <1>7, <1>9 DEF Runs, Held
<1>14. CASE position + 1 = Len(request.prompt)
  <2>1. hidden' = request.prompt
    BY <1>2, <1>7, <1>8, <1>14, SubSeqFull
  <2>2. request.prompt \o <<>> = request.prompt /\ Len(<<>>) = 0
    BY <1>2, PromptAndTokens
  <2>3. Generating(request, <<>>)
    BY <1>2, GenerationBegins
  <2>4. generated' = <<>> /\ request' = request
    BY <1>5, <1>8
  <2>5. Generating(request, generated)'
    BY <2>3, <2>4 DEF Generating, After
  <2>6. /\ (hidden = request.prompt \o generated)'
        /\ (position = Len(request.prompt) + Len(generated))'
        /\ (Len(generated) < request.maxNewTokens)'
    BY <1>2, <1>8, <1>14, <2>1, <2>2, <2>4
  <2>7. Runs(run, request.prompt \o generated, position, Capacity(request))'
    BY <1>8, <1>13, <2>2, <2>4 DEF Runs, Held, Capacity
  <2>8. /\ (run.status = [count |-> Len(generated), reason |-> 2, stop |-> FALSE])'
        /\ (\A i \in 1..Len(generated) : run.tokens[i - 1] = generated[i])'
    BY <1>13, <2>2, <2>4 DEF InitialStatus
  <2>9. GraphDecoding'
    BY <2>5, <2>6, <2>7, <2>8 DEF GraphDecoding
  <2>10. pc' = "graph_decode"
    BY <1>8, <1>14
  <2>11. GraphRun'
    BY <1>8, <1>10, <1>11, <2>9, <2>10 DEF GraphRun, GraphPc, WarmSlot
  <2> QED BY <1>1, <1>8, <1>12, <2>10, <2>11, GraphGoesOn DEF GraphPc
<1>15. CASE position + 1 # Len(request.prompt)
  <2>1. pc' = "graph_prefill" /\ position + 1 < Len(request.prompt)
    BY <1>1, <1>2, <1>5, <1>8, <1>15
  <2>2. GraphPrefilling'
    BY <1>5, <1>8, <1>13, <2>1 DEF GraphPrefilling, Runs, Held, Capacity, InitialStatus
  <2>3. GraphRun'
    BY <1>8, <1>10, <1>11, <2>1, <2>2 DEF GraphRun, GraphPc, WarmSlot
  <2> QED BY <1>1, <1>8, <1>12, <2>1, <2>3, GraphGoesOn DEF GraphPc
<1> QED BY <1>14, <1>15
(* A token that is recorded on the GPU, and run through the model if the   *)
(* text goes on.                                                           *)
LEMMA GraphStepKeeps ==
  ASSUME TokensAreNumbers, CallInv, GraphStep, UNCHANGED modelVars
  PROVE  CallInv' /\ Visible
PROOF
<1> DEFINE n == Len(generated)
           max == request.maxNewTokens
<1>0. PICK token : token = Selected(slot.dir, n + 1)
  OBVIOUS
<1>1. pc = "graph_decode" /\ pc \in GraphPc
  BY DEF GraphStep, GraphPc
<1>2. /\ request \in Requests /\ max \in Nat /\ Len(request.prompt) \in Nat
      /\ Capacity(request) \in Nat
      /\ Capacity(request) = Len(request.prompt) + max + 1
      /\ GraphShape /\ GraphRun
  BY <1>1, GraphFacts
<1>3. GraphDecoding /\ RunShape /\ WarmSlot(slot) /\ slot.dir = request.dir
  BY <1>1, <1>2 DEF GraphRun, GraphPc
<1>4. /\ generated \in Seq(Nat) /\ n \in Nat /\ n < max /\ Generating(request, generated)
      /\ hidden = request.prompt \o generated
      /\ run.status = [count |-> n, reason |-> 2, stop |-> FALSE]
      /\ \A i \in 1..n : run.tokens[i - 1] = generated[i]
  BY <1>3 DEF GraphDecoding, Generating
<1>5. token = NextToken(request.dir, request.seed, request.prompt \o generated, n + 1)
  BY <1>0, <1>2, <1>3, <1>4, SelectedIsNext
<1>6. /\ token \in Nat
      /\ token \notin EosTokens => Generating(request, Append(generated, token))
      /\ token \in EosTokens => Service!Generation(request) = generated
  BY <1>2, <1>4, <1>5, GenerationGoesOn
<1>7. PICK text : text = request.prompt \o generated
  OBVIOUS
<1>8. /\ text \in Seq(Nat) /\ Len(text) = Len(request.prompt) + n
      /\ request.prompt \o Append(generated, token) = Append(text, token)
      /\ Len(Append(generated, token)) = n + 1
  BY <1>2, <1>4, <1>6, <1>7, PromptAndTokens, OneMoreToken
<1>9. /\ Shaped(run) /\ run.capacity \in Nat /\ run.capacity >= Capacity(request)
      /\ DOMAIN run.tokens = 0..(run.capacity - 1)
      /\ run = [capacity |-> run.capacity, used |-> run.used, rows |-> run.rows,
                tokens |-> run.tokens, status |-> run.status]
  BY <1>3 DEF RunShape, Shaped
<1>10. /\ position = Len(request.prompt) + n
       /\ Runs(run, text, position, Capacity(request))
       /\ run.used = position
  BY <1>3, <1>7 DEF GraphDecoding, Runs, Held
<1> HIDE DEF n, max
<1>11. /\ position = Len(text) /\ position \in Nat
       /\ position < run.capacity /\ n < run.capacity
  BY <1>2, <1>4, <1>8, <1>9, <1>10
<1>12. PICK final : final = (n + 1 = max)
  OBVIOUS
<1>23. PICK status : status = NextStatus(run.status, token, n, final)
  OBVIOUS
<1>13. /\ token \in EosTokens => status.count = n /\ status.reason = 1 /\ status.stop
       /\ token \notin EosTokens => status = [count |-> n + 1, reason |-> 2, stop |-> FALSE]
  <2>1. run.status.count = n /\ run.status.reason = 2 /\ run.status.stop = FALSE
    BY <1>4
  <2>2. CASE token \in EosTokens
    BY <1>23, <2>1, <2>2 DEF NextStatus
  <2>3. CASE token \notin EosTokens
    <3>1. (run.status.stop \/ token \in EosTokens) = FALSE
      BY <2>1, <2>3
    <3> QED BY <1>23, <2>1, <2>3, <3>1 DEF NextStatus
  <2> QED BY <2>2, <2>3
<1>14. PICK last : last = Through(run.rows, run.capacity, token, position)[Layers]
  OBVIOUS
<1>15. /\ Places(last.rows, run.capacity)
       /\ HoldsIn(last.rows, run.capacity, Append(text, token), position + 1, Layers)
       /\ last.hidden = Append(text, token)
       /\ UsedAfter(run.used, position) = position + 1
  <2> DEFINE end == Through(run.rows, run.capacity, token, position)[Layers]
  <2>1. Appends(run, text, token, position, Capacity(request))
    BY <1>6, <1>8, <1>9, <1>10, <1>11 DEF Appends
  <2>2. /\ Places(end.rows, run.capacity)
        /\ HoldsIn(end.rows, run.capacity, Append(text, token), position + 1, Layers)
        /\ end.hidden = Append(text, token)
        /\ UsedAfter(run.used, position) = position + 1
    BY <2>1, PassAppends
  <2> QED BY <1>14, <2>2
<1>16. PICK recorded : recorded = [run EXCEPT !.tokens[n] = token, !.status = status]
  OBVIOUS
<1>17. recorded = [capacity |-> run.capacity, used |-> position, rows |-> run.rows,
                   tokens |-> [run.tokens EXCEPT ![n] = token], status |-> status]
  BY <1>9, <1>10, <1>16
<1>18. /\ generated' = Append(generated, token)
       /\ UNCHANGED <<request, answer, report, faulted>>
       /\ \/ /\ status.stop \/ n + 1 = max
             /\ run' = recorded /\ pc' = "readback" /\ UNCHANGED slot
          \/ /\ ~status.stop /\ n + 1 # max
             /\ run' = [recorded EXCEPT !.rows = last.rows, !.used = position + 1]
             /\ hidden' = last.hidden
             /\ slot' = Compiled(slot, run.capacity, position)
             /\ position' = position + 1
             /\ UNCHANGED pc
  <2> DEFINE end == Through(run.rows, run.capacity, token, position)[Layers]
  <2>1. ~(n >= run.capacity \/ position >= run.capacity)
    BY <1>4, <1>9, <1>11
  <2>2. /\ generated' = Append(generated, token)
        /\ UNCHANGED <<request, answer, report, faulted>>
        /\ \/ /\ status.stop \/ n + 1 = max
              /\ run' = recorded /\ pc' = "readback" /\ UNCHANGED slot
           \/ /\ ~status.stop /\ ~(n + 1 = max)
              /\ run' = [recorded EXCEPT !.rows = end.rows, !.used = UsedAfter(@, position)]
              /\ hidden' = end.hidden
              /\ slot' = Compiled(slot, run.capacity, position)
              /\ position' = position + 1
              /\ UNCHANGED pc
    BY <1>0, <1>12, <1>23, <1>16, <2>1, Zenon DEF GraphStep, n, max
  <2>3. end = last
    BY <1>14
  <2> HIDE DEF end
  <2>4. [recorded EXCEPT !.rows = last.rows, !.used = UsedAfter(@, position)]
          = [recorded EXCEPT !.rows = last.rows, !.used = position + 1]
    BY <1>10, <1>15, <1>17
  <2> QED BY <2>2, <2>3, <2>4
<1>19. PICK tokens : tokens = [run.tokens EXCEPT ![n] = token]
  OBVIOUS
<1>20. /\ DOMAIN tokens = 0..(run.capacity - 1) /\ tokens[n] = token
       /\ \A i \in 1..n : tokens[i - 1] = generated[i]
  <2>1. n \in DOMAIN run.tokens
    BY <1>4, <1>9, <1>11
  <2>2. \A i \in 1..n : i - 1 \in DOMAIN run.tokens /\ i - 1 # n
    BY <1>4, <1>9, <1>11
  <2> QED BY <1>4, <1>9, <1>19, <2>1, <2>2
<1>21. CASE /\ status.stop \/ n + 1 = max
            /\ run' = recorded /\ pc' = "readback" /\ UNCHANGED slot
  <2>1. /\ run'.capacity = run.capacity /\ run'.used = position /\ run'.rows = run.rows
        /\ run'.tokens = tokens /\ run'.status = status
    BY <1>17, <1>19, <1>21
  <2>2. (run = [capacity |-> run.capacity, used |-> run.used, rows |-> run.rows,
                tokens |-> run.tokens, status |-> run.status])'
    BY <1>17, <1>21
  <2>3. Shaped(run)'
    BY <1>9, <1>11, <2>1 DEF Shaped
  <2>4. (DOMAIN run.tokens = 0..(run.capacity - 1) /\ run.capacity >= Capacity(request))'
    BY <1>9, <1>18, <1>20, <2>1 DEF Capacity
  <2>5. RunShape'
    BY <2>2, <2>3, <2>4 DEF RunShape
  <2>6. Service!Generation(request)' = Service!Generation(request)
    BY <1>18 DEF Service!Generation
  <2>7. Recorded'
    <3>1. CASE token \in EosTokens
      <4>1. generated = [i \in 1..n |-> tokens[i - 1]]
        <5>1. generated = [i \in 1..n |-> generated[i]]
          BY <1>4 DEF n
        <5> QED BY <1>20, <5>1
      <4>2. status.count = n /\ status.reason = 1
        BY <1>13, <3>1
      <4>3. (Service!Generation(request)
               = [i \in 1..run.status.count |-> run.tokens[i - 1]])'
        BY <1>6, <2>1, <2>6, <3>1, <4>1, <4>2
      <4>4. /\ (run.status.count \in Nat /\ run.status.count <= request.maxNewTokens)'
            /\ (run.status.reason = IF run.status.count < request.maxNewTokens THEN 1 ELSE 2)'
        BY <1>2, <1>4, <1>18, <2>1, <4>2 DEF max
      <4>5. (run.used = Len(request.prompt) + run.status.count)'
            /\ (run.used < run.capacity)'
        BY <1>10, <1>11, <1>18, <2>1, <4>2
      <4> QED BY <4>3, <4>4, <4>5 DEF Recorded
    <3>2. CASE token \notin EosTokens
      <4>1. status.count = n + 1 /\ status.reason = 2 /\ n + 1 = max
        BY <1>13, <1>21, <3>2
      <4>2. PICK new : new = Append(generated, token)
        OBVIOUS
      <4>3. /\ new \in Seq(Nat) /\ Len(new) = n + 1 /\ new[n + 1] = token
            /\ \A i \in 1..n : new[i] = generated[i]
        BY <1>4, <1>6, <4>2 DEF n
      <4>4. new = [i \in 1..(n + 1) |-> tokens[i - 1]]
        <5>1. new = [i \in 1..(n + 1) |-> new[i]]
          BY <4>3
        <5>2. \A i \in 1..(n + 1) : new[i] = tokens[i - 1]
          <6>1. \A i \in 1..(n + 1) : i \in 1..n \/ (i = n + 1 /\ i - 1 = n)
            BY <1>4
          <6> QED BY <1>20, <4>3, <6>1
        <5> QED BY <5>1, <5>2
      <4>5. Service!Generation(request) = new
        BY <1>2, <1>6, <3>2, <4>1, <4>2, <4>3, GenerationEnds DEF max
      <4>6. (Service!Generation(request)
               = [i \in 1..run.status.count |-> run.tokens[i - 1]])'
        BY <2>1, <2>6, <4>1, <4>4, <4>5
      <4>7. /\ (run.status.count \in Nat /\ run.status.count <= request.maxNewTokens)'
            /\ (run.status.reason = IF run.status.count < request.maxNewTokens THEN 1 ELSE 2)'
            /\ (run.status.count = request.maxNewTokens)'
        BY <1>2, <1>4, <1>18, <2>1, <4>1 DEF max
      <4>8. (run.used = Len(request.prompt) + run.status.count - 1)'
            /\ (run.used < run.capacity)'
        BY <1>2, <1>4, <1>10, <1>11, <1>18, <2>1, <4>1
      <4>9. (\/ run.used = Len(request.prompt) + run.status.count
             \/ /\ run.used = Len(request.prompt) + run.status.count - 1
                /\ run.status.count = request.maxNewTokens)'
        BY <4>7, <4>8
      <4> QED BY <4>6, <4>7, <4>8, <4>9, SMTT(40) DEF Recorded
    <3> QED BY <3>1, <3>2
  <2>8. GraphShape' /\ WarmSlot(slot') /\ slot'.dir = request.dir
    BY <1>3, <1>21 DEF GraphShape, WarmSlot
  <2>9. GraphRun'
    BY <1>18, <1>21, <2>5, <2>7, <2>8 DEF GraphRun, GraphPc, WarmSlot
  <2> QED BY <1>1, <1>18, <1>21, <2>8, <2>9, GraphGoesOn DEF GraphPc
<1>22. CASE /\ ~status.stop /\ n + 1 # max
            /\ run' = [recorded EXCEPT !.rows = last.rows, !.used = position + 1]
            /\ hidden' = last.hidden
            /\ slot' = Compiled(slot, run.capacity, position)
            /\ position' = position + 1
            /\ UNCHANGED pc
  <2>1. run' = [capacity |-> run.capacity, used |-> position + 1, rows |-> last.rows,
                tokens |-> tokens, status |-> status]
    BY <1>17, <1>19, <1>22
  <2>2. (run = [capacity |-> run.capacity, used |-> run.used, rows |-> run.rows,
                tokens |-> run.tokens, status |-> run.status])'
    BY <2>1
  <2>3. /\ run'.capacity = run.capacity /\ run'.used = position + 1
        /\ run'.rows = last.rows /\ run'.tokens = tokens /\ run'.status = status
    BY <2>1
  <2>4. Shaped(run)'
    BY <1>9, <1>11, <1>15, <2>3 DEF Shaped
  <2>5. (DOMAIN run.tokens = 0..(run.capacity - 1) /\ run.capacity >= Capacity(request))'
    BY <1>9, <1>18, <1>20, <2>3 DEF Capacity
  <2>6. RunShape'
    BY <2>2, <2>4, <2>5 DEF RunShape
  <2>7. token \notin EosTokens
    BY <1>13, <1>22
  <2>8. PICK new : new = Append(generated, token)
    OBVIOUS
  <2>9. /\ new \in Seq(Nat) /\ Len(new) = n + 1 /\ new[n + 1] = token
        /\ \A i \in 1..n : new[i] = generated[i]
        /\ Generating(request, new) /\ generated' = new
        /\ request.prompt \o new = Append(text, token)
    <3>1. /\ new \in Seq(Nat) /\ Len(new) = n + 1 /\ new[n + 1] = token
          /\ \A i \in 1..n : new[i] = generated[i]
      BY <1>4, <1>6, <2>8 DEF n
    <3>2. /\ Generating(request, new) /\ generated' = new
          /\ request.prompt \o new = Append(text, token)
      BY <1>6, <1>8, <1>18, <2>7, <2>8
    <3> QED BY <3>1, <3>2
  <2>10. Generating(request, generated)'
    BY <1>18, <2>9 DEF Generating, After
  <2>11. (Len(generated) < request.maxNewTokens)'
    BY <1>2, <1>4, <1>18, <1>22, <2>9 DEF max
  <2>12. (hidden = request.prompt \o generated)'
    BY <1>15, <1>18, <1>22, <2>9
  <2>13. (position = Len(request.prompt) + Len(generated))'
    <3>1. position' = (Len(request.prompt) + n) + 1
      BY <1>10, <1>22
    <3>2. \A a, b \in Nat : (a + b) + 1 = a + (b + 1)
      OBVIOUS
    <3>3. Len(generated') = n + 1
      BY <2>9
    <3> QED BY <1>2, <1>4, <1>18, <3>1, <3>2, <3>3
  <2>14. Runs(run, request.prompt \o generated, position, Capacity(request))'
    BY <1>9, <1>11, <1>15, <1>18, <1>22, <2>3, <2>9 DEF Runs, Held, Capacity
  <2>15. /\ (run.status = [count |-> Len(generated), reason |-> 2, stop |-> FALSE])'
         /\ (\A i \in 1..Len(generated) : run.tokens[i - 1] = generated[i])'
    <3>1. status = [count |-> n + 1, reason |-> 2, stop |-> FALSE]
      BY <1>13, <2>7
    <3>2. \A i \in 1..(n + 1) : i \in 1..n \/ (i = n + 1 /\ i - 1 = n)
      BY <1>4
    <3>3. \A i \in 1..(n + 1) : tokens[i - 1] = new[i]
      BY <1>20, <2>9, <3>2
    <3> QED BY <2>3, <2>9, <3>1, <3>3
  <2>16. GraphDecoding'
    BY <2>10, <2>11, <2>12, <2>13, <2>14, <2>15 DEF GraphDecoding
  <2>17. WarmSlot(slot') /\ slot'.dir = request.dir
    BY <1>3, <1>22, CompiledStaysWarm
  <2>18. GraphShape'
    BY <2>17 DEF GraphShape, WarmSlot
  <2>19. GraphRun'
    BY <1>1, <1>18, <1>22, <2>6, <2>16, <2>17 DEF GraphRun, GraphPc, WarmSlot
  <2> QED BY <1>1, <1>18, <1>22, <2>18, <2>19, GraphGoesOn DEF GraphPc
<1> QED BY <1>18, <1>21, <1>22
(* What was recorded is read back, and says how the text ended. *)
LEMMA ReadbackKeeps ==
  ASSUME CallInv, Readback, UNCHANGED modelVars
  PROVE  CallInv' /\ Visible
PROOF
<1>1. /\ pc = "readback" /\ pc \in GraphPc /\ pc' \in {"warm", "idle"}
      /\ report' = [used |-> run.used, capacity |-> run.capacity]
      /\ UNCHANGED <<request, faulted, slot>>
  BY DEF Readback, GraphPc
<1>2. /\ request \in Requests /\ request.maxNewTokens \in Nat
      /\ Len(request.prompt) \in Nat /\ GraphShape /\ GraphRun /\ answer = Waiting
  BY <1>1, GraphFacts
<1>3. Recorded /\ RunShape /\ WarmSlot(slot)
  BY <1>1, <1>2 DEF GraphRun, GraphPc
<1>4. PICK n : n = run.status.count
  OBVIOUS
<1>5. PICK text : text = [i \in 1..n |-> run.tokens[i - 1]]
  OBVIOUS
<1>6. /\ n \in Nat /\ n <= request.maxNewTokens
      /\ Service!Generation(request) = text
      /\ run.status.reason = IF n < request.maxNewTokens THEN 1 ELSE 2
      /\ \/ run.used = Len(request.prompt) + n
         \/ run.used = Len(request.prompt) + n - 1 /\ n = request.maxNewTokens
      /\ run.used < run.capacity
  BY <1>3, <1>4, <1>5 DEF Recorded
<1>7. Len(text) = n
  BY <1>5, <1>6
<1>8. run.used \in Nat /\ run.capacity \in Nat
  BY <1>3 DEF RunShape, Shaped
<1>9. PICK finish : finish = IF n < request.maxNewTokens THEN "stop" ELSE "length"
  OBVIOUS
<1>10. answer' = [status |-> "ok", tokens |-> text, finish |-> finish]
  <2>1. ~(n > request.maxNewTokens)
    BY <1>2, <1>6
  <2>2. (IF run.status.reason = 1 THEN "stop" ELSE "length") = finish
    BY <1>6, <1>9
  <2> QED BY <1>4, <1>5, <2>1, <2>2, Zenon DEF Readback
<1>11. answer' = Service!Text(request, Service!Generation(request))
  <2>1. Service!FinishReason(request, text) = finish
    BY <1>2, <1>6, <1>7, <1>9 DEF Service!FinishReason
  <2> QED BY <1>6, <1>10, <2>1 DEF Service!Text
<1>12. answer'.status = "ok" /\ answer'.tokens = text /\ answer'.finish = finish
  BY <1>10
<1>13. Visible
  BY <1>1, <1>2, <1>11, <1>12, AnswersVisible
<1>14. Reported(Len(request.prompt) + Len(answer.tokens))'
  <2>1. report'.used = run.used /\ report'.capacity = run.capacity
    BY <1>1
  <2>2. /\ report'.used \in {Len(request.prompt) + n, Len(request.prompt) + n - 1}
        /\ report'.used = Len(request.prompt) + n - 1 => finish = "length"
    BY <1>2, <1>6, <1>9, <2>1
  <2> QED BY <1>1, <1>6, <1>7, <1>8, <1>12, <2>1, <2>2 DEF Reported
<1>15. AnswerInv'
  BY <1>1, <1>2, <1>12, <1>14 DEF AnswerInv, LocalPc, GraphPc
<1>16. LocalShape' /\ LocalRun'
  BY <1>1, QuietLocal DEF LocalPc
<1>17. GraphShape' /\ GraphRun'
  BY <1>1, <1>2, <1>3 DEF GraphShape, GraphRun, GraphPc, WarmSlot
<1> QED BY <1>13, <1>15, <1>16, <1>17 DEF CallInv

(* A failure leaves the slot, with what was compiled. *)
LEMMA GraphFailsKeeps ==
  ASSUME CallInv, GraphFails, UNCHANGED modelVars
  PROVE  CallInv' /\ Visible
PROOF
<1>1. /\ pc \in GraphPc /\ Fault /\ pc' = "idle"
      /\ \/ UNCHANGED slot
         \/ /\ pc \in {"graph_prefill", "graph_decode"}
            /\ slot' = Compiled(slot, run.capacity, position)
  BY DEF GraphFails, GraphPc, Fault, Fail
<1>2. GraphShape /\ GraphRun
  BY DEF CallInv
<1>3. GraphShape'
  <2>1. CASE UNCHANGED slot
    BY <1>2, <2>1 DEF GraphShape, WarmSlot
  <2>2. CASE /\ pc \in {"graph_prefill", "graph_decode"}
             /\ slot' = Compiled(slot, run.capacity, position)
    <3>1. WarmSlot(slot)
      BY <1>2, <2>2 DEF GraphRun, GraphPc
    <3>2. WarmSlot(slot')
      BY <2>2, <3>1, CompiledStaysWarm
    <3> QED BY <3>2 DEF GraphShape, WarmSlot
  <2> QED BY <1>1, <2>1, <2>2
<1>4. LocalShape'
  BY <1>1, QuietLocal DEF LocalPc
<1> QED BY <1>1, <1>3, <1>4, FaultKeeps

(* The marks are raised over what was compiled. *)
LEMMA WarmUpKeeps ==
  ASSUME CallInv, WarmUp, UNCHANGED modelVars
  PROVE  CallInv' /\ Visible
PROOF
<1>0. PICK warmed : warmed = report.capacity
  OBVIOUS
<1>1. /\ pc = "warm" /\ pc' = "idle" /\ answer.status = "ok"
      /\ UNCHANGED <<request, answer, report, faulted>>
  BY DEF WarmUp
<1>2. AnswerInv /\ GraphShape /\ WarmSlot(slot)
  BY <1>1 DEF CallInv, GraphRun
<1>3. warmed \in Nat
  BY <1>0, <1>1, <1>2 DEF AnswerInv, Reported
<1>4. /\ slot = [dir |-> slot.dir, compiled |-> slot.compiled,
                 warmedCapacity |-> slot.warmedCapacity,
                 warmedMaxNewTokens |-> slot.warmedMaxNewTokens]
      /\ slot.warmedCapacity \in Nat
      /\ \A p \in 0..(slot.warmedCapacity - 1) : <<slot.warmedCapacity, p>> \in slot.compiled
  BY <1>2 DEF WarmSlot
<1>5. PICK compiled, capacity, limit :
        /\ slot' = [slot EXCEPT !.compiled = compiled, !.warmedCapacity = capacity,
                                !.warmedMaxNewTokens = limit]
        /\ slot.compiled \subseteq compiled
        /\ \/ capacity = slot.warmedCapacity
           \/ capacity = warmed /\ WarmedPositions(warmed, warmed) \subseteq compiled
  <2> DEFINE all == slot.compiled \cup WarmedPositions(warmed, warmed)
             limit == IF slot.warmedMaxNewTokens < request.maxNewTokens
                      THEN request.maxNewTokens ELSE slot.warmedMaxNewTokens
             capacity == IF slot.warmedCapacity < warmed THEN warmed ELSE slot.warmedCapacity
             compiled == IF slot.warmedCapacity < warmed THEN all ELSE slot.compiled
  <2>1. CASE slot' = [slot EXCEPT !.compiled = compiled, !.warmedCapacity = capacity,
                                  !.warmedMaxNewTokens = limit]
    <3>1. /\ slot.compiled \subseteq compiled
          /\ \/ capacity = slot.warmedCapacity
             \/ capacity = warmed /\ WarmedPositions(warmed, warmed) \subseteq compiled
      OBVIOUS
    <3> HIDE DEF compiled, capacity, limit
    <3> QED BY <2>1, <3>1
  <2>2. ASSUME NEW p, slot' = [slot EXCEPT !.compiled = @ \cup WarmedPositions(warmed, p)]
        PROVE  \E c, k, m :
                 /\ slot' = [slot EXCEPT !.compiled = c, !.warmedCapacity = k,
                                         !.warmedMaxNewTokens = m]
                 /\ slot.compiled \subseteq c
                 /\ \/ k = slot.warmedCapacity
                    \/ k = warmed /\ WarmedPositions(warmed, warmed) \subseteq c
    <3> DEFINE c == slot.compiled \cup WarmedPositions(warmed, p)
    <3>1. slot' = [slot EXCEPT !.compiled = c, !.warmedCapacity = slot.warmedCapacity,
                               !.warmedMaxNewTokens = slot.warmedMaxNewTokens]
      <4>1. slot' = [slot EXCEPT !.compiled = c]
        BY <2>2
      <4> HIDE DEF c
      <4> QED BY <1>4, <4>1
    <3>2. slot.compiled \subseteq c
      OBVIOUS
    <3> HIDE DEF c
    <3> QED BY <3>1, <3>2
  <2>3. \/ slot' = [slot EXCEPT !.compiled = compiled, !.warmedCapacity = capacity,
                                !.warmedMaxNewTokens = limit]
        \/ \E p : slot' = [slot EXCEPT !.compiled = @ \cup WarmedPositions(warmed, p)]
    BY <1>0 DEF WarmUp
  <2> HIDE DEF compiled, capacity, limit
  <2> QED BY <2>1, <2>2, <2>3
<1>6. slot' = [dir |-> slot.dir, compiled |-> compiled, warmedCapacity |-> capacity,
               warmedMaxNewTokens |-> limit]
  BY <1>4, <1>5
<1>7. \A p \in 0..(capacity - 1) : <<capacity, p>> \in compiled
  <2>1. CASE capacity = slot.warmedCapacity
    BY <1>4, <1>5, <2>1
  <2>2. CASE capacity = warmed /\ WarmedPositions(warmed, warmed) \subseteq compiled
    BY <2>2 DEF WarmedPositions
  <2> QED BY <1>5, <2>1, <2>2
<1>8. capacity \in Nat
  BY <1>3, <1>4, <1>5
<1>9. slot'.compiled = compiled /\ slot'.warmedCapacity = capacity
  BY <1>6
<1>10. GraphShape'
  BY <1>6, <1>7, <1>8, <1>9 DEF GraphShape, WarmSlot
<1>11. AnswerInv'
  BY <1>1, <1>2 DEF AnswerInv, LocalPc, GraphPc, Reported
<1>12. LocalShape' /\ LocalRun'
  BY <1>1, QuietLocal DEF LocalPc
<1>13. GraphRun'
  BY <1>1 DEF GraphRun, GraphPc
<1>14. Visible
  BY <1>1 DEF Visible
<1> QED BY <1>10, <1>11, <1>12, <1>13, <1>14 DEF CallInv

-----------------------------------------------------------------------------
(* The first call finds nothing that an earlier one left. *)
LEMMA CallsBegin ==
  ASSUME Init PROVE CallInv
PROOF
<1>1. /\ request \in Requests
      /\ answer = IF Refused(request) THEN [status |-> "refused"] ELSE Waiting
      /\ pc = IF Refused(request) THEN "idle" ELSE FirstPc(request)
      /\ position = 0 /\ generated = <<>>
      /\ cache = [d \in Local |-> NoCache] /\ weightsReady = FALSE
      /\ slot = NoCacheYet
  BY DEF Init, CpuInit, GraphInit
<1>2. FirstPc(request) \in {"lookup", "load"}
  BY DEF FirstPc
<1>3. AnswerInv
  BY <1>1, <1>2 DEF AnswerInv, LocalPc, GraphPc, Waiting
<1>4. LocalShape
  <2>1. /\ Shaped(NoCache)
        /\ NoCache = [capacity |-> NoCache.capacity, used |-> NoCache.used,
                      rows |-> NoCache.rows]
    BY FreshIsShaped DEF NoCache
  <2> QED BY <1>1, <2>1 DEF LocalShape
<1>5. LocalRun /\ GraphShape /\ GraphRun
  BY <1>1, <1>2 DEF LocalRun, GraphShape, GraphRun, LocalPc, GraphPc
<1> QED BY <1>3, <1>4, <1>5 DEF CallInv

(* The next call, served or refused. *)
LEMMA NextCallKeeps ==
  ASSUME CallInv, NextCall PROVE CallInv' /\ Visible
PROOF
<1>1. PICK r \in Requests : IF Refused(r) THEN RefuseCall(r) ELSE Call(r)
  BY DEF NextCall
<1>2. /\ pc = "idle" /\ request' = r /\ UNCHANGED <<modelVars, graphVars>>
      /\ faulted' = FALSE
      /\ \/ Refused(r) /\ answer' = [status |-> "refused"] /\ pc' = "idle"
         \/ /\ ~Refused(r) /\ answer' = Waiting /\ pc' = FirstPc(r)
            /\ position' = 0 /\ generated' = <<>>
  BY <1>1 DEF RefuseCall, Call, Begin
<1>3. answer.status \in {"ok", "error", "refused"}
  BY <1>2 DEF CallInv, AnswerInv
<1>4. FirstPc(r) \in {"lookup", "load"}
  BY DEF FirstPc
<1>5. answer'.status \in {"refused", "none"} /\ (pc' = "idle" => answer'.status = "refused")
      /\ (pc' # "idle" => answer' = Waiting /\ ~Refused(r) /\ pc' \in {"lookup", "load"}
                          /\ position' = 0 /\ generated' = <<>>)
  BY <1>2, <1>4 DEF Waiting
<1>6. AnswerInv'
  BY <1>2, <1>5 DEF AnswerInv, LocalPc, GraphPc
<1>7. pc' \in {"idle", "lookup", "load"}
  BY <1>2, <1>4
<1>8. LocalShape' /\ LocalRun'
  BY <1>2, <1>7 DEF CallInv, LocalShape, LocalRun, modelVars, Shaped, WeightCount, LocalPc
<1>9. GraphShape' /\ GraphRun'
  BY <1>2, <1>7 DEF CallInv, GraphShape, GraphRun, graphVars, WarmSlot, GraphPc
<1>10. Visible
  <2>1. answer' = Service!Begun(request')
    BY <1>2 DEF Service!Begun, Waiting
  <2> QED BY <1>2, <1>3, <2>1 DEF Visible, Service!Next, Service!Call
<1> QED BY <1>6, <1>8, <1>9, <1>10 DEF CallInv

LEMMA StutterKeeps ==
  ASSUME CallInv, UNCHANGED vars PROVE CallInv' /\ Visible
PROOF
<1>1. UNCHANGED callVars /\ UNCHANGED modelVars /\ UNCHANGED graphVars
  BY DEF vars
<1>2. AnswerInv'
  BY <1>1 DEF CallInv, AnswerInv, Reported, callVars
<1>3. LocalShape'
  BY <1>1 DEF CallInv, LocalShape, modelVars, Shaped, WeightCount
<1>4. Verifying => Verifying'
  <2> SUFFICES ASSUME Verifying PROVE Verifying'
    OBVIOUS
  <2>1. /\ UNCHANGED <<request, generated, report, pc, position, hidden>>
        /\ UNCHANGED <<cache, recomputed>>
    BY <1>1 DEF callVars, modelVars
  <2>2. /\ (generated = Service!Generation(request))' /\ Generating(request, generated)'
        /\ (report.used = Len(request.prompt) + Len(generated))'
        /\ (report.used < report.capacity /\ report.capacity \in Nat)'
    BY <2>1, TextStays
  <2>3. (pc # "compare" => Generating(request, recomputed))'
    BY <2>1 DEF Verifying, Generating, After
  <2>4. (pc = "compare" => recomputed = Service!Generation(request))'
    <3>1. Service!Generation(request)' = Service!Generation(request)
      BY <2>1 DEF Service!Generation
    <3> QED BY <2>1, <3>1 DEF Verifying
  <2>5. (pc = "replay" =>
           /\ position < Len(request.prompt \o recomputed)
           /\ Runs(cache[Device], request.prompt \o recomputed, position,
                   Len(request.prompt) + Len(recomputed) + 1))'
    BY <2>1 DEF Verifying, Runs, Held, Device
  <2>6. /\ (pc \in {"replay", "reselect"} => Len(recomputed) < request.maxNewTokens)'
        /\ (pc = "reselect" => hidden = request.prompt \o recomputed)'
    BY <2>1 DEF Verifying
  <2> QED BY <2>2, <2>3, <2>4, <2>5, <2>6 DEF Verifying
<1>5. (Prefilling => Prefilling') /\ (Decoding => Decoding')
  BY <1>1 DEF Prefilling, Decoding, Generating, After, Runs, Held, Device, Capacity,
              callVars, modelVars
<1>6. LocalRun'
  BY <1>1, <1>4, <1>5 DEF CallInv, LocalRun, callVars, modelVars, Device
<1>7. GraphShape'
  BY <1>1 DEF CallInv, GraphShape, WarmSlot, graphVars
<1>8. (GraphPrefilling => GraphPrefilling') /\ (GraphDecoding => GraphDecoding')
  BY <1>1 DEF GraphPrefilling, GraphDecoding, Generating, After, Runs, Held, Capacity,
              callVars, graphVars
<1>9. (RunShape => RunShape') /\ (Recorded => Recorded')
  BY <1>1 DEF RunShape, Shaped, Capacity, Recorded, Service!Generation, callVars, graphVars
<1>10. GraphRun'
  BY <1>1, <1>8, <1>9 DEF CallInv, GraphRun, WarmSlot, callVars, graphVars
<1>11. Visible
  BY <1>1 DEF Visible, callVars
<1> QED BY <1>2, <1>3, <1>6, <1>7, <1>10, <1>11 DEF CallInv

(* Every step keeps the invariant, and is one of the service or unseen. *)
LEMMA StepKeeps ==
  ASSUME TokensAreNumbers, CallInv, [Next]_vars PROVE CallInv' /\ Visible
PROOF
<1>1. CASE NextCall
  BY <1>1, NextCallKeeps
<1>2. CASE CpuStep /\ UNCHANGED graphVars
  BY <1>2, LoadKeeps, LoadFailsKeeps, UploadKeeps, ResetKeeps, RunTokenKeeps,
     DecodeTokenKeeps, DecodeEndsKeeps, ReplayKeeps, ReselectKeeps, CompareKeeps
  DEF CpuStep
<1>3. CASE GraphStepAny /\ UNCHANGED modelVars
  BY <1>3, LookupKeeps, CreateKeeps, GraphPrefillKeeps, GraphStepKeeps, ReadbackKeeps,
     GraphFailsKeeps, WarmUpKeeps
  DEF GraphStepAny
<1>4. CASE UNCHANGED vars
  BY <1>4, StutterKeeps
<1> QED BY <1>1, <1>2, <1>3, <1>4 DEF Next, OnCpu, OnGpuGraph

LEMMA CallsInvariant ==
  ASSUME TokensAreNumbers PROVE Spec => []CallInv
PROOF
<1>1. CallInv /\ [Next]_vars => CallInv'
  BY StepKeeps
<1> QED BY <1>1, CallsBegin, PTL DEF Spec

(* The state that is sampled stands for exactly the prompt and the tokens  *)
(* generated, or recomputed, so far: no row of an earlier request, of      *)
(* another layer or of a verification is attended to, on any backend.      *)
THEOREM SampledStates ==
  ASSUME TokensAreNumbers PROVE Spec => []SampledStateIsOfThisText
PROOF
<1>1. CallInv => SampledStateIsOfThisText
  BY DEF CallInv, LocalRun, GraphRun, Decoding, GraphDecoding, Verifying, LocalPc, GraphPc,
         SampledStateIsOfThisText
<1> QED BY <1>1, CallsInvariant, PTL

(* A request fails only because an allocation, an upload or a kernel failed *)
(* while it was served.                                                    *)
THEOREM FailuresHaveCause ==
  ASSUME TokensAreNumbers PROVE Spec => []FailsOnlyOnFault
PROOF
<1>1. CallInv => FailsOnlyOnFault
  BY DEF CallInv, AnswerInv, FailsOnlyOnFault
<1> QED BY <1>1, CallsInvariant, PTL

(* The statistics of an answer count its own rows, within the capacity,    *)
(* whatever verification did to the cache afterwards.                      *)
THEOREM ReportsAreOfTheText ==
  ASSUME TokensAreNumbers PROVE Spec => []ReportDescribesText
PROOF
<1>1. CallInv => ReportDescribesText
  BY DEF CallInv, AnswerInv, Reported, ReportDescribesText
<1> QED BY <1>1, CallsInvariant, PTL

(* After a warm-up, a request of the warmed capacity compiles nothing. *)
THEOREM WarmedStaysCompiled ==
  ASSUME TokensAreNumbers PROVE Spec => []WarmedIsCompiled
PROOF
<1>1. CallInv => WarmedIsCompiled
  BY DEF CallInv, GraphShape, WarmSlot, WarmedIsCompiled
<1> QED BY <1>1, CallsInvariant, PTL

(* generate_cpu implements the service without memory: each call is        *)
(* answered with the generation its own model, prompt, limit and seed      *)
(* determine, or with an error.  (That it is answered at all is the        *)
(* fairness part of Service!Spec, which is not a matter of this theorem.)  *)
THEOREM CallsImplementService ==
  ASSUME TokensAreNumbers
  PROVE  Spec => Service!Init /\ [][Service!Next]_<<request, answer>>
PROOF
<1>1. Init => Service!Init
  BY DEF Init, Service!Init, Service!Begun, Waiting
<1>2. CallInv /\ [Next]_vars => [Service!Next]_<<request, answer>>
  BY StepKeeps DEF Visible
<1> QED BY <1>1, <1>2, CallsInvariant, PTL DEF Spec
=============================================================================
