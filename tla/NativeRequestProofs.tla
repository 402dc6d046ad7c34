------------------------- MODULE NativeRequestProofs -------------------------
(***************************************************************************)
(* Theorems about NativeRequest, for any files, any requests and any       *)
(* number of replacements of the files while a request runs.               *)
(***************************************************************************)
EXTENDS NativeRequest, FiniteSetTheorems, SequenceTheorems, WellFoundedInduction, TLAPS

(* A set of numbers has a least element. *)
LEMMA LeastNumber ==
  ASSUME NEW T, T \subseteq Nat, T # {}
  PROVE  \E x \in T : \A y \in T : x <= y
PROOF
<1> DEFINE R == {p \in Nat \X Nat : p[1] < p[2]}
<1>1. IsWellFoundedOn(R, Nat)
  BY NatLessThanWellFounded DEF OpToRel
<1>2. PICK x \in T : \A y \in T : ~(<<y, x>> \in R)
  <2> HIDE DEF R
  <2> QED BY <1>1, WFMin
<1>3. ASSUME NEW y \in T PROVE x <= y
  <2>1. x \in Nat /\ y \in Nat /\ <<y, x>> \notin R
    BY <1>2
  <2>2. <<y, x>> \in Nat \X Nat /\ <<y, x>>[1] = y /\ <<y, x>>[2] = x
    BY <2>1
  <2>3. ~(y < x)
    BY <2>1, <2>2
  <2> QED BY <2>1, <2>3
<1> QED BY <1>3

(* A set that holds zero, and with a number below n the next one.          *)
LEMMA UpTo ==
  ASSUME NEW n \in Nat, NEW S, 0 \in S, \A k \in 0..(n - 1) : k \in S => k + 1 \in S
  PROVE  0..n \subseteq S
PROOF
<1> DEFINE T == {k \in 0..n : k \notin S}
<1> SUFFICES ASSUME T # {} PROVE FALSE
  OBVIOUS
<1>1. T \subseteq Nat
  OBVIOUS
<1>2. PICK x \in T : \A y \in T : x <= y
  BY <1>1, LeastNumber
<1>3. x \in 0..n /\ x \notin S /\ x # 0
  OBVIOUS
<1>4. x - 1 \in 0..(n - 1) /\ x - 1 + 1 = x /\ x - 1 \in 0..n
  BY <1>3
<1>5. x - 1 \in S
  BY <1>2, <1>4
<1> QED BY <1>3, <1>4, <1>5

(* The functions of a recursion that stays in D. *)
Recursions(n, D, base, G) ==
  {f \in [0..n -> D] : f[0] = base /\ \A k \in 1..n : f[k] = G[<<k, f[k - 1]>>]}

(* There is one. *)
LEMMA RecursionExists ==
  ASSUME NEW n \in Nat, NEW D, NEW base \in D, NEW G \in [(1..n) \X D -> D]
  PROVE  \E f : f \in Recursions(n, D, base, G)
PROOF
<1> SUFFICES \E f \in [0..n -> D] : f[0] = base /\ \A k \in 1..n : f[k] = G[<<k, f[k - 1]>>]
  BY DEF Recursions
<1> DEFINE S == {m \in Nat : m <= n =>
                   \E f \in [0..m -> D] :
                     f[0] = base /\ \A k \in 1..m : f[k] = G[<<k, f[k - 1]>>]}
<1>1. 0 \in S
  <2> DEFINE f == [k \in 0..0 |-> base]
  <2>1. f \in [0..0 -> D] /\ f[0] = base /\ 1..0 = {}
    OBVIOUS
  <2> HIDE DEF f
  <2> QED BY <2>1
<1>2. ASSUME NEW m \in 0..(n - 1), m \in S PROVE m + 1 \in S
  <2>1. PICK f \in [0..m -> D] :
          f[0] = base /\ \A k \in 1..m : f[k] = G[<<k, f[k - 1]>>]
    BY <1>2
  <2> DEFINE g == [k \in 0..(m + 1) |-> IF k = m + 1 THEN G[<<k, f[k - 1]>>] ELSE f[k]]
  <2>2. m + 1 \in 1..n /\ m + 1 - 1 = m /\ m \in 0..m
    OBVIOUS
  <2>3. f[m] \in D
    BY <2>2
  <2>4. G[<<m + 1, f[m]>>] \in D
    <3>1. <<m + 1, f[m]>> \in (1..n) \X D
      BY <2>2, <2>3
    <3> QED BY <3>1
  <2>5. g \in [0..(m + 1) -> D]
    BY <2>2, <2>4
  <2>6. g[0] = base
    BY <2>1
  <2>7. ASSUME NEW k \in 1..(m + 1) PROVE g[k] = G[<<k, g[k - 1]>>]
    <3>1. k - 1 \in 0..m /\ k \in 0..(m + 1) /\ k - 1 \in 0..(m + 1) /\ k - 1 # m + 1
      OBVIOUS
    <3>2. g[k - 1] = f[k - 1]
      BY <3>1
    <3>3. CASE k = m + 1
      BY <3>1, <3>2, <3>3
    <3>4. CASE k # m + 1
      <4>1. k \in 1..m
        BY <3>4
      <4> QED BY <2>1, <3>1, <3>2, <3>4, <4>1
    <3> QED BY <3>3, <3>4
  <2> HIDE DEF g
  <2> QED BY <2>5, <2>6, <2>7
<1>3. n \in S
  <2> HIDE DEF S
  <2>1. 0..n \subseteq S
    BY <1>1, <1>2, UpTo
  <2> QED BY <2>1
<1> QED BY <1>3

(* A function from 0 that starts in a set and never leaves it. *)
LEMMA StaysInside ==
  ASSUME NEW n \in Nat, NEW D, NEW F, DOMAIN F = 0..n, F = [k \in 0..n |-> F[k]],
         F[0] \in D, \A k \in 1..n : F[k - 1] \in D => F[k] \in D
  PROVE  F \in [0..n -> D]
PROOF
<1> DEFINE S == {k \in Nat : F[k] \in D}
<1>1. 0 \in S
  OBVIOUS
<1>2. ASSUME NEW k \in 0..(n - 1), k \in S PROVE k + 1 \in S
  <2>1. k + 1 \in 1..n /\ k + 1 - 1 = k /\ k + 1 \in Nat
    OBVIOUS
  <2>2. F[k + 1 - 1] \in D
    BY <1>2, <2>1
  <2>3. F[k + 1] \in D
    BY <2>1, <2>2
  <2> QED BY <2>1, <2>3
<1>3. 0..n \subseteq S
  <2> HIDE DEF S
  <2> QED BY <1>1, <1>2, UpTo
<1>4. \A k \in 0..n : F[k] \in D
  BY <1>3
<1> QED BY <1>4

(* One that enters a set later and never leaves it. *)
LEMMA StaysFrom ==
  ASSUME NEW n \in Nat, NEW D, NEW F, NEW c \in 0..n, F[c] \in D,
         \A k \in (c + 1)..n : F[k - 1] \in D => F[k] \in D
  PROVE  F[n] \in D
PROOF
<1> DEFINE S == {k \in Nat : F[c + k] \in D}
<1>1. 0 \in S
  OBVIOUS
<1>2. ASSUME NEW k \in 0..(n - c - 1), k \in S PROVE k + 1 \in S
  <2>1. c + k + 1 \in (c + 1)..n /\ c + k + 1 - 1 = c + k /\ c + (k + 1) = c + k + 1
    OBVIOUS
  <2>2. F[c + k + 1] \in D
    BY <1>2, <2>1
  <2> QED BY <2>1, <2>2
<1>3. 0..(n - c) \subseteq S
  <2>1. n - c \in Nat
    OBVIOUS
  <2> HIDE DEF S
  <2> QED BY <1>1, <1>2, <2>1, UpTo
<1>4. n - c \in S
  <2> HIDE DEF S
  <2> QED BY <1>3
<1>5. c + (n - c) = n
  OBVIOUS
<1> QED BY <1>4, <1>5

-----------------------------------------------------------------------------
(* The running products of a shape. *)
ElementsUpTo(shape) ==
  LET p[i \in 0..Len(shape)] == IF i = 0 THEN 1 ELSE p[i - 1] * shape[i]
  IN p

(* The same where a product that leaves a word is refused. *)
ProductUpTo(shape) ==
  LET p[i \in 0..Len(shape)] ==
        IF i = 0 THEN 1
        ELSE IF p[i - 1] = Invalid THEN Invalid
        ELSE IF shape[i] # 0 /\ p[i - 1] > MaxWord \div shape[i] THEN Invalid
        ELSE p[i - 1] * shape[i]
  IN p

(* The recursion is that of the definition. *)
LEMMA ElementsRecursion ==
  ASSUME NEW shape \in Seq(Nat)
  PROVE  /\ ElementsUpTo(shape) \in [0..Len(shape) -> Nat]
         /\ ElementsUpTo(shape)[0] = 1
         /\ \A i \in 1..Len(shape) :
              ElementsUpTo(shape)[i] = ElementsUpTo(shape)[i - 1] * shape[i]
PROOF
<1> DEFINE n == Len(shape)
           Body(f) == [i \in 0..n |-> IF i = 0 THEN 1 ELSE f[i - 1] * shape[i]]
           G == [p \in (1..n) \X Nat |-> p[2] * shape[p[1]]]
<1>1. n \in Nat /\ \A i \in 1..n : shape[i] \in Nat
  OBVIOUS
<1>2. G \in [(1..n) \X Nat -> Nat]
  BY <1>1
<1>3. PICK h : h \in Recursions(n, Nat, 1, G)
  <2> HIDE DEF G, n
  <2> QED BY <1>1, <1>2, RecursionExists
<1>3a. h \in [0..n -> Nat] /\ h[0] = 1 /\ \A k \in 1..n : h[k] = G[<<k, h[k - 1]>>]
  <2> HIDE DEF G, n
  <2> QED BY <1>3 DEF Recursions
<1>4. ASSUME NEW k \in 1..n PROVE h[k] = h[k - 1] * shape[k]
  <2>1. k - 1 \in 0..n
    OBVIOUS
  <2>2. <<k, h[k - 1]>> \in (1..n) \X Nat
    BY <1>3a, <2>1
  <2> QED BY <1>3a, <2>2
<1>5. h = Body(h)
  BY <1>1, <1>3a, <1>4
<1>6. ElementsUpTo(shape) = CHOOSE f : f = Body(f)
  BY DEF ElementsUpTo
<1>7. ElementsUpTo(shape) = Body(ElementsUpTo(shape))
  <2> HIDE DEF Body
  <2> QED BY <1>5, <1>6
<1>7a. \A k \in 0..n : ElementsUpTo(shape)[k] =
                        IF k = 0 THEN 1 ELSE ElementsUpTo(shape)[k - 1] * shape[k]
  <2> DEFINE e == ElementsUpTo(shape)
  <2>1. e = [i \in 0..n |-> IF i = 0 THEN 1 ELSE e[i - 1] * shape[i]]
    BY <1>7
  <2> HIDE DEF e, n
  <2>2. \A k \in 0..n : e[k] = IF k = 0 THEN 1 ELSE e[k - 1] * shape[k]
    BY <2>1
  <2> QED BY <2>2 DEF e
<1>8. ASSUME NEW k \in 1..n
      PROVE  ElementsUpTo(shape)[k] = ElementsUpTo(shape)[k - 1] * shape[k]
  <2>1. k \in 0..n /\ k # 0
    BY <1>1
  <2> HIDE DEF n
  <2> QED BY <1>7a, <2>1
<1>9. 0 \in 0..n /\ ElementsUpTo(shape)[0] = 1
  <2>1. 0 \in 0..n
    BY <1>1
  <2> HIDE DEF n
  <2> QED BY <1>7a, <2>1
<1>10. ElementsUpTo(shape) = [k \in 0..n |-> ElementsUpTo(shape)[k]]
       /\ DOMAIN ElementsUpTo(shape) = 0..n
  BY <1>7
<1>11. ASSUME NEW k \in 1..n, ElementsUpTo(shape)[k - 1] \in Nat
       PROVE  ElementsUpTo(shape)[k] \in Nat
  BY <1>1, <1>8, <1>11
<1>12. ElementsUpTo(shape) \in [0..n -> Nat]
  <2> HIDE DEF n
  <2> QED BY <1>1, <1>9, <1>10, <1>11, StaysInside
<1> QED BY <1>8, <1>9, <1>12

(* Each product is the last one times the next dimension, or refused. *)
LEMMA ProductRecursion ==
  ASSUME NEW shape \in Seq(Nat)
  PROVE  /\ ProductUpTo(shape)[0] = 1
         /\ \A i \in 1..Len(shape) :
              ProductUpTo(shape)[i] =
                IF ProductUpTo(shape)[i - 1] = Invalid THEN Invalid
                ELSE IF shape[i] # 0 /\ ProductUpTo(shape)[i - 1] > MaxWord \div shape[i]
                THEN Invalid
                ELSE ProductUpTo(shape)[i - 1] * shape[i]
PROOF
<1> DEFINE n == Len(shape)
           D == Nat \cup {Invalid}
           Times(q, i) == IF q = Invalid THEN Invalid
                          ELSE IF shape[i] # 0 /\ q > MaxWord \div shape[i] THEN Invalid
                          ELSE q * shape[i]
           Body(f) == [i \in 0..n |-> IF i = 0 THEN 1 ELSE Times(f[i - 1], i)]
           G == [p \in (1..n) \X D |-> Times(p[2], p[1])]
<1>1. n \in Nat /\ \A i \in 1..n : shape[i] \in Nat
  OBVIOUS
<1>2. G \in [(1..n) \X D -> D]
  <2>1. ASSUME NEW i \in 1..n, NEW q \in D PROVE Times(q, i) \in D
    BY <1>1
  <2> HIDE DEF Times, D
  <2> QED BY <2>1
<1>3. PICK h : h \in Recursions(n, D, 1, G)
  <2>1. 1 \in D
    OBVIOUS
  <2> HIDE DEF G, n, D
  <2> QED BY <1>1, <1>2, <2>1, RecursionExists
<1>3a. h \in [0..n -> D] /\ h[0] = 1 /\ \A k \in 1..n : h[k] = G[<<k, h[k - 1]>>]
  <2> HIDE DEF G, n, D
  <2> QED BY <1>3 DEF Recursions
<1> HIDE DEF Times
<1>4. ASSUME NEW k \in 1..n PROVE h[k] = Times(h[k - 1], k)
  <2>1. k - 1 \in 0..n
    OBVIOUS
  <2>2. <<k, h[k - 1]>> \in (1..n) \X D
    BY <1>3a, <2>1
  <2> QED BY <1>3a, <2>2
<1>5. h = Body(h)
  BY <1>1, <1>3a, <1>4
<1>6. ProductUpTo(shape) = CHOOSE f : f = Body(f)
  BY DEF ProductUpTo, Times
<1>7. ProductUpTo(shape) = Body(ProductUpTo(shape))
  <2> HIDE DEF Body
  <2> QED BY <1>5, <1>6
<1>7a. \A k \in 0..n : ProductUpTo(shape)[k] =
                        IF k = 0 THEN 1 ELSE Times(ProductUpTo(shape)[k - 1], k)
  <2> DEFINE p == ProductUpTo(shape)
  <2>1. p = [i \in 0..n |-> IF i = 0 THEN 1 ELSE Times(p[i - 1], i)]
    BY <1>7
  <2> HIDE DEF p, n
  <2>2. \A k \in 0..n : p[k] = IF k = 0 THEN 1 ELSE Times(p[k - 1], k)
    BY <2>1
  <2> QED BY <2>2 DEF p
<1>8. ASSUME NEW k \in 1..n
      PROVE  ProductUpTo(shape)[k] = Times(ProductUpTo(shape)[k - 1], k)
  <2>1. k \in 0..n /\ k # 0
    BY <1>1
  <2> HIDE DEF n
  <2> QED BY <1>7a, <2>1
<1>9. 0 \in 0..n /\ ProductUpTo(shape)[0] = 1
  <2>1. 0 \in 0..n
    BY <1>1
  <2> HIDE DEF n
  <2> QED BY <1>7a, <2>1
<1> QED BY <1>8, <1>9 DEF Times

(* A product that is not refused is exact, although no step of it leaves a *)
(* word.                                                                   *)
LEMMA ProductExact ==
  ASSUME NEW shape \in Seq(Nat), Product(shape) # Invalid
  PROVE  Product(shape) = Elements(shape) /\ Product(shape) \in Nat
PROOF
<1> DEFINE p == ProductUpTo(shape)
           e == ElementsUpTo(shape)
           S == {k \in Nat : k <= Len(shape) => p[k] = Invalid \/ p[k] = e[k]}
<1>1. Len(shape) \in Nat
  OBVIOUS
<1>2. 0 \in S
  BY ElementsRecursion, ProductRecursion
<1>3. ASSUME NEW k \in 0..(Len(shape) - 1), k \in S PROVE k + 1 \in S
  <2>1. k + 1 \in 1..Len(shape) /\ k + 1 - 1 = k /\ k \in Nat /\ k <= Len(shape)
    BY <1>1
  <2>2. e[k + 1] = e[k] * shape[k + 1]
    BY <2>1, ElementsRecursion
  <2>3. \/ p[k + 1] = Invalid
        \/ p[k] # Invalid /\ p[k + 1] = p[k] * shape[k + 1]
    <3> HIDE DEF p
    <3>1. \A i \in 1..Len(shape) :
              p[i] =
                IF p[i - 1] = Invalid THEN Invalid
                ELSE IF shape[i] # 0 /\ p[i - 1] > MaxWord \div shape[i] THEN Invalid
                ELSE p[i - 1] * shape[i]
      BY ProductRecursion DEF p
    <3> QED BY <2>1, <3>1
  <2> QED BY <1>3, <2>1, <2>2, <2>3
<1>4. Len(shape) \in S
  <2> HIDE DEF S
  <2>1. 0..Len(shape) \subseteq S
    BY <1>1, <1>2, <1>3, UpTo
  <2> QED BY <1>1, <2>1
<1>5. Product(shape) = p[Len(shape)] /\ Elements(shape) = e[Len(shape)]
  BY DEF Product, Elements, ProductUpTo, ElementsUpTo
<1>6. e[Len(shape)] \in Nat
  BY <1>1, ElementsRecursion
<1> QED BY <1>1, <1>4, <1>5, <1>6

(* A block of any type has elements and bytes. *)
LEMMA TypeLayouts ==
  /\ {0, 8, 12, 13, 14, 30} \subseteq DOMAIN TypeLayout
  /\ \A t \in DOMAIN TypeLayout :
       TypeLayout[t].block \in Nat \ {0} /\ TypeLayout[t].bytes \in Nat \ {0}
BY DEF TypeLayout

(* The bytes of a tensor that is not refused are its exact bytes. *)
ExactBytes(tensor) ==
  (Elements(tensor.shape) \div TypeLayout[tensor.type].block) * TypeLayout[tensor.type].bytes

(* What ByteSize returns is exact. *)
LEMMA ByteSizeExact ==
  ASSUME NEW tensor, tensor.shape \in Seq(Nat), ByteSize(tensor) # Invalid
  PROVE  /\ ByteSize(tensor) = ExactBytes(tensor)
         /\ ByteSize(tensor) \in Nat
PROOF
<1>1. tensor.type \in DOMAIN TypeLayout /\ Product(tensor.shape) # Invalid
  BY DEF ByteSize
<1>2. Product(tensor.shape) = Elements(tensor.shape) /\ Product(tensor.shape) \in Nat
  BY <1>1, ProductExact
<1>3. ByteSize(tensor) =
        (Product(tensor.shape) \div TypeLayout[tensor.type].block)
          * TypeLayout[tensor.type].bytes
  BY DEF ByteSize
<1>4. TypeLayout[tensor.type].block \in Nat \ {0} /\ TypeLayout[tensor.type].bytes \in Nat \ {0}
  BY <1>1, TypeLayouts
<1>5. Product(tensor.shape) \div TypeLayout[tensor.type].block \in Nat
  BY <1>2, <1>4
<1>6. ASSUME NEW a \in Nat, NEW b \in Nat PROVE a * b \in Nat
  OBVIOUS
<1> QED BY <1>2, <1>3, <1>4, <1>5, <1>6 DEF ExactBytes

(* What the reader made of a file it accepted: a name stands for a tensor  *)
(* of that name, and the bytes of a tensor are its exact bytes.            *)
LEMMA ReadTensors ==
  ASSUME NEW id \in ReadableFiles
  PROVE  LET index == IndexOf[id]
         IN /\ index.size = File[id].size
            /\ \A i \in DOMAIN index.tensors :
                 /\ index.tensors[i].bytes = ExactBytes(index.tensors[i])
                 /\ index.tensors[i].bytes \in Nat
                 /\ index.tensors[i].at \in Nat
PROOF
<1> DEFINE file == File[id]
           index == IndexOf[id]
<1>1. id \in DOMAIN File /\ Readable(file)
  BY DEF ReadableFiles, Files
<1>2. index = Index(file)
  BY <1>1 DEF IndexOf
<1>3. DataOffset(file) \in Nat
  <2>1. Meta(file.metadata, "general.alignment", DefaultAlignment) \in Nat /\ file.indexEnd \in Nat
    BY <1>1, FileAssumption
  <2>2. DataOffset(file) # Invalid
    BY <1>1 DEF Readable
  <2>3. ASSUME NEW a \in Nat, NEW v \in Nat, AlignUp(v, a) # Invalid PROVE AlignUp(v, a) \in Nat
    <3>1. a # 0
      BY <2>3 DEF AlignUp
    <3>2. v % a \in 0..(a - 1)
      BY <3>1
    <3>3. (a - (v % a)) % a \in 0..(a - 1)
      BY <3>1, <3>2
    <3> QED BY <2>3, <3>1, <3>3 DEF AlignUp
  <2> QED BY <2>1, <2>2, <2>3 DEF DataOffset
<1>4. DOMAIN index.tensors = DOMAIN file.tensors /\ index.size = file.size
  BY <1>2 DEF Index
<1>5. ASSUME NEW i \in DOMAIN file.tensors
      PROVE  /\ index.tensors[i].bytes = ExactBytes(index.tensors[i])
             /\ index.tensors[i].bytes \in Nat
             /\ index.tensors[i].at \in Nat
  <2> DEFINE t == file.tensors[i]
  <2>1. t \in ToSet(file.tensors)
    BY DEF ToSet
  <2>2. t.shape \in Seq(Nat) /\ t.offset \in Nat
    BY <1>1, <2>1, FileAssumption
  <2>3. ByteSize(t) # Invalid
    BY <1>1 DEF Readable
  <2>4. /\ index.tensors[i].shape = t.shape /\ index.tensors[i].type = t.type
        /\ index.tensors[i].bytes = ByteSize(t)
        /\ index.tensors[i].at = DataOffset(file) + t.offset
    BY <1>2 DEF Index
  <2>5. ByteSize(t) = ExactBytes(t) /\ ByteSize(t) \in Nat
    <3> HIDE DEF t
    <3> QED BY <2>2, <2>3, ByteSizeExact
  <2>6. ExactBytes(index.tensors[i]) = ExactBytes(t)
    BY <2>4 DEF ExactBytes
  <2> QED BY <1>3, <2>2, <2>4, <2>5, <2>6
<1> QED BY <1>4, <1>5

(* A name stands for a tensor of the file that has this name. *)
LEMMA NamedTensors ==
  ASSUME NEW id \in Files, NEW name, HasTensor(IndexOf[id], name)
  PROVE  /\ IndexOf[id].named[name] \in DOMAIN IndexOf[id].tensors
         /\ Tensor(IndexOf[id], name) \in ToSet(IndexOf[id].tensors)
         /\ Tensor(IndexOf[id], name).name = name
PROOF
<1> DEFINE file == File[id]
           T == {i \in DOMAIN file.tensors : file.tensors[i].name = name}
<1>1. id \in DOMAIN File /\ IndexOf[id] = Index(file)
  BY DEF IndexOf, Files
<1>2. /\ DOMAIN IndexOf[id].tensors = DOMAIN file.tensors
      /\ \A i \in DOMAIN file.tensors : IndexOf[id].tensors[i].name = file.tensors[i].name
      /\ IndexOf[id].named = FirstOfName(file.tensors)
  BY <1>1 DEF Index
<1>3. name \in {file.tensors[i].name : i \in DOMAIN file.tensors}
  BY <1>2 DEF HasTensor, FirstOfName
<1>4. T # {} /\ T \subseteq Nat
  <2>1. DOMAIN file.tensors \subseteq Nat
    BY <1>1, FileAssumption
  <2> QED BY <1>3, <2>1
<1>5. Min(T) \in T
  <2>1. \E x \in T : \A y \in T : x <= y
    BY <1>4, LeastNumber
  <2> QED BY <2>1 DEF Min
<1>6. IndexOf[id].named[name] = Min(T)
  BY <1>2, <1>3 DEF FirstOfName
<1> QED BY <1>2, <1>5, <1>6 DEF Tensor, ToSet

-----------------------------------------------------------------------------
(* The files on the disk are those of the request until one is replaced. *)
FilesRead ==
  /\ request \in Requests
  /\ disk \in [model : Files, mmproj : Files \cup {NoFile}]
  /\ replaced \in Nat
  /\ replaced = 0 => disk = request.files
  /\ read \in [metadata : Files \cup {NoFile}, bundle : Files \cup {NoFile},
               index : Files \cup {NoFile}, graph : Files \cup {NoFile},
               weights : Files \cup {NoFile}]

(* The steps of a request with a planned prompt. *)
Planned == {"place", "blocks", "upload", "prefill", "sample", "decode"}

(* From the index on, the tensors fit the configuration that was read.     *)
IndexBound ==
  pc \in Planned =>
    /\ replaced = 0 => read.index = request.files.model
    /\ IndexFits(read.index, ConfigOf[read.bundle])

(* The weights are taken from a file of the size of the index, which is     *)
(* that of the index unless it was replaced.                               *)
WeightsBound ==
  read.weights # NoFile =>
    /\ pc \in Planned
    /\ File[read.weights].size = File[read.index].size
    /\ read.weights # read.index => replaced > 0
    /\ \A tensor \in ToSet(IndexOf[read.index].tensors) :
         Uploadable(tensor, File[read.index].size)

(* What holds of the files at every step. *)
FilesInv == FilesRead /\ IndexBound /\ WeightsBound

(* A request begins with nothing read. *)
LEMMA FilesInit == Init => FilesInv
PROOF
<1> SUFFICES ASSUME Init PROVE FilesInv
  OBVIOUS
<1>1. request.files \in [model : Files, mmproj : Files \cup {NoFile}]
  BY RequestAssumption DEF Init, Files
<1>2. FilesRead
  BY <1>1 DEF Init, FilesRead, NothingRead
<1>3. IndexBound /\ WeightsBound
  BY DEF Init, IndexBound, WeightsBound, Planned, NothingRead
<1> QED BY <1>2, <1>3 DEF FilesInv

(* A return forgets the files. *)
LEMMA FilesReturn ==
  ASSUME FilesInv, NEW with, Return(with)
  PROVE  FilesInv'
PROOF
<1>1. FilesRead'
  BY DEF FilesInv, FilesRead, Return, NothingRead
<1>2. IndexBound' /\ WeightsBound'
  BY DEF Return, NothingRead, IndexBound, WeightsBound, Planned
<1> QED BY <1>1, <1>2 DEF FilesInv

(* What a file that is mapped again by its size is. *)
LEMMA SameSizeMapped ==
  ASSUME FilesInv, pc \in Planned,
         Mappable(IndexOf[read.index], File[disk.model])
  PROVE  /\ File[disk.model].size = File[read.index].size
         /\ disk.model # read.index => replaced > 0
PROOF
<1>1. read.index \in ReadableFiles
  BY DEF FilesInv, IndexBound, IndexFits
<1>2. File[disk.model].size = File[read.index].size
  BY <1>1, ReadTensors DEF Mappable
<1>3. ASSUME replaced = 0 PROVE disk.model = read.index
  BY <1>3 DEF FilesInv, FilesRead, IndexBound
<1>4. replaced \in Nat
  BY DEF FilesInv, FilesRead
<1> QED BY <1>2, <1>3, <1>4

(* Every step keeps what is known of the files. *)
LEMMA FilesNext == FilesInv /\ [Next]_vars => FilesInv'
PROOF
<1> SUFFICES ASSUME FilesInv, [Next]_vars PROVE FilesInv'
  OBVIOUS
<1> USE DEF envVars, planVars, runVars
<1>1. CASE Ask
  <2>1. request'.files \in [model : Files, mmproj : Files \cup {NoFile}]
    BY <1>1, RequestAssumption DEF Ask, Files
  <2>2. FilesRead'
    BY <1>1, <2>1 DEF Ask, FilesInv, FilesRead
  <2>3. IndexBound' /\ WeightsBound'
    BY <1>1 DEF Ask, FilesInv, IndexBound, WeightsBound, Planned
  <2> QED BY <2>2, <2>3 DEF FilesInv
<1>2. CASE Gateway
  <2>1. CASE WithImages => Admits(disk.mmproj, request.messages)
    BY <1>2, <2>1 DEF Gateway, FilesInv, FilesRead, IndexBound, WeightsBound, Planned
  <2> QED BY <1>2, <2>1, FilesReturn DEF Gateway
<1>3. CASE Start
  <2>1. CASE Startable
    BY <1>3, <2>1 DEF Start, Startable, FilesInv, FilesRead, IndexBound, WeightsBound, Planned
  <2> QED BY <1>3, <2>1, FilesReturn DEF Start, Fail
<1>4. CASE LoadBundle
  <2>1. CASE BundleFits(disk.model, read.metadata) /\ ValidSampling
    BY <1>4, <2>1 DEF LoadBundle, FilesInv, FilesRead, IndexBound, WeightsBound, Planned
  <2> QED BY <1>4, <2>1, FilesReturn DEF LoadBundle, Fail
<1>5. CASE ReadIndex
  <2>1. CASE /\ \E config \in {ConfigOf[read.bundle]} : IndexFits(disk.model, config)
             /\ PromptFits(disk.model, read.metadata)
    <3>1. /\ read' = [read EXCEPT !.index = disk.model] /\ pc = "index" /\ pc' = "place"
          /\ UNCHANGED <<envVars, answer>>
      BY <1>5, <2>1 DEF ReadIndex
    <3>2. /\ read'.index = disk.model /\ read'.bundle = read.bundle
          /\ read'.weights = read.weights
      BY <3>1 DEF FilesInv, FilesRead
    <3>3. FilesRead'
      BY <3>1 DEF FilesInv, FilesRead
    <3>4. IndexBound'
      BY <2>1, <3>1, <3>2 DEF FilesInv, FilesRead, IndexBound, IndexFits
    <3>5. WeightsBound'
      BY <3>1, <3>2 DEF FilesInv, WeightsBound, Planned
    <3> QED BY <3>3, <3>4, <3>5 DEF FilesInv
  <2> QED BY <1>5, <2>1, FilesReturn DEF ReadIndex, Fail
<1>6. CASE PlaceText
  BY <1>6 DEF PlaceText, Place, FilesInv, FilesRead, IndexBound, WeightsBound, Planned, IndexFits
<1>7. CASE EncodeInput
  <2>1. CASE InputReady(disk.mmproj)
    <3>1. /\ read' = [read EXCEPT !.graph = disk.mmproj] /\ pc = "place" /\ pc' = "blocks"
          /\ UNCHANGED <<envVars, answer>>
      BY <1>7, <2>1 DEF EncodeInput
    <3>2. /\ read'.index = read.index /\ read'.bundle = read.bundle
          /\ read'.weights = read.weights
      BY <3>1 DEF FilesInv, FilesRead
    <3> QED
      BY <3>1, <3>2 DEF FilesInv, FilesRead, IndexBound, WeightsBound, Planned, IndexFits
  <2> QED BY <1>7, <2>1, FilesReturn DEF EncodeInput, Fail
<1>8. CASE EncodeBlocks
  <2>1. CASE pc' = "place" /\ UNCHANGED <<read, envVars>>
    BY <1>8, <2>1 DEF EncodeBlocks, FilesInv, FilesRead, IndexBound, WeightsBound, Planned, IndexFits
  <2> QED BY <1>8, <2>1, FilesReturn DEF EncodeBlocks, Place, Fail
<1>9. CASE LayOut
  <2>1. CASE pc' = "upload" /\ UNCHANGED <<read, envVars>>
    BY <1>9, <2>1 DEF LayOut, FilesInv, FilesRead, IndexBound, WeightsBound, Planned, IndexFits
  <2> QED BY <1>9, <2>1, FilesReturn DEF LayOut, Fail
<1>10. CASE Upload
  <2>1. CASE /\ pc = "upload" /\ pc' = "prefill" /\ read' = [read EXCEPT !.weights = disk.model]
             /\ Mappable(IndexOf[read.index], File[disk.model])
             /\ \A tensor \in ToSet(IndexOf[read.index].tensors) :
                  Uploadable(tensor, File[disk.model].size)
             /\ UNCHANGED <<envVars>>
    <3>1. /\ File[disk.model].size = File[read.index].size
          /\ disk.model # read.index => replaced > 0
      BY <2>1, SameSizeMapped DEF Planned
    <3>2. /\ read'.index = read.index /\ read'.bundle = read.bundle
          /\ read'.weights = disk.model
      BY <2>1 DEF FilesInv, FilesRead
    <3>3. FilesRead' /\ IndexBound'
      BY <2>1, <3>2 DEF FilesInv, FilesRead, IndexBound, Planned, IndexFits
    <3>4. WeightsBound'
      BY <2>1, <3>1, <3>2 DEF WeightsBound, Planned
    <3> QED BY <3>3, <3>4 DEF FilesInv
  <2> QED BY <1>10, <2>1, FilesReturn DEF Upload, Fail
<1>11. CASE PrefillChunk
  <2>1. CASE pc = "prefill" /\ pc' \in {"prefill", "sample"} /\ UNCHANGED <<read, envVars>>
    BY <2>1 DEF FilesInv, FilesRead, IndexBound, WeightsBound, Planned, IndexFits
  <2> QED BY <1>11, <2>1, FilesReturn DEF PrefillChunk, Fail
<1>12. CASE Sample
  <2>1. CASE pc = "sample" /\ pc' = "decode" /\ UNCHANGED <<read, envVars>>
    BY <2>1 DEF FilesInv, FilesRead, IndexBound, WeightsBound, Planned, IndexFits
  <2> QED BY <1>12, <2>1, FilesReturn DEF Sample, Finish, Fail
<1>13. CASE DecodeToken
  <2>1. CASE pc = "decode" /\ pc' = "sample" /\ UNCHANGED <<read, envVars>>
    BY <2>1 DEF FilesInv, FilesRead, IndexBound, WeightsBound, Planned, IndexFits
  <2> QED BY <1>13, <2>1, FilesReturn DEF DecodeToken, Fail
<1>14. CASE Fault
  BY <1>14, FilesReturn DEF Fault
<1>15. CASE ReplaceFile
  <2>1. PICK new \in Replacements : disk' = [disk EXCEPT ![new.path] = new.file]
    BY <1>15 DEF ReplaceFile
  <2>2. new.path \in {"model", "mmproj"} /\ new.file \in Files
    BY ReplacementAssumption DEF Files
  <2>3. UNCHANGED <<request, pc, read>>
    BY <1>15 DEF ReplaceFile
  <2>4. disk' \in [model : Files, mmproj : Files \cup {NoFile}]
    BY <2>1, <2>2 DEF FilesInv, FilesRead
  <2>5. replaced' \in Nat /\ replaced' > 0
    BY <1>15 DEF ReplaceFile, FilesInv, FilesRead
  <2> QED
    BY <2>3, <2>4, <2>5 DEF FilesInv, FilesRead, IndexBound, WeightsBound, IndexFits
<1>16. CASE UNCHANGED vars
  BY <1>16 DEF vars, FilesInv, FilesRead, IndexBound, WeightsBound, IndexFits
<1> QED
  BY <1>1, <1>2, <1>3, <1>4, <1>5, <1>6, <1>7, <1>8, <1>9, <1>10, <1>11, <1>12, <1>13, <1>14,
     <1>15, <1>16 DEF Next

(* In every reachable state. *)
LEMMA FilesAlways == Spec => []FilesInv
BY FilesInit, FilesNext, PTL DEF Spec

(* The tensors a layer binds, and those the model has outside its layers. *)
LEMMA BoundTensors ==
  ASSUME NEW id \in ReadableFiles, NEW config, WeightsBind(IndexOf[id], config)
  PROVE  /\ \A layer \in 0..(config.total - 1) : \A n \in DOMAIN LayerTensors(config, layer) :
              HasShape(IndexOf[id], <<"blk", layer, n>>, LayerTensors(config, layer)[n])
         /\ HasTensor(IndexOf[id], <<"token_embd">>)
         /\ HasTensor(IndexOf[id], <<"output_norm">>)
PROOF
<1>1. ASSUME NEW layer \in 0..(config.total - 1), NEW n \in DOMAIN LayerTensors(config, layer)
      PROVE  HasShape(IndexOf[id], <<"blk", layer, n>>, LayerTensors(config, layer)[n])
  <2>1. Binds(IndexOf[id], config, layer)
    BY DEF WeightsBind
  <2> QED BY <2>1 DEF Binds
<1> QED BY <1>1 DEF WeightsBind, HasShape

(* A tensor that may be uploaded lies in its file with its exact bytes. *)
LEMMA UploadableInside ==
  ASSUME NEW id \in ReadableFiles, NEW name, HasTensor(IndexOf[id], name),
         \A tensor \in ToSet(IndexOf[id].tensors) : Uploadable(tensor, File[id].size)
  PROVE  Tensor(IndexOf[id], name).at + ExactBytes(Tensor(IndexOf[id], name)) <= File[id].size
PROOF
<1> DEFINE tensor == Tensor(IndexOf[id], name)
<1>1. id \in Files
  BY DEF ReadableFiles
<1>2. tensor \in ToSet(IndexOf[id].tensors)
  BY <1>1, NamedTensors
<1>3. PICK i \in DOMAIN IndexOf[id].tensors : tensor = IndexOf[id].tensors[i]
  BY <1>2 DEF ToSet
<1>4. tensor.bytes = ExactBytes(tensor) /\ tensor.bytes \in Nat /\ tensor.at \in Int
  BY <1>3, ReadTensors
<1>5. tensor.at <= File[id].size /\ tensor.bytes <= File[id].size - tensor.at
  BY <1>2 DEF Uploadable, BytesInside
<1>6. File[id].size \in Nat
  BY <1>1, FileAssumption DEF Files
<1> QED BY <1>4, <1>5, <1>6

(* For any files, replaced at any moment: the tensors the layers bind have  *)
(* the shapes the configuration asks for, their exact bytes lie inside the  *)
(* file the weights are taken from, and that file is the one the index      *)
(* describes unless another of its size took its place.                     *)
THEOREM WeightsAreRight == Spec => []WeightsAreTheirTensors
PROOF
<1>1. FilesInv => WeightsAreTheirTensors
  <2> SUFFICES ASSUME FilesInv, read.weights # NoFile PROVE WeightsAreTheirTensors
    BY DEF WeightsAreTheirTensors
  <2> DEFINE config == ConfigOf[read.bundle]
             index == IndexOf[read.index]
             bound == {<<"token_embd">>, <<"output_norm">>} \cup
                      UNION {{<<"blk", layer, n>> : n \in DOMAIN LayerTensors(config, layer)} :
                               layer \in 0..(config.total - 1)}
  <2>1. /\ File[read.weights].size = File[read.index].size
        /\ read.weights # read.index => replaced > 0
        /\ \A tensor \in ToSet(index.tensors) : Uploadable(tensor, File[read.index].size)
        /\ IndexFits(read.index, config)
    BY DEF FilesInv, WeightsBound, IndexBound
  <2>2. read.index \in ReadableFiles /\ WeightsBind(index, config)
    BY <2>1 DEF IndexFits
  <2> HIDE DEF config, index
  <2>3. /\ \A layer \in 0..(config.total - 1) : \A n \in DOMAIN LayerTensors(config, layer) :
             HasShape(index, <<"blk", layer, n>>, LayerTensors(config, layer)[n])
        /\ HasTensor(index, <<"token_embd">>)
        /\ HasTensor(index, <<"output_norm">>)
    BY <2>2, BoundTensors DEF index
  <2>4. ASSUME NEW name \in bound PROVE HasTensor(index, name)
    <3>1. CASE name \in {<<"token_embd">>, <<"output_norm">>}
      BY <2>3, <3>1
    <3>2. CASE \E layer \in 0..(config.total - 1) : \E n \in DOMAIN LayerTensors(config, layer) :
                 name = <<"blk", layer, n>>
      BY <2>3, <3>2 DEF HasShape
    <3> QED BY <3>1, <3>2
  <2>5. ASSUME NEW name \in bound
        PROVE  Tensor(index, name).at + ExactBytes(Tensor(index, name)) <= File[read.weights].size
    BY <2>1, <2>2, <2>4, UploadableInside DEF index
  <2> QED BY <2>1, <2>3, <2>5 DEF WeightsAreTheirTensors, ExactBytes, config, index
<1> QED BY <1>1, FilesAlways, PTL

-----------------------------------------------------------------------------
(* Division, where it is exact and where it is not. *)
LEMMA Division ==
  ASSUME NEW n \in Nat, NEW d \in Nat \ {0}
  PROVE  /\ n \div d \in Nat /\ n % d \in 0..(d - 1)
         /\ n = d * (n \div d) + (n % d)
PROOF
<1>1. n % d \in 0..(d - 1)
  OBVIOUS
<1>2. n = d * (n \div d) + (n % d)
  OBVIOUS
<1>3. n \div d \in Nat
  OBVIOUS
<1> QED BY <1>1, <1>2, <1>3

(* Quotient and remainder are the only numbers of their kind. *)
LEMMA DivisionUnique ==
  ASSUME NEW d \in Nat \ {0}, NEW q \in Nat, NEW r \in 0..(d - 1)
  PROVE  (d * q + r) \div d = q /\ (d * q + r) % d = r
PROOF
<1>1. PICK n \in Nat : n = d * q + r
  <2>1. d * q \in Nat
    OBVIOUS
  <2> QED BY <2>1
<1>2. PICK p \in Nat, s \in 0..(d - 1) : p = n \div d /\ s = n % d /\ n = d * p + s
  BY <1>1, Division
<1>3. d * p + s = d * q + r
  BY <1>1, <1>2
<1>4. ASSUME NEW a \in Nat, NEW b \in Nat, a < b PROVE d * a + d <= d * b
  <2>1. b = a + 1 + (b - a - 1) /\ b - a - 1 \in Nat
    BY <1>4
  <2>2. PICK c \in Nat : c = b - a - 1
    BY <2>1
  <2>3. d * b = d * a + d + d * c
    BY <2>1, <2>2
  <2>4. d * c \in Nat
    OBVIOUS
  <2> QED BY <2>3, <2>4
<1>5. ~(p < q)
  <2> SUFFICES ASSUME p < q PROVE FALSE
    OBVIOUS
  <2>1. d * p + d <= d * q
    BY <1>4
  <2>2. d * p \in Nat /\ d * q \in Nat
    OBVIOUS
  <2> QED BY <1>3, <2>1, <2>2
<1>6. ~(q < p)
  <2> SUFFICES ASSUME q < p PROVE FALSE
    OBVIOUS
  <2>1. d * q + d <= d * p
    BY <1>4
  <2>2. d * p \in Nat /\ d * q \in Nat
    OBVIOUS
  <2> QED BY <1>3, <2>1, <2>2
<1>7. p = q
  BY <1>5, <1>6
<1>8. s = r
  <2>1. d * q \in Nat
    OBVIOUS
  <2> QED BY <1>3, <1>7, <2>1
<1> QED BY <1>1, <1>2, <1>7, <1>8

(* A multiple leaves no remainder. *)
LEMMA DivisionExact ==
  ASSUME NEW d \in Nat \ {0}, NEW q \in Nat
  PROVE  (d * q) \div d = q /\ (d * q) % d = 0
PROOF
<1>1. 0 \in 0..(d - 1) /\ d * q + 0 = d * q
  OBVIOUS
<1>2. (d * q + 0) \div d = q /\ (d * q + 0) % d = 0
  BY <1>1, DivisionUnique
<1> QED BY <1>1, <1>2

(* A product of positive numbers is positive, and grows with its factors. *)
LEMMA ProductPositive ==
  ASSUME NEW a \in Nat \ {0}, NEW b \in Nat \ {0}
  PROVE  a * b \in Nat \ {0} /\ a * b >= a /\ a * b >= b
PROOF
<1>1. PICK c \in Nat, e \in Nat : a = c + 1 /\ b = e + 1
  <2>1. a - 1 \in Nat /\ b - 1 \in Nat /\ a = (a - 1) + 1 /\ b = (b - 1) + 1
    OBVIOUS
  <2> QED BY <2>1
<1>2. a * b = c * e + c + e + 1 /\ c * e \in Nat
  BY <1>1
<1> QED BY <1>1, <1>2

(* A product grows with its first factor. *)
LEMMA ProductMonotone ==
  ASSUME NEW a \in Nat, NEW b \in Nat, NEW c \in Nat, a <= b
  PROVE  a * c <= b * c /\ a * c \in Nat /\ b * c \in Nat
PROOF
<1>1. PICK e \in Nat : b = a + e
  <2>1. b - a \in Nat /\ b = a + (b - a)
    OBVIOUS
  <2> QED BY <2>1
<1>2. b * c = a * c + e * c /\ e * c \in Nat /\ a * c \in Nat
  BY <1>1
<1> QED BY <1>2
-----------------------------------------------------------------------------
(* The least and the greatest of some bounded numbers. *)
LEMMA LeastOf ==
  ASSUME NEW T, T \subseteq Nat, T # {}
  PROVE  Min(T) \in T
PROOF
<1>1. \E x \in T : \A y \in T : x <= y
  BY LeastNumber
<1> QED BY <1>1 DEF Min

(* Max is the greatest of some bounded numbers. *)
LEMMA GreatestOf ==
  ASSUME NEW n \in Nat, NEW T, T \subseteq 0..n, T # {}
  PROVE  Max(T) \in T /\ \A y \in T : y <= Max(T)
PROOF
<1> DEFINE U == {n - x : x \in T}
<1>0. \A x \in T : x \in Nat /\ x <= n
  OBVIOUS
<1>1. U \subseteq Nat /\ U # {}
  <2>1. \A x \in T : n - x \in Nat
    BY <1>0
  <2> QED BY <2>1
<1>2. PICK u \in U : \A v \in U : u <= v
  BY <1>1, LeastNumber
<1>3. PICK x \in T : u = n - x
  OBVIOUS
<1>4. ASSUME NEW y \in T PROVE x >= y
  <2>1. n - y \in U
    OBVIOUS
  <2>2. n - x <= n - y
    BY <1>2, <1>3, <2>1
  <2> QED BY <1>0, <2>2
<1>5. \E z \in T : \A y \in T : z >= y
  BY <1>4
<1>6. Max(T) \in T /\ \A y \in T : Max(T) >= y
  BY <1>5 DEF Max
<1>7. PICK m \in T : m = Max(T) /\ \A y \in T : m >= y
  BY <1>6
<1>8. \A y \in T : y <= m
  BY <1>0, <1>7
<1> QED BY <1>7, <1>8

(* The multiples of a number. *)
Multiples(factor) == {factor * n : n \in Nat}

(* Both sides of a resized image are whole numbers of cells. *)
LEMMA FloorScaledWhole ==
  ASSUME NEW side \in Nat \ {0}, NEW other \in Nat \ {0}, NEW most \in Nat \ {0},
         NEW factor \in Nat \ {0}
  PROVE  FloorScaled(side, other, most, factor) \in Multiples(factor)
PROOF
<1> DEFINE T == {n \in 0..(side + most) : n * factor * n * factor * other <= side * most}
<1>1. 0 \in T
  <2>1. side * most \in Nat
    BY ProductPositive
  <2>2. 0 * factor = 0 /\ 0 * 0 = 0 /\ 0 * other = 0
    OBVIOUS
  <2>3. 0 * factor * 0 * factor * other = 0
    BY <2>2
  <2> QED BY <2>1, <2>3
<1>2. side + most \in Nat /\ T \subseteq 0..(side + most) /\ T # {}
  BY <1>1
<1>3. Max(T) \in T
  <2> HIDE DEF T
  <2> QED BY <1>2, GreatestOf
<1>4. FloorScaled(side, other, most, factor) = factor * Max(T)
  BY DEF FloorScaled
<1>5. Max(T) \in Nat
  BY <1>3
<1> QED BY <1>4, <1>5 DEF Multiples

(* CeilScaled, which is never 0. *)
LEMMA CeilScaledWhole ==
  ASSUME NEW side \in Nat \ {0}, NEW other \in Nat \ {0}, NEW least \in Nat \ {0},
         NEW factor \in Nat \ {0}
  PROVE  CeilScaled(side, other, least, factor) \in Multiples(factor) \ {0}
PROOF
<1> DEFINE T == {n \in 0..(side + least) : n * factor * n * factor * other >= side * least}
<1>1. side + least \in T
  <2>1. PICK s \in Nat \ {0} : s = side + least
    OBVIOUS
  <2>2. s * factor \in Nat \ {0} /\ s * factor >= s
    BY ProductPositive
  <2>3. s * factor * s \in Nat \ {0} /\ s * factor * s >= s * s
    BY <2>2, ProductPositive, ProductMonotone
  <2>4. s * factor * s * factor \in Nat \ {0} /\ s * factor * s * factor >= s * factor * s
    BY <2>3, ProductPositive
  <2>5. /\ s * factor * s * factor * other \in Nat
        /\ s * factor * s * factor * other >= s * factor * s * factor
    BY <2>4, ProductPositive
  <2>6. s * s >= side * least /\ s * s \in Nat
    <3>1. side <= s /\ least <= s
      BY <2>1
    <3>2. side * least <= s * least /\ s * least = least * s
      BY <3>1, ProductMonotone
    <3>3. least * s <= s * s
      BY <3>1, ProductMonotone
    <3>4. side * least \in Nat /\ least * s \in Nat /\ s * s \in Nat
      OBVIOUS
    <3> QED BY <3>2, <3>3, <3>4
  <2>7. side * least \in Nat
    OBVIOUS
  <2>8. s * factor * s * factor * other >= side * least
    BY <2>3, <2>4, <2>5, <2>6, <2>7
  <2> QED BY <2>1, <2>8
<1>2. T \subseteq Nat /\ T # {}
  <2>1. \A n \in 0..(side + least) : n \in Nat
    OBVIOUS
  <2> QED BY <1>1, <2>1
<1>3. Min(T) \in T
  <2> HIDE DEF T
  <2> QED BY <1>2, LeastOf
<1>4. 0 \notin T
  <2>1. side * least \in Nat \ {0}
    BY ProductPositive
  <2>2. 0 * factor = 0 /\ 0 * 0 = 0 /\ 0 * other = 0
    OBVIOUS
  <2>3. 0 * factor * 0 * factor * other = 0
    BY <2>2
  <2> QED BY <2>1, <2>3
<1>5. CeilScaled(side, other, least, factor) = factor * Min(T)
  BY DEF CeilScaled
<1>6. Min(T) \in Nat \ {0}
  <2> HIDE DEF T
  <2> QED BY <1>2, <1>3, <1>4
<1>7. factor * Min(T) # 0
  BY <1>6, ProductPositive
<1> QED BY <1>5, <1>6, <1>7 DEF Multiples

(* SmartResize makes both sides positive multiples of the cell. *)
LEMMA Resized ==
  ASSUME NEW width \in Nat \ {0}, NEW height \in Nat \ {0}, NEW align \in Nat \ {0},
         NEW least \in Nat \ {0}, NEW most \in Nat \ {0}
  PROVE  /\ SmartResize(width, height, align, least, most).width \in Multiples(align) \ {0}
         /\ SmartResize(width, height, align, least, most).height \in Multiples(align) \ {0}
PROOF
<1> DEFINE w == AtLeast(RoundBy(width, align), align)
           h == AtLeast(RoundBy(height, align), align)
           r == SmartResize(width, height, align, least, most)
<1>1. ASSUME NEW x \in Multiples(align) PROVE AtLeast(x, align) \in Multiples(align) \ {0}
  <2>1. PICK n \in Nat : x = align * n
    BY DEF Multiples
  <2>2. CASE n = 0
    <3>1. x = 0 /\ align = align * 1
      BY <2>1, <2>2
    <3>2. AtLeast(x, align) = align * 1
      BY <3>1 DEF AtLeast
    <3> QED BY <3>1, <3>2 DEF Multiples
  <2>3. CASE n # 0
    <3>1. align * n >= align /\ align * n \in Nat \ {0}
      BY <2>3, ProductPositive
    <3> QED BY <2>1, <3>1 DEF AtLeast
  <2> QED BY <2>2, <2>3
<1>2. ASSUME NEW v \in Nat \ {0} PROVE AtLeast(RoundBy(v, align), align) \in Multiples(align) \ {0}
  <2>1. PICK a \in Nat, b \in Nat \ {0} : a = 2 * v + align /\ b = 2 * align
    OBVIOUS
  <2>2. PICK n \in Nat : n = a \div b
    BY <2>1, Division
  <2>3. RoundBy(v, align) = align * n
    BY <2>1, <2>2 DEF RoundBy
  <2>4. RoundBy(v, align) \in Multiples(align)
    BY <2>3 DEF Multiples
  <2> QED BY <1>1, <2>4
<1>3. CASE w * h > most
  <2>1. r = [width |-> AtLeast(FloorScaled(width, height, most, align), align),
             height |-> AtLeast(FloorScaled(height, width, most, align), align)]
    BY <1>3 DEF SmartResize
  <2>2. /\ FloorScaled(width, height, most, align) \in Multiples(align)
        /\ FloorScaled(height, width, most, align) \in Multiples(align)
    BY FloorScaledWhole
  <2> QED BY <1>1, <2>1, <2>2
<1>4. CASE ~(w * h > most) /\ w * h < least
  <2>1. r = [width |-> CeilScaled(width, height, least, align),
             height |-> CeilScaled(height, width, least, align)]
    BY <1>4 DEF SmartResize
  <2>2. /\ CeilScaled(width, height, least, align) \in Multiples(align) \ {0}
        /\ CeilScaled(height, width, least, align) \in Multiples(align) \ {0}
    BY CeilScaledWhole
  <2> QED BY <2>1, <2>2
<1>5. CASE ~(w * h > most) /\ ~(w * h < least)
  <2>1. r = [width |-> w, height |-> h]
    BY <1>5 DEF SmartResize
  <2>2. w \in Multiples(align) \ {0} /\ h \in Multiples(align) \ {0}
    BY <1>2
  <2> QED BY <2>1, <2>2
<1> QED BY <1>3, <1>4, <1>5

-----------------------------------------------------------------------------
(* The numbers of a vision file. *)
IsMetadata(m) ==
  /\ m.patch \in Int /\ m.merge \in Int /\ m.minPixels \in Int /\ m.maxPixels \in Int
  /\ m.projection \in Int /\ m.blocks \in Int

(* Those MetadataOf gives. *)
LEMMA MetadataNumbers ==
  ASSUME NEW id \in Files
  PROVE  IsMetadata(MetadataOf[id])
PROOF
<1> DEFINE index == IndexOf[id]
           m(key) == Meta(index.metadata, key, 0)
           align == m("clip.vision.patch_size")
                      * (IF m("clip.vision.spatial_merge_size") > 0
                         THEN m("clip.vision.spatial_merge_size") ELSE 2)
<1>1. id \in DOMAIN File /\ index.metadata = File[id].metadata /\ MetadataOf[id] = Metadata(index)
  BY DEF Files, IndexOf, Index, MetadataOf
<1>2. /\ m("clip.vision.patch_size") \in Int /\ m("clip.vision.spatial_merge_size") \in Int
      /\ m("clip.vision.image_min_pixels") \in Int /\ m("clip.vision.image_max_pixels") \in Int
      /\ m("clip.vision.projection_dim") \in Int /\ m("clip.vision.block_count") \in Int
  BY <1>1, FileAssumption
<1> HIDE DEF m, index
<1>3. align \in Int
  BY <1>2
<1>4. align * align \in Int
  BY <1>3
<1>5. DefaultMinTokens * (align * align) \in Int /\ DefaultMaxTokens * (align * align) \in Int
  BY <1>4, TokenLimitAssumption
<1>6. /\ Metadata(index).patch = m("clip.vision.patch_size")
      /\ Metadata(index).merge = m("clip.vision.spatial_merge_size")
      /\ Metadata(index).projection = m("clip.vision.projection_dim")
      /\ Metadata(index).blocks = m("clip.vision.block_count")
  BY DEF Metadata, m
<1>7. Metadata(index).minPixels = IF m("clip.vision.image_min_pixels") > 0
                                  THEN m("clip.vision.image_min_pixels")
                                  ELSE DefaultMinTokens * (align * align)
  BY DEF Metadata, m, AlignSize, MergeSize
<1>8. Metadata(index).maxPixels = IF m("clip.vision.image_max_pixels") > 0
                                  THEN m("clip.vision.image_max_pixels")
                                  ELSE DefaultMaxTokens * (align * align)
  BY DEF Metadata, m, AlignSize, MergeSize
<1> QED BY <1>1, <1>2, <1>5, <1>6, <1>7, <1>8 DEF IsMetadata

(* The sides of a patch and of a cell are positive. *)
LEMMA CellSizes ==
  ASSUME NEW m, IsMetadata(m), m.patch > 0
  PROVE  /\ MergeSize(m) \in Nat \ {0} /\ m.patch \in Nat \ {0}
         /\ AlignSize(m) = m.patch * MergeSize(m) /\ AlignSize(m) \in Nat \ {0}
PROOF
<1>1. MergeSize(m) \in Nat \ {0} /\ m.patch \in Nat \ {0}
  BY DEF MergeSize, IsMetadata
<1>2. m.patch * MergeSize(m) \in Nat \ {0}
  BY <1>1, ProductPositive
<1> QED BY <1>1, <1>2 DEF AlignSize

(* An image is planned as a grid of whole cells, one token each. *)
IsGrid(plan, align) ==
  /\ plan.mergeX \in Nat \ {0} /\ plan.mergeY \in Nat \ {0}
  /\ plan.tokens = plan.mergeX * plan.mergeY
  /\ plan.width = align * plan.mergeX /\ plan.height = align * plan.mergeY

(* A side of n cells has n cells. *)
LEMMA CellsAreWhole ==
  ASSUME NEW p \in Nat \ {0}, NEW s \in Nat \ {0}, NEW n \in Nat
  PROVE  ((p * s) * n) \div p = s * n /\ (((p * s) * n) \div p) \div s = n
PROOF
<1>1. PICK k \in Nat : k = s * n
  OBVIOUS
<1>2. (p * s) * n = p * k
  BY <1>1
<1>3. (p * k) \div p = k
  BY DivisionExact
<1>4. (s * n) \div s = n
  BY DivisionExact
<1> QED BY <1>1, <1>2, <1>3, <1>4

(* EmbeddingPlan plans grids. *)
LEMMA PlansAreGrids ==
  ASSUME NEW m, IsMetadata(m), NEW w \in Nat, NEW h \in Nat, Resizable(m, w, h)
  PROVE  IsGrid(EmbeddingPlan(m, w, h), AlignSize(m))
PROOF
<1> DEFINE r == SmartResize(w, h, AlignSize(m), m.minPixels, m.maxPixels)
<1>1. /\ m.patch > 0 /\ w \in Nat \ {0} /\ h \in Nat \ {0}
      /\ m.minPixels \in Nat \ {0} /\ m.maxPixels \in Nat \ {0}
  BY DEF Resizable, IsMetadata
<1>2. /\ MergeSize(m) \in Nat \ {0} /\ m.patch \in Nat \ {0}
      /\ AlignSize(m) = m.patch * MergeSize(m) /\ AlignSize(m) \in Nat \ {0}
  BY <1>1, CellSizes
<1>3. r.width \in Multiples(AlignSize(m)) \ {0} /\ r.height \in Multiples(AlignSize(m)) \ {0}
  BY <1>1, <1>2, Resized
<1>4. PICK i \in Nat, j \in Nat : r.width = AlignSize(m) * i /\ r.height = AlignSize(m) * j
  BY <1>3 DEF Multiples
<1>5. i # 0 /\ j # 0
  BY <1>2, <1>3, <1>4
<1>6. /\ (r.width \div m.patch) \div MergeSize(m) = i
      /\ (r.height \div m.patch) \div MergeSize(m) = j
  <2>1. PICK p \in Nat \ {0}, s \in Nat \ {0} : p = m.patch /\ s = MergeSize(m)
    BY <1>2
  <2>2. r.width = (p * s) * i /\ r.height = (p * s) * j
    BY <1>2, <1>4, <2>1
  <2>3. (((p * s) * i) \div p) \div s = i /\ (((p * s) * j) \div p) \div s = j
    BY CellsAreWhole
  <2> HIDE DEF r
  <2> QED BY <2>1, <2>2, <2>3
<1>7. /\ EmbeddingPlan(m, w, h).width = r.width /\ EmbeddingPlan(m, w, h).height = r.height
      /\ EmbeddingPlan(m, w, h).mergeX = (r.width \div m.patch) \div MergeSize(m)
      /\ EmbeddingPlan(m, w, h).mergeY = (r.height \div m.patch) \div MergeSize(m)
      /\ EmbeddingPlan(m, w, h).tokens = ((r.width \div m.patch) \div MergeSize(m))
                                           * ((r.height \div m.patch) \div MergeSize(m))
  BY DEF EmbeddingPlan
<1> HIDE DEF r
<1> QED BY <1>4, <1>5, <1>6, <1>7 DEF IsGrid

-----------------------------------------------------------------------------
(* The parts of some messages, their tokens, and the chunks made of them. *)
PartsOf(messages) == UNION {ToSet(message.parts) : message \in ToSet(messages)}

(* The tokens that may stand in the text. *)
Words(messages) ==
  {"im_start", "im_end", "vision_start", "vision_end", "assistant", "think"}
    \cup {message.role : message \in ToSet(messages)}
    \cup UNION {ToSet(part.tokens) : part \in {p \in PartsOf(messages) : p.kind = "text"}}

(* Chunks of text, none empty. *)
TextChunks(words) == {c \in [kind : {"text"}, tokens : Seq(words)] : c.tokens # <<>>}

(* Chunks of images, as they are planned. *)
ImageChunks(m, images) == {ImageChunk(m, image) : image \in images}

(* The chunks a prompt may consist of. *)
PlannedChunks(m, messages) ==
  TextChunks(Words(messages)) \cup ImageChunks(m, Images(messages))

(* What they become with the ids of their text. *)
EncodedChunks(m, messages) == TextChunks(Nat) \cup ImageChunks(m, Images(messages))

(* Messages as the requests have them. *)
IsMessages(messages) ==
  /\ messages \in Seq(ToSet(messages))
  /\ \A message \in ToSet(messages) :
       /\ message.parts \in Seq(ToSet(message.parts))
       /\ \A part \in ToSet(message.parts) :
            \/ part.kind = "text" /\ part.tokens \in Seq(ToSet(part.tokens))
            \/ part.kind = "image"

(* Some chunk is an image. *)
ShowsImage(chs) == \E c \in DOMAIN chs : chs[c].kind = "image"

(* Text is added to the last chunk or as a new one. *)
LEMMA AddTextKeeps ==
  ASSUME NEW words, NEW others, NEW chs \in Seq(TextChunks(words) \cup others),
         \A c \in others : c.kind = "image",
         NEW tokens \in Seq(words)
  PROVE  /\ AddText(chs, tokens) \in Seq(TextChunks(words) \cup others)
         /\ tokens # <<>> => AddText(chs, tokens) # <<>>
         /\ ShowsImage(chs) => ShowsImage(AddText(chs, tokens))
PROOF
<1> DEFINE C == TextChunks(words) \cup others
<1>1. CASE tokens = <<>>
  BY <1>1 DEF AddText
<1>2. CASE tokens # <<>> /\ chs # <<>> /\ Last(chs).kind = "text"
  <2>1. Len(chs) \in Nat \ {0} /\ Len(chs) \in DOMAIN chs /\ Last(chs) = chs[Len(chs)] /\ Last(chs) \in C
    BY <1>2 DEF Last
  <2>2. Last(chs) \in TextChunks(words)
    BY <1>2, <2>1
  <2>3. /\ Last(chs) \in [kind : {"text"}, tokens : Seq(words)]
        /\ Last(chs).tokens \in Seq(words)
    BY <2>2 DEF TextChunks
  <2>4. Last(chs).tokens \o tokens \in Seq(words) /\ Last(chs).tokens \o tokens # <<>>
    BY <1>2, <2>3
  <2> DEFINE c == [Last(chs) EXCEPT !.tokens = @ \o tokens]
  <2>5. c \in TextChunks(words)
    BY <2>3, <2>4 DEF TextChunks
  <2>6. AddText(chs, tokens) = [chs EXCEPT ![Len(chs)] = c]
    BY <1>2, <2>1 DEF AddText
  <2> HIDE DEF c
  <2>7. [chs EXCEPT ![Len(chs)] = c] \in Seq(C)
    BY <2>1, <2>5
  <2>8. Len([chs EXCEPT ![Len(chs)] = c]) = Len(chs)
    BY <2>1
  <2>9. ASSUME NEW i \in DOMAIN chs, chs[i].kind = "image"
        PROVE  ShowsImage([chs EXCEPT ![Len(chs)] = c])
    <3>1. i # Len(chs)
      BY <1>2, <2>1, <2>9
    <3>2. i \in DOMAIN [chs EXCEPT ![Len(chs)] = c] /\ [chs EXCEPT ![Len(chs)] = c][i] = chs[i]
      BY <3>1
    <3> QED BY <2>9, <3>2 DEF ShowsImage
  <2> QED BY <2>1, <2>6, <2>7, <2>8, <2>9 DEF ShowsImage
<1>3. CASE tokens # <<>> /\ ~(chs # <<>> /\ Last(chs).kind = "text")
  <2>1. AddText(chs, tokens) = Append(chs, [kind |-> "text", tokens |-> tokens])
    BY <1>3 DEF AddText
  <2>2. [kind |-> "text", tokens |-> tokens] \in TextChunks(words)
    BY <1>3 DEF TextChunks
  <2> DEFINE c == [kind |-> "text", tokens |-> tokens]
  <2> HIDE DEF c
  <2>3. ASSUME NEW i \in DOMAIN chs, chs[i].kind = "image" PROVE ShowsImage(Append(chs, c))
    <3>1. i \in DOMAIN Append(chs, c) /\ Append(chs, c)[i] = chs[i]
      OBVIOUS
    <3> QED BY <2>3, <3>1 DEF ShowsImage
  <2> QED BY <2>1, <2>2, <2>3 DEF ShowsImage, c
<1> QED BY <1>1, <1>2, <1>3

(* The chunks of a message, then of all messages. *)
AddedParts(m, chs, message) ==
  LET added[n \in 0..Len(message.parts)] ==
        IF n = 0 THEN AddText(chs, <<"im_start", message.role>>)
        ELSE AddPart(m, added[n - 1], message.parts[n])
  IN added

(* The chunks after each message. *)
AddedMessages(m, messages) ==
  LET added[n \in 0..Len(messages)] ==
        IF n = 0 THEN <<>> ELSE AddMessage(m, added[n - 1], messages[n])
  IN added

(* A chunk of an image is no text. *)
LEMMA ImageChunksAreImages ==
  ASSUME NEW m, NEW images, NEW c \in ImageChunks(m, images)
  PROVE  c.kind = "image"
BY DEF ImageChunks, ImageChunk

(* A part adds chunks of the same kinds. *)
LEMMA AddPartKeeps ==
  ASSUME NEW m, NEW messages, IsMessages(messages),
         NEW message \in ToSet(messages), NEW part \in ToSet(message.parts),
         NEW chs \in Seq(PlannedChunks(m, messages))
  PROVE  /\ AddPart(m, chs, part) \in Seq(PlannedChunks(m, messages))
         /\ ShowsImage(chs) \/ part.kind = "image" => ShowsImage(AddPart(m, chs, part))
PROOF
<1> DEFINE W == Words(messages)
           O == ImageChunks(m, Images(messages))
           C == TextChunks(W) \cup O
<1>1. C = PlannedChunks(m, messages)
  BY DEF PlannedChunks
<1>2. \A c \in O : c.kind = "image"
  BY ImageChunksAreImages
<1>3. part \in PartsOf(messages)
  BY DEF PartsOf
<1>4. CASE part.kind = "text"
  <2>1. part.tokens \in Seq(ToSet(part.tokens))
    BY <1>4 DEF IsMessages
  <2>2. ToSet(part.tokens) \subseteq W
    BY <1>3, <1>4 DEF Words
  <2>3. part.tokens \in Seq(W)
    BY <2>1, <2>2
  <2>4. AddPart(m, chs, part) = AddText(chs, part.tokens)
    BY <1>4 DEF AddPart
  <2>5. chs \in Seq(C)
    BY <1>1
  <2> HIDE DEF W, O
  <2>6. /\ AddText(chs, part.tokens) \in Seq(C)
        /\ ShowsImage(chs) => ShowsImage(AddText(chs, part.tokens))
    BY <1>2, <2>3, <2>5, AddTextKeeps, Zenon
  <2> QED BY <1>1, <1>4, <2>4, <2>6
<1>5. CASE part.kind # "text"
  <2>1. part.kind = "image"
    BY <1>5 DEF IsMessages
  <2>2. part.image \in Images(messages)
    BY <1>3, <2>1 DEF Images, PartsOf
  <2>3. ImageChunk(m, part.image) \in C
    BY <2>2 DEF ImageChunks
  <2>4. <<"vision_start">> \in Seq(W) /\ <<"vision_end">> \in Seq(W)
    BY DEF Words
  <2>5. AddPart(m, chs, part) =
          AddText(Append(AddText(chs, <<"vision_start">>), ImageChunk(m, part.image)),
                  <<"vision_end">>)
    BY <1>5 DEF AddPart
  <2>5a. chs \in Seq(C)
    BY <1>1
  <2> HIDE DEF W, O
  <2>6. AddText(chs, <<"vision_start">>) \in Seq(C)
    BY <1>2, <2>4, <2>5a, AddTextKeeps, Zenon
  <2>7. /\ Append(AddText(chs, <<"vision_start">>), ImageChunk(m, part.image)) \in Seq(C)
        /\ ShowsImage(Append(AddText(chs, <<"vision_start">>), ImageChunk(m, part.image)))
    <3>1. PICK q \in Seq(C), e \in C :
            q = AddText(chs, <<"vision_start">>) /\ e = ImageChunk(m, part.image)
      BY <2>3, <2>6
    <3>2. e.kind = "image"
      BY <3>1 DEF ImageChunk
    <3>3. Len(q) + 1 \in DOMAIN Append(q, e) /\ Append(q, e)[Len(q) + 1] = e
      OBVIOUS
    <3> QED BY <3>1, <3>2, <3>3 DEF ShowsImage
  <2>8. /\ AddText(Append(AddText(chs, <<"vision_start">>), ImageChunk(m, part.image)),
                   <<"vision_end">>) \in Seq(C)
        /\ ShowsImage(AddText(Append(AddText(chs, <<"vision_start">>), ImageChunk(m, part.image)),
                              <<"vision_end">>))
    BY <1>2, <2>4, <2>7, AddTextKeeps, Zenon
  <2> QED BY <1>1, <2>5, <2>8
<1> QED BY <1>4, <1>5

(* So does a marker. *)
LEMMA AddMarkerKeeps ==
  ASSUME NEW m, NEW messages, NEW chs \in Seq(PlannedChunks(m, messages)),
         NEW tokens \in Seq(Words(messages))
  PROVE  /\ AddText(chs, tokens) \in Seq(PlannedChunks(m, messages))
         /\ ShowsImage(chs) => ShowsImage(AddText(chs, tokens))
PROOF
<1> DEFINE W == Words(messages)
           O == ImageChunks(m, Images(messages))
           C == TextChunks(W) \cup O
<1>1. C = PlannedChunks(m, messages)
  BY DEF PlannedChunks
<1>2. \A c \in O : c.kind = "image"
  BY ImageChunksAreImages
<1>3. chs \in Seq(C) /\ tokens \in Seq(W)
  BY <1>1
<1> HIDE DEF W, O
<1>4. AddText(chs, tokens) \in Seq(C) /\ (ShowsImage(chs) => ShowsImage(AddText(chs, tokens)))
  BY <1>2, <1>3, AddTextKeeps, Zenon
<1> QED BY <1>1, <1>4

(* So does a whole message. *)
LEMMA AddMessageKeeps ==
  ASSUME NEW m, NEW messages, IsMessages(messages), NEW message \in ToSet(messages),
         NEW chs \in Seq(PlannedChunks(m, messages))
  PROVE  /\ AddMessage(m, chs, message) \in Seq(PlannedChunks(m, messages))
         /\ ShowsImage(chs) \/ (\E part \in ToSet(message.parts) : part.kind = "image") =>
              ShowsImage(AddMessage(m, chs, message))
PROOF
<1> DEFINE D == Seq(PlannedChunks(m, messages))
           parts == message.parts
           n == Len(parts)
           base == AddText(chs, <<"im_start", message.role>>)
           Body(f) == [k \in 0..n |-> IF k = 0 THEN base ELSE AddPart(m, f[k - 1], parts[k])]
           G == [p \in (1..n) \X D |-> AddPart(m, p[2], parts[p[1]])]
           F == AddedParts(m, chs, message)
<1>1. parts \in Seq(ToSet(parts)) /\ n \in Nat
  BY DEF IsMessages
<1>2. \A k \in 1..n : parts[k] \in ToSet(parts)
  BY <1>1 DEF ToSet
<1>3. base \in D /\ (ShowsImage(chs) => ShowsImage(base))
  <2>1. <<"im_start", message.role>> \in Seq(Words(messages))
    BY DEF Words
  <2> QED BY <2>1, AddMarkerKeeps
<1>4. ASSUME NEW q \in D, NEW k \in 1..n
      PROVE  /\ AddPart(m, q, parts[k]) \in D
             /\ ShowsImage(q) \/ parts[k].kind = "image" => ShowsImage(AddPart(m, q, parts[k]))
  BY <1>2, AddPartKeeps
<1>5. G \in [(1..n) \X D -> D]
  <2> HIDE DEF D, n, parts
  <2> QED BY <1>4
<1>6. PICK h : h \in Recursions(n, D, base, G)
  <2> HIDE DEF G, n, D, base
  <2> QED BY <1>1, <1>3, <1>5, RecursionExists
<1>7. h \in [0..n -> D] /\ h[0] = base /\ \A k \in 1..n : h[k] = G[<<k, h[k - 1]>>]
  <2> HIDE DEF G, n, D, base
  <2> QED BY <1>6 DEF Recursions
<1>8. ASSUME NEW k \in 1..n PROVE h[k] = AddPart(m, h[k - 1], parts[k])
  <2>1. k - 1 \in 0..n
    BY <1>1
  <2> HIDE DEF n, D, base, parts
  <2>2. <<k, h[k - 1]>> \in (1..n) \X D
    BY <1>7, <2>1
  <2> QED BY <1>7, <2>2
<1>9. h = Body(h)
  <2> HIDE DEF n, D, base, parts, G
  <2>1. \A k \in 0..n : h[k] = IF k = 0 THEN base ELSE AddPart(m, h[k - 1], parts[k])
    BY <1>1, <1>7, <1>8
  <2> QED BY <1>7, <2>1
<1>10. F = CHOOSE f : f = Body(f)
  BY DEF AddedParts
<1>11. F = Body(F)
  <2> HIDE DEF Body, F
  <2> QED BY <1>9, <1>10
<1>12. /\ F = [k \in 0..n |-> F[k]] /\ DOMAIN F = 0..n /\ F[0] \in D
       /\ \A k \in 1..n : F[k - 1] \in D => F[k] \in D
  <2> HIDE DEF n, D, base, parts, F
  <2>1. DOMAIN F = 0..n /\ F = [k \in 0..n |-> F[k]]
    BY <1>11
  <2>2. F[0] \in D
    BY <1>1, <1>3, <1>11
  <2>3. ASSUME NEW k \in 1..n, F[k - 1] \in D PROVE F[k] \in D
    <3>1. k \in 0..n /\ k # 0
      BY <1>1
    <3>2. F[k] = AddPart(m, F[k - 1], parts[k])
      BY <1>11, <3>1
    <3> QED BY <1>4, <2>3, <3>2
  <2> QED BY <2>1, <2>2, <2>3
<1>13. F \in [0..n -> D]
  <2> HIDE DEF n, D, F
  <2> QED BY <1>1, <1>12, StaysInside
<1>14. F[n] \in D
  <2> HIDE DEF F, D, n
  <2> QED BY <1>1, <1>13
<1>15. AddMessage(m, chs, message) = AddText(F[n], <<"im_end">>)
  BY DEF AddMessage, AddedParts
<1>16. <<"im_end">> \in Seq(Words(messages))
  BY DEF Words
<1>17. ASSUME NEW k \in 1..n PROVE F[k] = AddPart(m, F[k - 1], parts[k]) /\ F[k - 1] \in D
  <2> HIDE DEF n, D, base, parts, F
  <2>1. k \in 0..n /\ k # 0 /\ k - 1 \in 0..n
    BY <1>1
  <2> QED BY <1>11, <1>13, <2>1
<1>18. ASSUME NEW c \in 0..n, ShowsImage(F[c]) PROVE ShowsImage(F[n])
  <2> DEFINE E == {q \in D : ShowsImage(q)}
  <2>1. F[c] \in E
    <3> HIDE DEF F, D, n
    <3> QED BY <1>13, <1>18
  <2>2. ASSUME NEW k \in (c + 1)..n, F[k - 1] \in E PROVE F[k] \in E
    <3>1. k \in 1..n
      BY <1>1
    <3> HIDE DEF F, D, n, parts
    <3> QED BY <1>4, <1>17, <2>2, <3>1
  <2>3. F[n] \in E
    <3> HIDE DEF E, F, n
    <3> QED BY <1>1, <2>1, <2>2, StaysFrom
  <2> QED BY <2>3
<1>19. ASSUME ShowsImage(chs) \/ \E part \in ToSet(parts) : part.kind = "image"
       PROVE  ShowsImage(F[n])
  <2>1. CASE ShowsImage(chs)
    <3>1. F[0] = base /\ 0 \in 0..n
      <4> HIDE DEF F, n, base
      <4> QED BY <1>1, <1>11
    <3> HIDE DEF F, n, base
    <3> QED BY <1>3, <1>18, <2>1, <3>1
  <2>2. CASE \E part \in ToSet(parts) : part.kind = "image"
    <3>1. PICK k \in 1..n : parts[k].kind = "image"
      BY <1>1, <2>2 DEF ToSet
    <3>2. ShowsImage(F[k]) /\ k \in 0..n
      <4> HIDE DEF F, D, n, parts
      <4> QED BY <1>1, <1>4, <1>17, <3>1
    <3> HIDE DEF F, n
    <3> QED BY <1>18, <3>2
  <2> QED BY <1>19, <2>1, <2>2
<1> HIDE DEF F
<1> QED BY <1>14, <1>15, <1>16, <1>19, AddMarkerKeeps

(* The chunks of a prompt: a text is not empty, an image is one of the      *)
(* messages', planned by the metadata, and if they have any there is one.   *)
LEMMA PromptChunksArePlanned ==
  ASSUME NEW m, NEW messages, IsMessages(messages)
  PROVE  /\ PromptChunks(m, messages) \in Seq(PlannedChunks(m, messages))
         /\ HasImages(messages) => ShowsImage(PromptChunks(m, messages))
PROOF
<1> DEFINE D == Seq(PlannedChunks(m, messages))
           n == Len(messages)
           Body(f) == [k \in 0..n |-> IF k = 0 THEN <<>> ELSE AddMessage(m, f[k - 1], messages[k])]
           G == [p \in (1..n) \X D |-> AddMessage(m, p[2], messages[p[1]])]
           F == AddedMessages(m, messages)
<1>1. messages \in Seq(ToSet(messages)) /\ n \in Nat
  BY DEF IsMessages
<1>2. \A k \in 1..n : messages[k] \in ToSet(messages)
  BY <1>1 DEF ToSet
<1>3. <<>> \in D
  OBVIOUS
<1>4. ASSUME NEW q \in D, NEW k \in 1..n
      PROVE  /\ AddMessage(m, q, messages[k]) \in D
             /\ ShowsImage(q) \/ (\E part \in ToSet(messages[k].parts) : part.kind = "image") =>
                  ShowsImage(AddMessage(m, q, messages[k]))
  BY <1>2, AddMessageKeeps
<1>5. G \in [(1..n) \X D -> D]
  <2> HIDE DEF D, n
  <2> QED BY <1>4
<1>6. PICK h : h \in Recursions(n, D, <<>>, G)
  <2> HIDE DEF G, n, D
  <2> QED BY <1>1, <1>3, <1>5, RecursionExists
<1>7. h \in [0..n -> D] /\ h[0] = <<>> /\ \A k \in 1..n : h[k] = G[<<k, h[k - 1]>>]
  <2> HIDE DEF G, n, D
  <2> QED BY <1>6 DEF Recursions
<1>8. ASSUME NEW k \in 1..n PROVE h[k] = AddMessage(m, h[k - 1], messages[k])
  <2>1. k - 1 \in 0..n
    BY <1>1
  <2> HIDE DEF n, D
  <2>2. <<k, h[k - 1]>> \in (1..n) \X D
    BY <1>7, <2>1
  <2> QED BY <1>7, <2>2
<1>9. h = Body(h)
  <2> HIDE DEF n, D, G
  <2>1. \A k \in 0..n : h[k] = IF k = 0 THEN <<>> ELSE AddMessage(m, h[k - 1], messages[k])
    BY <1>1, <1>7, <1>8
  <2> QED BY <1>7, <2>1
<1>10. F = CHOOSE f : f = Body(f)
  BY DEF AddedMessages
<1>11. F = Body(F)
  <2> HIDE DEF Body, F
  <2> QED BY <1>9, <1>10
<1>12. /\ F = [k \in 0..n |-> F[k]] /\ DOMAIN F = 0..n /\ F[0] \in D
       /\ \A k \in 1..n : F[k - 1] \in D => F[k] \in D
  <2> HIDE DEF n, D, F
  <2>1. DOMAIN F = 0..n /\ F = [k \in 0..n |-> F[k]]
    BY <1>11
  <2>2. F[0] \in D
    BY <1>1, <1>3, <1>11
  <2>3. ASSUME NEW k \in 1..n, F[k - 1] \in D PROVE F[k] \in D
    <3>1. k \in 0..n /\ k # 0
      BY <1>1
    <3>2. F[k] = AddMessage(m, F[k - 1], messages[k])
      BY <1>11, <3>1
    <3> QED BY <1>4, <2>3, <3>2
  <2> QED BY <2>1, <2>2, <2>3
<1>13. F \in [0..n -> D]
  <2> HIDE DEF n, D, F
  <2> QED BY <1>1, <1>12, StaysInside
<1>14. F[n] \in D
  <2> HIDE DEF F, D, n
  <2> QED BY <1>1, <1>13
<1>15. PromptChunks(m, messages) = AddText(F[n], <<"im_start", "assistant", "think">>)
  BY DEF PromptChunks, AddedMessages
<1>16. <<"im_start", "assistant", "think">> \in Seq(Words(messages))
  BY DEF Words
<1>17. ASSUME NEW k \in 1..n PROVE F[k] = AddMessage(m, F[k - 1], messages[k]) /\ F[k - 1] \in D
  <2> HIDE DEF n, D, F
  <2>1. k \in 0..n /\ k # 0 /\ k - 1 \in 0..n
    BY <1>1
  <2> QED BY <1>11, <1>13, <2>1
<1>18. ASSUME HasImages(messages) PROVE ShowsImage(F[n])
  <2> DEFINE E == {q \in D : ShowsImage(q)}
  <2>1. PICK c \in 1..n : \E part \in ToSet(messages[c].parts) : part.kind = "image"
    <3>1. PICK msg \in ToSet(messages) : \E part \in ToSet(msg.parts) : part.kind = "image"
      BY <1>18 DEF HasImages, Images
    <3> QED BY <1>1, <3>1 DEF ToSet
  <2>2. F[c] \in E /\ c \in 0..n
    <3> HIDE DEF F, D, n
    <3>1. c \in 0..n
      BY <1>1
    <3>2. F[c] = AddMessage(m, F[c - 1], messages[c]) /\ F[c - 1] \in D
      BY <1>17
    <3> QED BY <1>4, <2>1, <3>1, <3>2
  <2>3. ASSUME NEW k \in (c + 1)..n, F[k - 1] \in E PROVE F[k] \in E
    <3>1. k \in 1..n
      BY <1>1
    <3> HIDE DEF F, D, n
    <3> QED BY <1>4, <1>17, <2>3, <3>1
  <2>4. F[n] \in E
    <3> HIDE DEF E, F, n
    <3> QED BY <1>1, <2>2, <2>3, StaysFrom
  <2> QED BY <2>4
<1> HIDE DEF F
<1> QED BY <1>14, <1>15, <1>16, <1>18, AddMarkerKeeps

-----------------------------------------------------------------------------
(* The id of a token is its place among the tokens of the vocabulary. *)
LEMMA TokenIdInside ==
  ASSUME NEW tokens, tokens \in Seq(ToSet(tokens)), NEW piece, HasToken(tokens, piece)
  PROVE  TokenId(tokens, piece) \in 0..(Len(tokens) - 1)
PROOF
<1> DEFINE T == {n \in DOMAIN tokens : tokens[n] = piece}
<1>1. Len(tokens) \in Nat /\ DOMAIN tokens = 1..Len(tokens)
  OBVIOUS
<1>2. T \subseteq Nat /\ T # {}
  BY <1>1 DEF HasToken
<1>3. Min(T) \in T
  <2> HIDE DEF T
  <2> QED BY <1>2, LeastOf
<1>4. Min(T) \in 1..Len(tokens)
  BY <1>1, <1>3
<1>5. TokenId(tokens, piece) = Min(T) - 1
  BY DEF TokenId
<1> HIDE DEF T
<1> QED BY <1>1, <1>4, <1>5

(* A piece is spelled in tokens of the vocabulary. *)
LEMMA SpelledInside ==
  ASSUME NEW tokens, tokens \in Seq(ToSet(tokens)), NEW piece
  PROVE  Spelled(tokens, piece) \in Seq(0..(Len(tokens) - 1))
PROOF
<1> DEFINE I == 0..(Len(tokens) - 1)
<1>1. HasToken(tokens, piece) => TokenId(tokens, piece) \in I
  BY TokenIdInside
<1>2. HasToken(tokens, "byte") => TokenId(tokens, "byte") \in I
  BY TokenIdInside
<1> HIDE DEF I
<1>3. Spelled(tokens, piece) \in Seq(I)
  BY <1>1, <1>2 DEF Spelled
<1> QED BY <1>3 DEF I

(* The ids after each piece of a text, and the chunks after each chunk.     *)
EncodedPieces(tokens, text) ==
  LET encoded[n \in 0..Len(text)] ==
        IF n = 0 THEN <<>> ELSE encoded[n - 1] \o Spelled(tokens, text[n])
  IN encoded

(* A chunk of the plan with the tokens of its text.                         *)
WithTokens(tokens, done, chunk) ==
  IF chunk.kind = "text" THEN AddText(done, EncodeText(tokens, chunk.tokens))
  ELSE Append(done, chunk)

(* The chunks after each one.                                               *)
TokenizedUpTo(tokens, cs) ==
  LET encoded[c \in 0..Len(cs)] ==
        IF c = 0 THEN <<>> ELSE WithTokens(tokens, encoded[c - 1], cs[c])
  IN encoded

(* A text is encoded in tokens of the vocabulary. *)
LEMMA TextEncodes ==
  ASSUME NEW tokens, tokens \in Seq(ToSet(tokens)), NEW words, NEW text \in Seq(words)
  PROVE  EncodeText(tokens, text) \in Seq(0..(Len(tokens) - 1))
PROOF
<1> DEFINE D == Seq(0..(Len(tokens) - 1))
           n == Len(text)
           Body(f) == [k \in 0..n |-> IF k = 0 THEN <<>> ELSE f[k - 1] \o Spelled(tokens, text[k])]
           G == [p \in (1..n) \X D |-> p[2] \o Spelled(tokens, text[p[1]])]
           F == EncodedPieces(tokens, text)
<1>1. n \in Nat
  OBVIOUS
<1>2. <<>> \in D
  OBVIOUS
<1>3. ASSUME NEW q \in D, NEW k \in 1..n PROVE q \o Spelled(tokens, text[k]) \in D
  BY SpelledInside
<1>4. G \in [(1..n) \X D -> D]
  <2> HIDE DEF D, n
  <2> QED BY <1>3
<1>5. PICK h : h \in Recursions(n, D, <<>>, G)
  <2> HIDE DEF G, n, D
  <2> QED BY <1>1, <1>2, <1>4, RecursionExists
<1>6. h \in [0..n -> D] /\ h[0] = <<>> /\ \A k \in 1..n : h[k] = G[<<k, h[k - 1]>>]
  <2> HIDE DEF G, n, D
  <2> QED BY <1>5 DEF Recursions
<1>7. ASSUME NEW k \in 1..n PROVE h[k] = h[k - 1] \o Spelled(tokens, text[k])
  <2>1. k - 1 \in 0..n
    BY <1>1
  <2> HIDE DEF n, D
  <2>2. <<k, h[k - 1]>> \in (1..n) \X D
    BY <1>6, <2>1
  <2> QED BY <1>6, <2>2
<1>8. h = Body(h)
  <2> HIDE DEF n, D, G
  <2>1. \A k \in 0..n : h[k] = IF k = 0 THEN <<>> ELSE h[k - 1] \o Spelled(tokens, text[k])
    BY <1>1, <1>6, <1>7
  <2> QED BY <1>6, <2>1
<1>9. F = CHOOSE f : f = Body(f)
  BY DEF EncodedPieces
<1>10. F = Body(F)
  <2> HIDE DEF Body, F
  <2> QED BY <1>8, <1>9
<1>11. /\ F = [k \in 0..n |-> F[k]] /\ DOMAIN F = 0..n /\ F[0] \in D
       /\ \A k \in 1..n : F[k - 1] \in D => F[k] \in D
  <2> HIDE DEF n, D, F
  <2>1. DOMAIN F = 0..n /\ F = [k \in 0..n |-> F[k]]
    BY <1>10
  <2>2. F[0] \in D
    BY <1>1, <1>2, <1>10
  <2>3. ASSUME NEW k \in 1..n, F[k - 1] \in D PROVE F[k] \in D
    <3>1. k \in 0..n /\ k # 0
      BY <1>1
    <3>2. F[k] = F[k - 1] \o Spelled(tokens, text[k])
      BY <1>10, <3>1
    <3> QED BY <1>3, <2>3, <3>2
  <2> QED BY <2>1, <2>2, <2>3
<1>12. F \in [0..n -> D]
  <2> HIDE DEF n, D, F
  <2> QED BY <1>1, <1>11, StaysInside
<1>13. F[n] \in D
  <2> HIDE DEF F, D, n
  <2> QED BY <1>1, <1>12
<1>14. EncodeText(tokens, text) = F[n]
  BY DEF EncodeText, EncodedPieces
<1> QED BY <1>13, <1>14

(* Chunks keep their images, and their text has tokens of the vocabulary.   *)
LEMMA TokenizedChunks ==
  ASSUME NEW tokens, tokens \in Seq(ToSet(tokens)), NEW words, NEW others,
         \A c \in others : c.kind = "image",
         NEW cs \in Seq(TextChunks(words) \cup others)
  PROVE  /\ Tokenized(tokens, cs) \in Seq(TextChunks(0..(Len(tokens) - 1)) \cup others)
         /\ ShowsImage(cs) => ShowsImage(Tokenized(tokens, cs))
PROOF
<1> DEFINE I == 0..(Len(tokens) - 1)
           D == Seq(TextChunks(I) \cup others)
           n == Len(cs)
           Body(f) == [k \in 0..n |-> IF k = 0 THEN <<>> ELSE WithTokens(tokens, f[k - 1], cs[k])]
           G == [p \in (1..n) \X D |-> WithTokens(tokens, p[2], cs[p[1]])]
           F == TokenizedUpTo(tokens, cs)
<1>1. n \in Nat
  OBVIOUS
<1>2. <<>> \in D
  OBVIOUS
<1>3. ASSUME NEW q \in D, NEW k \in 1..n
      PROVE  /\ WithTokens(tokens, q, cs[k]) \in D
             /\ ShowsImage(q) \/ cs[k].kind = "image" => ShowsImage(WithTokens(tokens, q, cs[k]))
  <2>1. cs[k] \in TextChunks(words) \cup others
    OBVIOUS
  <2>2. CASE cs[k] \in TextChunks(words)
    <3>1. cs[k].kind = "text" /\ cs[k].tokens \in Seq(words)
      BY <2>2 DEF TextChunks
    <3>2. EncodeText(tokens, cs[k].tokens) \in Seq(I)
      BY <3>1, TextEncodes
    <3>3. WithTokens(tokens, q, cs[k]) = AddText(q, EncodeText(tokens, cs[k].tokens))
      BY <3>1 DEF WithTokens
    <3> HIDE DEF I
    <3> QED BY <3>1, <3>2, <3>3, AddTextKeeps
  <2>3. CASE cs[k] \in others
    <3>1. cs[k].kind = "image" /\ WithTokens(tokens, q, cs[k]) = Append(q, cs[k])
      BY <2>3 DEF WithTokens
    <3>2. Append(q, cs[k]) \in D
      <4> HIDE DEF I
      <4> QED BY <2>3
    <3>3. Len(q) + 1 \in DOMAIN Append(q, cs[k]) /\ Append(q, cs[k])[Len(q) + 1] = cs[k]
      <4> HIDE DEF I
      <4> QED OBVIOUS
    <3> QED BY <3>1, <3>2, <3>3 DEF ShowsImage
  <2> QED BY <2>1, <2>2, <2>3
<1>4. G \in [(1..n) \X D -> D]
  <2> HIDE DEF D, n
  <2> QED BY <1>3
<1>5. PICK h : h \in Recursions(n, D, <<>>, G)
  <2> HIDE DEF G, n, D
  <2> QED BY <1>1, <1>2, <1>4, RecursionExists
<1>6. h \in [0..n -> D] /\ h[0] = <<>> /\ \A k \in 1..n : h[k] = G[<<k, h[k - 1]>>]
  <2> HIDE DEF G, n, D
  <2> QED BY <1>5 DEF Recursions
<1>7. ASSUME NEW k \in 1..n PROVE h[k] = WithTokens(tokens, h[k - 1], cs[k])
  <2>1. k - 1 \in 0..n
    BY <1>1
  <2> HIDE DEF n, D
  <2>2. <<k, h[k - 1]>> \in (1..n) \X D
    BY <1>6, <2>1
  <2> QED BY <1>6, <2>2
<1>8. h = Body(h)
  <2> HIDE DEF n, D, G
  <2>1. \A k \in 0..n : h[k] = IF k = 0 THEN <<>> ELSE WithTokens(tokens, h[k - 1], cs[k])
    BY <1>1, <1>6, <1>7
  <2> QED BY <1>6, <2>1
<1>9. F = CHOOSE f : f = Body(f)
  BY DEF TokenizedUpTo
<1>10. F = Body(F)
  <2> HIDE DEF Body, F
  <2> QED BY <1>8, <1>9
<1>11. /\ F = [k \in 0..n |-> F[k]] /\ DOMAIN F = 0..n /\ F[0] \in D
       /\ \A k \in 1..n : F[k - 1] \in D => F[k] \in D
  <2> HIDE DEF n, D, F
  <2>1. DOMAIN F = 0..n /\ F = [k \in 0..n |-> F[k]]
    BY <1>10
  <2>2. F[0] \in D
    BY <1>1, <1>2, <1>10
  <2>3. ASSUME NEW k \in 1..n, F[k - 1] \in D PROVE F[k] \in D
    <3>1. k \in 0..n /\ k # 0
      BY <1>1
    <3>2. F[k] = WithTokens(tokens, F[k - 1], cs[k])
      BY <1>10, <3>1
    <3> QED BY <1>3, <2>3, <3>2
  <2> QED BY <2>1, <2>2, <2>3
<1>12. F \in [0..n -> D]
  <2> HIDE DEF n, D, F
  <2> QED BY <1>1, <1>11, StaysInside
<1>13. F[n] \in D
  <2> HIDE DEF F, D, n
  <2> QED BY <1>1, <1>12
<1>14. Tokenized(tokens, cs) = F[n]
  BY DEF Tokenized, TokenizedUpTo, WithTokens
<1>15. ASSUME NEW k \in 1..n PROVE F[k] = WithTokens(tokens, F[k - 1], cs[k]) /\ F[k - 1] \in D
  <2> HIDE DEF n, D, F
  <2>1. k \in 0..n /\ k # 0 /\ k - 1 \in 0..n
    BY <1>1
  <2> QED BY <1>10, <1>12, <2>1
<1>16. ASSUME ShowsImage(cs) PROVE ShowsImage(F[n])
  <2> DEFINE E == {q \in D : ShowsImage(q)}
  <2>1. PICK c \in 1..n : cs[c].kind = "image"
    BY <1>16 DEF ShowsImage
  <2>2. F[c] \in E /\ c \in 0..n
    <3> HIDE DEF F, D, n
    <3>1. c \in 0..n
      BY <1>1
    <3>2. F[c] = WithTokens(tokens, F[c - 1], cs[c]) /\ F[c - 1] \in D
      BY <1>15
    <3> QED BY <1>3, <2>1, <3>1, <3>2
  <2>3. ASSUME NEW k \in (c + 1)..n, F[k - 1] \in E PROVE F[k] \in E
    <3>1. k \in 1..n
      BY <1>1
    <3> HIDE DEF F, D, n
    <3> QED BY <1>3, <1>15, <2>3, <3>1
  <2>4. F[n] \in E
    <3> HIDE DEF E, F, n
    <3> QED BY <1>1, <2>2, <2>3, StaysFrom
  <2> QED BY <2>4
<1> HIDE DEF F, D
<1> QED BY <1>13, <1>14, <1>16 DEF D

(* The messages and images of the requests are such. *)
LEMMA RequestMessages ==
  ASSUME NEW r \in Requests
  PROVE  /\ IsMessages(r.messages)
         /\ \A image \in Images(r.messages) : ImageAssumption(image)
PROOF
<1>1. /\ r.messages \in Seq(ToSet(r.messages))
      /\ \A message \in ToSet(r.messages) :
           /\ message.parts \in Seq(ToSet(message.parts))
           /\ \A part \in ToSet(message.parts) :
                \/ part.kind = "text" /\ part.tokens \in Seq(ToSet(part.tokens))
                \/ part.kind = "image" /\ ImageAssumption(part.image)
  BY RequestAssumption
<1>2. IsMessages(r.messages)
  BY <1>1 DEF IsMessages
<1>3. ASSUME NEW image \in Images(r.messages) PROVE ImageAssumption(image)
  <2>1. PICK part \in UNION {ToSet(msg.parts) : msg \in ToSet(r.messages)} :
          part.kind = "image" /\ image = part.image
    BY DEF Images
  <2>2. PICK message \in ToSet(r.messages) : part \in ToSet(message.parts)
    BY <2>1
  <2> QED BY <1>1, <2>1, <2>2
<1> QED BY <1>2, <1>3

(* An image with a size has bytes, and what it decodes to has this size. *)
LEMMA ImageSizes ==
  ASSUME NEW image, ImageAssumption(image)
  PROVE  /\ Dimensions(image) # NoSize =>
              image.bytes /\ Dimensions(image) \in Nat \X Nat
         /\ Dimensions(image) # NoSize /\ image.decoded # NoSize =>
              Dimensions(image) = image.decoded
BY DEF ImageAssumption, Dimensions

(* A chunk of a planned prompt takes tokens and positions. *)
ChunkTakes(c, m, messages) ==
  /\ c.kind \in {"text", "image"}
  /\ c.kind = "text" => c.tokens \in Seq(Nat) /\ c.tokens # <<>>
  /\ c.kind = "image" =>
       /\ c.image \in Images(messages)
       /\ Dimensions(c.image) # NoSize
       /\ c.plan = EmbeddingPlan(m, Dimensions(c.image)[1], Dimensions(c.image)[2])
       /\ IsGrid(c.plan, AlignSize(m)) /\ m.patch > 0 /\ IsMetadata(m)
  /\ TokenCount(c) \in Nat \ {0}
  /\ PositionAdvance(c) \in Nat \ {0}

(* Every chunk of a planned prompt does. *)
LEMMA EncodedChunksTake ==
  ASSUME NEW m, NEW messages, \A image \in Images(messages) : ImageAssumption(image),
         HasImages(messages) => IsMetadata(m) /\ PromptPlans(m, messages),
         NEW c \in EncodedChunks(m, messages)
  PROVE  ChunkTakes(c, m, messages)
PROOF
<1>1. CASE c \in TextChunks(Nat)
  <2>1. c.kind = "text" /\ c.tokens \in Seq(Nat) /\ c.tokens # <<>>
    BY <1>1 DEF TextChunks
  <2>2. Len(c.tokens) \in Nat \ {0}
    BY <2>1
  <2> QED BY <2>1, <2>2 DEF ChunkTakes, TokenCount, PositionAdvance
<1>2. CASE c \in ImageChunks(m, Images(messages))
  <2>1. PICK image \in Images(messages) : c = ImageChunk(m, image)
    BY <1>2 DEF ImageChunks
  <2>2. /\ c.kind = "image" /\ c.image = image
        /\ c.plan = EmbeddingPlan(m, Dimensions(image)[1], Dimensions(image)[2])
    BY <2>1 DEF ImageChunk
  <2>3. /\ IsMetadata(m) /\ Dimensions(image) # NoSize
        /\ Resizable(m, Dimensions(image)[1], Dimensions(image)[2])
    BY <2>1 DEF HasImages, PromptPlans
  <2>4. Dimensions(image) \in Nat \X Nat
    BY <2>1, <2>3, ImageSizes
  <2>5. Dimensions(image)[1] \in Nat /\ Dimensions(image)[2] \in Nat
    BY <2>4
  <2>6. IsGrid(c.plan, AlignSize(m))
    BY <2>2, <2>3, <2>5, PlansAreGrids
  <2>7. TokenCount(c) \in Nat \ {0}
    BY <2>2, <2>6, ProductPositive DEF TokenCount, IsGrid
  <2>8. PositionAdvance(c) \in Nat \ {0}
    BY <2>2, <2>6 DEF PositionAdvance, AtLeast, IsGrid
  <2> QED BY <2>2, <2>3, <2>6, <2>7, <2>8 DEF ChunkTakes, Resizable
<1> QED BY <1>1, <1>2 DEF EncodedChunks

(* Appending to a sequence, whatever its elements. *)
LEMMA AppendAny ==
  ASSUME NEW s, s \in Seq(ToSet(s)), NEW e
  PROVE  /\ Append(s, e) \in Seq(ToSet(Append(s, e)))
         /\ Len(Append(s, e)) = Len(s) + 1 /\ Len(s) \in Nat
         /\ DOMAIN Append(s, e) = 1..(Len(s) + 1) /\ DOMAIN s = 1..Len(s)
         /\ \A i \in 1..Len(s) : Append(s, e)[i] = s[i]
         /\ Append(s, e)[Len(s) + 1] = e
         /\ Append(s, e) # <<>> /\ Last(Append(s, e)) = e
PROOF
<1> DEFINE T == ToSet(s) \cup {e}
<1>1. s \in Seq(T) /\ e \in T
  BY SeqMonotonic
<1>2. PICK t \in Seq(T) : t = Append(s, e)
  <2> HIDE DEF T
  <2> QED BY <1>1, AppendProperties
<1>3. /\ Len(t) = Len(s) + 1 /\ Len(s) \in Nat
      /\ \A i \in 1..Len(s) : t[i] = s[i]
      /\ t[Len(s) + 1] = e /\ DOMAIN s = 1..Len(s) /\ t # <<>>
  BY <1>1, <1>2
<1>4. t \in Seq(ToSet(t))
  <2>1. t = [i \in 1..Len(t) |-> t[i]] /\ Len(t) \in Nat
    <3> HIDE DEF T
    <3> QED BY <1>2, LenProperties
  <2>2. \A i \in 1..Len(t) : t[i] \in ToSet(t)
    BY <2>1 DEF ToSet
  <2> QED BY <2>1, <2>2
<1> QED BY <1>2, <1>3, <1>4 DEF Last

-----------------------------------------------------------------------------
(* Where the k-th of the four tokens of cell n has its patch, in an image  *)
(* of i by j cells.                                                        *)
PatchX(i, n, k) == 2 * (n % i) + ((k - 1) % 2)
(* And its row. *)
PatchY(i, n, k) == 2 * (n \div i) + ((k - 1) \div 2)

(* The four tokens of the n-th cell, by number. *)
LEMMA FourOf ==
  ASSUME NEW n \in Nat, NEW k \in 1..4
  PROVE  LET t == 4 * n + k - 1
         IN /\ t \div 4 = n /\ t % 2 = (k - 1) % 2 /\ (t % 4) \div 2 = (k - 1) \div 2
            /\ (k - 1) % 2 \in 0..1 /\ (k - 1) \div 2 \in 0..1
PROOF
<1>1. CASE k = 1
  BY <1>1
<1>2. CASE k = 2
  BY <1>2
<1>3. CASE k = 3
  BY <1>3
<1>4. CASE k = 4
  BY <1>4
<1> QED BY <1>1, <1>2, <1>3, <1>4

(* They are where the merge puts the patch. *)
LEMMA CellPlace ==
  ASSUME NEW i \in Nat \ {0}, NEW j \in Nat \ {0}, NEW n \in 0..(i * j - 1)
  PROVE  n \in Nat /\ n % i \in 0..(i - 1) /\ n \div i \in 0..(j - 1)
PROOF
<1>1. i * j \in Nat \ {0}
  BY ProductPositive
<1>2. n \in Nat /\ n < i * j
  BY <1>1
<1>3. /\ n \div i \in Nat /\ n % i \in 0..(i - 1)
      /\ n = i * (n \div i) + (n % i)
  BY <1>2, Division
<1>4. PICK q \in Nat, r \in 0..(i - 1) : q = n \div i /\ r = n % i /\ n = i * q + r
  BY <1>3
<1>5. q < j
  <2> SUFFICES ASSUME j <= q PROVE FALSE
    OBVIOUS
  <2>1. j * i <= q * i /\ j * i \in Nat /\ q * i \in Nat
    BY ProductMonotone
  <2>2. j * i = i * j /\ q * i = i * q
    OBVIOUS
  <2> QED BY <1>1, <1>2, <1>4, <2>1, <2>2
<1> QED BY <1>2, <1>4, <1>5

(* The token numbers of an image of whole cells. *)
LEMMA TokenOfCell ==
  ASSUME NEW i \in Nat \ {0}, NEW j \in Nat \ {0}, NEW n \in 0..(i * j - 1), NEW k \in 1..4
  PROVE  /\ 4 * n + k - 1 \in 0..((2 * i) * (2 * j) - 1)
         /\ PatchX(i, n, k) \in 0..(2 * i - 1) /\ PatchY(i, n, k) \in 0..(2 * j - 1)
         /\ PatchX(i, n, k) + (2 * i) * PatchY(i, n, k) \in 0..((2 * i) * (2 * j) - 1)
PROOF
<1>1. n \in Nat /\ n % i \in 0..(i - 1) /\ n \div i \in 0..(j - 1)
  BY CellPlace
<1>2. (k - 1) % 2 \in 0..1 /\ (k - 1) \div 2 \in 0..1
  BY <1>1, FourOf
<1>3. PICK c \in 0..(i - 1), r \in 0..(j - 1), a \in 0..1, b \in 0..1 :
        c = n % i /\ r = n \div i /\ a = (k - 1) % 2 /\ b = (k - 1) \div 2
  BY <1>1, <1>2
<1>4. PatchX(i, n, k) = 2 * c + a /\ PatchY(i, n, k) = 2 * r + b
  BY <1>3 DEF PatchX, PatchY
<1>5. PICK x \in 0..(2 * i - 1), y \in 0..(2 * j - 1) : x = PatchX(i, n, k) /\ y = PatchY(i, n, k)
  BY <1>4
<1>6. PICK p \in Nat \ {0} : p = i * j
  BY ProductPositive
<1>7. (2 * i) * (2 * j) = 4 * p
  BY <1>6
<1>8. 4 * n + k - 1 \in 0..(4 * p - 1)
  BY <1>1, <1>6
<1>9. x + (2 * i) * y \in 0..(4 * p - 1)
  <2>1. y <= 2 * j - 1 /\ 2 * i \in Nat /\ y \in Nat /\ 2 * j - 1 \in Nat
    OBVIOUS
  <2>2. y * (2 * i) <= (2 * j - 1) * (2 * i) /\ y * (2 * i) \in Nat
    BY <2>1, ProductMonotone
  <2>3. (2 * j - 1) * (2 * i) = 4 * p - 2 * i
    BY <1>6
  <2>4. y * (2 * i) = (2 * i) * y
    OBVIOUS
  <2> QED BY <2>2, <2>3, <2>4
<1> QED BY <1>5, <1>7, <1>8, <1>9

(* Patches, position embeddings and rotations are regrouped alike: the     *)
(* k-th token of cell n is of the k-th patch of the cell in all three.     *)
LEMMA MergedPatch ==
  ASSUME NEW i \in Nat \ {0}, NEW j \in Nat \ {0}, NEW n \in 0..(i * j - 1), NEW k \in 1..4
  PROVE  LET X == 2 * i
             Y == 2 * j
             t == 4 * n + k - 1
             place == <<PatchX(i, n, k), PatchY(i, n, k)>>
         IN /\ SpatialMerge(PatchEmbedding(X, Y), X, Y)[t] = place
            /\ SpatialMerge(PositionEmbedding(X, Y), X, Y)[t] = place
            /\ VisionPositions(X, Y)[X * Y + t] = place[1]
            /\ VisionPositions(X, Y)[t] = place[2]
PROOF
<1> DEFINE X == 2 * i
           Y == 2 * j
           t == 4 * n + k - 1
           x == PatchX(i, n, k)
           y == PatchY(i, n, k)
<1>1. /\ t \in 0..(X * Y - 1) /\ x \in 0..(X - 1) /\ y \in 0..(Y - 1)
      /\ x + X * y \in 0..(X * Y - 1)
  BY TokenOfCell
<1>2. n \in Nat
  BY CellPlace
<1>3. t \div 4 = n /\ t % 2 = (k - 1) % 2 /\ (t % 4) \div 2 = (k - 1) \div 2
  BY <1>2, FourOf
<1>4. X \div 2 = i /\ X \in Nat \ {0}
  OBVIOUS
<1>5. (x + X * y) % X = x /\ (x + X * y) \div X = y
  <2>1. PICK d \in Nat \ {0} : d = X
    BY <1>4
  <2>4. PICK q \in Nat, r \in 0..(d - 1) : q = y /\ r = x
    BY <1>1, <2>1
  <2>2. (d * q + r) \div d = q /\ (d * q + r) % d = r
    BY DivisionUnique
  <2>3. d * q + r = r + d * q
    OBVIOUS
  <2> HIDE DEF X, x, y
  <2> QED BY <2>1, <2>2, <2>3, <2>4
<1>6. x = 2 * ((t \div 4) % (X \div 2)) + (t % 2) /\ y = 2 * ((t \div 4) \div (X \div 2)) + ((t % 4) \div 2)
  BY <1>3, <1>4 DEF PatchX, PatchY
<1>7. ASSUME NEW input, DOMAIN input = 0..(X * Y - 1)
      PROVE  SpatialMerge(input, X, Y)[t] = input[x + X * y]
  <2> HIDE DEF X, Y, t, x, y
  <2> QED BY <1>1, <1>6, <1>7 DEF SpatialMerge
<1>8. /\ DOMAIN PatchEmbedding(X, Y) = 0..(X * Y - 1)
      /\ DOMAIN PositionEmbedding(X, Y) = 0..(X * Y - 1)
      /\ PatchEmbedding(X, Y)[x + X * y] = <<x, y>>
      /\ PositionEmbedding(X, Y)[x + X * y] = <<x, y>>
  <2> HIDE DEF X, Y, x, y
  <2> QED BY <1>1, <1>5 DEF PatchEmbedding, PositionEmbedding
<1>9. /\ VisionPositions(X, Y)[X * Y + t] = x
      /\ VisionPositions(X, Y)[t] = y
  <2>1. PICK N \in Nat \ {0} : N = X * Y
    BY <1>1, <1>4, ProductPositive
  <2>2. t \in 0..(N - 1)
    BY <1>1, <2>1
  <2>3. /\ (N * 1 + t) \div N = 1 /\ (N * 1 + t) % N = t
        /\ (N * 0 + t) \div N = 0 /\ (N * 0 + t) % N = t
    <3> HIDE DEF t
    <3> QED BY <2>2, DivisionUnique
  <2>4. N * 1 + t = N + t /\ N * 0 + t = t
    BY <2>2
  <2>5. N + t \in 0..(4 * N - 1) /\ t \in 0..(4 * N - 1)
    BY <2>2
  <2>6. VisionPositions(X, Y) =
          [c \in 0..(4 * N - 1) |->
             IF (c \div N) % 2 = 0
             THEN 2 * (((c % N) \div 4) \div (X \div 2)) + (((c % N) % 4) \div 2)
             ELSE 2 * (((c % N) \div 4) % (X \div 2)) + ((c % N) % 2)]
    <3> HIDE DEF X, Y
    <3> QED BY <2>1 DEF VisionPositions
  <2>7. (N + t) \div N = 1 /\ (N + t) % N = t /\ t \div N = 0 /\ t % N = t
    <3> HIDE DEF t
    <3> QED BY <2>3, <2>4
  <2>8. 1 % 2 = 1 /\ 0 % 2 = 0
    OBVIOUS
  <2> HIDE DEF X, Y, t, x, y
  <2>9. VisionPositions(X, Y)[N + t] = 2 * ((t \div 4) % (X \div 2)) + (t % 2)
    <3>1. VisionPositions(X, Y)[N + t] =
            IF ((N + t) \div N) % 2 = 0
            THEN 2 * ((((N + t) % N) \div 4) \div (X \div 2)) + ((((N + t) % N) % 4) \div 2)
            ELSE 2 * ((((N + t) % N) \div 4) % (X \div 2)) + (((N + t) % N) % 2)
      BY <2>5, <2>6
    <3>2. ((N + t) \div N) % 2 # 0
      BY <2>7, <2>8
    <3> QED BY <2>7, <3>1, <3>2, Zenon
  <2>10. VisionPositions(X, Y)[t] = 2 * ((t \div 4) \div (X \div 2)) + ((t % 4) \div 2)
    BY <2>5, <2>6, <2>7, <2>8
  <2> QED BY <1>6, <2>1, <2>9, <2>10
<1> QED BY <1>7, <1>8, <1>9

(* Products of numbers that are not alike are not alike. *)
LEMMA ProductSmaller ==
  ASSUME NEW a \in Nat, NEW b \in Nat, NEW c \in Nat \ {0}, a < b
  PROVE  a * c < b * c /\ c * a < c * b
PROOF
<1>1. PICK e \in Nat : b = a + e + 1
  <2>1. b - a - 1 \in Nat /\ b = a + (b - a - 1) + 1
    OBVIOUS
  <2> QED BY <2>1
<1>2. b * c = a * c + e * c + c /\ e * c \in Nat /\ a * c \in Nat
  BY <1>1
<1>3. c * a = a * c /\ c * b = b * c
  OBVIOUS
<1> QED BY <1>2, <1>3

(* A product of two smaller numbers is smaller. *)
LEMMA BothSmaller ==
  ASSUME NEW a \in Nat, NEW b \in Nat, NEW c \in Nat, NEW d \in Nat, a < b, c < d
  PROVE  a * c < b * d
PROOF
<1>1. a * c <= b * c /\ b * c < b * d /\ a * c \in Nat /\ b * c \in Nat /\ b * d \in Nat
  <2>1. a * c <= b * c
    BY ProductMonotone
  <2>2. b * c < b * d
    BY ProductSmaller
  <2> QED BY <2>1, <2>2
<1> QED BY <1>1

(* An area in cells of either of two sizes, as many of the one as of the   *)
(* other: the cells are the same.                                          *)
LEMMA SameGrid ==
  ASSUME NEW a \in Nat \ {0}, NEW q \in Nat \ {0}, NEW i \in Nat \ {0}, NEW j \in Nat \ {0},
         NEW x \in Nat, NEW y \in Nat, a * i = q * x, a * j = q * y, i * j = x * y
  PROVE  x = i /\ y = j
PROOF
<1>0. x # 0 /\ y # 0
  <2>1. i * j # 0 /\ 0 * y = 0 /\ x * 0 = 0
    BY ProductPositive
  <2> QED BY <2>1
<1>1. CASE a < q
  <2>1. a * i < q * i /\ a * j < q * j
    BY <1>1, ProductSmaller
  <2>2. x < i
    <3> SUFFICES ASSUME i <= x PROVE FALSE
      OBVIOUS
    <3>1. q * i <= q * x
      <4>1. i * q <= x * q /\ i * q = q * i /\ x * q = q * x
        BY ProductMonotone
      <4> QED BY <4>1
    <3>2. q * i \in Nat /\ q * x \in Nat /\ a * i \in Nat
      OBVIOUS
    <3> QED BY <2>1, <3>1, <3>2
  <2>3. y < j
    <3> SUFFICES ASSUME j <= y PROVE FALSE
      OBVIOUS
    <3>1. q * j <= q * y
      <4>1. j * q <= y * q /\ j * q = q * j /\ y * q = q * y
        BY ProductMonotone
      <4> QED BY <4>1
    <3>2. q * j \in Nat /\ q * y \in Nat /\ a * j \in Nat
      OBVIOUS
    <3> QED BY <2>1, <3>1, <3>2
  <2>4. x * y < i * j /\ x * y \in Nat
    BY <2>2, <2>3, BothSmaller
  <2> QED BY <2>4
<1>2. CASE q < a
  <2>1. q * x < a * x /\ q * y < a * y
    BY <1>0, <1>2, ProductSmaller
  <2>2. i < x
    <3> SUFFICES ASSUME x <= i PROVE FALSE
      OBVIOUS
    <3>1. a * x <= a * i
      <4>1. x * a <= i * a /\ i * a = a * i /\ x * a = a * x
        BY ProductMonotone
      <4> QED BY <4>1
    <3>2. a * x \in Nat /\ q * x \in Nat /\ a * i \in Nat
      OBVIOUS
    <3> QED BY <2>1, <3>1, <3>2
  <2>3. j < y
    <3> SUFFICES ASSUME y <= j PROVE FALSE
      OBVIOUS
    <3>1. a * y <= a * j
      <4>1. y * a <= j * a /\ j * a = a * j /\ y * a = a * y
        BY ProductMonotone
      <4> QED BY <4>1
    <3>2. a * y \in Nat /\ q * y \in Nat /\ a * j \in Nat
      OBVIOUS
    <3> QED BY <2>1, <3>1, <3>2
  <2>4. i * j < x * y /\ i * j \in Nat
    BY <2>2, <2>3, BothSmaller
  <2> QED BY <2>4
<1>3. CASE a = q
  <2>1. ASSUME NEW u \in Nat, NEW v \in Nat, a * u = a * v PROVE u = v
    <3>1. (a * u) \div a = u /\ (a * v) \div a = v
      BY DivisionExact
    <3> QED BY <2>1, <3>1
  <2> QED BY <1>3, <2>1
<1> QED BY <1>1, <1>2, <1>3

(* Whatever sizes the file has by now: an encoding with as many tokens as  *)
(* the plan is of the patches of the plan's cells.                         *)
LEMMA PatchesOfPlan ==
  ASSUME NEW index, NEW m, NEW plan, NEW a \in Nat \ {0}, m.patch \in Int,
         GraphSizes(m), Divides(m, plan), IsGrid(plan, a),
         Encode(index, m, plan).tokens = plan.tokens
  PROVE  /\ plan.width \div m.patch = 2 * plan.mergeX
         /\ plan.height \div m.patch = 2 * plan.mergeY
PROOF
<1>1. PICK p \in Nat \ {0} : p = m.patch
  BY DEF GraphSizes
<1>2. PICK i \in Nat \ {0}, j \in Nat \ {0} : i = plan.mergeX /\ j = plan.mergeY
  BY DEF IsGrid
<1>3. PICK w \in Nat \ {0}, h \in Nat \ {0} : w = a * i /\ h = a * j
  BY ProductPositive
<1>4. plan.width = w /\ plan.height = h /\ plan.tokens = i * j
  BY <1>2, <1>3 DEF IsGrid
<1>5. PICK X \in Nat, Y \in Nat : X = w \div p /\ Y = h \div p /\ w = p * X /\ h = p * Y
  <2>1. w \div p \in Nat /\ h \div p \in Nat /\ w % p = 0 /\ h % p = 0
    BY <1>1, <1>4, Division DEF Divides
  <2>2. w = p * (w \div p) + (w % p) /\ h = p * (h \div p) + (h % p)
    BY Division
  <2>3. PICK u \in Nat, v \in Nat : u = w \div p /\ v = h \div p
    BY <2>1
  <2>4. p * u + 0 = p * u /\ p * v + 0 = p * v
    OBVIOUS
  <2> QED BY <2>1, <2>2, <2>3, <2>4
<1>6. PICK x \in Nat, y \in Nat : X = 2 * x /\ Y = 2 * y
  <2>1. m.merge = 2
    BY DEF GraphSizes
  <2>2. X % 2 = 0 /\ Y % 2 = 0
    BY <1>1, <1>4, <1>5, <2>1 DEF Divides
  <2>3. X = 2 * (X \div 2) /\ Y = 2 * (Y \div 2) /\ X \div 2 \in Nat /\ Y \div 2 \in Nat
    BY <2>2
  <2> QED BY <2>3
<1>7. (X * Y) \div 4 = i * j
  BY <1>1, <1>4, <1>5 DEF Encode
<1>8. x * y = i * j
  <2>1. PICK n \in Nat : n = x * y
    OBVIOUS
  <2>2. X * Y = 4 * n
    BY <1>6, <2>1
  <2>3. (4 * n) \div 4 = n
    OBVIOUS
  <2> QED BY <1>7, <2>1, <2>2, <2>3
<1>9. PICK q \in Nat \ {0} : q = 2 * p
  OBVIOUS
<1>10. a * i = q * x /\ a * j = q * y
  <2>1. p * X = q * x /\ p * Y = q * y
    BY <1>6, <1>9
  <2> QED BY <1>3, <1>5, <2>1
<1>11. x = i /\ y = j
  BY <1>8, <1>10, SameGrid
<1> QED BY <1>1, <1>2, <1>4, <1>5, <1>6, <1>11

(* The rows of an image token: the patches of its cell, each at its place. *)
CoversCell(cell, x, y) ==
  /\ {cell[k].patch : k \in 1..4} = {<<x + a, y + b>> : a \in 0..1, b \in 0..1}
  /\ \A k \in 1..4 : cell[k].place = cell[k].patch /\ cell[k].rope = cell[k].patch

(* Every row of an image covers the cell it is counted for. *)
RowsCover(rows, plan) ==
  /\ DOMAIN rows = 1..plan.tokens
  /\ \A n \in 1..plan.tokens :
       CoversCell(rows[n].cell, 2 * ((n - 1) % plan.mergeX), 2 * ((n - 1) \div plan.mergeX))

(* What the encoder makes of a token of an image of i by j cells. *)
LEMMA CellsOfEncoder ==
  ASSUME NEW index, NEW m, NEW plan, NEW i \in Nat \ {0}, NEW j \in Nat \ {0},
         plan.width \div m.patch = 2 * i, plan.height \div m.patch = 2 * j,
         NEW n \in 1..(i * j)
  PROVE  /\ DOMAIN Encode(index, m, plan).rows = 1..(i * j)
         /\ CoversCell(Encode(index, m, plan).rows[n].cell, 2 * ((n - 1) % i), 2 * ((n - 1) \div i))
PROOF
<1> DEFINE X == 2 * i
           Y == 2 * j
           tokens == Rotated(InputStage(X, Y), VisionPositions(X, Y))
           rows == Encode(index, m, plan).rows
<1>1. PICK N \in Nat \ {0} : N = i * j
  BY ProductPositive
<1>2. X * Y = 4 * N /\ (4 * N) \div 4 = N
  BY <1>1
<1>3. /\ DOMAIN rows = 1..N
      /\ rows[n].cell = [k \in 1..4 |-> tokens[4 * (n - 1) + k - 1]]
  BY <1>1, <1>2 DEF Encode, GroupFour
<1> DEFINE c == n - 1
<1>4. c \in 0..(i * j - 1) /\ c \in Nat
  BY <1>1
<1>5. /\ DOMAIN InputStage(X, Y) = 0..(X * Y - 1)
      /\ \A t \in 0..(X * Y - 1) :
           /\ InputStage(X, Y)[t].patch = SpatialMerge(PatchEmbedding(X, Y), X, Y)[t]
           /\ InputStage(X, Y)[t].place = SpatialMerge(PositionEmbedding(X, Y), X, Y)[t]
  <2> HIDE DEF X, Y
  <2>1. /\ DOMAIN PatchEmbedding(X, Y) = 0..(X * Y - 1)
        /\ \A input : DOMAIN SpatialMerge(input, X, Y) = DOMAIN input
    BY DEF PatchEmbedding, SpatialMerge
  <2> QED BY <2>1 DEF InputStage
<1>6. Cardinality(DOMAIN InputStage(X, Y)) = X * Y
  <2>1. 0 \in Int /\ 4 * N - 1 \in Int /\ 4 * N - 1 - 0 + 1 = 4 * N /\ 0 <= 4 * N - 1
    OBVIOUS
  <2>2. Cardinality(0..(4 * N - 1)) = 4 * N
    BY <2>1, FS_Interval
  <2> HIDE DEF X, Y
  <2> QED BY <1>2, <1>5, <2>2
<1>7. ASSUME NEW k \in 1..4
      PROVE  /\ rows[n].cell[k].patch = <<PatchX(i, c, k), PatchY(i, c, k)>>
             /\ rows[n].cell[k].place = <<PatchX(i, c, k), PatchY(i, c, k)>>
             /\ rows[n].cell[k].rope = <<PatchX(i, c, k), PatchY(i, c, k)>>
  <2> DEFINE t == 4 * c + k - 1
             place == <<PatchX(i, c, k), PatchY(i, c, k)>>
  <2>1. /\ SpatialMerge(PatchEmbedding(X, Y), X, Y)[t] = place
        /\ SpatialMerge(PositionEmbedding(X, Y), X, Y)[t] = place
        /\ VisionPositions(X, Y)[X * Y + t] = place[1]
        /\ VisionPositions(X, Y)[t] = place[2]
    <3> HIDE DEF c
    <3> QED BY <1>4, MergedPatch
  <2>2. t \in 0..(X * Y - 1)
    BY <1>1, <1>2, <1>4
  <2>3. rows[n].cell[k] = tokens[t]
    BY <1>3
  <2> HIDE DEF X, Y, t, rows
  <2>4. /\ tokens[t].patch = InputStage(X, Y)[t].patch
        /\ tokens[t].place = InputStage(X, Y)[t].place
        /\ tokens[t].rope = <<VisionPositions(X, Y)[X * Y + t], VisionPositions(X, Y)[t]>>
    BY <1>5, <1>6, <2>2 DEF Rotated
  <2>5. /\ tokens[t].patch = place /\ tokens[t].place = place
        /\ tokens[t].rope = <<place[1], place[2]>>
    <3> HIDE DEF place, tokens
    <3> QED BY <1>5, <2>1, <2>2, <2>4
  <2>6. place = <<place[1], place[2]>>
    OBVIOUS
  <2> HIDE DEF tokens
  <2> QED BY <2>3, <2>5, <2>6
<1>8. CoversCell(rows[n].cell, 2 * (c % i), 2 * (c \div i))
  <2>1. PICK x \in Nat, y \in Nat : x = 2 * (c % i) /\ y = 2 * (c \div i)
    <3>1. c % i \in 0..(i - 1) /\ c \div i \in 0..(j - 1)
      <4> HIDE DEF c
      <4> QED BY <1>4, CellPlace
    <3>2. PICK u \in Nat, v \in Nat : u = c % i /\ v = c \div i
      BY <3>1
    <3> HIDE DEF c
    <3> QED BY <3>2
  <2>2. \A k \in 1..4 : rows[n].cell[k].patch = <<x + ((k - 1) % 2), y + ((k - 1) \div 2)>>
    <3> HIDE DEF rows, c
    <3> QED BY <1>7, <2>1 DEF PatchX, PatchY
  <2> HIDE DEF rows, c
  <2>3. /\ rows[n].cell[1].patch = <<x, y>> /\ rows[n].cell[2].patch = <<x + 1, y>>
        /\ rows[n].cell[3].patch = <<x, y + 1>> /\ rows[n].cell[4].patch = <<x + 1, y + 1>>
    <3>1. /\ (1 - 1) % 2 = 0 /\ (1 - 1) \div 2 = 0 /\ (2 - 1) % 2 = 1 /\ (2 - 1) \div 2 = 0
          /\ (3 - 1) % 2 = 0 /\ (3 - 1) \div 2 = 1 /\ (4 - 1) % 2 = 1 /\ (4 - 1) \div 2 = 1
      OBVIOUS
    <3>2. /\ 1 \in 1..4 /\ 2 \in 1..4 /\ 3 \in 1..4 /\ 4 \in 1..4
          /\ x + 0 = x /\ y + 0 = y
      OBVIOUS
    <3> QED BY <2>2, <3>1, <3>2
  <2>4. {rows[n].cell[k].patch : k \in 1..4} = {<<x, y>>, <<x + 1, y>>, <<x, y + 1>>, <<x + 1, y + 1>>}
    <3>1. 1..4 = {1, 2, 3, 4}
      OBVIOUS
    <3> QED BY <2>3, <3>1
  <2>5. \A k \in 1..4 : /\ rows[n].cell[k].place = rows[n].cell[k].patch
                         /\ rows[n].cell[k].rope = rows[n].cell[k].patch
    BY <1>7
  <2>6. PICK cell : cell = rows[n].cell
    OBVIOUS
  <2>7. {<<x + a, y + b>> : a \in 0..1, b \in 0..1} = {<<x, y>>, <<x + 1, y>>, <<x, y + 1>>, <<x + 1, y + 1>>}
    <3>1. 0..1 = {0, 1} /\ x + 0 = x /\ y + 0 = y
      OBVIOUS
    <3> QED BY <3>1
  <2>8. CoversCell(cell, x, y)
    BY <2>4, <2>5, <2>6, <2>7 DEF CoversCell
  <2> QED BY <2>1, <2>6, <2>8
<1> HIDE DEF rows
<1> QED BY <1>1, <1>3, <1>8 DEF rows

(* An encoding that fits the plan has a row for every token, of its cell. *)
LEMMA EncodeCovers ==
  ASSUME NEW index, NEW m, NEW plan, NEW a \in Nat \ {0}, m.patch \in Int,
         GraphSizes(m), Divides(m, plan), IsGrid(plan, a),
         Encode(index, m, plan).tokens = plan.tokens
  PROVE  RowsCover(Encode(index, m, plan).rows, plan)
PROOF
<1>1. PICK i \in Nat \ {0}, j \in Nat \ {0} : i = plan.mergeX /\ j = plan.mergeY
  BY DEF IsGrid
<1>2. plan.tokens = i * j /\ i * j \in Nat \ {0}
  BY <1>1, ProductPositive DEF IsGrid
<1>3. plan.width \div m.patch = 2 * i /\ plan.height \div m.patch = 2 * j
  BY <1>1, PatchesOfPlan
<1>4. ASSUME NEW n \in 1..(i * j)
      PROVE  /\ DOMAIN Encode(index, m, plan).rows = 1..(i * j)
             /\ CoversCell(Encode(index, m, plan).rows[n].cell,
                           2 * ((n - 1) % i), 2 * ((n - 1) \div i))
  BY <1>3, CellsOfEncoder
<1>5. 1 \in 1..(i * j)
  BY <1>2
<1> QED BY <1>1, <1>2, <1>4, <1>5 DEF RowsCover

-----------------------------------------------------------------------------
(* The tokens and the positions before the c-th of some placed chunks.     *)
TokensBefore(ps, c) ==
  IF c = 1 THEN 0 ELSE ps[c - 1].startToken + TokenCount(ps[c - 1])

(* Likewise the positions. *)
PositionsBefore(ps, c) ==
  IF c = 1 THEN 0 ELSE ps[c - 1].startPosition + PositionAdvance(ps[c - 1])

(* A placed chunk p for the planned chunk k. *)
Places(p, k) ==
  /\ p.kind = k.kind
  /\ k.kind = "text" => p.tokens = k.tokens
  /\ k.kind = "image" => p.plan = k.plan /\ RowsCover(p.rows, p.plan)

(* The first of the planned chunks have been placed, one after the other.  *)
Placing(ps, cs) ==
  /\ ps \in Seq(ToSet(ps)) /\ Len(ps) <= Len(cs)
  /\ \A c \in 1..Len(ps) :
       /\ Places(ps[c], cs[c])
       /\ ps[c].startToken \in Nat /\ ps[c].startToken = TokensBefore(ps, c)
       /\ ps[c].startPosition \in Nat /\ ps[c].startPosition = PositionsBefore(ps, c)

(* Planned chunks, each taking tokens and positions.                       *)
Takes(cs, m, messages) ==
  /\ cs \in Seq(EncodedChunks(m, messages))
  /\ \A c \in 1..Len(cs) : ChunkTakes(cs[c], m, messages)

(* A placed chunk takes what was planned. *)
LEMMA PlacedTakes ==
  ASSUME NEW p, NEW k, NEW m, NEW messages, Places(p, k), ChunkTakes(k, m, messages)
  PROVE  /\ TokenCount(p) = TokenCount(k) /\ TokenCount(p) \in Nat \ {0}
         /\ PositionAdvance(p) = PositionAdvance(k) /\ PositionAdvance(p) \in Nat \ {0}
PROOF
<1>1. CASE k.kind = "text"
  BY <1>1 DEF Places, ChunkTakes, TokenCount, PositionAdvance
<1>2. CASE k.kind = "image"
  BY <1>2 DEF Places, ChunkTakes, TokenCount, PositionAdvance
<1> QED BY <1>1, <1>2 DEF ChunkTakes

(* Where the next chunk begins. *)
LEMMA NextBegins ==
  ASSUME NEW ps, NEW cs, NEW m, NEW messages, Placing(ps, cs), Takes(cs, m, messages)
  PROVE  /\ Len(ps) \in Nat
         /\ TokensBefore(ps, Len(ps) + 1) \in Nat
         /\ PositionsBefore(ps, Len(ps) + 1) \in Nat
         /\ ps # <<>> =>
              /\ Len(ps) \in 1..Len(ps) /\ Last(ps) = ps[Len(ps)]
              /\ TokensBefore(ps, Len(ps) + 1) = Last(ps).startToken + TokenCount(Last(ps))
              /\ TokensBefore(ps, Len(ps) + 1) # 0
PROOF
<1>1. Len(ps) \in Nat /\ (ps # <<>> => Len(ps) # 0)
  BY DEF Placing
<1>2. CASE ps = <<>>
  <2>1. Len(ps) + 1 = 1
    BY <1>2
  <2> QED BY <1>1, <1>2, <2>1 DEF TokensBefore, PositionsBefore
<1>3. CASE ps # <<>>
  <2>1. Len(ps) \in 1..Len(ps) /\ Len(ps) + 1 # 1 /\ Len(ps) + 1 - 1 = Len(ps)
    BY <1>1, <1>3
  <2>2. /\ Places(ps[Len(ps)], cs[Len(ps)])
        /\ ps[Len(ps)].startToken \in Nat /\ ps[Len(ps)].startPosition \in Nat
    BY <2>1 DEF Placing
  <2>3. Len(cs) \in Nat /\ Len(ps) <= Len(cs)
    BY DEF Takes, Placing
  <2>4. ChunkTakes(cs[Len(ps)], m, messages)
    BY <1>1, <2>1, <2>3 DEF Takes
  <2>5. /\ TokenCount(ps[Len(ps)]) \in Nat \ {0}
        /\ PositionAdvance(ps[Len(ps)]) \in Nat \ {0}
    BY <2>2, <2>4, PlacedTakes
  <2> QED BY <1>1, <2>1, <2>2, <2>5 DEF TokensBefore, PositionsBefore, Last
<1> QED BY <1>2, <1>3

(* One more chunk is placed behind the others. *)
LEMMA PlacingGoesOn ==
  ASSUME NEW ps, NEW cs, NEW m, NEW messages, Placing(ps, cs), Takes(cs, m, messages),
         Len(ps) < Len(cs), NEW p, Places(p, cs[Len(ps) + 1]),
         p.startToken = TokensBefore(ps, Len(ps) + 1),
         p.startPosition = PositionsBefore(ps, Len(ps) + 1)
  PROVE  /\ Placing(Append(ps, p), cs)
         /\ PositionsBefore(Append(ps, p), Len(Append(ps, p)) + 1) =
              PositionsBefore(ps, Len(ps) + 1) + PositionAdvance(cs[Len(ps) + 1])
PROOF
<1>1. PICK qs : qs = Append(ps, p)
  OBVIOUS
<1>2. /\ qs \in Seq(ToSet(qs)) /\ Len(qs) = Len(ps) + 1 /\ Len(ps) \in Nat
      /\ \A i \in 1..Len(ps) : qs[i] = ps[i]
      /\ qs[Len(ps) + 1] = p
  <2>1. ps \in Seq(ToSet(ps))
    BY DEF Placing
  <2> QED BY <1>1, <2>1, AppendAny
<1>3. Len(cs) \in Nat
  BY DEF Takes
<1>4. TokensBefore(ps, Len(ps) + 1) \in Nat /\ PositionsBefore(ps, Len(ps) + 1) \in Nat
  BY NextBegins
<1>5. ASSUME NEW c \in 1..(Len(ps) + 1)
      PROVE  TokensBefore(qs, c) = TokensBefore(ps, c) /\ PositionsBefore(qs, c) = PositionsBefore(ps, c)
  <2>1. c # 1 => c - 1 \in 1..Len(ps)
    BY <1>2
  <2> QED BY <1>2, <2>1 DEF TokensBefore, PositionsBefore
<1>6. ASSUME NEW c \in 1..Len(qs)
      PROVE  /\ Places(qs[c], cs[c])
             /\ qs[c].startToken \in Nat /\ qs[c].startToken = TokensBefore(qs, c)
             /\ qs[c].startPosition \in Nat /\ qs[c].startPosition = PositionsBefore(qs, c)
  <2>1. CASE c \in 1..Len(ps)
    <3>1. qs[c] = ps[c] /\ c \in 1..(Len(ps) + 1)
      BY <1>2, <2>1
    <3> QED BY <1>5, <2>1, <3>1 DEF Placing
  <2>2. CASE c = Len(ps) + 1
    <3>1. Len(ps) + 1 \in 1..(Len(ps) + 1)
      BY <1>2
    <3> QED BY <1>2, <1>4, <1>5, <2>2, <3>1
  <2> QED BY <1>2, <2>1, <2>2
<1>7. Placing(qs, cs)
  BY <1>2, <1>3, <1>6 DEF Placing
<1>8. PositionsBefore(qs, Len(qs) + 1) =
        PositionsBefore(ps, Len(ps) + 1) + PositionAdvance(cs[Len(ps) + 1])
  <2>1. Len(qs) + 1 # 1 /\ Len(qs) + 1 - 1 = Len(ps) + 1
    BY <1>2
  <2>2. PositionsBefore(qs, Len(qs) + 1) = p.startPosition + PositionAdvance(p)
    BY <1>2, <2>1 DEF PositionsBefore
  <2>3. Len(ps) + 1 \in 1..Len(cs)
    BY <1>2, <1>3
  <2>4. ChunkTakes(cs[Len(ps) + 1], m, messages)
    BY <2>3 DEF Takes
  <2>5. PositionAdvance(p) = PositionAdvance(cs[Len(ps) + 1])
    BY <2>4, PlacedTakes
  <2> QED BY <2>2, <2>5
<1> QED BY <1>1, <1>7, <1>8

(* A chunk with the place it is given. *)
LEMMA GivenPlace ==
  ASSUME NEW a, NEW b, NEW chunk, NEW p,
         p = Over([startToken |-> a, startPosition |-> b], chunk)
  PROVE  /\ p.startToken = a /\ p.startPosition = b
         /\ \A f \in {"kind", "tokens", "image", "plan", "rows"} :
              f \in DOMAIN chunk => p[f] = chunk[f]
BY DEF Over

-----------------------------------------------------------------------------
(* What the request knows of the mmproj file when it plans the prompt.     *)
Vision == IF WithImages THEN MetadataOf[read.metadata] ELSE NoFile

(* The mmproj file was read before the prompt was planned. *)
VisionRead ==
  pc \in {"bundle", "index"} \cup Planned /\ WithImages => read.metadata \in Files

(* The chunks are those of the prompt, and are placed one by one.          *)
PromptPlaced ==
  /\ pc \notin Planned => placed = <<>> /\ nextMrope = 0
  /\ pc \in Planned =>
       /\ Takes(chunks, Vision, request.messages)
       /\ Placing(placed, chunks)
  /\ pc \in {"place", "blocks", "upload", "prefill"} =>
       nextMrope = PositionsBefore(placed, Len(placed) + 1)

(* The image that is encoded next fits the file the graph was made from.   *)
BlocksReady ==
  pc = "blocks" =>
    /\ Len(placed) < Len(chunks)
    /\ Current.kind = "image"
    /\ Preprocesses(MetadataOf[read.metadata], Current.image)
    /\ read.graph \in GraphFiles
    /\ Divides(MetadataOf[read.graph], Preprocessed(MetadataOf[read.metadata], Current.image))

(* The positions are those of all chunks.                                  *)
LaidOut ==
  pc \in {"upload", "prefill", "sample", "decode"} =>
    /\ Len(placed) = Len(chunks) /\ chunks # <<>>
    /\ mrope = IF WithImages THEN MropePositions(TotalTokens, placed) ELSE <<>>

(* The ids of the text are below a number. *)
IdsBelow(cs, n) ==
  \A c \in DOMAIN cs :
    cs[c].kind = "text" => \A i \in DOMAIN cs[c].tokens : cs[c].tokens[i] < n

(* The text has tokens of the model's vocabulary, and with an image the     *)
(* prompt is not empty.                                                     *)
TextKnown ==
  pc \in Planned =>
    /\ WithImages => chunks # <<>>
    /\ IdsBelow(chunks, Len(Tokens(IndexOf[read.index])))

(* What holds of the plan of the prompt at every step. *)
PlanInv == VisionRead /\ PromptPlaced /\ BlocksReady /\ LaidOut /\ TextKnown

(* The tokens placed are those before the next chunk. *)
LEMMA PlacedTokens ==
  ASSUME PlanInv, pc \in Planned
  PROVE  /\ TotalTokens = TokensBefore(placed, Len(placed) + 1) /\ TotalTokens \in Nat
         /\ Len(placed) = Len(chunks) /\ chunks # <<>> => TotalTokens # 0
PROOF
<1>1. /\ Placing(placed, chunks) /\ Takes(chunks, Vision, request.messages)
  BY DEF PlanInv, PromptPlaced
<1>2. /\ Len(placed) \in Nat
      /\ TokensBefore(placed, Len(placed) + 1) \in Nat
      /\ placed # <<>> =>
           /\ TokensBefore(placed, Len(placed) + 1) = Last(placed).startToken + TokenCount(Last(placed))
           /\ TokensBefore(placed, Len(placed) + 1) # 0
  BY <1>1, NextBegins
<1>3. CASE placed = <<>>
  <2>1. TotalTokens = 0 /\ Len(placed) = 0
    BY <1>3 DEF TotalTokens
  <2>2. TokensBefore(placed, Len(placed) + 1) = 0
    BY <2>1 DEF TokensBefore
  <2>3. chunks # <<>> => Len(chunks) # 0
    BY <1>1 DEF Takes
  <2> QED BY <2>1, <2>2, <2>3
<1>4. CASE placed # <<>>
  BY <1>2, <1>4 DEF TotalTokens
<1> QED BY <1>3, <1>4

(* A request begins with nothing planned. *)
LEMMA PlanInit == Init => PlanInv
BY DEF Init, PlanInv, VisionRead, PromptPlaced, BlocksReady, LaidOut, TextKnown, Planned

(* A return forgets the plan. *)
LEMMA PlanReturn ==
  ASSUME NEW with, Return(with)
  PROVE  PlanInv'
BY DEF Return, PlanInv, VisionRead, PromptPlaced, BlocksReady, LaidOut, TextKnown, Planned

(* The plan of a prompt takes tokens, whatever the files. *)
LEMMA PromptTakes ==
  ASSUME NEW r \in Requests, NEW m, HasImages(r.messages) => IsMetadata(m) /\ PromptPlans(m, r.messages),
         NEW tokens, tokens \in Seq(ToSet(tokens)),
         NEW cs, cs = Tokenized(tokens, PromptChunks(m, r.messages))
  PROVE  /\ Takes(cs, m, r.messages) /\ IdsBelow(cs, Len(tokens))
         /\ HasImages(r.messages) => cs # <<>>
PROOF
<1> DEFINE I == 0..(Len(tokens) - 1)
           others == ImageChunks(m, Images(r.messages))
<1>1. IsMessages(r.messages) /\ \A image \in Images(r.messages) : ImageAssumption(image)
  BY RequestMessages
<1>2. /\ PromptChunks(m, r.messages) \in Seq(TextChunks(Words(r.messages)) \cup others)
      /\ HasImages(r.messages) => ShowsImage(PromptChunks(m, r.messages))
  BY <1>1, PromptChunksArePlanned DEF PlannedChunks
<1>3. \A c \in others : c.kind = "image"
  BY ImageChunksAreImages
<1>4. cs \in Seq(TextChunks(I) \cup others) /\ (HasImages(r.messages) => ShowsImage(cs))
  <2> HIDE DEF others
  <2> QED BY <1>2, <1>3, TokenizedChunks
<1>5. HasImages(r.messages) => cs # <<>>
  BY <1>4 DEF ShowsImage
<1>6. ASSUME NEW c \in DOMAIN cs
      PROVE  /\ cs[c] \in EncodedChunks(m, r.messages)
             /\ cs[c].kind = "text" => \A i \in DOMAIN cs[c].tokens : cs[c].tokens[i] < Len(tokens)
  <2>1. cs[c] \in TextChunks(I) \cup others
    BY <1>4
  <2>2. CASE cs[c] \in TextChunks(I)
    <3>1. /\ cs[c] \in [kind : {"text"}, tokens : Seq(I)]
          /\ cs[c].tokens \in Seq(I) /\ cs[c].tokens # <<>>
      BY <2>2 DEF TextChunks
    <3>2. \A i \in DOMAIN cs[c].tokens : cs[c].tokens[i] \in I
      BY <3>1
    <3>3. cs[c].tokens \in Seq(Nat)
      BY <3>1, <3>2
    <3>4. cs[c] \in TextChunks(Nat)
      BY <3>1, <3>3 DEF TextChunks
    <3>5. \A x \in I : x < Len(tokens)
      OBVIOUS
    <3> QED BY <3>2, <3>4, <3>5 DEF EncodedChunks
  <2>3. CASE cs[c] \in others
    BY <1>3, <2>3 DEF EncodedChunks
  <2> QED BY <2>1, <2>2, <2>3
<1>7. cs \in Seq(EncodedChunks(m, r.messages))
  <2> HIDE DEF I, others
  <2> QED BY <1>4, <1>6
<1>8. ASSUME NEW c \in 1..Len(cs) PROVE ChunkTakes(cs[c], m, r.messages)
  <2>1. cs[c] \in EncodedChunks(m, r.messages)
    BY <1>7
  <2> QED BY <1>1, <2>1, EncodedChunksTake
<1> QED BY <1>5, <1>6, <1>7, <1>8 DEF Takes, IdsBelow

(* The tokens of a file are a sequence. *)
LEMMA FileTokens ==
  ASSUME NEW id \in Files
  PROVE  Tokens(IndexOf[id]) \in Seq(ToSet(Tokens(IndexOf[id]))) /\ Len(Tokens(IndexOf[id])) \in Nat
PROOF
<1>1. IndexOf[id].metadata = File[id].metadata /\ id \in DOMAIN File
  BY DEF IndexOf, Index, Files
<1>2. Tokens(IndexOf[id]) \in Seq(ToSet(Tokens(IndexOf[id])))
  BY <1>1, FileAssumption DEF Tokens
<1> QED BY <1>2

(* The prompt is planned when the index is read. *)
LEMMA PlanReadIndex ==
  ASSUME FilesInv, PlanInv, ReadIndex
  PROVE  PlanInv'
PROOF
<1> USE DEF envVars, planVars, runVars
<1>1. CASE /\ \E config \in {ConfigOf[read.bundle]} : IndexFits(disk.model, config)
           /\ PromptFits(disk.model, read.metadata)
  <2> DEFINE tokens == Tokens(IndexOf[disk.model])
  <2>1. /\ pc = "index" /\ pc' = "place" /\ read' = [read EXCEPT !.index = disk.model]
        /\ chunks' = Tokenized(tokens, PromptChunks(Vision, request.messages))
        /\ UNCHANGED <<request, placed, nextMrope>>
    BY <1>1 DEF ReadIndex, Vision
  <2>2. read'.metadata = read.metadata /\ read'.index = disk.model
    BY <2>1 DEF FilesInv, FilesRead
  <2>3. Vision' = Vision /\ WithImages' = WithImages
    BY <2>1, <2>2 DEF Vision, WithImages
  <2>4. request \in Requests /\ disk.model \in Files
    BY DEF FilesInv, FilesRead
  <2>5. HasImages(request.messages) => IsMetadata(Vision) /\ PromptPlans(Vision, request.messages)
    <3> SUFFICES ASSUME WithImages PROVE IsMetadata(Vision) /\ PromptPlans(Vision, request.messages)
      BY DEF WithImages
    <3>1. read.metadata \in Files /\ Vision = MetadataOf[read.metadata]
      BY <2>1 DEF PlanInv, VisionRead, Vision
    <3> QED BY <1>1, <3>1, MetadataNumbers DEF PromptFits
  <2>6. /\ Takes(chunks', Vision, request.messages) /\ IdsBelow(chunks', Len(tokens))
        /\ WithImages => chunks' # <<>>
    <3>1. tokens \in Seq(ToSet(tokens))
      BY <2>4, FileTokens
    <3>2. PICK cs : cs = chunks'
      OBVIOUS
    <3> HIDE DEF tokens
    <3> QED BY <2>1, <2>4, <2>5, <3>1, <3>2, PromptTakes DEF WithImages
  <2>7. placed = <<>> /\ nextMrope = 0
    BY <2>1 DEF PlanInv, PromptPlaced, Planned
  <2>8. Placing(<<>>, chunks')
    <3>1. Len(chunks') \in Nat
      BY <2>6 DEF Takes
    <3> QED BY <3>1 DEF Placing
  <2>9. PositionsBefore(placed, Len(placed) + 1) = 0
    BY <2>7 DEF PositionsBefore
  <2>10. VisionRead'
    BY <2>1, <2>2, <2>3 DEF PlanInv, VisionRead
  <2>11. PromptPlaced'
    BY <2>1, <2>3, <2>6, <2>7, <2>8, <2>9 DEF PromptPlaced, Planned
  <2>12. TextKnown'
    BY <2>2, <2>3, <2>6 DEF TextKnown, IndexOf, Files
  <2> QED BY <2>1, <2>10, <2>11, <2>12 DEF PlanInv, BlocksReady, LaidOut
<1> QED BY <1>1, PlanReturn DEF ReadIndex, Fail

(* A chunk is placed as it was planned. *)
LEMMA PlanPlace ==
  ASSUME PlanInv, pc \in {"place", "blocks"}, Len(placed) < Len(chunks),
         NEW chunk, Place(chunk), Places(chunk, Current), pc' = "place", read' = read,
         {"kind"} \cup (IF Current.kind = "text" THEN {"tokens"} ELSE {"plan", "rows"}) \subseteq DOMAIN chunk
  PROVE  PlanInv'
PROOF
<1> USE DEF envVars, planVars, runVars
<1>1. PICK p : p = Over([startToken |-> TotalTokens, startPosition |-> nextMrope], chunk)
  OBVIOUS
<1>2. /\ placed' = Append(placed, p)
      /\ nextMrope' = nextMrope + PositionAdvance(Current)
      /\ UNCHANGED <<request, chunks, mrope>>
  BY <1>1 DEF Place
<1>3. /\ p.startToken = TotalTokens /\ p.startPosition = nextMrope
      /\ \A f \in {"kind", "tokens", "image", "plan", "rows"} : f \in DOMAIN chunk => p[f] = chunk[f]
  BY <1>1, GivenPlace
<1>4. Takes(chunks, Vision, request.messages) /\ Placing(placed, chunks)
  BY DEF PlanInv, PromptPlaced, Planned
<1>5. Len(placed) + 1 \in 1..Len(chunks)
  BY <1>4 DEF Placing, Takes
<1>6. Current.kind \in {"text", "image"} /\ Current = chunks[Len(placed) + 1]
  BY <1>4, <1>5 DEF Takes, ChunkTakes, Current
<1>7. Places(p, Current)
  <2>1. p.kind = chunk.kind
    BY <1>3
  <2>2. CASE Current.kind = "text"
    <3>1. p.tokens = chunk.tokens
      BY <1>3, <2>2
    <3> QED BY <2>1, <2>2, <3>1 DEF Places
  <2>3. CASE Current.kind = "image"
    <3>1. p.plan = chunk.plan /\ p.rows = chunk.rows
      BY <1>3, <2>3
    <3> QED BY <2>1, <2>3, <3>1 DEF Places
  <2> QED BY <1>6, <2>2, <2>3
<1>8. /\ p.startToken = TokensBefore(placed, Len(placed) + 1)
      /\ p.startPosition = PositionsBefore(placed, Len(placed) + 1)
  <2>1. pc \in Planned
    BY DEF Planned
  <2>2. nextMrope = PositionsBefore(placed, Len(placed) + 1)
    BY DEF PlanInv, PromptPlaced
  <2> QED BY <1>3, <2>1, <2>2, PlacedTokens
<1>9. /\ Placing(placed', chunks)
      /\ PositionsBefore(placed', Len(placed') + 1) =
           PositionsBefore(placed, Len(placed) + 1) + PositionAdvance(Current)
  BY <1>2, <1>4, <1>6, <1>7, <1>8, PlacingGoesOn
<1>10. Vision' = Vision /\ WithImages' = WithImages
  BY <1>2 DEF Vision, WithImages
<1>11. VisionRead'
  BY <1>2, <1>10 DEF PlanInv, VisionRead, Planned
<1>12. PromptPlaced'
  <2>1. nextMrope = PositionsBefore(placed, Len(placed) + 1)
    BY DEF PlanInv, PromptPlaced
  <2> QED BY <1>2, <1>4, <1>9, <1>10, <2>1 DEF PromptPlaced, Planned
<1>13. TextKnown'
  BY <1>2, <1>10 DEF PlanInv, TextKnown, Planned
<1> QED BY <1>11, <1>12, <1>13 DEF PlanInv, BlocksReady, LaidOut

(* Text is placed as it is. *)
LEMMA PlanPlaceText ==
  ASSUME FilesInv, PlanInv, PlaceText
  PROVE  PlanInv'
PROOF
<1>1. /\ pc = "place" /\ pc' = "place" /\ Len(placed) < Len(chunks) /\ Current.kind = "text"
      /\ Place(Current) /\ read' = read
  BY DEF PlaceText
<1>2. Takes(chunks, Vision, request.messages) /\ Placing(placed, chunks)
  BY <1>1 DEF PlanInv, PromptPlaced, Planned
<1>3. Len(placed) + 1 \in 1..Len(chunks)
  BY <1>1, <1>2 DEF Placing, Takes
<1>4. Current \in EncodedChunks(Vision, request.messages)
  BY <1>2, <1>3 DEF Takes, Current
<1>5. Current \in TextChunks(Nat)
  BY <1>1, <1>4, ImageChunksAreImages DEF EncodedChunks
<1>6. {"kind", "tokens"} \subseteq DOMAIN Current
  BY <1>5 DEF TextChunks
<1>7. Places(Current, Current)
  BY <1>1 DEF Places
<1> QED BY <1>1, <1>6, <1>7, PlanPlace

(* An image is placed as the encoder made it, over the patches of its plan. *)
LEMMA PlanEncodeBlocks ==
  ASSUME FilesInv, PlanInv, EncodeBlocks
  PROVE  PlanInv'
PROOF
<1> DEFINE m == MetadataOf[read.metadata]
           graph == MetadataOf[read.graph]
           index == IndexOf[read.graph]
           plan == Preprocessed(m, Current.image)
           encoded == Encode(index, graph, plan)
           chunk == [kind |-> "image", image |-> Current.image, plan |-> encoded.plan,
                     rows |-> encoded.rows]
<1>1. CASE Fail
  BY <1>1, PlanReturn DEF Fail
<1>2. CASE encoded.tokens = TokenCount(Current) /\ Place(chunk) /\ pc' = "place" /\ UNCHANGED read
  <2>1. /\ pc = "blocks" /\ Len(placed) < Len(chunks) /\ Current.kind = "image"
        /\ Preprocesses(m, Current.image)
        /\ read.graph \in GraphFiles /\ Divides(graph, plan)
    BY DEF EncodeBlocks, PlanInv, BlocksReady
  <2>2. Takes(chunks, Vision, request.messages) /\ Placing(placed, chunks)
    BY <2>1 DEF PlanInv, PromptPlaced, Planned
  <2>3. Len(placed) + 1 \in 1..Len(chunks)
    BY <2>1, <2>2 DEF Placing, Takes
  <2>4. ChunkTakes(Current, Vision, request.messages)
    BY <2>2, <2>3 DEF Takes, Current
  <2>5. /\ Current.image \in Images(request.messages)
        /\ Dimensions(Current.image) # NoSize
        /\ Current.plan = EmbeddingPlan(Vision, Dimensions(Current.image)[1], Dimensions(Current.image)[2])
        /\ IsGrid(Current.plan, AlignSize(Vision)) /\ Vision.patch > 0 /\ IsMetadata(Vision)
    BY <2>1, <2>4 DEF ChunkTakes
  <2>6. WithImages /\ Vision = m
    BY <2>5 DEF WithImages, HasImages, Vision
  <2>7. request \in Requests
    BY DEF FilesInv, FilesRead
  <2>8. ImageAssumption(Current.image)
    BY <2>5, <2>7, RequestMessages
  <2>9. Current.plan = plan
    BY <2>1, <2>5, <2>6, <2>8, ImageSizes DEF Preprocesses, Preprocessed
  <2>10. encoded.plan = plan /\ TokenCount(Current) = plan.tokens
    BY <2>1, <2>9 DEF Encode, TokenCount
  <2>11. AlignSize(Vision) \in Nat \ {0}
    BY <2>5, CellSizes
  <2>12. graph.patch \in Int /\ GraphSizes(graph)
    <3>1. read.graph \in Files /\ GraphPlans(File[read.graph])
      BY <2>1 DEF GraphFiles
    <3>2. graph = Metadata(Index(File[read.graph]))
      BY <3>1 DEF MetadataOf, IndexOf, Files
    <3>3. IsMetadata(graph)
      BY <3>1, MetadataNumbers
    <3> QED BY <3>1, <3>2, <3>3 DEF GraphPlans, IsMetadata
  <2>13. RowsCover(encoded.rows, plan)
    <3>1. encoded.tokens = plan.tokens
      BY <1>2, <2>10
    <3>2. IsGrid(plan, AlignSize(Vision))
      BY <2>5, <2>9
    <3> HIDE DEF plan, graph, index
    <3> QED BY <2>1, <2>11, <2>12, <3>1, <3>2, EncodeCovers
  <2>14. Places(chunk, Current)
    BY <2>1, <2>9, <2>10, <2>13 DEF Places
  <2> QED BY <1>2, <2>1, <2>14, PlanPlace
<1> QED BY <1>1, <1>2 DEF EncodeBlocks

(* Every step keeps what is known of the plan. *)
LEMMA PlanNext == FilesInv /\ PlanInv /\ [Next]_vars => PlanInv'
PROOF
<1> SUFFICES ASSUME FilesInv, PlanInv, [Next]_vars PROVE PlanInv'
  OBVIOUS
<1> USE DEF envVars, planVars, runVars
<1>1. CASE Ask
  BY <1>1 DEF Ask, PlanInv, VisionRead, PromptPlaced, BlocksReady, LaidOut, TextKnown, Planned
<1>2. CASE Gateway
  <2>1. CASE WithImages => Admits(disk.mmproj, request.messages)
    BY <1>2, <2>1 DEF Gateway, PlanInv, VisionRead, PromptPlaced, BlocksReady, LaidOut, TextKnown, Planned
  <2> QED BY <1>2, <2>1, PlanReturn DEF Gateway
<1>3. CASE Start
  <2>1. CASE Startable
    <3>1. WithImages => disk.mmproj \in Files /\ read'.metadata = disk.mmproj
      BY <1>3, <2>1 DEF Start, Startable, MetadataFiles, FilesInv, FilesRead
    <3>2. pc = "start" /\ pc' = "bundle" /\ UNCHANGED <<request, planVars, nextMrope>>
      BY <1>3, <2>1 DEF Start
    <3> QED BY <3>1, <3>2 DEF PlanInv, VisionRead, PromptPlaced, BlocksReady, LaidOut, TextKnown,
                              Planned, WithImages
  <2> QED BY <1>3, <2>1, PlanReturn DEF Start, Fail
<1>4. CASE LoadBundle
  <2>1. CASE BundleFits(disk.model, read.metadata) /\ ValidSampling
    <3>1. read'.metadata = read.metadata
      BY <1>4, <2>1 DEF LoadBundle, FilesInv, FilesRead
    <3>2. pc = "bundle" /\ pc' = "index" /\ UNCHANGED <<request, planVars, nextMrope>>
      BY <1>4, <2>1 DEF LoadBundle
    <3> QED BY <3>1, <3>2 DEF PlanInv, VisionRead, PromptPlaced, BlocksReady, LaidOut, TextKnown,
                              Planned, WithImages
  <2> QED BY <1>4, <2>1, PlanReturn DEF LoadBundle, Fail
<1>5. CASE ReadIndex
  BY <1>5, PlanReadIndex
<1>6. CASE PlaceText
  BY <1>6, PlanPlaceText
<1>7. CASE EncodeInput
  <2>1. CASE InputReady(disk.mmproj)
    <3>1. /\ pc = "place" /\ pc' = "blocks" /\ UNCHANGED <<request, planVars, nextMrope>>
          /\ Len(placed) < Len(chunks) /\ Current.kind = "image"
          /\ read' = [read EXCEPT !.graph = disk.mmproj]
      BY <1>7, <2>1 DEF EncodeInput
    <3>2. read'.metadata = read.metadata /\ read'.graph = disk.mmproj /\ read'.index = read.index
      BY <3>1 DEF FilesInv, FilesRead
    <3>3. Vision' = Vision /\ WithImages' = WithImages /\ Current' = Current
      BY <3>1, <3>2 DEF Vision, WithImages, Current
    <3>4. VisionRead'
      BY <3>1, <3>2, <3>3 DEF PlanInv, VisionRead, Planned
    <3>5. PromptPlaced'
      BY <3>1, <3>3 DEF PlanInv, PromptPlaced, Planned
    <3>6. BlocksReady'
      BY <2>1, <3>1, <3>2, <3>3 DEF InputReady, BlocksReady
    <3>7. TextKnown'
      BY <3>1, <3>2, <3>3 DEF PlanInv, TextKnown, Planned
    <3> QED BY <3>1, <3>4, <3>5, <3>6, <3>7 DEF PlanInv, LaidOut
  <2> QED BY <1>7, <2>1, PlanReturn DEF EncodeInput, Fail
<1>8. CASE EncodeBlocks
  BY <1>8, PlanEncodeBlocks
<1>9. CASE LayOut
  <2>1. CASE Fail
    BY <2>1, PlanReturn DEF Fail
  <2>2. CASE ~Fail
    <3>1. /\ pc = "place" /\ pc' = "upload" /\ UNCHANGED <<request, read, chunks, placed, nextMrope>>
          /\ Len(placed) = Len(chunks) /\ TotalTokens > 0
          /\ mrope' = IF WithImages THEN MropePositions(TotalTokens, placed) ELSE <<>>
      BY <1>9, <2>2 DEF LayOut, Plannable
    <3>2. Vision' = Vision /\ WithImages' = WithImages /\ TotalTokens' = TotalTokens
      BY <3>1 DEF Vision, WithImages, TotalTokens
    <3>3. VisionRead'
      BY <3>1, <3>2 DEF PlanInv, VisionRead, Planned
    <3>4. PromptPlaced'
      BY <3>1, <3>2 DEF PlanInv, PromptPlaced, Planned
    <3>5. TextKnown'
      BY <3>1, <3>2 DEF PlanInv, TextKnown, Planned
    <3>6. chunks # <<>>
      <4>1. Placing(placed, chunks)
        BY <3>1 DEF PlanInv, PromptPlaced, Planned
      <4>2. placed # <<>>
        BY <3>1 DEF TotalTokens
      <4>3. Len(placed) # 0
        BY <4>1, <4>2 DEF Placing
      <4> QED BY <3>1, <4>3
    <3>7. LaidOut'
      BY <3>1, <3>2, <3>6 DEF LaidOut
    <3> QED BY <3>1, <3>3, <3>4, <3>5, <3>7 DEF PlanInv, BlocksReady
  <2> QED BY <2>1, <2>2
<1>10. CASE Upload
  <2>1. CASE Fail
    BY <2>1, PlanReturn DEF Fail
  <2>2. CASE ~Fail
    <3>1. /\ pc = "upload" /\ pc' = "prefill" /\ UNCHANGED <<request, planVars, nextMrope>>
          /\ read' = [read EXCEPT !.weights = disk.model]
      BY <1>10, <2>2 DEF Upload
    <3>2. read'.metadata = read.metadata /\ read'.index = read.index
      BY <3>1 DEF FilesInv, FilesRead
    <3>3. Vision' = Vision /\ WithImages' = WithImages /\ TotalTokens' = TotalTokens
      BY <3>1, <3>2 DEF Vision, WithImages, TotalTokens
    <3>4. VisionRead'
      BY <3>1, <3>2, <3>3 DEF PlanInv, VisionRead, Planned
    <3>5. PromptPlaced'
      BY <3>1, <3>3 DEF PlanInv, PromptPlaced, Planned
    <3>6. LaidOut'
      BY <3>1, <3>3 DEF PlanInv, LaidOut
    <3>7. TextKnown'
      BY <3>1, <3>2, <3>3 DEF PlanInv, TextKnown, Planned
    <3> QED BY <3>1, <3>4, <3>5, <3>6, <3>7 DEF PlanInv, BlocksReady
  <2> QED BY <2>1, <2>2
<1>11. ASSUME pc \in {"prefill", "sample", "decode"},
              pc' \in {"prefill", "sample", "decode"}, pc' = "prefill" => pc = "prefill",
              pc' = "prefill" => nextMrope' = nextMrope,
              UNCHANGED <<request, read, planVars>>
       PROVE  PlanInv'
  <2>1. Vision' = Vision /\ WithImages' = WithImages /\ TotalTokens' = TotalTokens
    BY <1>11 DEF Vision, WithImages, TotalTokens
  <2>2. VisionRead'
    BY <1>11, <2>1 DEF PlanInv, VisionRead, Planned
  <2>3. PromptPlaced'
    BY <1>11, <2>1 DEF PlanInv, PromptPlaced, Planned
  <2>4. LaidOut'
    BY <1>11, <2>1 DEF PlanInv, LaidOut
  <2>5. TextKnown'
    BY <1>11, <2>1 DEF PlanInv, TextKnown, Planned
  <2> QED BY <1>11, <2>2, <2>3, <2>4, <2>5 DEF PlanInv, BlocksReady
<1>12. CASE PrefillChunk
  <2>1. CASE Fail
    BY <2>1, PlanReturn DEF Fail
  <2> QED BY <1>11, <1>12, <2>1 DEF PrefillChunk
<1>13. CASE Sample
  <2>1. CASE \E with : Return(with)
    BY <2>1, PlanReturn
  <2> QED BY <1>11, <1>13, <2>1 DEF Sample, Finish, Fail
<1>14. CASE DecodeToken
  <2>1. CASE Fail
    BY <2>1, PlanReturn DEF Fail
  <2> QED BY <1>11, <1>14, <2>1 DEF DecodeToken
<1>15. CASE Fault
  BY <1>15, PlanReturn DEF Fault
<1>16. CASE ReplaceFile \/ UNCHANGED vars
  <2>1. UNCHANGED <<request, pc, read, planVars, nextMrope>>
    BY <1>16 DEF ReplaceFile, vars
  <2>2. Vision' = Vision /\ WithImages' = WithImages /\ TotalTokens' = TotalTokens /\ Current' = Current
    BY <2>1 DEF Vision, WithImages, TotalTokens, Current
  <2> QED BY <2>1, <2>2 DEF PlanInv, VisionRead, PromptPlaced, BlocksReady, LaidOut, TextKnown
<1> QED
  BY <1>1, <1>2, <1>3, <1>4, <1>5, <1>6, <1>7, <1>8, <1>9, <1>10, <1>12, <1>13, <1>14,
     <1>15, <1>16 DEF Next

(* In every reachable state. *)
LEMMA PlanAlways == Spec => [](FilesInv /\ PlanInv)
BY FilesInit, FilesNext, PlanInit, PlanNext, PTL DEF Spec

-----------------------------------------------------------------------------
(* A placed chunk begins where the one before it ends. *)
LEMMA ChunkEnds ==
  ASSUME NEW ps, NEW cs, NEW m, NEW messages, Placing(ps, cs), Takes(cs, m, messages),
         NEW c \in 1..Len(ps)
  PROVE  /\ ps[c].startToken \in Nat /\ ps[c].startToken = TokensBefore(ps, c)
         /\ ps[c].startPosition \in Nat /\ ps[c].startPosition = PositionsBefore(ps, c)
         /\ TokenCount(ps[c]) \in Nat \ {0} /\ PositionAdvance(ps[c]) \in Nat \ {0}
         /\ TokensBefore(ps, c + 1) = ps[c].startToken + TokenCount(ps[c])
         /\ PositionsBefore(ps, c + 1) = ps[c].startPosition + PositionAdvance(ps[c])
         /\ Places(ps[c], cs[c]) /\ ChunkTakes(cs[c], m, messages)
PROOF
<1>1. Len(ps) \in Nat /\ Len(cs) \in Nat /\ Len(ps) <= Len(cs)
  BY DEF Placing, Takes
<1>2. c \in 1..Len(cs) /\ c + 1 # 1 /\ c + 1 - 1 = c
  BY <1>1
<1>3. /\ Places(ps[c], cs[c]) /\ ChunkTakes(cs[c], m, messages)
      /\ ps[c].startToken \in Nat /\ ps[c].startToken = TokensBefore(ps, c)
      /\ ps[c].startPosition \in Nat /\ ps[c].startPosition = PositionsBefore(ps, c)
  BY <1>2 DEF Placing, Takes
<1>4. TokenCount(ps[c]) \in Nat \ {0} /\ PositionAdvance(ps[c]) \in Nat \ {0}
  BY <1>3, PlacedTakes
<1>5. TokensBefore(ps, c + 1) = ps[c].startToken + TokenCount(ps[c])
  BY <1>2 DEF TokensBefore
<1>6. PositionsBefore(ps, c + 1) = ps[c].startPosition + PositionAdvance(ps[c])
  BY <1>2 DEF PositionsBefore
<1> QED BY <1>3, <1>4, <1>5, <1>6

(* Chunks that follow each other share no tokens and no positions. *)
LEMMA ChunksApart ==
  ASSUME NEW ps, NEW cs, NEW m, NEW messages, Placing(ps, cs), Takes(cs, m, messages),
         NEW c \in 1..Len(ps), NEW d \in (c + 1)..(Len(ps) + 1)
  PROVE  /\ TokensBefore(ps, d) \in Nat /\ PositionsBefore(ps, d) \in Nat
         /\ ps[c].startToken + TokenCount(ps[c]) <= TokensBefore(ps, d)
         /\ ps[c].startPosition + PositionAdvance(ps[c]) <= PositionsBefore(ps, d)
PROOF
<1>1. Len(ps) \in Nat
  BY DEF Placing
<1> DEFINE S == {k \in Nat : c + 1 + k <= Len(ps) + 1 =>
                   /\ TokensBefore(ps, c + 1 + k) \in Nat /\ PositionsBefore(ps, c + 1 + k) \in Nat
                   /\ ps[c].startToken + TokenCount(ps[c]) <= TokensBefore(ps, c + 1 + k)
                   /\ ps[c].startPosition + PositionAdvance(ps[c]) <= PositionsBefore(ps, c + 1 + k)}
<1>2. 0 \in S
  <2>1. c + 1 + 0 = c + 1
    OBVIOUS
  <2>2. /\ ps[c].startToken \in Nat /\ ps[c].startPosition \in Nat
        /\ TokenCount(ps[c]) \in Nat \ {0} /\ PositionAdvance(ps[c]) \in Nat \ {0}
        /\ TokensBefore(ps, c + 1) = ps[c].startToken + TokenCount(ps[c])
        /\ PositionsBefore(ps, c + 1) = ps[c].startPosition + PositionAdvance(ps[c])
    BY ChunkEnds
  <2> QED BY <2>1, <2>2
<1>3. PICK n \in Nat : n = Len(ps) - c
  BY <1>1
<1>4. ASSUME NEW k \in 0..(n - 1), k \in S PROVE k + 1 \in S
  <2>1. PICK e : e = c + 1 + k
    OBVIOUS
  <2>2. e \in 1..Len(ps) /\ c + 1 + k <= Len(ps) + 1 /\ c + 1 + (k + 1) = e + 1 /\ k + 1 \in Nat
    BY <1>1, <1>3, <2>1
  <2>3. /\ TokensBefore(ps, e) \in Nat /\ PositionsBefore(ps, e) \in Nat
        /\ ps[c].startToken + TokenCount(ps[c]) <= TokensBefore(ps, e)
        /\ ps[c].startPosition + PositionAdvance(ps[c]) <= PositionsBefore(ps, e)
    BY <1>4, <2>1, <2>2
  <2>4. /\ ps[e].startToken = TokensBefore(ps, e) /\ ps[e].startPosition = PositionsBefore(ps, e)
        /\ TokenCount(ps[e]) \in Nat \ {0} /\ PositionAdvance(ps[e]) \in Nat \ {0}
        /\ TokensBefore(ps, e + 1) = ps[e].startToken + TokenCount(ps[e])
        /\ PositionsBefore(ps, e + 1) = ps[e].startPosition + PositionAdvance(ps[e])
    BY <2>2, ChunkEnds
  <2>5. /\ ps[c].startToken \in Nat /\ ps[c].startPosition \in Nat
        /\ TokenCount(ps[c]) \in Nat \ {0} /\ PositionAdvance(ps[c]) \in Nat \ {0}
    BY ChunkEnds
  <2>6. PICK b \in Nat, q \in Nat, u \in Nat, v \in Nat \ {0}, w \in Nat \ {0} :
          /\ b = ps[c].startToken + TokenCount(ps[c])
          /\ q = ps[c].startPosition + PositionAdvance(ps[c])
          /\ u = ps[e].startToken /\ v = TokenCount(ps[e]) /\ w = PositionAdvance(ps[e])
    <3>1. ps[e].startToken \in Nat
      BY <2>3, <2>4
    <3>2. ASSUME NEW x \in Nat, NEW y \in Nat PROVE x + y \in Nat
      OBVIOUS
    <3>3. /\ ps[c].startToken + TokenCount(ps[c]) \in Nat
          /\ ps[c].startPosition + PositionAdvance(ps[c]) \in Nat
      BY <2>5, <3>2
    <3> QED BY <2>4, <3>1, <3>3
  <2>7. PICK z \in Nat : z = ps[e].startPosition
    BY <2>3, <2>4
  <2>8. b <= u /\ q <= z
    BY <2>3, <2>4, <2>6, <2>7
  <2>9. TokensBefore(ps, e + 1) = u + v /\ PositionsBefore(ps, e + 1) = z + w
    BY <2>4, <2>6, <2>7
  <2>10. u + v \in Nat /\ z + w \in Nat /\ b <= u + v /\ q <= z + w
    BY <2>8
  <2>11. /\ TokensBefore(ps, c + 1 + (k + 1)) \in Nat /\ PositionsBefore(ps, c + 1 + (k + 1)) \in Nat
         /\ b <= TokensBefore(ps, c + 1 + (k + 1)) /\ q <= PositionsBefore(ps, c + 1 + (k + 1))
    BY <2>2, <2>9, <2>10
  <2> QED BY <2>2, <2>6, <2>11
<1>5. d - (c + 1) \in 0..n /\ c + 1 + (d - (c + 1)) = d /\ d <= Len(ps) + 1
  BY <1>1, <1>3
<1>6. 0..n \subseteq S
  <2> HIDE DEF S
  <2> QED BY <1>2, <1>4, UpTo
<1>7. d - (c + 1) \in S
  <2> HIDE DEF S
  <2> QED BY <1>5, <1>6
<1> QED BY <1>5, <1>7

(* Every token of the prompt is of a chunk. *)
LEMMA ChunkOfToken ==
  ASSUME NEW ps, NEW cs, NEW m, NEW messages, Placing(ps, cs), Takes(cs, m, messages),
         NEW t \in Nat, t < TokensBefore(ps, Len(ps) + 1)
  PROVE  \E c \in 1..Len(ps) : \E n \in 0..(TokenCount(ps[c]) - 1) : t = ps[c].startToken + n
PROOF
<1> DEFINE S == {k \in Nat : k <= Len(ps) /\ t < TokensBefore(ps, k + 1) =>
                   \E c \in 1..Len(ps) : \E n \in 0..(TokenCount(ps[c]) - 1) : t = ps[c].startToken + n}
<1>1. Len(ps) \in Nat
  BY DEF Placing
<1>2. 0 \in S
  BY DEF TokensBefore
<1>3. ASSUME NEW k \in 0..(Len(ps) - 1), k \in S PROVE k + 1 \in S
  <2> SUFFICES ASSUME k + 1 <= Len(ps), t < TokensBefore(ps, k + 1 + 1)
               PROVE  \E c \in 1..Len(ps) : \E n \in 0..(TokenCount(ps[c]) - 1) :
                        t = ps[c].startToken + n
    OBVIOUS
  <2>1. k + 1 \in 1..Len(ps)
    BY <1>1
  <2>2. /\ ps[k + 1].startToken \in Nat /\ ps[k + 1].startToken = TokensBefore(ps, k + 1)
        /\ TokenCount(ps[k + 1]) \in Nat \ {0}
        /\ TokensBefore(ps, k + 1 + 1) = ps[k + 1].startToken + TokenCount(ps[k + 1])
    BY <2>1, ChunkEnds
  <2>3. CASE t < ps[k + 1].startToken
    <3>1. k <= Len(ps) /\ t < TokensBefore(ps, k + 1)
      BY <1>1, <2>1, <2>2, <2>3
    <3> QED BY <1>3, <3>1
  <2>4. CASE ~(t < ps[k + 1].startToken)
    <3>1. PICK n \in Nat : t = ps[k + 1].startToken + n
      <4>1. t - ps[k + 1].startToken \in Nat /\ t = ps[k + 1].startToken + (t - ps[k + 1].startToken)
        BY <2>2, <2>4
      <4> QED BY <4>1
    <3>2. n \in 0..(TokenCount(ps[k + 1]) - 1)
      BY <2>2, <3>1
    <3> QED BY <2>1, <3>1, <3>2
  <2> QED BY <2>3, <2>4
<1>4. Len(ps) \in S
  <2> HIDE DEF S
  <2>1. 0..Len(ps) \subseteq S
    BY <1>1, <1>2, <1>3, UpTo
  <2> QED BY <1>1, <2>1
<1> QED BY <1>1, <1>4

(* Only one. *)
LEMMA OneChunkOfToken ==
  ASSUME NEW ps, NEW cs, NEW m, NEW messages, Placing(ps, cs), Takes(cs, m, messages),
         NEW c \in 1..Len(ps), NEW n \in 0..(TokenCount(ps[c]) - 1),
         NEW d \in 1..Len(ps), NEW k \in 0..(TokenCount(ps[d]) - 1)
  PROVE  /\ c < d => ps[c].startToken + n < ps[d].startToken + k
         /\ ps[c].startToken + n = ps[d].startToken + k => c = d /\ n = k
PROOF
<1>1. ASSUME NEW a \in 1..Len(ps), NEW i \in 0..(TokenCount(ps[a]) - 1),
             NEW b \in 1..Len(ps), NEW j \in 0..(TokenCount(ps[b]) - 1), a < b
      PROVE  ps[a].startToken + i < ps[b].startToken + j
  <2>1. b \in (a + 1)..(Len(ps) + 1)
    BY <1>1 DEF Placing
  <2>2. ps[a].startToken + TokenCount(ps[a]) <= TokensBefore(ps, b)
    BY <2>1, ChunksApart
  <2>3. ps[b].startToken = TokensBefore(ps, b) /\ ps[b].startToken \in Nat /\ TokenCount(ps[b]) \in Nat \ {0}
    BY ChunkEnds
  <2>4. ps[a].startToken \in Nat /\ TokenCount(ps[a]) \in Nat \ {0}
    BY ChunkEnds
  <2>5. PICK u \in Nat, v \in Nat, w \in Nat :
          u = ps[a].startToken /\ v = TokenCount(ps[a]) /\ w = ps[b].startToken
    BY <2>3, <2>4
  <2>6. u + v <= w /\ i \in 0..(v - 1) /\ j \in Nat
    BY <2>2, <2>3, <2>5
  <2>7. u + i < w + j
    BY <2>6
  <2> QED BY <2>5, <2>7
<1>2. /\ ps[c].startToken \in Nat /\ TokenCount(ps[c]) \in Nat \ {0}
      /\ ps[d].startToken \in Nat /\ TokenCount(ps[d]) \in Nat \ {0}
  BY ChunkEnds
<1>3. c < d => ps[c].startToken + n < ps[d].startToken + k
  BY <1>1
<1>4. d < c => ps[d].startToken + k < ps[c].startToken + n
  BY <1>1
<1>5. c = d /\ ps[c].startToken + n = ps[d].startToken + k => n = k
  BY <1>2
<1> QED BY <1>2, <1>3, <1>4, <1>5

-----------------------------------------------------------------------------
(* The rotary position of the n-th token of a placed chunk, by section.    *)
Position(p, s, n) ==
  IF p.kind = "text" \/ s = 0 THEN p.startPosition + (IF p.kind = "text" THEN n ELSE 0)
  ELSE IF s = 1 THEN p.startPosition + (n \div p.plan.mergeX)
  ELSE IF s = 2 THEN p.startPosition + (n % p.plan.mergeX)
  ELSE 0

(* What a chunk writes to the buffer. *)
Written(total, p) ==
  IF p.kind = "text" THEN TextPositions(total, p) ELSE ImagePositions(total, p)

(* A chunk that lies inside a prompt of some tokens. *)
Inside(total, p) ==
  /\ total \in Nat \ {0} /\ p.kind \in {"text", "image"}
  /\ p.startToken \in Nat /\ p.startPosition \in Nat /\ TokenCount(p) \in Nat \ {0}
  /\ p.startToken + TokenCount(p) <= total
  /\ p.kind = "image" => p.plan.mergeX \in Nat \ {0}

(* A place of a chunk in the buffer names its section and its token. *)
LEMMA PlaceInBuffer ==
  ASSUME NEW total \in Nat \ {0}, NEW a \in Nat, NEW count \in Nat \ {0}, a + count <= total,
         NEW s \in 0..3, NEW n \in 0..(count - 1)
  PROVE  /\ s * total + a + n \in 0..(4 * total - 1)
         /\ (s * total + a + n) \div total = s /\ (s * total + a + n) % total = a + n
         /\ ((s * total + a + n) % total) - a = n
PROOF
<1>1. PICK r \in 0..(total - 1) : r = a + n
  OBVIOUS
<1>2. (total * s + r) \div total = s /\ (total * s + r) % total = r
  BY DivisionUnique
<1>3. s * total + a + n = total * s + r
  BY <1>1
<1>4. total * s + r \in 0..(4 * total - 1)
  <2>1. s = 0 \/ s = 1 \/ s = 2 \/ s = 3
    OBVIOUS
  <2> QED BY <2>1
<1> QED BY <1>1, <1>2, <1>3, <1>4

(* The places of a chunk in the buffer. *)
PlacesOf(total, p) ==
  {s * total + p.startToken + n : s \in 0..3, n \in 0..(TokenCount(p) - 1)}

(* What a chunk writes to its places. *)
LEMMA WrittenAt ==
  ASSUME NEW total, NEW p, Inside(total, p)
  PROVE  /\ DOMAIN Written(total, p) = PlacesOf(total, p)
         /\ DOMAIN Written(total, p) \subseteq 0..(4 * total - 1)
         /\ \A s \in 0..3 : \A n \in 0..(TokenCount(p) - 1) :
              /\ Written(total, p)[s * total + p.startToken + n] = Position(p, s, n)
              /\ Position(p, s, n) \in Nat
PROOF
<1>1. PICK a \in Nat, b \in Nat, count \in Nat \ {0} :
        a = p.startToken /\ b = p.startPosition /\ count = TokenCount(p)
  BY DEF Inside
<1>2. total \in Nat \ {0} /\ a + count <= total
  BY <1>1 DEF Inside
<1> DEFINE cells == {s * total + a + n : s \in 0..3, n \in 0..(count - 1)}
<1>3. ASSUME NEW s \in 0..3, NEW n \in 0..(count - 1)
      PROVE  /\ s * total + a + n \in 0..(4 * total - 1)
             /\ (s * total + a + n) \div total = s /\ (s * total + a + n) % total = a + n
             /\ ((s * total + a + n) % total) - a = n
  BY <1>2, PlaceInBuffer
<1>4. cells \subseteq 0..(4 * total - 1)
  BY <1>3
<1>5. CASE p.kind = "text"
  <2>1. Written(total, p) = [k \in cells |-> b + (k % total) - a]
    BY <1>1, <1>5 DEF Written, TextPositions
  <2>2. ASSUME NEW s \in 0..3, NEW n \in 0..(count - 1)
        PROVE  /\ Written(total, p)[s * total + a + n] = Position(p, s, n)
               /\ Position(p, s, n) \in Nat
    <3>1. PICK k \in cells : k = s * total + a + n
      OBVIOUS
    <3>2. k % total = a + n
      BY <1>3, <3>1
    <3>3. Written(total, p)[k] = b + (k % total) - a
      BY <2>1
    <3>4. Position(p, s, n) = b + n
      BY <1>1, <1>5 DEF Position
    <3>5. b + (a + n) - a = b + n /\ b + n \in Nat
      OBVIOUS
    <3> QED BY <3>1, <3>2, <3>3, <3>4, <3>5
  <2>3. DOMAIN Written(total, p) = cells
    BY <2>1
  <2> HIDE DEF cells
  <2>4. /\ DOMAIN Written(total, p) \subseteq 0..(4 * total - 1)
    BY <1>4, <2>3
  <2> QED BY <1>1, <2>2, <2>3, <2>4 DEF cells, PlacesOf
<1>6. CASE p.kind = "image"
  <2>0. PICK x \in Nat \ {0} : x = p.plan.mergeX
    BY <1>6 DEF Inside
  <2>1. Written(total, p) =
          [k \in cells |-> CASE k \div total = 0 -> b
                             [] k \div total = 1 -> b + (((k % total) - a) \div x)
                             [] k \div total = 2 -> b + (((k % total) - a) % x)
                             [] OTHER -> 0]
    BY <1>1, <1>6, <2>0 DEF Written, ImagePositions
  <2>2. ASSUME NEW s \in 0..3, NEW n \in 0..(count - 1)
        PROVE  /\ Written(total, p)[s * total + a + n] = Position(p, s, n)
               /\ Position(p, s, n) \in Nat
    <3>1. PICK k \in cells : k = s * total + a + n
      OBVIOUS
    <3>2. k \div total = s /\ (k % total) - a = n
      BY <1>3, <3>1
    <3>3. Written(total, p)[k] = CASE s = 0 -> b
                                   [] s = 1 -> b + (n \div x)
                                   [] s = 2 -> b + (n % x)
                                   [] OTHER -> 0
      <4>1. Written(total, p)[k] =
              CASE k \div total = 0 -> b
                [] k \div total = 1 -> b + (((k % total) - a) \div x)
                [] k \div total = 2 -> b + (((k % total) - a) % x)
                [] OTHER -> 0
        <5> HIDE DEF cells
        <5> QED BY <2>1
      <4> QED BY <3>2, <4>1
    <3>4. Position(p, s, n) = IF s = 0 THEN b + 0 ELSE IF s = 1 THEN b + (n \div x)
                              ELSE IF s = 2 THEN b + (n % x) ELSE 0
      BY <1>1, <1>6, <2>0 DEF Position
    <3>5. n \div x \in Nat /\ n % x \in 0..(x - 1) /\ b + 0 = b
      <4>1. n \in Nat /\ b + 0 = b
        OBVIOUS
      <4>2. n \div x \in Nat /\ n % x \in 0..(x - 1)
        BY <4>1
      <4> QED BY <4>1, <4>2
    <3>6. Position(p, s, n) \in Nat
      BY <3>4, <3>5
    <3>7. Position(p, s, n) = Written(total, p)[k]
      <4>1. CASE s = 0
        BY <3>3, <3>4, <3>5, <4>1
      <4>2. CASE s = 1
        BY <3>3, <3>4, <4>2
      <4>3. CASE s = 2
        BY <3>3, <3>4, <4>3
      <4>4. CASE s = 3
        BY <3>3, <3>4, <4>4
      <4> QED BY <4>1, <4>2, <4>3, <4>4
    <3> QED BY <3>1, <3>6, <3>7
  <2>3. DOMAIN Written(total, p) = cells
    BY <2>1
  <2> HIDE DEF cells
  <2>4. /\ DOMAIN Written(total, p) \subseteq 0..(4 * total - 1)
    BY <1>4, <2>3
  <2> QED BY <1>1, <2>2, <2>3, <2>4 DEF cells, PlacesOf
<1> QED BY <1>5, <1>6 DEF Inside

(* The buffer is a function of all its places, the last chunk over the     *)
(* others.                                                                 *)
Positions(total, ps) ==
  LET written(chunk) == IF chunk.kind = "text" THEN TextPositions(total, chunk)
                        ELSE ImagePositions(total, chunk)
      positions[c \in 0..Len(ps)] ==
        IF c = 0 THEN [k \in 0..(4 * total - 1) |-> 0]
        ELSE Over(written(ps[c]), positions[c - 1])
  IN positions

(* One chunk after the other is written over the buffer. *)
LEMMA PositionsGrow ==
  ASSUME NEW total \in Nat \ {0}, NEW ps, Len(ps) \in Nat,
         \A c \in 1..Len(ps) : Inside(total, ps[c])
  PROVE  /\ \A c \in 0..Len(ps) : DOMAIN Positions(total, ps)[c] = 0..(4 * total - 1)
         /\ \A c \in 1..Len(ps) :
              Positions(total, ps)[c] = Over(Written(total, ps[c]), Positions(total, ps)[c - 1])
         /\ MropePositions(total, ps) = Positions(total, ps)[Len(ps)]
PROOF
<1> DEFINE B == 0..(4 * total - 1)
           D == [B -> Nat]
           n == Len(ps)
           base == [k \in B |-> 0]
           Body(f) == [c \in 0..n |-> IF c = 0 THEN base ELSE Over(Written(total, ps[c]), f[c - 1])]
           G == [q \in (1..n) \X D |-> Over(Written(total, ps[q[1]]), q[2])]
           F == Positions(total, ps)
<1>1. base \in D /\ n \in Nat
  OBVIOUS
<1>2. ASSUME NEW c \in 1..n, NEW f \in D PROVE Over(Written(total, ps[c]), f) \in D
  <2>1. PICK w : w = Written(total, ps[c])
    OBVIOUS
  <2>2. /\ DOMAIN w \subseteq B
        /\ DOMAIN w = PlacesOf(total, ps[c])
        /\ \A s \in 0..3 : \A k \in 0..(TokenCount(ps[c]) - 1) :
             w[s * total + ps[c].startToken + k] \in Nat
    <3>1. Inside(total, ps[c])
      OBVIOUS
    <3>2. /\ DOMAIN Written(total, ps[c]) = PlacesOf(total, ps[c])
          /\ DOMAIN Written(total, ps[c]) \subseteq 0..(4 * total - 1)
      BY <3>1, WrittenAt, Zenon
    <3>3. \A s \in 0..3 : \A k \in 0..(TokenCount(ps[c]) - 1) :
              /\ Written(total, ps[c])[s * total + ps[c].startToken + k] = Position(ps[c], s, k)
              /\ Position(ps[c], s, k) \in Nat
      BY <3>1, WrittenAt, Zenon
    <3>4. \A s \in 0..3 : \A k \in 0..(TokenCount(ps[c]) - 1) :
              w[s * total + ps[c].startToken + k] \in Nat
      BY <2>1, <3>3, Zenon
    <3> QED BY <2>1, <3>2, <3>4, Zenon
  <2>3. \A x \in DOMAIN w : w[x] \in Nat
    BY <2>2 DEF PlacesOf
  <2>4. DOMAIN f = B /\ \A x \in B : f[x] \in Nat
    OBVIOUS
  <2>5. DOMAIN w \cup DOMAIN f = B
    BY <2>2, <2>4
  <2> HIDE DEF B
  <2>6. Over(w, f) = [x \in B |-> IF x \in DOMAIN w THEN w[x] ELSE f[x]]
    BY <2>5 DEF Over
  <2> QED BY <2>1, <2>3, <2>4, <2>6
<1>3. G \in [(1..n) \X D -> D]
  <2> HIDE DEF D, n
  <2>1. ASSUME NEW q \in (1..n) \X D PROVE Over(Written(total, ps[q[1]]), q[2]) \in D
    <3>1. q[1] \in 1..n /\ q[2] \in D
      OBVIOUS
    <3> QED BY <1>2, <3>1
  <2> QED BY <2>1
<1>4. PICK h : h \in Recursions(n, D, base, G)
  <2> HIDE DEF G, D, base, n
  <2> QED BY <1>1, <1>3, RecursionExists
<1>5. h \in [0..n -> D] /\ h[0] = base /\ \A c \in 1..n : h[c] = G[<<c, h[c - 1]>>]
  <2> HIDE DEF G, D, base, n
  <2> QED BY <1>4 DEF Recursions
<1>6. h = Body(h)
  <2> HIDE DEF D, base, n
  <2>1. ASSUME NEW c \in 0..n
        PROVE  h[c] = IF c = 0 THEN base ELSE Over(Written(total, ps[c]), h[c - 1])
    <3>1. CASE c = 0
      BY <1>5, <3>1
    <3>2. CASE c # 0
      <4>1. c \in 1..n /\ c - 1 \in 0..n
        BY <1>1, <3>2
      <4>2. h[c - 1] \in D /\ <<c, h[c - 1]>> \in (1..n) \X D
        BY <1>5, <4>1
      <4>3. G[<<c, h[c - 1]>>] = Over(Written(total, ps[c]), h[c - 1])
        BY <4>2
      <4> QED BY <1>5, <3>2, <4>1, <4>3
    <3> QED BY <3>1, <3>2
  <2> QED BY <1>5, <2>1
<1>7. F = CHOOSE f : f = Body(f)
  BY DEF Positions, Written
<1>8. F = Body(F)
  <2> HIDE DEF Body, F
  <2> QED BY <1>6, <1>7
<1>9. F \in [0..n -> D]
  <2> HIDE DEF D, base, F, n
  <2>1. DOMAIN F = 0..n /\ F = [c \in 0..n |-> F[c]]
    BY <1>8
  <2>2. F[0] \in D
    BY <1>1, <1>8
  <2>3. ASSUME NEW c \in 1..n, F[c - 1] \in D PROVE F[c] \in D
    <3>1. F[c] = Over(Written(total, ps[c]), F[c - 1])
      BY <1>1, <1>8
    <3> QED BY <1>2, <2>3, <3>1
  <2> QED BY <1>1, <2>1, <2>2, <2>3, StaysInside
<1>10. \A c \in 1..n : F[c] = Over(Written(total, ps[c]), F[c - 1])
  <2> HIDE DEF base, F, n
  <2> QED BY <1>1, <1>8
<1>11. MropePositions(total, ps) = F[n]
  BY DEF MropePositions, Positions
<1> HIDE DEF F
<1>12. \A c \in 0..n : DOMAIN F[c] = B
  BY <1>9
<1> QED BY <1>10, <1>11, <1>12 DEF F

(* What is written over, and what is not. *)
LEMMA OverAt ==
  ASSUME NEW f, NEW g, NEW x
  PROVE  /\ x \in DOMAIN f => Over(f, g)[x] = f[x]
         /\ x \in DOMAIN g /\ x \notin DOMAIN f => Over(f, g)[x] = g[x]
BY DEF Over

(* Every chunk lies inside the prompt. *)
LEMMA ChunksInside ==
  ASSUME NEW ps, NEW cs, NEW m, NEW messages, Placing(ps, cs), Takes(cs, m, messages),
         NEW total, total = TokensBefore(ps, Len(ps) + 1), NEW c \in 1..Len(ps)
  PROVE  Inside(total, ps[c])
PROOF
<1>1. /\ ps[c].startToken \in Nat /\ ps[c].startPosition \in Nat
      /\ TokenCount(ps[c]) \in Nat \ {0}
      /\ Places(ps[c], cs[c]) /\ ChunkTakes(cs[c], m, messages)
  BY ChunkEnds
<1>2. Len(ps) \in Nat /\ Len(ps) + 1 \in (c + 1)..(Len(ps) + 1)
  BY DEF Placing
<1>3. total \in Nat /\ ps[c].startToken + TokenCount(ps[c]) <= total
  BY <1>2, ChunksApart
<1>4. total # 0
  BY <1>1, <1>3
<1>5. ps[c].kind \in {"text", "image"} /\ (ps[c].kind = "image" => ps[c].plan.mergeX \in Nat \ {0})
  BY <1>1 DEF Places, ChunkTakes, IsGrid
<1> QED BY <1>1, <1>3, <1>4, <1>5 DEF Inside

(* A token of a chunk is written at its place, and no other is. *)
LEMMA PlaceOfToken ==
  ASSUME NEW total, NEW p, Inside(total, p), NEW s \in 0..3, NEW n \in 0..(TokenCount(p) - 1)
  PROVE  /\ s * total + p.startToken + n \in 0..(4 * total - 1)
         /\ (s * total + p.startToken + n) % total = p.startToken + n
PROOF
<1>1. PICK a \in Nat, count \in Nat \ {0} : a = p.startToken /\ count = TokenCount(p)
  BY DEF Inside
<1>2. total \in Nat \ {0} /\ a + count <= total
  BY <1>1 DEF Inside
<1>3. n \in 0..(count - 1)
  BY <1>1
<1>4. s * total + a + n \in 0..(4 * total - 1) /\ (s * total + a + n) % total = a + n
  BY <1>2, <1>3, PlaceInBuffer, SMTT(30)
<1> QED BY <1>1, <1>4

(* The place of section s of the position of a chunk's token n. *)
IsPlaceOf(x, total, p, s, n) ==
  /\ s \in 0..3 /\ n \in 0..(TokenCount(p) - 1)
  /\ x = s * total + p.startToken + n

(* The places of a placed chunk are in the buffer. *)
LEMMA InBuffer ==
  ASSUME NEW total, NEW p, Inside(total, p), NEW s, NEW n, NEW x, IsPlaceOf(x, total, p, s, n)
  PROVE  /\ x \in 0..(4 * total - 1) /\ x % total = p.startToken + n
         /\ x \in DOMAIN Written(total, p) /\ Written(total, p)[x] = Position(p, s, n)
         /\ Position(p, s, n) \in Nat
PROOF
<1>0. /\ s \in 0..3 /\ n \in 0..(TokenCount(p) - 1)
      /\ x = s * total + p.startToken + n
  BY DEF IsPlaceOf
<1>1. /\ s * total + p.startToken + n \in 0..(4 * total - 1)
      /\ (s * total + p.startToken + n) % total = p.startToken + n
  BY <1>0, PlaceOfToken
<1>2. DOMAIN Written(total, p) = PlacesOf(total, p)
  BY WrittenAt, Zenon
<1>3. \A v \in 0..3 : \A k \in 0..(TokenCount(p) - 1) :
        /\ Written(total, p)[v * total + p.startToken + k] = Position(p, v, k)
        /\ Position(p, v, k) \in Nat
  BY WrittenAt, Zenon
<1>4. s * total + p.startToken + n \in PlacesOf(total, p)
  BY <1>0 DEF PlacesOf
<1> QED BY <1>0, <1>1, <1>2, <1>3, <1>4, Zenon

(* They are all that the chunk writes. *)
LEMMA InBufferOnly ==
  ASSUME NEW total, NEW p, Inside(total, p), NEW x \in DOMAIN Written(total, p)
  PROVE  \E n \in 0..(TokenCount(p) - 1) : x % total = p.startToken + n
PROOF
<1>1. DOMAIN Written(total, p) = PlacesOf(total, p)
  BY WrittenAt, Zenon
<1>2. PICK s \in 0..3, n \in 0..(TokenCount(p) - 1) : x = s * total + p.startToken + n
  BY <1>1 DEF PlacesOf
<1>3. IsPlaceOf(x, total, p, s, n)
  BY <1>2 DEF IsPlaceOf
<1> QED BY <1>3, InBuffer

(* The position of a token in the buffer of the whole prompt. *)
LEMMA MropeAt ==
  ASSUME NEW ps, NEW cs, NEW m, NEW messages, Placing(ps, cs), Takes(cs, m, messages),
         NEW total, total = TokensBefore(ps, Len(ps) + 1), NEW c \in 1..Len(ps),
         NEW n \in 0..(TokenCount(ps[c]) - 1), NEW s \in 0..3
  PROVE  /\ MropePositions(total, ps)[s * total + ps[c].startToken + n] = Position(ps[c], s, n)
         /\ Position(ps[c], s, n) \in Nat
PROOF
<1>1. Len(ps) \in Nat /\ c \in Nat
  BY DEF Placing
<1>2. \A d \in 1..Len(ps) : Inside(total, ps[d])
  BY ChunksInside
<1>3. total \in Nat \ {0}
  BY <1>2 DEF Inside
<1>4. /\ \A d \in 0..Len(ps) : DOMAIN Positions(total, ps)[d] = 0..(4 * total - 1)
      /\ \A d \in 1..Len(ps) :
           Positions(total, ps)[d] = Over(Written(total, ps[d]), Positions(total, ps)[d - 1])
      /\ MropePositions(total, ps) = Positions(total, ps)[Len(ps)]
  BY <1>1, <1>2, <1>3, PositionsGrow
<1>5. PICK x : x = s * total + ps[c].startToken + n
  OBVIOUS
<1>6. /\ x \in DOMAIN Written(total, ps[c])
      /\ Written(total, ps[c])[x] = Position(ps[c], s, n) /\ Position(ps[c], s, n) \in Nat
      /\ x \in 0..(4 * total - 1) /\ x % total = ps[c].startToken + n
  <2>1. Inside(total, ps[c])
    BY <1>2
  <2>2. IsPlaceOf(x, total, ps[c], s, n)
    BY <1>5 DEF IsPlaceOf
  <2> QED BY <2>1, <2>2, InBuffer
<1>7. ASSUME NEW e \in (c + 1)..Len(ps) PROVE x \notin DOMAIN Written(total, ps[e])
  <2> SUFFICES ASSUME x \in DOMAIN Written(total, ps[e]) PROVE FALSE
    OBVIOUS
  <2>1. e \in 1..Len(ps) /\ c < e
    BY <1>1
  <2>2. Inside(total, ps[c]) /\ Inside(total, ps[e])
    BY <1>2, <2>1
  <2>3. PICK k \in 0..(TokenCount(ps[e]) - 1) : x % total = ps[e].startToken + k
    BY <2>2, InBufferOnly
  <2>4. ps[c].startToken + n < ps[e].startToken + k
    BY <2>1, OneChunkOfToken
  <2>5. ps[c].startToken + n \in Nat
    BY <2>2 DEF Inside
  <2> QED BY <1>6, <2>3, <2>4, <2>5
<1> DEFINE S == {k \in Nat : c + k <= Len(ps) => Positions(total, ps)[c + k][x] = Position(ps[c], s, n)}
<1>8. 0 \in S
  <2>1. c + 0 = c
    OBVIOUS
  <2> QED BY <1>4, <1>6, <2>1, OverAt
<1>9. ASSUME NEW k \in 0..(Len(ps) - c - 1), k \in S PROVE k + 1 \in S
  <2>1. PICK e : e = c + k + 1
    OBVIOUS
  <2>2. /\ e \in (c + 1)..Len(ps) /\ e \in 1..Len(ps) /\ e - 1 = c + k /\ e - 1 \in 0..Len(ps)
        /\ c + (k + 1) = e /\ k + 1 \in Nat /\ c + k <= Len(ps)
    BY <1>1, <2>1
  <2>3. Positions(total, ps)[e - 1][x] = Position(ps[c], s, n)
    BY <1>9, <2>2
  <2>4. Positions(total, ps)[e][x] = Positions(total, ps)[e - 1][x]
    <3>1. Positions(total, ps)[e] = Over(Written(total, ps[e]), Positions(total, ps)[e - 1])
      BY <1>4, <2>2
    <3>2. x \in DOMAIN Positions(total, ps)[e - 1] /\ x \notin DOMAIN Written(total, ps[e])
      BY <1>4, <1>6, <1>7, <2>2
    <3>3. ASSUME NEW f, NEW g, NEW z, z \in DOMAIN g, z \notin DOMAIN f PROVE Over(f, g)[z] = g[z]
      BY <3>3, OverAt
    <3> QED BY <3>1, <3>2, <3>3
  <2> QED BY <2>2, <2>3, <2>4
<1>10. Len(ps) - c \in S
  <2>1. Len(ps) - c \in Nat
    BY <1>1
  <2> HIDE DEF S
  <2>2. 0..(Len(ps) - c) \subseteq S
    BY <1>8, <1>9, <2>1, UpTo
  <2> QED BY <2>1, <2>2
<1>11. c + (Len(ps) - c) = Len(ps)
  BY <1>1
<1> QED BY <1>4, <1>5, <1>6, <1>10, <1>11

(* The positions of a chunk are those between its own first and the next   *)
(* chunk's, and no two cells of an image have the same.                    *)
LEMMA PositionsInside ==
  ASSUME NEW p, NEW k, NEW m, NEW messages, Places(p, k), ChunkTakes(k, m, messages),
         p.startPosition \in Nat, NEW n \in 0..(TokenCount(p) - 1), NEW s \in 0..2
  PROVE  p.startPosition <= Position(p, s, n) /\ Position(p, s, n) < p.startPosition + PositionAdvance(p)
PROOF
<1>1. CASE k.kind = "text"
  <2>1. p.kind = "text"
    BY <1>1 DEF Places
  <2>2. TokenCount(p) = PositionAdvance(p) /\ TokenCount(p) \in Nat \ {0}
    <3>1. TokenCount(p) = PositionAdvance(p)
      BY <2>1 DEF TokenCount, PositionAdvance
    <3> QED BY <3>1, PlacedTakes
  <2>3. Position(p, s, n) = p.startPosition + n
    BY <2>1 DEF Position
  <2> QED BY <2>2, <2>3
<1>2. CASE k.kind = "image"
  <2>1. p.kind = "image" /\ p.plan = k.plan
    BY <1>2 DEF Places
  <2>2. PICK x \in Nat \ {0}, y \in Nat \ {0}, b \in Nat :
          /\ x = p.plan.mergeX /\ y = p.plan.mergeY /\ b = p.startPosition
          /\ p.plan.tokens = x * y
    BY <1>2, <2>1 DEF ChunkTakes, IsGrid
  <2>3. TokenCount(p) = x * y /\ n \in 0..(x * y - 1)
    BY <2>1, <2>2 DEF TokenCount
  <2>4. n % x \in 0..(x - 1) /\ n \div x \in 0..(y - 1)
    BY <2>3, CellPlace
  <2>5. PICK q \in Nat, r \in Nat : q = n \div x /\ r = n % x /\ q < y /\ r < x
    BY <2>4
  <2>6. PositionAdvance(p) = IF x >= y THEN x ELSE y
    BY <2>1, <2>2 DEF PositionAdvance, AtLeast
  <2>7. Position(p, s, n) = IF s = 0 THEN b + 0 ELSE IF s = 1 THEN b + q
                            ELSE IF s = 2 THEN b + r ELSE 0
    BY <2>1, <2>2, <2>5 DEF Position
  <2> QED BY <2>2, <2>5, <2>6, <2>7
<1> QED BY <1>1, <1>2 DEF ChunkTakes

(* Two tokens of an image have different cells. *)
LEMMA CellsDiffer ==
  ASSUME NEW p, p.kind = "image", p.plan.mergeX \in Nat \ {0}, p.startPosition \in Nat,
         NEW n \in Nat, NEW k \in Nat,
         Position(p, 1, n) = Position(p, 1, k), Position(p, 2, n) = Position(p, 2, k)
  PROVE  n = k
PROOF
<1>1. PICK x \in Nat \ {0}, b \in Nat : x = p.plan.mergeX /\ b = p.startPosition
  OBVIOUS
<1>2. /\ n \div x \in Nat /\ n % x \in 0..(x - 1) /\ n = x * (n \div x) + (n % x)
      /\ k \div x \in Nat /\ k % x \in 0..(x - 1) /\ k = x * (k \div x) + (k % x)
  BY Division
<1>3. /\ b + (n \div x) = b + (k \div x)
      /\ b + (n % x) = b + (k % x)
  BY <1>1 DEF Position
<1>4. PICK q \in Nat, r \in Nat, u \in Nat, v \in Nat :
        q = n \div x /\ r = n % x /\ u = k \div x /\ v = k % x
  BY <1>2
<1>5. q = u /\ r = v
  BY <1>3, <1>4
<1> QED BY <1>2, <1>4, <1>5

(* The prompt as it is laid out. *)
LEMMA PromptLaidOut ==
  ASSUME PlanInv, pc \in {"upload", "prefill"}
  PROVE  /\ Placing(placed, chunks) /\ Takes(chunks, Vision, request.messages)
         /\ TotalTokens = TokensBefore(placed, Len(placed) + 1) /\ TotalTokens \in Nat
         /\ nextMrope = PositionsBefore(placed, Len(placed) + 1)
         /\ WithImages => mrope = MropePositions(TotalTokens, placed)
BY PlacedTokens DEF PlanInv, PromptPlaced, LaidOut, Planned

(* The positions of a token are those of its place in its chunk. *)
LEMMA TokenPosition ==
  ASSUME PlanInv, pc \in {"upload", "prefill"}, WithImages,
         NEW c \in 1..Len(placed), NEW n \in 0..(TokenCount(placed[c]) - 1), NEW s \in 0..3
  PROVE  /\ mrope[s * TotalTokens + (placed[c].startToken + n)] = Position(placed[c], s, n)
         /\ Position(placed[c], s, n) \in Nat
PROOF
<1>1. /\ Placing(placed, chunks) /\ Takes(chunks, Vision, request.messages)
      /\ TotalTokens = TokensBefore(placed, Len(placed) + 1) /\ TotalTokens \in Nat
      /\ mrope = MropePositions(TotalTokens, placed)
  BY PromptLaidOut
<1>2. /\ MropePositions(TotalTokens, placed)[s * TotalTokens + placed[c].startToken + n] =
           Position(placed[c], s, n)
      /\ Position(placed[c], s, n) \in Nat
  BY <1>1, MropeAt
<1>3. placed[c].startToken \in Nat /\ n \in Nat
  BY <1>1, ChunkEnds
<1>4. PICK a \in Nat, b \in Nat : a = s * TotalTokens /\ b = placed[c].startToken
  BY <1>1, <1>3
<1>5. a + (b + n) = a + b + n
  BY <1>3
<1>6. s * TotalTokens + (placed[c].startToken + n) = s * TotalTokens + placed[c].startToken + n
  BY <1>4, <1>5
<1> QED BY <1>1, <1>2, <1>6

(* A place in a chunk is so many after its first. *)
LEMMA BeginsBefore ==
  ASSUME NEW at \in Nat, NEW first \in Nat, NEW count \in Nat, at \in first..(first + count - 1)
  PROVE  \E n \in 0..(count - 1) : at = first + n
PROOF
<1>1. at - first \in 0..(count - 1) /\ at = first + (at - first)
  OBVIOUS
<1> QED BY <1>1

(* Two tokens are of one image if their chunk is the same, and an image.   *)
LEMMA SameImageChunk ==
  ASSUME PlanInv, pc \in {"upload", "prefill"},
         NEW c \in 1..Len(placed), NEW n \in 0..(TokenCount(placed[c]) - 1),
         NEW d \in 1..Len(placed), NEW k \in 0..(TokenCount(placed[d]) - 1)
  PROVE  SameImage(placed[c].startToken + n, placed[d].startToken + k)
           <=> c = d /\ placed[c].kind = "image"
PROOF
<1>1. Placing(placed, chunks) /\ Takes(chunks, Vision, request.messages)
  BY PromptLaidOut
<1>2. DOMAIN placed = 1..Len(placed)
  BY <1>1 DEF Placing
<1>3. ASSUME NEW e \in 1..Len(placed), NEW a \in 1..Len(placed),
             NEW i \in 0..(TokenCount(placed[a]) - 1)
      PROVE  placed[a].startToken + i \in
               placed[e].startToken..(placed[e].startToken + TokenCount(placed[e]) - 1) <=> a = e
  <2>1. /\ placed[e].startToken \in Nat /\ TokenCount(placed[e]) \in Nat \ {0}
        /\ placed[a].startToken \in Nat /\ TokenCount(placed[a]) \in Nat \ {0}
    BY <1>1, ChunkEnds
  <2>2. ASSUME placed[a].startToken + i \in
                 placed[e].startToken..(placed[e].startToken + TokenCount(placed[e]) - 1)
        PROVE  a = e
    <3>1. PICK j \in 0..(TokenCount(placed[e]) - 1) :
            placed[a].startToken + i = placed[e].startToken + j
      <4>1. placed[a].startToken + i \in Nat
        BY <2>1
      <4> QED BY <2>1, <2>2, <4>1, BeginsBefore, Zenon
    <3> QED BY <1>1, <3>1, OneChunkOfToken
  <2>3. ASSUME a = e
        PROVE  placed[a].startToken + i \in
                 placed[e].startToken..(placed[e].startToken + TokenCount(placed[e]) - 1)
    BY <2>1, <2>3
  <2> QED BY <2>2, <2>3
<1>4. ASSUME SameImage(placed[c].startToken + n, placed[d].startToken + k)
      PROVE  c = d /\ placed[c].kind = "image"
  <2>1. PICK e \in 1..Len(placed) :
          /\ placed[e].kind = "image"
          /\ placed[c].startToken + n \in
               placed[e].startToken..(placed[e].startToken + TokenCount(placed[e]) - 1)
          /\ placed[d].startToken + k \in
               placed[e].startToken..(placed[e].startToken + TokenCount(placed[e]) - 1)
    BY <1>2, <1>4 DEF SameImage
  <2> QED BY <1>3, <2>1
<1>5. ASSUME c = d, placed[c].kind = "image"
      PROVE  SameImage(placed[c].startToken + n, placed[d].startToken + k)
  <2>1. /\ placed[c].startToken + n \in
             placed[c].startToken..(placed[c].startToken + TokenCount(placed[c]) - 1)
        /\ placed[d].startToken + k \in
             placed[c].startToken..(placed[c].startToken + TokenCount(placed[c]) - 1)
    BY <1>3, <1>5
  <2> QED BY <1>2, <1>5, <2>1 DEF SameImage
<1> QED BY <1>4, <1>5

(* For any images, of any sizes, in any place of a prompt: the positions   *)
(* of the tokens keep their order, cells of one image have different ones, *)
(* and decoding goes on beyond them all.                                   *)
THEOREM PositionsAreInOrder == Spec => []PositionsKeepOrder
PROOF
<1>1. PlanInv => PositionsKeepOrder
  <2> SUFFICES ASSUME PlanInv, pc \in {"upload", "prefill"}, WithImages,
                      NEW t \in 0..(TotalTokens - 1)
               PROVE  /\ \A p \in PositionsOf(t) : p < nextMrope
                      /\ \A u \in 0..(t - 1) :
                           IF SameImage(t, u)
                           THEN Section(mrope, TotalTokens, t) # Section(mrope, TotalTokens, u)
                           ELSE \A p \in PositionsOf(t), q \in PositionsOf(u) : q < p
    BY DEF PositionsKeepOrder
  <2>1. /\ Placing(placed, chunks) /\ Takes(chunks, Vision, request.messages)
        /\ TotalTokens = TokensBefore(placed, Len(placed) + 1) /\ TotalTokens \in Nat
        /\ nextMrope = PositionsBefore(placed, Len(placed) + 1)
    BY PromptLaidOut
  <2>2. Len(placed) \in Nat
    BY <2>1 DEF Placing
  <2>3. ASSUME NEW v \in Nat, v < TotalTokens
        PROVE  \E c \in 1..Len(placed) : \E n \in 0..(TokenCount(placed[c]) - 1) :
                 v = placed[c].startToken + n
    BY <2>1, <2>3, ChunkOfToken
  <2>4. ASSUME NEW c \in 1..Len(placed), NEW n \in 0..(TokenCount(placed[c]) - 1),
               NEW p \in PositionsOf(placed[c].startToken + n)
        PROVE  /\ \E s \in 0..2 : p = Position(placed[c], s, n)
               /\ p \in Nat /\ placed[c].startPosition <= p
               /\ p < placed[c].startPosition + PositionAdvance(placed[c])
    <3>1. PICK s \in 0..2 : p = mrope[s * TotalTokens + (placed[c].startToken + n)]
      BY DEF PositionsOf
    <3>2. p = Position(placed[c], s, n) /\ p \in Nat
      <4>1. s \in 0..3
        OBVIOUS
      <4> QED BY <3>1, <4>1, TokenPosition
    <3>3. /\ Places(placed[c], chunks[c])
          /\ ChunkTakes(chunks[c], Vision, request.messages)
          /\ placed[c].startPosition \in Nat
      BY <2>1, ChunkEnds
    <3>4. /\ placed[c].startPosition <= Position(placed[c], s, n)
          /\ Position(placed[c], s, n) < placed[c].startPosition + PositionAdvance(placed[c])
      BY <3>3, PositionsInside
    <3> QED BY <3>2, <3>4
  <2>5. PICK c \in 1..Len(placed) : \E n \in 0..(TokenCount(placed[c]) - 1) : t = placed[c].startToken + n
    <3>1. t \in Nat /\ t < TotalTokens
      BY <2>1
    <3> QED BY <2>3, <3>1
  <2>6a. PICK n \in 0..(TokenCount(placed[c]) - 1) : t = placed[c].startToken + n
    BY <2>5
  <2>6. /\ placed[c].startPosition \in Nat /\ PositionAdvance(placed[c]) \in Nat
        /\ placed[c].startPosition = PositionsBefore(placed, c)
    BY <2>1, ChunkEnds
  <2>7. ASSUME NEW p \in PositionsOf(t) PROVE p < nextMrope
    <3>1. p \in Nat /\ p < placed[c].startPosition + PositionAdvance(placed[c])
      BY <2>4, <2>6a
    <3>2. Len(placed) + 1 \in (c + 1)..(Len(placed) + 1)
      BY <2>2
    <3>3. /\ nextMrope \in Nat
          /\ placed[c].startPosition + PositionAdvance(placed[c]) <= nextMrope
      BY <2>1, <3>2, ChunksApart
    <3> QED BY <2>6, <3>1, <3>3
  <2>8. ASSUME NEW u \in 0..(t - 1)
        PROVE  IF SameImage(t, u)
               THEN Section(mrope, TotalTokens, t) # Section(mrope, TotalTokens, u)
               ELSE \A p \in PositionsOf(t), q \in PositionsOf(u) : q < p
    <3>1. u \in Nat /\ u < TotalTokens /\ u < t
      BY <2>1
    <3>2. PICK d \in 1..Len(placed) : \E k \in 0..(TokenCount(placed[d]) - 1) : u = placed[d].startToken + k
      BY <2>3, <3>1
    <3>2a. PICK k \in 0..(TokenCount(placed[d]) - 1) : u = placed[d].startToken + k
      BY <3>2
    <3>3. c < d => t < u
      BY <2>1, <2>6a, <3>2a, OneChunkOfToken
    <3>4. ~(c < d)
      BY <3>1, <3>3
    <3>5. SameImage(t, u) <=> c = d /\ placed[c].kind = "image"
      BY <2>6a, <3>2a, SameImageChunk
    <3>6. ASSUME c = d PROVE k < n
      <4>1. placed[c].startToken \in Nat
        BY <2>1, ChunkEnds
      <4> QED BY <2>6a, <3>1, <3>2a, <3>6, <4>1
    <3>7. CASE c = d /\ placed[c].kind = "image"
      <4> SUFFICES ASSUME Section(mrope, TotalTokens, t) = Section(mrope, TotalTokens, u)
                   PROVE  FALSE
        BY <3>5, <3>7
      <4>1. /\ mrope[(2 - 1) * TotalTokens + t] = mrope[(2 - 1) * TotalTokens + u]
            /\ mrope[(3 - 1) * TotalTokens + t] = mrope[(3 - 1) * TotalTokens + u]
        <5>1. 2 \in 1..4 /\ 3 \in 1..4
          OBVIOUS
        <5>2. \A v : /\ Section(mrope, TotalTokens, v)[2] = mrope[(2 - 1) * TotalTokens + v]
                     /\ Section(mrope, TotalTokens, v)[3] = mrope[(3 - 1) * TotalTokens + v]
          BY <5>1 DEF Section
        <5> QED BY <5>2
      <4>2. 2 - 1 = 1 /\ 3 - 1 = 2 /\ 1 \in 0..3 /\ 2 \in 0..3
        OBVIOUS
      <4>3. ASSUME NEW s \in 0..3
            PROVE  /\ mrope[s * TotalTokens + t] = Position(placed[c], s, n)
                   /\ mrope[s * TotalTokens + u] = Position(placed[c], s, k)
        BY <2>6a, <3>2a, <3>7, TokenPosition
      <4>4. /\ Position(placed[c], 1, n) = Position(placed[c], 1, k)
            /\ Position(placed[c], 2, n) = Position(placed[c], 2, k)
        BY <4>1, <4>2, <4>3
      <4>5. placed[c].plan.mergeX \in Nat \ {0}
        <5>1. Places(placed[c], chunks[c]) /\ ChunkTakes(chunks[c], Vision, request.messages)
          BY <2>1, ChunkEnds
        <5> QED BY <3>7, <5>1 DEF Places, ChunkTakes, IsGrid
      <4>6. n \in Nat /\ k \in Nat
        OBVIOUS
      <4>7. n = k
        BY <2>6, <3>7, <4>4, <4>5, <4>6, CellsDiffer
      <4> QED BY <3>6, <3>7, <4>6, <4>7
    <3>8. CASE c = d /\ placed[c].kind # "image"
      <4> SUFFICES ASSUME NEW p \in PositionsOf(t), NEW q \in PositionsOf(u) PROVE q < p
        BY <3>5, <3>8
      <4>1. /\ \E s \in 0..2 : p = Position(placed[c], s, n)
            /\ \E s \in 0..2 : q = Position(placed[c], s, k)
        BY <2>4, <2>6a, <3>2a, <3>8
      <4>2. placed[c].kind = "text"
        <5>1. Places(placed[c], chunks[c]) /\ ChunkTakes(chunks[c], Vision, request.messages)
          BY <2>1, ChunkEnds
        <5> QED BY <3>8, <5>1 DEF Places, ChunkTakes
      <4>3. p = placed[c].startPosition + n /\ q = placed[c].startPosition + k
        BY <4>1, <4>2 DEF Position
      <4>4. n \in Nat /\ k \in Nat /\ k < n
        BY <3>6, <3>8
      <4> QED BY <2>6, <4>3, <4>4
    <3>9. CASE d < c
      <4> SUFFICES ASSUME NEW p \in PositionsOf(t), NEW q \in PositionsOf(u) PROVE q < p
        BY <3>5, <3>9
      <4>1. q \in Nat /\ q < placed[d].startPosition + PositionAdvance(placed[d])
        BY <2>4, <3>2a
      <4>2. p \in Nat /\ placed[c].startPosition <= p
        BY <2>4, <2>6a
      <4>3. c \in (d + 1)..(Len(placed) + 1)
        BY <2>2, <3>9
      <4>4. placed[d].startPosition + PositionAdvance(placed[d]) <= placed[c].startPosition
        BY <2>1, <2>6, <4>3, ChunksApart
      <4>5. placed[d].startPosition \in Nat /\ PositionAdvance(placed[d]) \in Nat
        BY <2>1, ChunkEnds
      <4> QED BY <2>6, <4>1, <4>2, <4>4, <4>5
    <3> QED BY <3>4, <3>7, <3>8, <3>9
  <2> QED BY <2>7, <2>8
<1> QED BY <1>1, PlanAlways, PTL

(* The cell that the rotary positions of a token name. *)
LEMMA CoversAt ==
  ASSUME NEW at, NEW cell, at[1] \in Int, at[2] \in Int, at[3] \in Int,
         CoversCell(cell, 2 * (at[3] - at[1]), 2 * (at[2] - at[1]))
  PROVE  LET corner == <<2 * (at[3] - at[1]), 2 * (at[2] - at[1])>>
         IN /\ {cell[k].patch : k \in 1..4} =
                 {<<corner[1] + x, corner[2] + y>> : x \in 0..1, y \in 0..1}
            /\ \A k \in 1..4 : cell[k].place = cell[k].patch /\ cell[k].rope = cell[k].patch
BY DEF CoversCell

(* A token whose rotary positions f name the cell. *)
NamesCell(f, cell) ==
  LET corner == <<2 * (f[3] - f[1]), 2 * (f[2] - f[1])>>
  IN /\ {cell[k].patch : k \in 1..4} =
          {<<corner[1] + x, corner[2] + y>> : x \in 0..1, y \in 0..1}
     /\ \A k \in 1..4 : cell[k].place = cell[k].patch /\ cell[k].rope = cell[k].patch

(* Every token of an image does. *)
LEMMA ImageTokenNamesCell ==
  ASSUME PlanInv, pc \in {"upload", "prefill"},
         NEW c \in DOMAIN placed, placed[c].kind = "image", NEW n \in DOMAIN placed[c].rows
  PROVE  NamesCell(Section(mrope, TotalTokens, placed[c].startToken + n - 1),
                   placed[c].rows[n].cell)
PROOF
<1>1. /\ Placing(placed, chunks) /\ Takes(chunks, Vision, request.messages)
      /\ TotalTokens \in Nat
  BY PromptLaidOut
<1>2. c \in 1..Len(placed)
  BY <1>1 DEF Placing
<1>3. /\ Places(placed[c], chunks[c]) /\ ChunkTakes(chunks[c], Vision, request.messages)
      /\ placed[c].startToken \in Nat /\ placed[c].startPosition \in Nat
  BY <1>1, <1>2, ChunkEnds
<1>4. /\ chunks[c].kind = "image" /\ placed[c].plan = chunks[c].plan
      /\ RowsCover(placed[c].rows, placed[c].plan)
      /\ chunks[c].image \in Images(request.messages)
      /\ IsGrid(chunks[c].plan, AlignSize(Vision))
  BY <1>3 DEF Places, ChunkTakes
<1>5. WithImages
  BY <1>4 DEF WithImages, HasImages
<1>6. PICK w \in Nat \ {0}, b \in Nat, i \in Nat :
        w = placed[c].plan.mergeX /\ b = placed[c].startPosition /\ i = n - 1
  <2>1. /\ placed[c].plan.mergeX \in Nat \ {0} /\ placed[c].plan.mergeY \in Nat \ {0}
        /\ placed[c].plan.tokens = placed[c].plan.mergeX * placed[c].plan.mergeY
    BY <1>4 DEF IsGrid
  <2>2. placed[c].plan.tokens \in Nat
    BY <2>1, ProductPositive
  <2>3. n \in 1..placed[c].plan.tokens
    BY <1>4 DEF RowsCover
  <2>4. n - 1 \in Nat
    BY <2>2, <2>3
  <2> QED BY <1>3, <2>1, <2>4
<1>7. n \in 1..placed[c].plan.tokens /\ i \in 0..(TokenCount(placed[c]) - 1)
  <2>1. n \in 1..placed[c].plan.tokens
    BY <1>4 DEF RowsCover
  <2>2. TokenCount(placed[c]) = placed[c].plan.tokens
    BY <1>4 DEF TokenCount
  <2>3. TokenCount(placed[c]) \in Nat \ {0}
    BY <1>1, <1>2, ChunkEnds
  <2> QED BY <1>6, <2>1, <2>2, <2>3
<1>8. CoversCell(placed[c].rows[n].cell, 2 * (i % w), 2 * (i \div w))
  BY <1>4, <1>6, <1>7 DEF RowsCover
<1>9. PICK q \in Nat, r \in Nat : q = i \div w /\ r = i % w
  BY <1>6, Division
<1> DEFINE at == Section(mrope, TotalTokens, placed[c].startToken + n - 1)
<1>10. placed[c].startToken + n - 1 = placed[c].startToken + i
  BY <1>3, <1>6
<1>11. ASSUME NEW s \in 0..3 PROVE at[s + 1] = Position(placed[c], s, i)
  <2>1. mrope[s * TotalTokens + (placed[c].startToken + i)] = Position(placed[c], s, i)
    BY <1>2, <1>5, <1>7, TokenPosition
  <2>2. s + 1 \in 1..4 /\ s + 1 - 1 = s
    OBVIOUS
  <2> QED BY <1>10, <2>1, <2>2 DEF Section
<1>12. at[1] = b + 0 /\ at[2] = b + q /\ at[3] = b + r
  <2>1. at[0 + 1] = Position(placed[c], 0, i) /\ at[1 + 1] = Position(placed[c], 1, i)
        /\ at[2 + 1] = Position(placed[c], 2, i)
    BY <1>11
  <2>2. /\ Position(placed[c], 0, i) = b + 0 /\ Position(placed[c], 1, i) = b + q
        /\ Position(placed[c], 2, i) = b + r
    BY <1>6, <1>9 DEF Position
  <2> HIDE DEF at
  <2> QED BY <2>1, <2>2
<1> HIDE DEF at
<1>13. 2 * (at[3] - at[1]) = 2 * r /\ 2 * (at[2] - at[1]) = 2 * q
  BY <1>12
<1>14. CoversCell(placed[c].rows[n].cell, 2 * (at[3] - at[1]), 2 * (at[2] - at[1]))
  BY <1>8, <1>9, <1>13
<1>15. ASSUME NEW f, NEW cell, f = at, cell = placed[c].rows[n].cell
       PROVE  NamesCell(f, cell)
  <2>1. /\ f[1] \in Int /\ f[2] \in Int /\ f[3] \in Int
        /\ CoversCell(cell, 2 * (f[3] - f[1]), 2 * (f[2] - f[1]))
    BY <1>12, <1>14, <1>15
  <2> QED BY <2>1, CoversAt DEF NamesCell
<1> QED BY <1>15 DEF at

(* For any image: the patches behind each of its tokens are those of the   *)
(* cell that its rotary positions name.                                    *)
THEOREM TokensCoverTheirCells == Spec => []ImageTokenCoversItsCell
PROOF
<1>1. PlanInv => ImageTokenCoversItsCell
  BY ImageTokenNamesCell DEF ImageTokenCoversItsCell, NamesCell
<1> QED BY <1>1, PlanAlways, PTL

-----------------------------------------------------------------------------
(* A chat with images, accepted by the gateway or about to be, that nothing *)
(* but a fault should stop.                                                 *)
Served ==
  /\ request.http /\ WithImages /\ replaced = 0
  /\ Complete(request.files) /\ request.maxNewTokens > 0 /\ ValidSampling

(* Until it is answered it reads the files it came with, and its text has   *)
(* tokens of their vocabulary.                                              *)
WhileServed ==
  /\ disk = request.files
  /\ pc # "gateway" => Admits(request.files.mmproj, request.messages)
  /\ pc \in {"bundle", "index"} \cup Planned => read.metadata = request.files.mmproj
  /\ pc \in {"index"} \cup Planned => read.bundle = request.files.model
  /\ pc \in Planned => read.index = request.files.model
  /\ pc = "blocks" => read.graph = request.files.mmproj
  /\ Decodable(Tokens(IndexOf[request.files.model]), generated)

(* Such a chat has gone wrong nowhere. *)
Going == Served /\ pc # "idle" => WhileServed

(* The configuration is that of a file. *)
BundleRead == pc \in {"index"} \cup Planned => read.bundle \in Files

(* The cache has a row for every token of the prompt and of the text.       *)
Room ==
  pc \in {"upload", "prefill", "sample", "decode"} =>
    /\ "capacity" \in DOMAIN cache
    /\ cache.capacity = TotalTokens + request.maxNewTokens

(* The text grows up to its limit, and so does the place of its next token. *)
Growing ==
  /\ generated \in Seq(ToSet(generated))
  /\ pc \notin {"sample", "decode"} => generated = <<>>
  /\ pc = "sample" => nextPosition = TotalTokens + Len(generated)
  /\ pc = "decode" => nextPosition = TotalTokens + Len(generated) - 1 /\ generated # <<>>
  /\ pc \in {"sample", "decode"} /\ request.maxNewTokens > 0 =>
       Len(generated) < request.maxNewTokens

(* Only a fault has stopped one.                                            *)
Answered ==
  /\ replaced \in Nat
  /\ pc # "idle" => answer.status = "none"
  /\ answer.status = "error" /\ Served => faulted

(* What holds of the service at every step.                                 *)
ServeInv == Going /\ BundleRead /\ Room /\ Growing /\ Answered

(* The same request is served. *)
LEMMA ServedStays ==
  ASSUME request' = request, replaced' = replaced
  PROVE  Served' <=> Served
BY DEF Served, Complete, WithImages, ValidSampling

(* Nothing has gone wrong when a request comes. *)
LEMMA ServeInit == Init => ServeInv
PROOF
<1> SUFFICES ASSUME Init PROVE ServeInv
  OBVIOUS
<1>1. generated = <<>> /\ pc = "idle" /\ answer.status = "none" /\ replaced = 0
  BY DEF Init
<1> QED BY <1>1 DEF ServeInv, Going, BundleRead, Planned, Room, Growing, Answered

(* A return is no error, or there was a fault, or it was bound to fail. *)
LEMMA ServeReturn ==
  ASSUME ServeInv, NEW with, Return(with), with.status = "error" /\ Served => faulted'
  PROVE  ServeInv'
PROOF
<1>1. /\ generated' = <<>> /\ pc' = "idle" /\ answer' = with
      /\ UNCHANGED <<request, replaced>>
  BY DEF Return
<1>2. Served' <=> Served
  BY <1>1, ServedStays
<1>3. Going' /\ BundleRead' /\ Room' /\ Growing'
  BY <1>1 DEF Going, BundleRead, Room, Growing, Planned
<1>4. Answered'
  BY <1>1, <1>2 DEF ServeInv, Answered
<1> QED BY <1>3, <1>4 DEF ServeInv

(* A request that was not to be served may fail. *)
LEMMA ServeFail ==
  ASSUME ServeInv, Fail, ~Served
  PROVE  ServeInv'
PROOF
<1>1. PICK with : with = [status |-> "error"] /\ Return(with)
  BY DEF Fail
<1> QED BY <1>1, ServeReturn

(* A step of a request that goes on. *)
LEMMA ServeGoesOn ==
  ASSUME ServeInv, pc # "idle", UNCHANGED <<envVars, answer>>,
         Served => WhileServed', BundleRead', Room', Growing'
  PROVE  ServeInv'
PROOF
<1>1. UNCHANGED <<request, replaced, faulted, answer>>
  BY DEF envVars
<1>2. Served' <=> Served
  BY <1>1, ServedStays
<1>3. Going'
  BY <1>2 DEF Going
<1>4. Answered'
  BY <1>1, <1>2 DEF ServeInv, Answered
<1> QED BY <1>3, <1>4 DEF ServeInv

(* Before the cache is made there is neither room nor text. *)
LEMMA ServePlans ==
  ASSUME ServeInv, pc \notin {"idle", "sample", "decode"}, UNCHANGED <<envVars, answer, generated>>,
         pc' \notin {"idle", "upload", "prefill", "sample", "decode"},
         Served => WhileServed', BundleRead'
  PROVE  ServeInv'
PROOF
<1>1. generated' = <<>>
  BY DEF ServeInv, Growing
<1>2. Room' /\ Growing'
  BY <1>1 DEF Room, Growing
<1> QED BY <1>2, ServeGoesOn

-----------------------------------------------------------------------------
(* The features taken after the first blocks. *)
FeaturesUpTo(index, m) ==
  LET outputs[b \in 0..m.blocks] ==
        IF b = 0 THEN <<>>
        ELSE IF b - 1 \in DeepstackLayers(index) THEN Append(outputs[b - 1], b)
        ELSE outputs[b - 1]
  IN outputs

(* One for every deepstack layer among them. *)
LEMMA FeaturesRecursion ==
  ASSUME NEW index, NEW m, m.blocks \in Nat
  PROVE  /\ FeaturesUpTo(index, m) \in [0..m.blocks -> Seq(Nat)]
         /\ FeaturesUpTo(index, m)[0] = <<>>
         /\ \A b \in 1..m.blocks :
              FeaturesUpTo(index, m)[b] =
                IF b - 1 \in DeepstackLayers(index)
                THEN Append(FeaturesUpTo(index, m)[b - 1], b)
                ELSE FeaturesUpTo(index, m)[b - 1]
PROOF
<1> DEFINE n == m.blocks
           D == Seq(Nat)
           Deep == DeepstackLayers(index)
           After(s, b) == IF b - 1 \in Deep THEN Append(s, b) ELSE s
           Body(f) == [b \in 0..n |-> IF b = 0 THEN <<>> ELSE After(f[b - 1], b)]
           G == [p \in (1..n) \X D |-> After(p[2], p[1])]
           F == FeaturesUpTo(index, m)
<1>1. n \in Nat /\ <<>> \in D
  OBVIOUS
<1>2. ASSUME NEW s \in D, NEW b \in 1..n PROVE After(s, b) \in D
  BY <1>1
<1>3. G \in [(1..n) \X D -> D]
  <2> HIDE DEF n, D, After
  <2> QED BY <1>2
<1>4. PICK h : h \in Recursions(n, D, <<>>, G)
  <2> HIDE DEF G, n, D
  <2> QED BY <1>1, <1>3, RecursionExists
<1>5. h \in [0..n -> D] /\ h[0] = <<>> /\ \A b \in 1..n : h[b] = G[<<b, h[b - 1]>>]
  <2> HIDE DEF G, n, D
  <2> QED BY <1>4 DEF Recursions
<1>6. ASSUME NEW b \in 1..n PROVE h[b] = After(h[b - 1], b)
  <2>1. b - 1 \in 0..n
    BY <1>1
  <2> HIDE DEF n, D, After
  <2>2. <<b, h[b - 1]>> \in (1..n) \X D
    BY <1>5, <2>1
  <2> QED BY <1>5, <2>2
<1>7. h = Body(h)
  <2> HIDE DEF n, D, G, After
  <2>1. \A b \in 0..n : h[b] = IF b = 0 THEN <<>> ELSE After(h[b - 1], b)
    BY <1>1, <1>5, <1>6
  <2> QED BY <1>5, <2>1
<1>8. F = CHOOSE f : f = Body(f)
  BY DEF FeaturesUpTo
<1>9. F = Body(F)
  <2> HIDE DEF Body, F
  <2> QED BY <1>7, <1>8
<1>10. /\ F = [b \in 0..n |-> F[b]] /\ DOMAIN F = 0..n /\ F[0] = <<>>
       /\ \A b \in 1..n : F[b] = After(F[b - 1], b)
  <2> HIDE DEF n, After, F
  <2>1. DOMAIN F = 0..n /\ F = [b \in 0..n |-> F[b]]
    BY <1>9
  <2>2. F[0] = <<>>
    BY <1>1, <1>9
  <2>3. ASSUME NEW b \in 1..n PROVE F[b] = After(F[b - 1], b)
    <3>1. b \in 0..n /\ b # 0
      BY <1>1
    <3> QED BY <1>9, <3>1
  <2> QED BY <2>1, <2>2, <2>3
<1>11. F \in [0..n -> D]
  <2> HIDE DEF n, D, F, After
  <2>1. \A b \in 1..n : F[b - 1] \in D => F[b] \in D
    BY <1>2, <1>10
  <2> QED BY <1>1, <1>10, <2>1, StaysInside
<1> QED BY <1>10, <1>11

(* A row of the encoder has a feature for every deepstack layer and one. *)
LEMMA FeaturesLength ==
  ASSUME NEW index, NEW m, m.blocks \in Nat, DeepstackLayers(index) \subseteq 0..(m.blocks - 1)
  PROVE  Len(Features(index, m)) = 1 + Cardinality(DeepstackLayers(index))
PROOF
<1> DEFINE Deep == DeepstackLayers(index)
           F == FeaturesUpTo(index, m)
           Below(b) == Deep \cap 0..(b - 1)
           S == {b \in Nat : b <= m.blocks => IsFiniteSet(Below(b)) /\ Len(F[b]) = Cardinality(Below(b))}
<1>1. /\ F \in [0..m.blocks -> Seq(Nat)] /\ F[0] = <<>>
      /\ \A b \in 1..m.blocks : F[b] = IF b - 1 \in Deep THEN Append(F[b - 1], b) ELSE F[b - 1]
  BY FeaturesRecursion
<1> HIDE DEF F
<1>2. 0 \in S
  <2>1. Below(0) = {}
    OBVIOUS
  <2> QED BY <1>1, <2>1, FS_EmptySet
<1>3. ASSUME NEW b \in 0..(m.blocks - 1), b \in S PROVE b + 1 \in S
  <2>1. /\ b \in Nat /\ b <= m.blocks /\ b + 1 \in 1..m.blocks /\ b + 1 - 1 = b /\ b + 1 \in Nat
        /\ b \in 0..m.blocks
    OBVIOUS
  <2>2. IsFiniteSet(Below(b)) /\ Len(F[b]) = Cardinality(Below(b))
    BY <1>3, <2>1
  <2>3. F[b] \in Seq(Nat)
    BY <1>1, <2>1
  <2>4. CASE b \in Deep
    <3>1. Below(b + 1) = Below(b) \cup {b} /\ b \notin Below(b)
      <4>1. 0..b = 0..(b - 1) \cup {b}
        BY <2>1
      <4>2. b \notin 0..(b - 1)
        BY <2>1
      <4> HIDE DEF Deep
      <4> QED BY <2>1, <2>4, <4>1, <4>2
    <3>2. IsFiniteSet(Below(b) \cup {b}) /\ Cardinality(Below(b) \cup {b}) = Cardinality(Below(b)) + 1
      <4> HIDE DEF Below
      <4> QED BY <2>2, <3>1, FS_AddElement
    <3>3. F[b + 1] = Append(F[b], b + 1)
      <4>1. F[b + 1] = IF b + 1 - 1 \in Deep THEN Append(F[b + 1 - 1], b + 1) ELSE F[b + 1 - 1]
        <5> HIDE DEF Deep
        <5> QED BY <1>1, <2>1
      <4> HIDE DEF Deep
      <4> QED BY <2>1, <2>4, <4>1
    <3>4. Len(F[b + 1]) = Len(F[b]) + 1
      BY <2>1, <2>3, <3>3
    <3> QED BY <2>1, <2>2, <3>1, <3>2, <3>4
  <2>5. CASE b \notin Deep
    <3>1. Below(b + 1) = Below(b)
      <4>1. 0..b = 0..(b - 1) \cup {b}
        BY <2>1
      <4> HIDE DEF Deep
      <4> QED BY <2>1, <2>5, <4>1
    <3>2. F[b + 1] = F[b]
      BY <1>1, <2>1, <2>5
    <3> QED BY <2>1, <2>2, <3>1, <3>2
  <2> QED BY <2>4, <2>5
<1>4. m.blocks \in S
  <2> HIDE DEF S
  <2>1. 0..m.blocks \subseteq S
    BY <1>2, <1>3, UpTo
  <2> QED BY <2>1
<1>5. Below(m.blocks) = Deep
  OBVIOUS
<1>6. Len(F[m.blocks]) = Cardinality(Deep) /\ F[m.blocks] \in Seq(Nat)
  <2>1. Len(F[m.blocks]) = Cardinality(Below(m.blocks))
    <3> HIDE DEF Below
    <3> QED BY <1>4
  <2> HIDE DEF Deep, Below
  <2> QED BY <1>1, <1>5, <2>1
<1>7. Features(index, m) = <<m.blocks>> \o F[m.blocks]
  BY DEF Features, FeaturesUpTo, F
<1>8. Len(<<m.blocks>> \o F[m.blocks]) = 1 + Len(F[m.blocks])
  <2>1. <<m.blocks>> \in Seq(Nat)
    OBVIOUS
  <2> QED BY <1>6, <2>1
<1> QED BY <1>6, <1>7, <1>8

(* What a file of the vision graph has. *)
LEMMA GraphFile ==
  ASSUME NEW id \in GraphFiles
  PROVE  /\ id \in ReadableFiles /\ id \in Files
         /\ GraphSizes(MetadataOf[id]) /\ IsMetadata(MetadataOf[id])
         /\ MetadataOf[id].width =
              MetadataOf[id].projection * Len(Features(IndexOf[id], MetadataOf[id]))
         /\ \A n \in DOMAIN VisionTensors(IndexOf[id], MetadataOf[id]) :
              /\ HasShape(IndexOf[id], n, VisionTensors(IndexOf[id], MetadataOf[id])[n])
              /\ Tensor(IndexOf[id], n).type \in {0, 30}
PROOF
<1> DEFINE index == IndexOf[id]
           m == MetadataOf[id]
<1>1. id \in Files /\ GraphPlans(File[id]) /\ TensorsLoad(index, File[id])
  BY DEF GraphFiles
<1>2. index = Index(File[id]) /\ m = Metadata(index)
  BY <1>1 DEF IndexOf, MetadataOf, Files
<1>3. IsMetadata(m)
  BY <1>1, MetadataNumbers
<1> HIDE DEF index, m
<1>4. MetadataLoads(File[id]) /\ GraphSizes(m)
  BY <1>1, <1>2 DEF GraphPlans
<1>5. /\ DeepstackLayers(index) \subseteq 0..(m.blocks - 1)
      /\ m.width = m.projection * (1 + Cardinality(DeepstackLayers(index)))
  BY <1>1, <1>2 DEF GraphPlans
<1>6. \A n \in DOMAIN VisionTensors(index, m) : HasShape(index, n, VisionTensors(index, m)[n])
  BY <1>1, <1>2 DEF GraphPlans
<1>7. \A n \in DOMAIN VisionTensors(index, m) : Tensor(index, n).type \in {0, 30}
  BY <1>1, <1>2 DEF TensorsLoad
<1>8. id \in ReadableFiles
  BY <1>1, <1>4 DEF MetadataLoads, ReadableFiles
<1>9. m.blocks \in Nat
  BY <1>3, <1>4 DEF GraphSizes, IsMetadata
<1>10. Len(Features(index, m)) = 1 + Cardinality(DeepstackLayers(index))
  BY <1>5, <1>9, FeaturesLength
<1> QED BY <1>1, <1>3, <1>4, <1>5, <1>6, <1>7, <1>8, <1>10 DEF index, m

(* The grid planned by the file that encodes it fits the input stage, and  *)
(* is encoded to as many tokens as were planned.                           *)
LEMMA GridEncodes ==
  ASSUME NEW index, NEW m, NEW plan, GraphSizes(m), IsMetadata(m), IsGrid(plan, AlignSize(m))
  PROVE  Divides(m, plan) /\ Encode(index, m, plan).tokens = plan.tokens
PROOF
<1>1. PICK p \in Nat \ {0} : p = m.patch
  BY DEF GraphSizes, IsMetadata
<1>2. m.merge = 2 /\ MergeSize(m) = 2
  BY DEF GraphSizes, MergeSize
<1>3. PICK i \in Nat \ {0}, j \in Nat \ {0} : i = plan.mergeX /\ j = plan.mergeY
  BY DEF IsGrid
<1>4. plan.width = (p * 2) * i /\ plan.height = (p * 2) * j /\ plan.tokens = i * j
  BY <1>1, <1>2, <1>3 DEF IsGrid, AlignSize
<1>5. PICK x \in Nat, y \in Nat : x = 2 * i /\ y = 2 * j
  OBVIOUS
<1>6. plan.width = p * x /\ plan.height = p * y
  BY <1>4, <1>5
<1>7. /\ (p * x) \div p = x /\ (p * x) % p = 0 /\ (p * y) \div p = y /\ (p * y) % p = 0
  BY DivisionExact
<1>8. x % 2 = 0 /\ y % 2 = 0
  BY <1>5
<1>9. Divides(m, plan)
  BY <1>1, <1>2, <1>6, <1>7, <1>8 DEF Divides
<1>10. PICK k \in Nat : k = i * j
  OBVIOUS
<1>11. x * y = 4 * k /\ (4 * k) \div 4 = k
  BY <1>5, <1>10
<1>12. Encode(index, m, plan).tokens = (x * y) \div 4
  BY <1>1, <1>6, <1>7 DEF Encode
<1> QED BY <1>4, <1>9, <1>10, <1>11, <1>12

(* An accepted image is planned by the size it decodes to. *)
LEMMA AcceptedImage ==
  ASSUME FilesInv, PlanInv, pc \in {"place", "blocks"}, Len(placed) < Len(chunks),
         Current.kind = "image",
         read.metadata = request.files.mmproj, Admits(request.files.mmproj, request.messages)
  PROVE  /\ Current.image.bytes
         /\ Preprocesses(MetadataOf[read.metadata], Current.image)
         /\ Current.plan = Preprocessed(MetadataOf[read.metadata], Current.image)
         /\ IsGrid(Current.plan, AlignSize(MetadataOf[read.metadata]))
PROOF
<1>1. Takes(chunks, Vision, request.messages) /\ Placing(placed, chunks) /\ request \in Requests
  BY DEF PlanInv, PromptPlaced, Planned, FilesInv, FilesRead
<1>2. Len(placed) + 1 \in 1..Len(chunks)
  BY <1>1 DEF Placing, Takes
<1>3. ChunkTakes(Current, Vision, request.messages)
  BY <1>1, <1>2 DEF Takes, Current
<1>4. /\ Current.image \in Images(request.messages)
      /\ Dimensions(Current.image) # NoSize
      /\ Current.plan = EmbeddingPlan(Vision, Dimensions(Current.image)[1], Dimensions(Current.image)[2])
      /\ IsGrid(Current.plan, AlignSize(Vision))
  BY <1>3 DEF ChunkTakes
<1>5. WithImages /\ Vision = MetadataOf[read.metadata]
  BY <1>4 DEF WithImages, HasImages, Vision
<1>6. ImageAssumption(Current.image)
  BY <1>1, <1>4, RequestMessages
<1>7. Current.image.bytes
  BY <1>4, <1>6, ImageSizes
<1>8. Preprocesses(MetadataOf[read.metadata], Current.image)
  BY <1>4, <1>7 DEF Admits
<1>9. Dimensions(Current.image) = Current.image.decoded
  BY <1>4, <1>6, <1>8, ImageSizes DEF Preprocesses
<1> QED BY <1>4, <1>5, <1>7, <1>8, <1>9 DEF Preprocessed

-----------------------------------------------------------------------------
(* One layer over some rows, and the caches and rows after each layer.     *)
Through(config, start, done, layer) ==
  IF LayerKind(config, layer) = "linear"
  THEN LinearLayer(done.memory, config, layer, done.rows)
  ELSE FullLayer(done.memory, config, layer, start, done.rows)

(* The caches and rows after each main layer. *)
Layers(memory, config, start, rows) ==
  LET Layer(done, layer) ==
        IF LayerKind(config, layer) = "linear"
        THEN LinearLayer(done.memory, config, layer, done.rows)
        ELSE FullLayer(done.memory, config, layer, start, done.rows)
      done[k \in 0..config.main] ==
        IF k = 0 THEN [memory |-> memory, rows |-> rows] ELSE Layer(done[k - 1], k - 1)
  IN done

(* Each layer goes on from the one before it. *)
LEMMA LayersRecursion ==
  ASSUME NEW memory, NEW config, NEW start, NEW rows, config.main \in Nat
  PROVE  /\ DOMAIN Layers(memory, config, start, rows) = 0..config.main
         /\ Layers(memory, config, start, rows)[0] = [memory |-> memory, rows |-> rows]
         /\ \A k \in 1..config.main :
              Layers(memory, config, start, rows)[k] =
                Through(config, start, Layers(memory, config, start, rows)[k - 1], k - 1)
         /\ MainLayers(memory, config, start, rows) =
              Layers(memory, config, start, rows)[config.main]
PROOF
<1> DEFINE n == config.main
           base == [memory |-> memory, rows |-> rows]
           Step(d, k) == Through(config, start, d, k - 1)
           Body(f) == [k \in 0..n |-> IF k = 0 THEN base ELSE Step(f[k - 1], k)]
           Run(m, f) == /\ f = [k \in 0..m |-> f[k]] /\ f[0] = base
                        /\ \A k \in 1..m : f[k] = Step(f[k - 1], k)
           S == {m \in Nat : m <= n => \E f : Run(m, f)}
           F == Layers(memory, config, start, rows)
<1>1. n \in Nat
  OBVIOUS
<1> HIDE DEF base, Step
<1>2. 0 \in S
  <2> DEFINE f == [k \in 0..0 |-> base]
  <2>1. f[0] = base /\ f = [k \in 0..0 |-> f[k]] /\ 1..0 = {}
    OBVIOUS
  <2> HIDE DEF f
  <2>2. Run(0, f)
    BY <2>1
  <2> HIDE DEF Run
  <2> QED BY <2>2
<1>3. ASSUME NEW m \in 0..(n - 1), m \in S PROVE m + 1 \in S
  <2>1. m \in Nat /\ m <= n /\ m + 1 \in Nat
    BY <1>1
  <2>2. PICK f : Run(m, f)
    <3> HIDE DEF Run
    <3> QED BY <1>3, <2>1
  <2> DEFINE g == [k \in 0..(m + 1) |-> IF k = m + 1 THEN Step(f[k - 1], k) ELSE f[k]]
  <2>3. g = [k \in 0..(m + 1) |-> g[k]]
    OBVIOUS
  <2>4. g[0] = base
    BY <2>1, <2>2
  <2>5. ASSUME NEW k \in 1..(m + 1) PROVE g[k] = Step(g[k - 1], k)
    <3>1. k \in 0..(m + 1) /\ k - 1 \in 0..(m + 1) /\ k - 1 # m + 1
      BY <2>1
    <3>2. g[k - 1] = f[k - 1]
      BY <3>1
    <3>3. CASE k = m + 1
      <4>1. g[k] = Step(f[k - 1], k)
        BY <3>1, <3>3
      <4> QED BY <3>2, <4>1
    <3>4. CASE k # m + 1
      <4>1. k \in 1..m
        BY <2>1, <3>4
      <4>2. g[k] = f[k] /\ f[k] = Step(f[k - 1], k)
        BY <2>2, <3>1, <3>4, <4>1
      <4> QED BY <3>2, <4>2
    <3> QED BY <3>3, <3>4
  <2> HIDE DEF g
  <2>6. Run(m + 1, g)
    BY <2>3, <2>4, <2>5
  <2> HIDE DEF Run
  <2> QED BY <2>1, <2>6
<1>4. n \in S
  <2> HIDE DEF S
  <2>1. 0..n \subseteq S
    BY <1>1, <1>2, <1>3, UpTo
  <2> QED BY <1>1, <2>1
<1>5. PICK h : Run(n, h)
  <2> HIDE DEF Run
  <2> QED BY <1>1, <1>4
<1>6. h = Body(h)
  <2>1. \A k \in 0..n : h[k] = IF k = 0 THEN base ELSE Step(h[k - 1], k)
    <3>1. h[0] = base /\ \A k \in 1..n : h[k] = Step(h[k - 1], k)
      BY <1>5
    <3>2. \A k \in 0..n : k = 0 \/ k \in 1..n
      BY <1>1
    <3> HIDE DEF n
    <3> QED BY <3>1, <3>2
  <2> QED BY <1>5, <2>1
<1>7. F = CHOOSE f : f = Body(f)
  BY DEF Layers, Step, Through, base
<1>8. F = Body(F)
  <2> HIDE DEF Body, F
  <2> QED BY <1>6, <1>7
<1>9. /\ DOMAIN F = 0..n /\ F[0] = base
      /\ \A k \in 1..n : F[k] = Step(F[k - 1], k)
  <2> HIDE DEF F, n
  <2>1. 0 \in 0..n /\ \A k \in 1..n : k \in 0..n /\ k # 0
    BY <1>1
  <2> QED BY <1>8, <2>1
<1>10. MainLayers(memory, config, start, rows) = F[n]
  BY DEF MainLayers, Layers
<1> QED BY <1>9, <1>10 DEF base, Step

(* No layer changes the room of the cache. *)
LEMMA LayersKeepCapacity ==
  ASSUME NEW memory, NEW config, NEW start, NEW rows, config.main \in Nat,
         "capacity" \in DOMAIN memory
  PROVE  /\ MainLayers(memory, config, start, rows).memory.capacity = memory.capacity
         /\ "capacity" \in DOMAIN MainLayers(memory, config, start, rows).memory
PROOF
<1> DEFINE F == Layers(memory, config, start, rows)
           Kept(d) == "capacity" \in DOMAIN d.memory /\ d.memory.capacity = memory.capacity
           S == {k \in Nat : k <= config.main => Kept(F[k])}
<1>1. /\ F[0] = [memory |-> memory, rows |-> rows]
      /\ \A k \in 1..config.main : F[k] = Through(config, start, F[k - 1], k - 1)
      /\ MainLayers(memory, config, start, rows) = F[config.main]
  BY LayersRecursion
<1> HIDE DEF F
<1>2. 0 \in S
  BY <1>1
<1>3. ASSUME NEW d, NEW layer, Kept(d) PROVE Kept(Through(config, start, d, layer))
  <2>1. CASE LayerKind(config, layer) = "linear"
    BY <1>3, <2>1 DEF Through, LinearLayer
  <2>2. CASE LayerKind(config, layer) # "linear"
    BY <1>3, <2>2 DEF Through, FullLayer
  <2> QED BY <2>1, <2>2
<1>4. ASSUME NEW k \in 0..(config.main - 1), k \in S PROVE k + 1 \in S
  <2>1. k \in Nat /\ k <= config.main /\ k + 1 \in 1..config.main /\ k + 1 - 1 = k
    OBVIOUS
  <2>2. F[k + 1] = Through(config, start, F[k], k)
    BY <1>1, <2>1
  <2> HIDE DEF Kept
  <2> QED BY <1>3, <1>4, <2>1, <2>2
<1>5. config.main \in S
  <2> HIDE DEF S
  <2>1. 0..config.main \subseteq S
    BY <1>2, <1>4, UpTo
  <2> QED BY <2>1
<1> QED BY <1>1, <1>5

(* A file whose tensors may all be uploaded is not empty. *)
LEMMA UploadableMaps ==
  ASSUME NEW id \in ReadableFiles, NEW config, WeightsBind(IndexOf[id], config),
         \A i \in DOMAIN IndexOf[id].tensors : Uploadable(IndexOf[id].tensors[i], File[id].size)
  PROVE  /\ Mappable(IndexOf[id], File[id])
         /\ \A tensor \in ToSet(IndexOf[id].tensors) : Uploadable(tensor, File[id].size)
PROOF
<1>1. id \in Files /\ HasTensor(IndexOf[id], <<"token_embd">>)
  BY BoundTensors DEF ReadableFiles
<1>2. PICK i \in DOMAIN IndexOf[id].tensors : TRUE
  BY <1>1, NamedTensors
<1>3. /\ IndexOf[id].tensors[i].bytes \in Nat /\ IndexOf[id].tensors[i].at \in Nat
      /\ IndexOf[id].size = File[id].size
  BY ReadTensors
<1>4. /\ IndexOf[id].tensors[i].bytes # 0
      /\ IndexOf[id].tensors[i].at <= File[id].size
      /\ IndexOf[id].tensors[i].bytes <= File[id].size - IndexOf[id].tensors[i].at
  BY DEF Uploadable, BytesInside
<1>5. File[id].size \in Nat
  BY <1>1, FileAssumption DEF Files
<1>6. File[id].size > 0
  BY <1>3, <1>4, <1>5
<1> QED BY <1>3, <1>6 DEF Mappable, ToSet

(* What complete files have, by name. *)
LEMMA CompleteFiles ==
  ASSUME NEW files, Complete(files), WithImages
  PROVE  /\ BundleFits(files.model, files.mmproj)
         /\ IndexFits(files.model, ConfigOf[files.model])
         /\ \A i \in DOMAIN IndexOf[files.model].tensors :
              Uploadable(IndexOf[files.model].tensors[i], File[files.model].size)
         /\ Plannable(ConfigOf[files.model], 1) /\ Allocatable(ConfigOf[files.model])
         /\ RopeSections(ConfigOf[files.model])
         /\ LayersRun(IndexOf[files.model], ConfigOf[files.model])
         /\ HeadRuns(IndexOf[files.model])
         /\ CanEncode(IndexOf[files.model])
         /\ ConfigOf[files.model].vocab = Len(Tokens(IndexOf[files.model]))
         /\ files.mmproj \in GraphFiles
BY DEF Complete

(* The main layers of a configuration that binds. *)
LEMMA MainNumber ==
  ASSUME NEW id \in Files, NEW index, WeightsBind(index, ConfigOf[id])
  PROVE  ConfigOf[id].main \in Nat
PROOF
<1>1. id \in DOMAIN File /\ ConfigOf[id] = Config(IndexOf[id])
      /\ IndexOf[id].metadata = File[id].metadata
  BY DEF ConfigOf, IndexOf, Index, Files
<1>2. ConfigOf[id].main =
        Meta(File[id].metadata, "block_count", 0) - Meta(File[id].metadata, "nextn_predict_layers", 0)
  BY <1>1 DEF Config
<1>3. /\ Meta(File[id].metadata, "block_count", 0) \in Int
      /\ Meta(File[id].metadata, "nextn_predict_layers", 0) \in Int
  BY <1>1, FileAssumption
<1>4. ConfigOf[id]["main"] > 0
  BY DEF WeightsBind, Positive
<1> QED BY <1>2, <1>3, <1>4

(* A configuration the weights were bound to has main layers. *)
LEMMA LayersNumbered ==
  ASSUME FilesInv, ServeInv, pc \in Planned
  PROVE  ConfigOf[read.bundle].main \in Nat
PROOF
<1>1. read.bundle \in Files /\ IndexFits(read.index, ConfigOf[read.bundle])
  BY DEF FilesInv, IndexBound, ServeInv, BundleRead
<1> QED BY <1>1, MainNumber DEF IndexFits

(* What was accepted is read and planned. *)
LEMMA ServeReads ==
  ASSUME FilesInv, PlanInv, ServeInv, Gateway \/ Start \/ LoadBundle \/ ReadIndex
  PROVE  ServeInv'
PROOF
<1> USE DEF envVars, planVars, runVars
<1>1. CASE Gateway
  <2>1. CASE WithImages => Admits(disk.mmproj, request.messages)
    <3>1. pc = "gateway" /\ pc' = "start" /\ UNCHANGED <<envVars, answer, read, generated>>
      BY <1>1, <2>1 DEF Gateway
    <3>2. Served => WhileServed'
      BY <2>1, <3>1 DEF ServeInv, Going, WhileServed, Served, Planned
    <3> QED BY <3>1, <3>2, ServePlans DEF BundleRead, Planned
  <2>2. CASE ~(WithImages => Admits(disk.mmproj, request.messages))
    <3>1. PICK with : with = [status |-> "refused"] /\ Return(with)
      BY <1>1, <2>2 DEF Gateway
    <3> QED BY <3>1, ServeReturn
  <2> QED BY <2>1, <2>2
<1>2. CASE Start
  <2>1. CASE Startable
    <3>1. /\ pc = "start" /\ pc' = "bundle" /\ UNCHANGED <<envVars, answer, generated>>
          /\ read' = [read EXCEPT !.metadata = IF WithImages THEN disk.mmproj ELSE NoFile]
      BY <1>2, <2>1 DEF Start
    <3>2. WithImages => read'.metadata = disk.mmproj
      BY <3>1 DEF FilesInv, FilesRead
    <3>3. Served => WhileServed'
      BY <3>1, <3>2 DEF ServeInv, Going, WhileServed, Served, Planned
    <3> QED BY <3>1, <3>3, ServePlans DEF BundleRead, Planned
  <2>2. CASE ~Startable
    <3>1. ~Served
      <4> SUFFICES ASSUME Served PROVE FALSE
        OBVIOUS
      <4>1. pc = "start" /\ WithImages /\ request.maxNewTokens > 0
        BY <1>2 DEF Start, Served
      <4>2. disk = request.files /\ Admits(disk.mmproj, request.messages)
        BY <4>1 DEF ServeInv, Going, WhileServed
      <4>3. request.messages # <<>>
        <5>1. ToSet(<<>>) = {}
          BY DEF ToSet
        <5>2. Images(<<>>) = {}
          BY <5>1 DEF Images
        <5> QED BY <4>1, <5>2 DEF WithImages, HasImages
      <4> QED BY <2>2, <4>1, <4>2, <4>3 DEF Startable, Admits, PromptPlans
    <3> QED BY <1>2, <2>2, <3>1, ServeFail DEF Start
  <2> QED BY <2>1, <2>2
<1>3. CASE LoadBundle
  <2>1. CASE BundleFits(disk.model, read.metadata) /\ ValidSampling
    <3>1. /\ pc = "bundle" /\ pc' = "index" /\ UNCHANGED <<envVars, answer, generated>>
          /\ read' = [read EXCEPT !.bundle = disk.model]
      BY <1>3, <2>1 DEF LoadBundle
    <3>2. read'.metadata = read.metadata /\ read'.bundle = disk.model
      BY <3>1 DEF FilesInv, FilesRead
    <3>3. Served => WhileServed'
      BY <3>1, <3>2 DEF ServeInv, Going, WhileServed, Planned
    <3>4. BundleRead'
      BY <3>1, <3>2 DEF BundleRead, FilesInv, FilesRead
    <3> QED BY <3>1, <3>3, <3>4, ServePlans
  <2>2. CASE ~(BundleFits(disk.model, read.metadata) /\ ValidSampling)
    <3>1. ~Served
      <4> SUFFICES ASSUME Served PROVE FALSE
        OBVIOUS
      <4>1. pc = "bundle" /\ WithImages /\ Complete(request.files) /\ ValidSampling
        BY <1>3 DEF LoadBundle, Served
      <4>2. disk = request.files /\ read.metadata = request.files.mmproj
        BY <4>1 DEF ServeInv, Going, WhileServed
      <4> QED BY <2>2, <4>1, <4>2, CompleteFiles
    <3> QED BY <1>3, <2>2, <3>1, ServeFail DEF LoadBundle
  <2> QED BY <2>1, <2>2
<1>4. CASE ReadIndex
  <2>1. CASE IndexFits(disk.model, ConfigOf[read.bundle]) /\ PromptFits(disk.model, read.metadata)
    <3>1. /\ pc = "index" /\ pc' = "place" /\ UNCHANGED <<envVars, answer, generated>>
          /\ read' = [read EXCEPT !.index = disk.model]
      BY <1>4, <2>1 DEF ReadIndex
    <3>2. /\ read'.metadata = read.metadata /\ read'.bundle = read.bundle
          /\ read'.index = disk.model
      BY <3>1 DEF FilesInv, FilesRead
    <3>3. Served => WhileServed'
      BY <3>1, <3>2 DEF ServeInv, Going, WhileServed, Planned
    <3>4. BundleRead'
      BY <3>1, <3>2 DEF ServeInv, BundleRead
    <3> QED BY <3>1, <3>3, <3>4, ServePlans
  <2>2. CASE ~(IndexFits(disk.model, ConfigOf[read.bundle]) /\ PromptFits(disk.model, read.metadata))
    <3>1. ~Served
      <4> SUFFICES ASSUME Served PROVE FALSE
        OBVIOUS
      <4>1. pc = "index" /\ WithImages /\ Complete(request.files)
        BY <1>4 DEF ReadIndex, Served
      <4>2. /\ disk = request.files /\ read.metadata = request.files.mmproj
            /\ read.bundle = request.files.model
            /\ Admits(request.files.mmproj, request.messages)
        BY <4>1 DEF ServeInv, Going, WhileServed
      <4>3. IndexFits(disk.model, ConfigOf[read.bundle])
        BY <4>1, <4>2, CompleteFiles
      <4>4. PromptFits(disk.model, read.metadata)
        BY <4>1, <4>2, CompleteFiles DEF PromptFits, Admits
      <4> QED BY <2>2, <4>3, <4>4
    <3> QED BY <1>4, <2>2, <3>1, ServeFail DEF ReadIndex
  <2> QED BY <2>1, <2>2
<1> QED BY <1>1, <1>2, <1>3, <1>4

(* Its images are encoded as they were planned. *)
LEMMA ServeEncodes ==
  ASSUME FilesInv, PlanInv, ServeInv, PlaceText \/ EncodeInput \/ EncodeBlocks
  PROVE  ServeInv'
PROOF
<1> USE DEF envVars, planVars, runVars
<1>1. CASE PlaceText
  <2>1. pc = "place" /\ pc' = "place" /\ UNCHANGED <<envVars, answer, generated, read>>
    BY <1>1 DEF PlaceText, Place
  <2>2. BundleRead' /\ (Served => WhileServed')
    BY <2>1 DEF ServeInv, BundleRead, Going, WhileServed, Planned
  <2> QED BY <2>1, <2>2, ServePlans
<1>2. CASE EncodeInput
  <2>1. CASE InputReady(disk.mmproj)
    <3>1. /\ pc = "place" /\ pc' = "blocks" /\ UNCHANGED <<envVars, answer, generated>>
          /\ read' = [read EXCEPT !.graph = disk.mmproj]
      BY <1>2, <2>1 DEF EncodeInput
    <3>2. /\ read'.metadata = read.metadata /\ read'.bundle = read.bundle
          /\ read'.index = read.index /\ read'.graph = disk.mmproj
      BY <3>1 DEF FilesInv, FilesRead
    <3>3. BundleRead' /\ (Served => WhileServed')
      BY <3>1, <3>2 DEF ServeInv, BundleRead, Going, WhileServed, Planned
    <3> QED BY <3>1, <3>3, ServePlans
  <2>2. CASE ~InputReady(disk.mmproj)
    <3>1. ~Served
      <4> SUFFICES ASSUME Served PROVE FALSE
        OBVIOUS
      <4>1. /\ pc = "place" /\ WithImages /\ Complete(request.files)
            /\ Len(placed) < Len(chunks) /\ Current.kind = "image"
        BY <1>2 DEF EncodeInput, Served
      <4>2. /\ disk = request.files /\ read.metadata = request.files.mmproj
            /\ Admits(request.files.mmproj, request.messages)
        BY <4>1 DEF ServeInv, Going, WhileServed, Planned
      <4>3. disk.mmproj \in GraphFiles
        BY <4>1, <4>2, CompleteFiles
      <4>4. /\ Current.image.bytes
            /\ Preprocesses(MetadataOf[read.metadata], Current.image)
            /\ Current.plan = Preprocessed(MetadataOf[read.metadata], Current.image)
            /\ IsGrid(Current.plan, AlignSize(MetadataOf[read.metadata]))
        BY <4>1, <4>2, AcceptedImage
      <4>5. GraphSizes(MetadataOf[disk.mmproj]) /\ IsMetadata(MetadataOf[disk.mmproj])
        BY <4>3, GraphFile
      <4>6. Divides(MetadataOf[disk.mmproj], Current.plan)
        BY <4>2, <4>4, <4>5, GridEncodes
      <4> QED BY <2>2, <4>3, <4>4, <4>6 DEF InputReady
    <3> QED BY <1>2, <2>2, <3>1, ServeFail DEF EncodeInput
  <2> QED BY <2>1, <2>2
<1>3. CASE EncodeBlocks
  <2> DEFINE m == MetadataOf[read.metadata]
             encoded == Encode(IndexOf[read.graph], MetadataOf[read.graph],
                               Preprocessed(m, Current.image))
             fits == /\ BlocksLoad(disk.mmproj)
                     /\ encoded.tokens = TokenCount(Current)
                     /\ encoded.width = m.width
  <2>1. CASE fits
    <3>1. pc = "blocks" /\ pc' = "place" /\ UNCHANGED <<envVars, answer, generated, read>>
      BY <1>3, <2>1 DEF EncodeBlocks, Place
    <3>2. BundleRead' /\ (Served => WhileServed')
      BY <3>1 DEF ServeInv, BundleRead, Going, WhileServed, Planned
    <3> QED BY <3>1, <3>2, ServePlans
  <2>2. CASE ~fits
    <3>1. ~Served
      <4> SUFFICES ASSUME Served PROVE FALSE
        OBVIOUS
      <4>1. pc = "blocks" /\ WithImages /\ Complete(request.files)
        BY <1>3 DEF EncodeBlocks, Served
      <4>2. Len(placed) < Len(chunks) /\ Current.kind = "image"
        BY <4>1 DEF PlanInv, BlocksReady
      <4>3. /\ disk = request.files /\ read.metadata = disk.mmproj /\ read.graph = disk.mmproj
            /\ Admits(request.files.mmproj, request.messages)
        BY <4>1 DEF ServeInv, Going, WhileServed, Planned
      <4>4. PICK id \in GraphFiles : id = disk.mmproj
        BY <4>1, <4>3, CompleteFiles
      <4>5. /\ id \in ReadableFiles
            /\ GraphSizes(MetadataOf[id]) /\ IsMetadata(MetadataOf[id])
            /\ MetadataOf[id].width =
                 MetadataOf[id].projection * Len(Features(IndexOf[id], MetadataOf[id]))
            /\ \A n \in DOMAIN VisionTensors(IndexOf[id], MetadataOf[id]) :
                 /\ HasShape(IndexOf[id], n, VisionTensors(IndexOf[id], MetadataOf[id])[n])
                 /\ Tensor(IndexOf[id], n).type \in {0, 30}
        BY GraphFile
      <4>6. BlocksLoad(disk.mmproj)
        BY <4>3, <4>4, <4>5 DEF BlocksLoad
      <4>7. /\ Current.plan = Preprocessed(m, Current.image)
            /\ IsGrid(Current.plan, AlignSize(m))
        BY <4>1, <4>2, <4>3, AcceptedImage
      <4>8. encoded = Encode(IndexOf[id], MetadataOf[id], Current.plan)
        BY <4>3, <4>4, <4>7
      <4>9. Encode(IndexOf[id], MetadataOf[id], Current.plan).tokens = Current.plan.tokens
        BY <4>3, <4>4, <4>5, <4>7, GridEncodes
      <4>10. Encode(IndexOf[id], MetadataOf[id], Current.plan).width = MetadataOf[id].width
        BY <4>5 DEF Encode
      <4>11. TokenCount(Current) = Current.plan.tokens /\ m = MetadataOf[id]
        BY <4>2, <4>3, <4>4 DEF TokenCount
      <4> HIDE DEF encoded, m
      <4> QED BY <2>2, <4>6, <4>8, <4>9, <4>10, <4>11
    <3>2. Fail
      BY <1>3, <2>2 DEF EncodeBlocks
    <3> QED BY <3>1, <3>2, ServeFail
  <2> QED BY <2>1, <2>2
<1> QED BY <1>1, <1>2, <1>3

(* The cache it gets has room for the prompt and the whole text. *)
LEMMA ServeLaysOut ==
  ASSUME FilesInv, PlanInv, ServeInv, LayOut \/ Upload
  PROVE  ServeInv'
PROOF
<1> USE DEF envVars, planVars, runVars
<1>1. CASE LayOut
  <2> DEFINE config == ConfigOf[read.bundle]
  <2>1. pc = "place" /\ Len(placed) = Len(chunks)
    BY <1>1 DEF LayOut
  <2>2. CASE Plannable(config, TotalTokens) /\ Allocatable(config)
    <3>1. /\ pc' = "upload" /\ UNCHANGED <<envVars, answer, read, placed, generated>>
          /\ cache' = EmptyCache(config, Capacity(TotalTokens, request.maxNewTokens))
      BY <1>1, <2>2 DEF LayOut
    <3>2. TotalTokens' = TotalTokens /\ request' = request
      BY <3>1 DEF TotalTokens
    <3>3. Room'
      BY <3>1, <3>2 DEF Room, EmptyCache, Capacity
    <3>4. generated' = <<>>
      BY <2>1, <3>1 DEF ServeInv, Growing
    <3>5. BundleRead' /\ Growing' /\ (Served => WhileServed')
      BY <2>1, <3>1, <3>4 DEF ServeInv, BundleRead, Growing, Going, WhileServed, Planned
    <3> QED BY <2>1, <3>1, <3>3, <3>5, ServeGoesOn
  <2>3. CASE ~(Plannable(config, TotalTokens) /\ Allocatable(config))
    <3>1. ~Served
      <4> SUFFICES ASSUME Served PROVE FALSE
        OBVIOUS
      <4>1. read.bundle = request.files.model /\ WithImages /\ Complete(request.files)
        BY <2>1 DEF Served, ServeInv, Going, WhileServed, Planned
      <4>2. Plannable(config, 1) /\ Allocatable(config)
        BY <4>1, CompleteFiles
      <4>3. TotalTokens \in Nat \ {0}
        <5>1. chunks # <<>>
          BY <2>1, <4>1 DEF PlanInv, TextKnown, Planned
        <5> QED BY <2>1, <5>1, PlacedTokens DEF Planned
      <4>4. Plannable(config, TotalTokens)
        BY <4>2, <4>3 DEF Plannable
      <4> QED BY <2>3, <4>2, <4>4
    <3> QED BY <1>1, <2>3, <3>1, ServeFail DEF LayOut
  <2> QED BY <2>2, <2>3
<1>2. CASE Upload
  <2> DEFINE config == ConfigOf[read.bundle]
             index == IndexOf[read.index]
             fits == /\ Mappable(index, File[disk.model])
                     /\ \A tensor \in ToSet(index.tensors) : Uploadable(tensor, File[disk.model].size)
                     /\ RopeSections(config)
  <2>1. CASE fits
    <3>1. /\ pc = "upload" /\ pc' = "prefill" /\ UNCHANGED <<envVars, answer, planVars, runVars>>
          /\ read' = [read EXCEPT !.weights = disk.model]
      BY <1>2, <2>1 DEF Upload
    <3>2. /\ read'.metadata = read.metadata /\ read'.bundle = read.bundle
          /\ read'.index = read.index /\ read'.graph = read.graph
      BY <3>1 DEF FilesInv, FilesRead
    <3>3. TotalTokens' = TotalTokens
      BY <3>1 DEF TotalTokens
    <3>4. BundleRead' /\ Room' /\ Growing' /\ (Served => WhileServed')
      BY <3>1, <3>2, <3>3 DEF ServeInv, BundleRead, Room, Growing, Going, WhileServed, Planned
    <3> QED BY <3>1, <3>4, ServeGoesOn
  <2>2. CASE ~fits
    <3>1. ~Served
      <4> SUFFICES ASSUME Served PROVE FALSE
        OBVIOUS
      <4>1. pc = "upload" /\ WithImages /\ Complete(request.files)
        BY <1>2 DEF Upload, Served
      <4>2. /\ disk = request.files /\ read.bundle = request.files.model
            /\ read.index = request.files.model
        BY <4>1 DEF ServeInv, Going, WhileServed, Planned
      <4>3. /\ IndexFits(request.files.model, ConfigOf[request.files.model])
            /\ \A i \in DOMAIN IndexOf[request.files.model].tensors :
                 Uploadable(IndexOf[request.files.model].tensors[i], File[request.files.model].size)
            /\ RopeSections(ConfigOf[request.files.model])
        BY <4>1, CompleteFiles
      <4>4. /\ request.files.model \in ReadableFiles
            /\ WeightsBind(IndexOf[request.files.model], ConfigOf[request.files.model])
        BY <4>3 DEF IndexFits
      <4>5. /\ Mappable(IndexOf[request.files.model], File[request.files.model])
            /\ \A tensor \in ToSet(IndexOf[request.files.model].tensors) :
                 Uploadable(tensor, File[request.files.model].size)
        BY <4>3, <4>4, UploadableMaps
      <4> QED BY <2>2, <4>2, <4>3, <4>5
    <3>2. Fail
      BY <1>2, <2>2 DEF Upload
    <3> QED BY <3>1, <3>2, ServeFail
  <2> QED BY <2>1, <2>2
<1> QED BY <1>1, <1>2

(* The embedding has a row for every token of its prompt. *)
LEMMA PromptEmbeds ==
  ASSUME FilesInv, PlanInv, pc \in Planned,
         ConfigOf[read.bundle].vocab = Len(Tokens(IndexOf[read.index]))
  PROVE  TokensEmbed(IndexOf[read.index])
PROOF
<1> DEFINE index == IndexOf[read.index]
<1>1. HasShape(index, <<"token_embd">>, <<ConfigOf[read.bundle].hidden, ConfigOf[read.bundle].vocab>>)
  BY DEF FilesInv, IndexBound, IndexFits, WeightsBind
<1>2. Tensor(index, <<"token_embd">>).shape[2] = Len(Tokens(index))
  BY <1>1 DEF HasShape
<1>3. /\ Placing(placed, chunks) /\ Takes(chunks, Vision, request.messages)
      /\ IdsBelow(chunks, Len(Tokens(index)))
  BY DEF PlanInv, PromptPlaced, TextKnown
<1>4. ASSUME NEW c \in DOMAIN placed, placed[c].kind = "text"
      PROVE  \A n \in DOMAIN placed[c].tokens : placed[c].tokens[n] < Len(Tokens(index))
  <2>1. c \in 1..Len(placed) /\ c \in DOMAIN chunks
    BY <1>3 DEF Placing, Takes
  <2>2. chunks[c].kind = "text" /\ placed[c].tokens = chunks[c].tokens
    BY <1>3, <1>4, <2>1 DEF Placing, Places
  <2> QED BY <1>3, <2>1, <2>2 DEF IdsBelow
<1> HIDE DEF index
<1> QED BY <1>2, <1>4 DEF TokensEmbed, index

(* The id selected is one of the vocabulary. *)
LEMMA SelectedKnown ==
  ASSUME NEW id \in Files, read.bundle = id,
         ConfigOf[id].vocab = Len(Tokens(IndexOf[id])), ConfigOf[id].vocab > 0
  PROVE  Selected \in 0..(Len(Tokens(IndexOf[id])) - 1)
PROOF
<1> DEFINE ids == 0..(ConfigOf[read.bundle].vocab - 1)
<1>1. ConfigOf[read.bundle].vocab \in Nat \ {0}
  BY FileTokens
<1>2. 0 \in ids
  BY <1>1
<1> HIDE DEF ids
<1>3. \E x \in ids : NextToken(hidden) \in ids => x = NextToken(hidden)
  BY <1>2
<1>4. Selected = CHOOSE x \in ids : NextToken(hidden) \in ids => x = NextToken(hidden)
  BY DEF Selected, ids
<1>5. Selected \in ids
  BY <1>3, <1>4
<1> QED BY <1>5 DEF ids

(* Its prompt runs through the layers. *)
LEMMA ServePrefills ==
  ASSUME FilesInv, PlanInv, ServeInv, PrefillChunk
  PROVE  ServeInv'
PROOF
<1> USE DEF envVars, planVars, runVars
<1> DEFINE config == ConfigOf[read.bundle]
           index == IndexOf[read.index]
<1>1. pc = "prefill"
  BY DEF PrefillChunk
<1>2. CASE LayersRun(index, config) /\ TokensEmbed(index)
  <2>1. PICK rows : cache' = MainLayers(cache, config, chunkStart, rows).memory
    BY <1>2 DEF PrefillChunk
  <2>2. /\ pc' \in {"prefill", "sample"} /\ UNCHANGED <<envVars, answer, read, planVars, generated>>
        /\ pc' = "sample" => nextPosition' = TotalTokens
    BY <1>1, <1>2 DEF PrefillChunk
  <2>3. TotalTokens' = TotalTokens /\ request' = request /\ TotalTokens \in Nat
    BY <1>1, <2>2, PlacedTokens DEF TotalTokens, Planned
  <2>4. config.main \in Nat
    BY <1>1, LayersNumbered DEF Planned
  <2>5. "capacity" \in DOMAIN cache /\ cache.capacity = TotalTokens + request.maxNewTokens
    BY <1>1 DEF ServeInv, Room
  <2>6. "capacity" \in DOMAIN cache' /\ cache'.capacity = cache.capacity
    <3> HIDE DEF config
    <3> QED BY <2>1, <2>4, <2>5, LayersKeepCapacity
  <2>7. Room'
    BY <2>3, <2>5, <2>6 DEF Room
  <2>8. generated' = <<>>
    BY <1>1, <2>2 DEF ServeInv, Growing
  <2>9. Growing'
    <3>1. Len(generated') = 0 /\ generated' \in Seq(ToSet(generated'))
      BY <2>8
    <3>2. TotalTokens + 0 = TotalTokens
      BY <2>3
    <3> QED BY <2>2, <2>3, <2>8, <3>1, <3>2 DEF Growing
  <2>10. BundleRead' /\ (Served => WhileServed')
    BY <1>1, <2>2 DEF ServeInv, BundleRead, Going, WhileServed, Planned
  <2> QED BY <1>1, <2>2, <2>7, <2>9, <2>10, ServeGoesOn
<1>3. CASE ~(LayersRun(index, config) /\ TokensEmbed(index))
  <2>1. ~Served
    <3> SUFFICES ASSUME Served PROVE FALSE
      OBVIOUS
    <3>1. /\ read.bundle = request.files.model /\ read.index = request.files.model
          /\ WithImages /\ Complete(request.files)
      BY <1>1 DEF Served, ServeInv, Going, WhileServed, Planned
    <3>2. TokensEmbed(index)
      BY <1>1, <3>1, CompleteFiles, PromptEmbeds DEF Planned
    <3> QED BY <1>3, <3>1, <3>2, CompleteFiles
  <2> QED BY <1>3, <2>1, ServeFail DEF PrefillChunk
<1> QED BY <1>2, <1>3

(* Its text is sampled, and decoded while there is room. *)
LEMMA ServeDecodes ==
  ASSUME FilesInv, PlanInv, ServeInv, Sample \/ DecodeToken
  PROVE  ServeInv'
PROOF
<1> USE DEF envVars, planVars, runVars
<1>1. CASE Sample
  <2> DEFINE token == Selected
             text == Append(generated, token)
             tokens == Tokens(IndexOf[read.index])
  <2>1. pc = "sample"
    BY <1>1 DEF Sample
  <2>2. generated \in Seq(ToSet(generated))
    BY DEF ServeInv, Growing
  <2>3. ASSUME Served
        PROVE  Decodable(tokens, generated) /\ Decodable(tokens, <<token>>) /\ Decodable(tokens, text)
    <3>1. /\ read.index = request.files.model /\ read.bundle = request.files.model
          /\ WithImages /\ Complete(request.files) /\ Decodable(tokens, generated)
      BY <2>1, <2>3 DEF Served, ServeInv, Going, WhileServed, Planned
    <3>2. PICK id \in Files : id = read.bundle
      BY <2>1 DEF ServeInv, BundleRead, Planned
    <3>3. ConfigOf[id].vocab = Len(tokens) /\ IndexFits(id, ConfigOf[id])
      BY <3>1, <3>2, CompleteFiles
    <3>4. ConfigOf[id]["vocab"] > 0
      BY <3>3 DEF IndexFits, WeightsBind, Positive
    <3>5. token \in 0..(Len(tokens) - 1) /\ Len(tokens) \in Nat
      BY <3>1, <3>2, <3>3, <3>4, SelectedKnown, FileTokens
    <3>6. token < Len(tokens)
      <4> HIDE DEF token, tokens
      <4> QED BY <3>5
    <3> HIDE DEF token, tokens
    <3>7. Decodable(tokens, <<token>>)
      BY <3>6 DEF Decodable
    <3>8. ASSUME NEW n \in DOMAIN text PROVE text[n] < Len(tokens)
      <4>1. CASE n \in DOMAIN generated
        BY <2>2, <3>1, <4>1 DEF Decodable
      <4>2. CASE n \notin DOMAIN generated
        <5>1. n = Len(generated) + 1
          BY <2>2, <4>2
        <5> QED BY <2>2, <3>6, <5>1
      <4> QED BY <4>1, <4>2
    <3>9. Decodable(tokens, text)
      <4> HIDE DEF text
      <4> QED BY <3>8 DEF Decodable
    <3> QED BY <3>1, <3>7, <3>9
  <2>4. CASE ~HeadRuns(IndexOf[read.index])
    <3>1. ~Served
      <4> SUFFICES ASSUME Served PROVE FALSE
        OBVIOUS
      <4>1. read.index = request.files.model /\ WithImages /\ Complete(request.files)
        BY <2>1 DEF Served, ServeInv, Going, WhileServed, Planned
      <4> QED BY <2>4, <4>1, CompleteFiles
    <3> QED BY <1>1, <2>4, <3>1, ServeFail DEF Sample
  <2>5. ASSUME NEW reason, NEW ids, Finish(reason, ids), Served => Decodable(tokens, ids)
        PROVE  ServeInv'
    <3>1. CASE Decodable(tokens, ids)
      <4>1. PICK with : with.status = "ok" /\ Return(with)
        BY <2>5, <3>1 DEF Finish
      <4> QED BY <4>1, ServeReturn
    <3>2. CASE ~Decodable(tokens, ids)
      BY <2>5, <3>2, ServeFail DEF Finish
    <3> QED BY <3>1, <3>2
  <2>6. CASE /\ HeadRuns(IndexOf[read.index])
             /\ Finish("stop", generated) \/ Finish("length", text)
    <3> HIDE DEF tokens, text
    <3> QED BY <2>6, <2>5, <2>3
  <2>7. CASE /\ HeadRuns(IndexOf[read.index])
             /\ request.stream /\ ~Decodable(tokens, <<token>>) /\ Fail
    BY <2>7, <2>3, ServeFail
  <2>8. CASE /\ HeadRuns(IndexOf[read.index]) /\ token \notin EosTokens
             /\ ~(request.stream /\ ~Decodable(tokens, <<token>>)) /\ Len(text) # request.maxNewTokens
    <3>1. /\ generated' = text /\ pc' = "decode"
          /\ UNCHANGED <<envVars, answer, read, planVars, cache, nextPosition>>
      BY <1>1, <2>8 DEF Sample
    <3>2. TotalTokens' = TotalTokens /\ request' = request /\ TotalTokens \in Nat
      BY <2>1, <3>1, PlacedTokens DEF TotalTokens, Planned
    <3>3. /\ generated \in Seq(ToSet(generated)) /\ nextPosition = TotalTokens + Len(generated)
          /\ request.maxNewTokens > 0 => Len(generated) < request.maxNewTokens
      BY <2>1 DEF ServeInv, Growing
    <3>4. /\ text \in Seq(ToSet(text)) /\ Len(text) = Len(generated) + 1 /\ Len(generated) \in Nat
          /\ text # <<>>
      BY <3>3, AppendAny
    <3>5. request.maxNewTokens \in Nat
      BY RequestAssumption DEF FilesInv, FilesRead
    <3>6. Growing'
      <4>1. TotalTokens + Len(generated) = TotalTokens + Len(text) - 1
        BY <3>2, <3>4
      <4>2. request.maxNewTokens > 0 => Len(text) < request.maxNewTokens
        <5>1. PICK l \in Nat, k \in Nat : l = Len(generated) /\ k = request.maxNewTokens
          BY <3>4, <3>5
        <5> QED BY <2>8, <3>3, <3>4, <5>1
      <4> HIDE DEF text
      <4> QED BY <3>1, <3>2, <3>3, <3>4, <4>1, <4>2 DEF Growing
    <3>7. BundleRead' /\ Room'
      BY <2>1, <3>1, <3>2 DEF ServeInv, BundleRead, Room, Planned
    <3>8. ASSUME Served PROVE WhileServed'
      <4>1. WhileServed /\ read.index = request.files.model
        BY <2>1, <3>8 DEF ServeInv, Going, WhileServed, Planned
      <4>2. Decodable(Tokens(IndexOf[request'.files.model]), generated')
        BY <2>3, <3>1, <3>2, <3>8, <4>1
      <4> HIDE DEF text, tokens
      <4> QED BY <2>1, <3>1, <3>2, <4>1, <4>2 DEF WhileServed, Planned
    <3> QED BY <2>1, <3>1, <3>6, <3>7, <3>8, ServeGoesOn
  <2>9. \/ ~HeadRuns(IndexOf[read.index])
        \/ /\ HeadRuns(IndexOf[read.index])
           /\ Finish("stop", generated) \/ Finish("length", text)
        \/ /\ HeadRuns(IndexOf[read.index])
           /\ request.stream /\ ~Decodable(tokens, <<token>>) /\ Fail
        \/ /\ HeadRuns(IndexOf[read.index]) /\ token \notin EosTokens
           /\ ~(request.stream /\ ~Decodable(tokens, <<token>>)) /\ Len(text) # request.maxNewTokens
    BY <1>1 DEF Sample
  <2> QED BY <2>4, <2>6, <2>8, <2>7, <2>9
<1>2. CASE DecodeToken
  <2> DEFINE config == ConfigOf[read.bundle]
  <2>1. pc = "decode"
    BY <1>2 DEF DecodeToken
  <2>2. TotalTokens \in Nat /\ request.maxNewTokens \in Nat
    BY <2>1, PlacedTokens, RequestAssumption DEF Planned, FilesInv, FilesRead
  <2>3. /\ generated \in Seq(ToSet(generated)) /\ generated # <<>>
        /\ nextPosition = TotalTokens + Len(generated) - 1
        /\ request.maxNewTokens > 0 => Len(generated) < request.maxNewTokens
    BY <2>1 DEF ServeInv, Growing
  <2>4. "capacity" \in DOMAIN cache /\ cache.capacity = TotalTokens + request.maxNewTokens
    BY <2>1 DEF ServeInv, Room
  <2>5. PICK l \in Nat : l = Len(generated)
    BY <2>3
  <2>6. CASE nextPosition < cache.capacity
    <3>1. PICK rows : cache' = MainLayers(cache, config, nextPosition, rows).memory
      BY <1>2, <2>6 DEF DecodeToken
    <3>2. /\ pc' = "sample" /\ UNCHANGED <<envVars, answer, read, planVars, generated>>
          /\ nextPosition' = nextPosition + 1
      BY <1>2, <2>6 DEF DecodeToken
    <3>3. TotalTokens' = TotalTokens /\ request' = request
      BY <3>2 DEF TotalTokens
    <3>4. config.main \in Nat
      BY <2>1, LayersNumbered DEF Planned
    <3>5. "capacity" \in DOMAIN cache' /\ cache'.capacity = cache.capacity
      <4> HIDE DEF config
      <4> QED BY <2>4, <3>1, <3>4, LayersKeepCapacity
    <3>6. Room'
      BY <2>4, <3>3, <3>5 DEF Room
    <3>7. Growing'
      <4>1. nextPosition' = TotalTokens + Len(generated)
        BY <2>2, <2>3, <2>5, <3>2
      <4> QED BY <2>3, <3>2, <3>3, <4>1 DEF Growing
    <3>8. BundleRead' /\ (Served => WhileServed')
      BY <2>1, <3>2 DEF ServeInv, BundleRead, Going, WhileServed, Planned
    <3> QED BY <2>1, <3>2, <3>6, <3>7, <3>8, ServeGoesOn
  <2>7. CASE ~(nextPosition < cache.capacity)
    <3>1. ~Served
      BY <2>2, <2>3, <2>4, <2>5, <2>7 DEF Served
    <3> QED BY <1>2, <2>7, <3>1, ServeFail DEF DecodeToken
  <2> QED BY <2>6, <2>7
<1> QED BY <1>1, <1>2

(* Every step keeps what is known of the service. *)
LEMMA ServeNext == FilesInv /\ PlanInv /\ ServeInv /\ [Next]_vars => ServeInv'
PROOF
<1> SUFFICES ASSUME FilesInv, PlanInv, ServeInv, [Next]_vars PROVE ServeInv'
  OBVIOUS
<1> USE DEF envVars, planVars, runVars
<1>1. CASE Ask
  <2>1. /\ pc = "idle" /\ pc' \in {"gateway", "start"} /\ disk' = request'.files
        /\ pc' = "start" => ~request'.http
        /\ answer' = [status |-> "none"] /\ replaced' = 0 /\ generated' = generated
    BY <1>1 DEF Ask
  <2>2. generated' = <<>>
    BY <2>1 DEF ServeInv, Growing
  <2>3. Going'
    <3>1. Decodable(Tokens(IndexOf[request'.files.model]), generated')
      BY <2>2 DEF Decodable
    <3> QED BY <2>1, <3>1 DEF Going, WhileServed, Served, Planned
  <2>4. BundleRead' /\ Room' /\ Growing' /\ Answered'
    BY <2>1, <2>2 DEF BundleRead, Room, Growing, Answered, Planned
  <2> QED BY <2>3, <2>4 DEF ServeInv
<1>2. CASE Gateway \/ Start \/ LoadBundle \/ ReadIndex
  BY <1>2, ServeReads
<1>3. CASE PlaceText \/ EncodeInput \/ EncodeBlocks
  BY <1>3, ServeEncodes
<1>4. CASE LayOut \/ Upload
  BY <1>4, ServeLaysOut
<1>5. CASE PrefillChunk
  BY <1>5, ServePrefills
<1>6. CASE Sample \/ DecodeToken
  BY <1>6, ServeDecodes
<1>7. CASE Fault
  <2>1. PICK with : Return(with) /\ faulted'
    BY <1>7 DEF Fault
  <2> QED BY <2>1, ServeReturn
<1>8. CASE ReplaceFile
  <2>1. /\ replaced' = replaced + 1 /\ UNCHANGED <<request, faulted, pc, answer, read, planVars, runVars>>
        /\ pc # "idle"
    BY <1>8 DEF ReplaceFile
  <2>2. ~Served'
    BY <2>1 DEF ServeInv, Answered, Served
  <2>3. TotalTokens' = TotalTokens
    BY <2>1 DEF TotalTokens
  <2>4. Going'
    BY <2>2 DEF Going
  <2>5. BundleRead' /\ Room' /\ Growing' /\ Answered'
    BY <2>1, <2>2, <2>3 DEF ServeInv, BundleRead, Room, Growing, Answered
  <2> QED BY <2>4, <2>5 DEF ServeInv
<1>9. CASE UNCHANGED vars
  <2>1. UNCHANGED <<envVars, pc, answer, read, planVars, runVars>>
    BY <1>9 DEF vars
  <2>2. TotalTokens' = TotalTokens
    BY <2>1 DEF TotalTokens
  <2>3. Served' <=> Served
    BY <2>1, ServedStays
  <2>4. BundleRead' /\ Room' /\ Growing'
    BY <2>1, <2>2 DEF ServeInv, BundleRead, Room, Growing
  <2>5. Going' /\ Answered'
    BY <2>1, <2>3 DEF ServeInv, Going, WhileServed, Answered
  <2> QED BY <2>4, <2>5 DEF ServeInv
<1> QED
  BY <1>1, <1>2, <1>3, <1>4, <1>5, <1>6, <1>7, <1>8, <1>9 DEF Next

(* For any files, images and chats: what the gateway has accepted, with    *)
(* complete files that nobody replaces, a token to generate and a top_p in *)
(* range, only a fault can fail.                                           *)
THEOREM AcceptedChatsAreServed == Spec => []AcceptedIsServed
PROOF
<1>1. FilesInv /\ ServeInv => AcceptedIsServed
  <2> SUFFICES ASSUME FilesInv, ServeInv, answer.status = "error", request.http, WithImages,
                      ~faulted, ~(replaced > 0), Complete(request.files), request.maxNewTokens # 0,
                      ValidSampling
               PROVE  FALSE
    BY DEF AcceptedIsServed
  <2>1. request.maxNewTokens \in Nat /\ replaced \in Nat
    BY RequestAssumption DEF FilesInv, FilesRead, ServeInv, Answered
  <2>2. Served
    BY <2>1 DEF Served
  <2> QED BY <2>2 DEF ServeInv, Answered
<1>2. Spec => []ServeInv
  BY PlanAlways, ServeInit, ServeNext, PTL DEF Spec
<1> QED BY <1>1, <1>2, FilesAlways, PTL

(* The first tokens of a text. *)
First(text, n) == [i \in 1..n |-> text[i]]

(* They are a sequence, whose own first tokens are the same. *)
LEMMA FirstTokens ==
  ASSUME NEW text, NEW n \in Nat
  PROVE  /\ First(text, n) \in Seq({text[i] : i \in 1..n})
         /\ Len(First(text, n)) = n
         /\ \A i \in 1..n : First(text, n)[i] = text[i]
         /\ \A m \in 0..n : First(First(text, n), m) = First(text, m)
         /\ n > 0 => Last(First(text, n)) = text[n]
PROOF
<1>1. First(text, n) \in Seq({text[i] : i \in 1..n})
  BY DEF First
<1>2. Len(First(text, n)) = n /\ \A i \in 1..n : First(text, n)[i] = text[i]
  BY DEF First
<1>3. ASSUME NEW m \in 0..n PROVE First(First(text, n), m) = First(text, m)
  <2>1. \A i \in 1..m : i \in 1..n
    OBVIOUS
  <2>2. \A i \in 1..m : First(text, n)[i] = text[i]
    BY <1>2, <2>1
  <2> QED BY <2>2 DEF First
<1>4. n > 0 => Last(First(text, n)) = text[n]
  <2>1. n > 0 => n \in 1..n
    OBVIOUS
  <2> QED BY <1>2, <2>1 DEF Last
<1> QED BY <1>1, <1>2, <1>3, <1>4

(* The same with SubSeq. *)
LEMMA FirstIsSubSeq ==
  ASSUME NEW text, NEW n \in Nat, NEW m \in 1..n
  PROVE  SubSeq(First(text, n), 1, m) = First(text, m)
PROOF
<1> DEFINE f == First(text, n)
           S == {text[i] : i \in 1..n}
<1>1. 1 \in Int /\ m \in Int /\ m - 1 + 1 = m /\ 1 <= m
  OBVIOUS
<1>2. \A i \in 1..m : i \in 1..n /\ 1 + i - 1 = i
  OBVIOUS
<1>3. \A i \in 1..n : f[i] = text[i]
  BY FirstTokens
<1> HIDE DEF f
<1>4. \A i \in 1..m : f[i] \in S
  BY <1>2, <1>3
<1> HIDE DEF S
<1>5. /\ SubSeq(f, 1, m) \in Seq(S)
      /\ Len(SubSeq(f, 1, m)) = m
      /\ \A i \in 1..m : SubSeq(f, 1, m)[i] = f[1 + i - 1]
  BY <1>1, <1>4, SubSeqProperties
<1>6. SubSeq(f, 1, m) = [i \in 1..m |-> SubSeq(f, 1, m)[i]]
  BY <1>5
<1>7. \A i \in 1..m : SubSeq(f, 1, m)[i] = text[i]
  BY <1>2, <1>3, <1>5
<1> QED BY <1>6, <1>7 DEF f, First

(* Some tokens and those that follow them. *)
LEMMA FirstGoesOn ==
  ASSUME NEW text, NEW n \in Nat, NEW m \in Nat
  PROVE  First(text, n) \o [j \in 1..m |-> text[n + j]] = First(text, n + m)
PROOF
<1> DEFINE S == {text[i] : i \in 1..(n + m)}
           a == First(text, n)
           b == [j \in 1..m |-> text[n + j]]
<1>1. \A i \in 1..n : i \in 1..(n + m) /\ text[i] \in S
  OBVIOUS
<1>2. \A j \in 1..m : n + j \in 1..(n + m) /\ text[n + j] \in S
  OBVIOUS
<1> HIDE DEF S
<1>3. a \in Seq(S) /\ Len(a) = n /\ \A i \in 1..n : a[i] = text[i]
  BY <1>1 DEF First
<1>4. b \in Seq(S) /\ Len(b) = m /\ \A j \in 1..m : b[j] = text[n + j]
  BY <1>2
<1> HIDE DEF a, b
<1>5. /\ a \o b \in Seq(S) /\ Len(a \o b) = n + m
      /\ \A i \in 1..(n + m) : (a \o b)[i] = IF i <= n THEN a[i] ELSE b[i - n]
  BY <1>3, <1>4, ConcatProperties
<1>6. ASSUME NEW i \in 1..(n + m) PROVE (a \o b)[i] = text[i]
  <2>1. CASE i <= n
    <3>1. i \in 1..n
      BY <2>1
    <3> QED BY <1>3, <1>5, <2>1, <3>1
  <2>2. CASE ~(i <= n)
    <3>1. i - n \in 1..m /\ n + (i - n) = i
      BY <2>2
    <3> QED BY <1>4, <1>5, <2>2, <3>1
  <2> QED BY <2>1, <2>2
<1>7. PICK c : c = a \o b
  OBVIOUS
<1>8. c \in Seq(S) /\ Len(c) = n + m
  BY <1>5, <1>7
<1>9. c = [i \in 1..(n + m) |-> c[i]]
  BY <1>8
<1>10. c = First(text, n + m)
  BY <1>6, <1>7, <1>9 DEF First
<1> QED BY <1>7, <1>10 DEF a, b

(* A sequence is all its tokens. *)
LEMMA FirstIsAll ==
  ASSUME NEW S, NEW text \in Seq(S)
  PROVE  First(text, Len(text)) = text
PROOF
BY DEF First

(* The layers of a kind before a layer. *)
Before(config, kind, layer) == {j \in 0..(layer - 1) : LayerKind(config, j) = kind}

(* They are finitely many, and one more if the layer is of this kind. *)
LEMMA BeforeGrows ==
  ASSUME NEW config, NEW kind, NEW layer \in Nat
  PROVE  /\ IsFiniteSet(Before(config, kind, layer))
         /\ Cardinality(Before(config, kind, layer)) \in Nat
         /\ Cardinality(Before(config, kind, layer + 1)) =
              Cardinality(Before(config, kind, layer))
                + (IF LayerKind(config, layer) = kind THEN 1 ELSE 0)
PROOF
<1> DEFINE b == Before(config, kind, layer)
<1>1. IsFiniteSet(0..(layer - 1))
  BY FS_Interval
<1>2. b \in SUBSET (0..(layer - 1))
  BY DEF Before
<1>3. IsFiniteSet(b)
  BY <1>1, <1>2, FS_Subset
<1>4. Cardinality(b) \in Nat
  BY <1>3, FS_CardinalityType
<1>5. \A j : j \in 0..(layer + 1 - 1) <=> j \in 0..(layer - 1) \/ j = layer
  OBVIOUS
<1>6. layer \notin b
  BY DEF Before
<1>7. Before(config, kind, layer + 1) =
        IF LayerKind(config, layer) = kind THEN b \cup {layer} ELSE b
  BY <1>5 DEF Before
<1> HIDE DEF b
<1>8. Cardinality(b \cup {layer}) = Cardinality(b) + 1
  BY <1>3, <1>6, FS_AddElement
<1> QED BY <1>3, <1>4, <1>7, <1>8 DEF b

(* A layer's place is the number of layers of its kind before it. *)
LEMMA StateIsCount ==
  ASSUME NEW config, NEW layer \in Nat
  PROVE  StateOf(config, layer) =
           Cardinality(Before(config, LayerKind(config, layer), layer))
PROOF
<1> DEFINE kind == LayerKind(config, layer)
           Body(f) == [k \in 0..layer |->
                         IF k = 0 THEN 0
                         ELSE f[k - 1] + (IF LayerKind(config, k - 1) = kind THEN 1 ELSE 0)]
           h == [k \in 0..layer |-> Cardinality(Before(config, kind, k))]
           F == CHOOSE f : f = Body(f)
           S == {k \in Nat : k <= layer => F[k] = h[k]}
<1>1. StateOf(config, layer) = F[layer]
  BY DEF StateOf
<1> HIDE DEF kind
<1>2. h[0] = 0
  <2>1. Before(config, kind, 0) = {} /\ 0 \in 0..layer
    BY DEF Before
  <2> QED BY <2>1, FS_EmptySet
<1>3. ASSUME NEW k \in 1..layer
      PROVE  h[k] = h[k - 1] + (IF LayerKind(config, k - 1) = kind THEN 1 ELSE 0)
  <2>1. k - 1 \in Nat /\ k - 1 + 1 = k /\ k \in 0..layer /\ k - 1 \in 0..layer
    OBVIOUS
  <2>2. PICK j \in Nat : j = k - 1
    BY <2>1
  <2>3. Cardinality(Before(config, kind, j + 1)) =
          Cardinality(Before(config, kind, j)) + (IF LayerKind(config, j) = kind THEN 1 ELSE 0)
    BY BeforeGrows
  <2>4. h[k] = Cardinality(Before(config, kind, k))
        /\ h[k - 1] = Cardinality(Before(config, kind, k - 1))
    BY <2>1
  <2> QED BY <2>1, <2>2, <2>3, <2>4
<1>4. h = Body(h)
  <2>1. ASSUME NEW k \in 0..layer
        PROVE  h[k] = IF k = 0 THEN 0
                      ELSE h[k - 1] + (IF LayerKind(config, k - 1) = kind THEN 1 ELSE 0)
    <3>1. k = 0 \/ k \in 1..layer
      OBVIOUS
    <3> HIDE DEF h
    <3> QED BY <1>2, <1>3, <3>1
  <2>2. h = [k \in 0..layer |-> h[k]]
    OBVIOUS
  <2> HIDE DEF h
  <2> QED BY <2>1, <2>2
<1>5. F = Body(F)
  <2> HIDE DEF Body, h
  <2> QED BY <1>4
<1>6. F[0] = 0 /\ \A k \in 1..layer :
        F[k] = F[k - 1] + (IF LayerKind(config, k - 1) = kind THEN 1 ELSE 0)
  <2> HIDE DEF F
  <2>1. 0 \in 0..layer /\ \A k \in 1..layer : k \in 0..layer /\ k # 0
    OBVIOUS
  <2> QED BY <1>5, <2>1
<1> HIDE DEF F, h
<1>7. 0 \in S
  BY <1>2, <1>6
<1>8. ASSUME NEW k \in 0..(layer - 1), k \in S PROVE k + 1 \in S
  <2>1. k + 1 \in 1..layer /\ k + 1 - 1 = k /\ k <= layer
    OBVIOUS
  <2> QED BY <1>3, <1>6, <1>8, <2>1
<1> HIDE DEF S
<1>9. 0..layer \subseteq S
  BY <1>7, <1>8, UpTo
<1>10. F[layer] = h[layer]
  BY <1>9 DEF S
<1>11. h[layer] = Cardinality(Before(config, kind, layer))
  BY DEF h
<1> QED BY <1>1, <1>10, <1>11 DEF kind

(* No two layers of a kind have the same place, and there is one for each. *)
LEMMA StatesDiffer ==
  ASSUME NEW config, config.main \in Nat, config.main <= config.total, config.total \in Nat,
         NEW layer \in 0..(config.main - 1), NEW other \in 0..(config.main - 1),
         LayerKind(config, layer) = LayerKind(config, other)
  PROVE  /\ StateOf(config, layer) \in Nat
         /\ StateOf(config, layer) < Cardinality(LayersOfKind(config, LayerKind(config, layer)))
         /\ Cardinality(LayersOfKind(config, LayerKind(config, layer))) \in Nat
         /\ layer # other => StateOf(config, layer) # StateOf(config, other)
PROOF
<1> DEFINE kind == LayerKind(config, layer)
           b(l) == Before(config, kind, l)
           all == LayersOfKind(config, kind)
<1>1. layer \in Nat /\ other \in Nat /\ layer < config.total
  OBVIOUS
<1>2. StateOf(config, layer) = Cardinality(b(layer))
      /\ StateOf(config, other) = Cardinality(b(other))
  BY <1>1, StateIsCount
<1>3. IsFiniteSet(b(layer)) /\ Cardinality(b(layer)) \in Nat
      /\ IsFiniteSet(b(other)) /\ Cardinality(b(other)) \in Nat
  BY <1>1, BeforeGrows
<1>4. IsFiniteSet(all) /\ Cardinality(all) \in Nat
  <2>1. IsFiniteSet(0..(config.total - 1))
    <3>1. 0 \in Int /\ config.total - 1 \in Int
      OBVIOUS
    <3> QED BY <3>1, FS_Interval
  <2>2. all \in SUBSET (0..(config.total - 1))
    BY DEF LayersOfKind
  <2>3. IsFiniteSet(all)
    BY <2>1, <2>2, FS_Subset
  <2> QED BY <2>3, FS_CardinalityType
<1>5. Cardinality(b(layer)) < Cardinality(all)
  <2>1. b(layer) \in SUBSET all
    BY <1>1 DEF Before, LayersOfKind
  <2>2. layer \in all /\ layer \notin b(layer)
    BY <1>1 DEF Before, LayersOfKind
  <2> HIDE DEF b, all
  <2>3. Cardinality(b(layer)) <= Cardinality(all)
        /\ (Cardinality(all) = Cardinality(b(layer)) => all = b(layer))
    BY <1>4, <2>1, FS_Subset
  <2> QED BY <1>3, <1>4, <2>2, <2>3
<1>6. ASSUME NEW l \in Nat, NEW o \in Nat, l < o, LayerKind(config, l) = kind
      PROVE  Cardinality(b(l)) # Cardinality(b(o))
  <2>1. b(l) \in SUBSET b(o)
    BY <1>6 DEF Before
  <2>2. l \in b(o) /\ l \notin b(l)
    BY <1>6 DEF Before
  <2>3. IsFiniteSet(b(o))
    BY BeforeGrows
  <2> HIDE DEF b
  <2>4. Cardinality(b(o)) = Cardinality(b(l)) => b(o) = b(l)
    BY <2>1, <2>3, FS_Subset
  <2> QED BY <2>2, <2>4
<1>7. layer # other => Cardinality(b(layer)) # Cardinality(b(other))
  <2>1. layer < other \/ other < layer \/ layer = other
    BY <1>1
  <2> HIDE DEF b
  <2> QED BY <1>1, <1>6, <2>1
<1> QED BY <1>2, <1>3, <1>4, <1>5, <1>7

(* What a layer gets for a token of a text, and what the caches keep of it. *)
RowOf(text, layer, p) == IF layer = 0 THEN <<text[p]>> ELSE First(text, p)

(* The rows of the next m tokens after the first n. *)
RowsOf(text, layer, n, m) == [t \in 1..m |-> RowOf(text, layer, n + t)]

(* The caches are a record of these parts. *)
IsMemory(memory) ==
  memory = [capacity |-> memory.capacity, kv |-> memory.kv, recurrent |-> memory.recurrent]

(* A layer has run over the first n tokens of a text. *)
StateHolds(memory, config, layer, text, n) ==
  /\ StateOf(config, layer) \in DOMAIN memory.recurrent
  /\ memory.recurrent[StateOf(config, layer)] =
       IF n = 0 THEN ZeroState ELSE [by |-> layer, of |-> First(text, n)]

(* The place of a row of an attention layer in the cache. *)
RowPlace(memory, config, layer, p) == StateOf(config, layer) * memory.capacity + p - 1

(* Its rows are those of the first n tokens. *)
RowsHold(memory, config, layer, text, n) ==
  \A p \in 1..n :
    /\ RowPlace(memory, config, layer, p) \in DOMAIN memory.kv
    /\ memory.kv[RowPlace(memory, config, layer, p)] =
         [by |-> layer, of |-> RowOf(text, layer, p)]

(* What a row brings is its token. *)
LEMMA LastOfRow ==
  ASSUME NEW text, NEW layer, NEW p \in Nat, p > 0
  PROVE  Last(RowOf(text, layer, p)) = text[p]
PROOF
<1>1. Last(First(text, p)) = text[p]
  BY FirstTokens
<1>2. Last(<<text[p]>>) = text[p]
  BY DEF Last
<1> QED BY <1>1, <1>2 DEF RowOf

(* A layer that has all the tokens makes of them what the next one gets. *)
LEMMA MadeOfRow ==
  ASSUME NEW text, NEW layer \in Nat, NEW p \in Nat
  PROVE  Made(layer, RowOf(text, layer, p), First(text, p), TRUE) = RowOf(text, layer + 1, p)
PROOF
<1>1. layer + 1 # 0
  OBVIOUS
<1>2. layer = 0 \/ RowOf(text, layer, p) = First(text, p)
  BY DEF RowOf
<1> QED BY <1>1, <1>2 DEF Made, RowOf

(* A recurrent state is written. *)
WithState(memory, slot, state) == [memory EXCEPT !.recurrent[slot] = state]

(* The state of a linear layer goes on from the tokens before. *)
LEMMA LinearRuns ==
  ASSUME NEW memory, NEW config, NEW layer \in Nat, NEW text, NEW n \in Nat, NEW m \in Nat \ {0},
         StateHolds(memory, config, layer, text, n)
  PROVE  /\ LinearLayer(memory, config, layer, RowsOf(text, layer, n, m)).rows =
              RowsOf(text, layer + 1, n, m)
         /\ LinearLayer(memory, config, layer, RowsOf(text, layer, n, m)).memory =
              WithState(memory, StateOf(config, layer), [by |-> layer, of |-> First(text, n + m)])
PROOF
<1> DEFINE slot == StateOf(config, layer)
           state == memory.recurrent[slot]
           rows == RowsOf(text, layer, n, m)
           history(t) == state.of \o [j \in 1..t |-> Last(rows[j])]
           ran == LinearLayer(memory, config, layer, rows)
<1>1. state.of = First(text, n) /\ (state.by = layer \/ state = ZeroState)
  <2>1. CASE n = 0
    <3>1. state = ZeroState
      BY <2>1 DEF StateHolds
    <3>2. First(text, n) = <<>>
      BY <2>1 DEF First
    <3> QED BY <3>1, <3>2 DEF ZeroState
  <2>2. CASE n # 0
    <3>1. state = [by |-> layer, of |-> First(text, n)]
      BY <2>2 DEF StateHolds
    <3> QED BY <3>1
  <2> QED BY <2>1, <2>2
<1>2. /\ ran.rows = [t \in DOMAIN rows |->
                       Made(layer, rows[t], history(t), state.by = layer \/ state = ZeroState)]
      /\ ran.memory = [memory EXCEPT !.recurrent[slot] =
                         [by |-> layer, of |-> history(Len(rows))]]
  BY DEF LinearLayer
<1> HIDE DEF state, ran, slot
<1>3. DOMAIN rows = 1..m /\ Len(rows) = m /\ \A t \in 1..m : rows[t] = RowOf(text, layer, n + t)
  BY DEF RowsOf
<1> HIDE DEF rows
<1>4. ASSUME NEW t \in 1..m PROVE history(t) = First(text, n + t)
  <2>1. ASSUME NEW j \in 1..t PROVE Last(rows[j]) = text[n + j]
    <3>1. j \in 1..m /\ n + j \in Nat /\ n + j > 0
      OBVIOUS
    <3> QED BY <1>3, <3>1, LastOfRow
  <2>2. [j \in 1..t |-> Last(rows[j])] = [j \in 1..t |-> text[n + j]]
    BY <2>1
  <2>3. t \in Nat
    OBVIOUS
  <2>4. First(text, n) \o [j \in 1..t |-> text[n + j]] = First(text, n + t)
    BY <2>3, FirstGoesOn
  <2> QED BY <1>1, <2>2, <2>4
<1> HIDE DEF history
<1>5. history(Len(rows)) = First(text, n + m)
  <2>1. m \in 1..m
    OBVIOUS
  <2> QED BY <1>3, <1>4, <2>1
<1>6. ASSUME NEW t \in 1..m
      PROVE  Made(layer, rows[t], history(t), state.by = layer \/ state = ZeroState)
               = RowOf(text, layer + 1, n + t)
  <2>1. n + t \in Nat
    OBVIOUS
  <2>2. Made(layer, rows[t], history(t), TRUE) = RowOf(text, layer + 1, n + t)
    <3>1. Made(layer, RowOf(text, layer, n + t), First(text, n + t), TRUE)
            = RowOf(text, layer + 1, n + t)
      BY <2>1, MadeOfRow, Zenon
    <3>2. rows[t] = RowOf(text, layer, n + t) /\ history(t) = First(text, n + t)
      BY <1>3, <1>4
    <3> QED BY <3>1, <3>2, Zenon
  <2>3. (state.by = layer \/ state = ZeroState) = TRUE
    BY <1>1
  <2> QED BY <2>2, <2>3
<1>7. ran.rows = [t \in 1..m |-> RowOf(text, layer + 1, n + t)]
  BY <1>2, <1>3, <1>6
<1> QED BY <1>2, <1>5, <1>7 DEF RowsOf, ran, rows, slot, WithState

(* What a full layer leaves in the KV cache. *)
Stored(memory, config, layer, start, rows) ==
  LET first == StateOf(config, layer) * memory.capacity
  IN Over([r \in {first + start + t - 1 : t \in DOMAIN rows} |->
             [by |-> layer, of |-> rows[r - first - start + 1]]], memory.kv)

(* The rows up to those of the chunk are in their places. *)
StoresRows(stored, memory, config, layer, text, n, m) ==
  /\ \A p \in 1..(n + m) :
       /\ RowPlace(memory, config, layer, p) \in DOMAIN stored
       /\ stored[RowPlace(memory, config, layer, p)] =
            [by |-> layer, of |-> RowOf(text, layer, p)]
  /\ \A x \in DOMAIN memory.kv :
       /\ x \in DOMAIN stored
       /\ (\A p \in (n + 1)..(n + m) : x # RowPlace(memory, config, layer, p)) =>
            stored[x] = memory.kv[x]

(* The rows of the chunk are stored after those before, and nothing else changes. *)
LEMMA StoredRows ==
  ASSUME NEW memory, NEW config, NEW layer \in Nat, NEW text, NEW n \in Nat, NEW m \in Nat \ {0},
         StateOf(config, layer) \in Nat, memory.capacity \in Nat,
         RowsHold(memory, config, layer, text, n)
  PROVE  StoresRows(Stored(memory, config, layer, n, RowsOf(text, layer, n, m)),
                    memory, config, layer, text, n, m)
PROOF
<1> DEFINE rows == RowsOf(text, layer, n, m)
           keys(a) == {a + n + t - 1 : t \in 1..m}
           new(a) == [r \in keys(a) |-> [by |-> layer, of |-> rows[r - a - n + 1]]]
           place(p) == RowPlace(memory, config, layer, p)
<1>1. DOMAIN rows = 1..m /\ \A t \in 1..m : rows[t] = RowOf(text, layer, n + t)
  BY DEF RowsOf
<1> HIDE DEF rows
<1>2. PICK a \in Nat : a = StateOf(config, layer) * memory.capacity
  <2>1. StateOf(config, layer) * memory.capacity \in Nat
    <3>1. \A x, y \in Nat : x * y \in Nat
      OBVIOUS
    <3> QED BY <3>1
  <2> QED BY <2>1
<1>3. Stored(memory, config, layer, n, rows) = Over(new(a), memory.kv)
  BY <1>1, <1>2 DEF Stored
<1>4. \A p : place(p) = a + p - 1
  BY <1>2 DEF RowPlace
<1> HIDE DEF place
<1>5. ASSUME NEW p \in (n + 1)..(n + m)
      PROVE  place(p) \in keys(a) /\ new(a)[place(p)] = [by |-> layer, of |-> RowOf(text, layer, p)]
  <2>1. p - n \in 1..m /\ a + n + (p - n) - 1 = a + p - 1 /\ n + (p - n) = p
    OBVIOUS
  <2>2. a + p - 1 \in keys(a)
    BY <2>1
  <2>3. (a + p - 1) - a - n + 1 = p - n
    OBVIOUS
  <2>4. new(a)[a + p - 1] = [by |-> layer, of |-> rows[(a + p - 1) - a - n + 1]]
    <3> HIDE DEF keys
    <3> QED BY <2>2
  <2>5. rows[p - n] = RowOf(text, layer, p)
    BY <1>1, <2>1
  <2> HIDE DEF new, keys
  <2> QED BY <1>4, <2>2, <2>3, <2>4, <2>5
<1>6. ASSUME NEW x \in keys(a) PROVE \E p \in (n + 1)..(n + m) : x = place(p)
  <2>1. PICK t \in 1..m : x = a + n + t - 1
    OBVIOUS
  <2>2. n + t \in (n + 1)..(n + m) /\ x = a + (n + t) - 1
    BY <2>1
  <2> QED BY <1>4, <2>2
<1>7. DOMAIN new(a) = keys(a)
  BY DEF new
<1> HIDE DEF new, keys
<1>8. PICK f : f = new(a)
  OBVIOUS
<1>9. PICK stored : stored = Over(f, memory.kv)
  OBVIOUS
<1>10. DOMAIN stored = DOMAIN f \cup DOMAIN memory.kv
  BY <1>9 DEF Over
<1>11. ASSUME NEW p \in 1..(n + m)
       PROVE  place(p) \in DOMAIN stored
              /\ stored[place(p)] = [by |-> layer, of |-> RowOf(text, layer, p)]
  <2>1. CASE p \in (n + 1)..(n + m)
    <3>1. place(p) \in DOMAIN f /\ f[place(p)] = [by |-> layer, of |-> RowOf(text, layer, p)]
      BY <1>5, <1>7, <1>8, <2>1
    <3>2. stored[place(p)] = f[place(p)]
      BY <1>9, <3>1, OverAt
    <3> QED BY <1>10, <3>1, <3>2
  <2>2. CASE p \notin (n + 1)..(n + m)
    <3>1. p \in 1..n
      BY <2>2
    <3>2. /\ place(p) \in DOMAIN memory.kv
          /\ memory.kv[place(p)] = [by |-> layer, of |-> RowOf(text, layer, p)]
      BY <3>1 DEF RowsHold, place
    <3>3. place(p) \notin DOMAIN f
      <4>1. \A q \in (n + 1)..(n + m) : a + p - 1 # a + q - 1
        BY <3>1
      <4> QED BY <1>4, <1>6, <1>7, <1>8, <4>1
    <3>4. stored[place(p)] = memory.kv[place(p)]
      BY <1>9, <3>2, <3>3, OverAt
    <3> QED BY <1>10, <3>2, <3>4
  <2> QED BY <2>1, <2>2
<1>12. ASSUME NEW x \in DOMAIN memory.kv
       PROVE  /\ x \in DOMAIN stored
              /\ (\A p \in (n + 1)..(n + m) : x # place(p)) => stored[x] = memory.kv[x]
  <2>1. x \in DOMAIN stored
    BY <1>10
  <2>2. ASSUME \A p \in (n + 1)..(n + m) : x # place(p) PROVE stored[x] = memory.kv[x]
    <3>1. x \notin DOMAIN f
      BY <1>6, <1>7, <1>8, <2>2
    <3> QED BY <1>9, <3>1, OverAt
  <2> QED BY <2>1, <2>2
<1>13. Stored(memory, config, layer, n, rows) = stored
  BY <1>3, <1>8, <1>9
<1> QED BY <1>11, <1>12, <1>13 DEF place, rows, StoresRows

(* Attention reads the rows of its own layer up to its own. *)
LEMMA FullRuns ==
  ASSUME NEW memory, NEW config, NEW layer \in Nat, NEW text, NEW n \in Nat, NEW m \in Nat \ {0},
         StateOf(config, layer) \in Nat, memory.capacity \in Nat,
         RowsHold(memory, config, layer, text, n)
  PROVE  LET rows == RowsOf(text, layer, n, m)
             ran == FullLayer(memory, config, layer, n, rows)
         IN /\ ran.rows = RowsOf(text, layer + 1, n, m)
            /\ ran.memory = [memory EXCEPT !.kv = Stored(memory, config, layer, n, rows)]
PROOF
<1> DEFINE first == StateOf(config, layer) * memory.capacity
           rows == RowsOf(text, layer, n, m)
           stored == Stored(memory, config, layer, n, rows)
           history(t) == [p \in 1..(n + t) |-> Last(stored[first + p - 1].of)]
           together(t) ==
             \A p \in 1..(n + t) :
               LET row == stored[first + p - 1]
               IN row.by = layer /\ (layer = 0 \/ row.of = SubSeq(history(t), 1, p))
           ran == FullLayer(memory, config, layer, n, rows)
<1>1. \A p \in 1..(n + m) : stored[RowPlace(memory, config, layer, p)]
                              = [by |-> layer, of |-> RowOf(text, layer, p)]
  <2> HIDE DEF first, history, together, ran
  <2>1. StoresRows(stored, memory, config, layer, text, n, m)
    BY StoredRows, Zenon
  <2> HIDE DEF stored
  <2> QED BY <2>1 DEF StoresRows
<1>2. \A p : RowPlace(memory, config, layer, p) = first + p - 1
  BY DEF RowPlace
<1>3. /\ ran.rows = [t \in DOMAIN rows |-> Made(layer, rows[t], history(t), together(t))]
      /\ ran.memory = [memory EXCEPT !.kv = stored]
  BY DEF FullLayer, Stored
<1> HIDE DEF ran, first, stored
<1>4. DOMAIN rows = 1..m /\ \A t \in 1..m : rows[t] = RowOf(text, layer, n + t)
  BY DEF RowsOf
<1> HIDE DEF rows
<1>5. \A p \in 1..(n + m) : stored[first + p - 1] = [by |-> layer, of |-> RowOf(text, layer, p)]
  BY <1>1, <1>2
<1>6. ASSUME NEW t \in 1..m PROVE history(t) = First(text, n + t)
  <2>1. ASSUME NEW p \in 1..(n + t) PROVE Last(stored[first + p - 1].of) = text[p]
    <3>1. p \in 1..(n + m) /\ p \in Nat /\ p > 0
      OBVIOUS
    <3>2. stored[first + p - 1].of = RowOf(text, layer, p)
      <4>1. stored[first + p - 1] = [by |-> layer, of |-> RowOf(text, layer, p)]
        BY <1>5, <3>1
      <4> QED BY <4>1
    <3> QED BY <3>1, <3>2, LastOfRow
  <2> QED BY <2>1 DEF First
<1> HIDE DEF history
<1>7. ASSUME NEW t \in 1..m PROVE together(t) = TRUE
  <2>1. ASSUME NEW p \in 1..(n + t)
        PROVE  /\ stored[first + p - 1].by = layer
               /\ layer = 0 \/ stored[first + p - 1].of = SubSeq(history(t), 1, p)
    <3>1. p \in 1..(n + m) /\ n + t \in Nat
      OBVIOUS
    <3>2. stored[first + p - 1] = [by |-> layer, of |-> RowOf(text, layer, p)]
      BY <1>5, <3>1
    <3>3. SubSeq(history(t), 1, p) = First(text, p)
      <4>1. SubSeq(First(text, n + t), 1, p) = First(text, p)
        BY <3>1, FirstIsSubSeq
      <4> QED BY <1>6, <4>1
    <3> QED BY <3>2, <3>3 DEF RowOf
  <2> QED BY <2>1
<1> HIDE DEF together
<1>8. ASSUME NEW t \in 1..m
      PROVE  Made(layer, rows[t], history(t), together(t)) = RowOf(text, layer + 1, n + t)
  <2>1. n + t \in Nat
    OBVIOUS
  <2>2. Made(layer, RowOf(text, layer, n + t), First(text, n + t), TRUE)
          = RowOf(text, layer + 1, n + t)
    BY <2>1, MadeOfRow, Zenon
  <2>3. rows[t] = RowOf(text, layer, n + t) /\ history(t) = First(text, n + t)
    BY <1>4, <1>6
  <2> QED BY <1>7, <2>2, <2>3, Zenon
<1>9. ran.rows = [t \in 1..m |-> RowOf(text, layer + 1, n + t)]
  BY <1>3, <1>4, <1>8
<1> QED BY <1>3, <1>9 DEF RowsOf, ran, rows, stored

(* What is read of a configuration to find the caches of a layer. *)
IsConfig(config) ==
  config.main \in Nat /\ config.total \in Nat /\ config.main <= config.total

(* The caches of a main layer after the first n tokens of a text. *)
Holds(memory, config, layer, text, n) ==
  IF LayerKind(config, layer) = "linear" THEN StateHolds(memory, config, layer, text, n)
  ELSE RowsHold(memory, config, layer, text, n)

(* Some layers are one chunk ahead of the others. *)
HoldUpTo(memory, config, text, n, m, k) ==
  /\ IsMemory(memory)
  /\ \A layer \in 0..(config.main - 1) :
       Holds(memory, config, layer, text, IF layer < k THEN n + m ELSE n)

(* A state that is written changes no other layer. *)
LEMMA StateWritten ==
  ASSUME NEW memory, NEW config, IsConfig(config), NEW text, NEW n \in Nat, NEW m \in Nat \ {0},
         NEW k \in 0..(config.main - 1), HoldUpTo(memory, config, text, n, m, k),
         LayerKind(config, k) = "linear", NEW next,
         next = [memory EXCEPT !.recurrent[StateOf(config, k)] =
                   [by |-> k, of |-> First(text, n + m)]]
  PROVE  HoldUpTo(next, config, text, n, m, k + 1) /\ next.capacity = memory.capacity
PROOF
<1> DEFINE slot == StateOf(config, k)
           state == [by |-> k, of |-> First(text, n + m)]
<1>1. slot \in DOMAIN memory.recurrent
  <2>1. Holds(memory, config, k, text, IF k < k THEN n + m ELSE n)
    BY DEF HoldUpTo
  <2> QED BY <2>1 DEF Holds, StateHolds
<1>2. memory = [capacity |-> memory.capacity, kv |-> memory.kv, recurrent |-> memory.recurrent]
  BY DEF HoldUpTo, IsMemory
<1> HIDE DEF slot, state
<1>3. next = [memory EXCEPT !.recurrent[slot] = state]
  BY DEF slot, state
<1>4. /\ next = [capacity |-> memory.capacity, kv |-> memory.kv,
                 recurrent |-> [memory.recurrent EXCEPT ![slot] = state]]
  BY <1>2, <1>3
<1>5. next.capacity = memory.capacity /\ next.kv = memory.kv
      /\ next.recurrent = [memory.recurrent EXCEPT ![slot] = state]
  BY <1>4
<1>6. IsMemory(next)
  BY <1>4 DEF IsMemory
<1>7. ASSUME NEW layer \in 0..(config.main - 1)
      PROVE  Holds(next, config, layer, text, IF layer < k + 1 THEN n + m ELSE n)
  <2>1. Holds(memory, config, layer, text, IF layer < k THEN n + m ELSE n)
    BY DEF HoldUpTo
  <2>2. k \in Nat /\ layer \in Nat
    OBVIOUS
  <2>3. CASE layer = k
    <3>1. next.recurrent[slot] = state /\ slot \in DOMAIN next.recurrent
      BY <1>1, <1>5
    <3>2. n + m # 0 /\ k < k + 1
      BY <2>2
    <3>3. StateHolds(next, config, k, text, n + m)
      BY <3>1, <3>2 DEF StateHolds, slot, state
    <3> QED BY <2>3, <3>2, <3>3 DEF Holds
  <2>4. CASE layer # k /\ LayerKind(config, layer) = "linear"
    <3>1. StateOf(config, layer) # slot
      BY <2>4, StatesDiffer DEF IsConfig, slot
    <3>2. layer < k + 1 <=> layer < k
      BY <2>2, <2>4
    <3>3. PICK j \in {n, n + m} : /\ j = IF layer < k THEN n + m ELSE n
                                  /\ j = IF layer < k + 1 THEN n + m ELSE n
      BY <3>2
    <3>4. StateHolds(memory, config, layer, text, j)
      BY <2>1, <2>4, <3>3 DEF Holds
    <3>5. StateHolds(next, config, layer, text, j)
      BY <1>5, <3>1, <3>4 DEF StateHolds
    <3> QED BY <2>4, <3>3, <3>5 DEF Holds
  <2>5. CASE layer # k /\ LayerKind(config, layer) # "linear"
    <3>1. layer < k + 1 <=> layer < k
      BY <2>2, <2>5
    <3>2. PICK j \in {n, n + m} : /\ j = IF layer < k THEN n + m ELSE n
                                  /\ j = IF layer < k + 1 THEN n + m ELSE n
      BY <3>1
    <3>3. RowsHold(memory, config, layer, text, j)
      BY <2>1, <2>5, <3>2 DEF Holds
    <3>4. RowsHold(next, config, layer, text, j)
      BY <1>5, <3>3 DEF RowsHold, RowPlace
    <3> QED BY <2>5, <3>2, <3>4 DEF Holds
  <2> QED BY <2>3, <2>4, <2>5
<1> QED BY <1>5, <1>6, <1>7 DEF HoldUpTo

(* Rows of different layers have different places. *)
LEMMA PlacesDiffer ==
  ASSUME NEW capacity \in Nat, NEW a \in Nat, NEW b \in Nat, a # b,
         NEW p \in 1..capacity, NEW q \in 1..capacity
  PROVE  a * capacity + p - 1 # b * capacity + q - 1
PROOF
<1>1. ASSUME NEW x \in Nat, NEW y \in Nat, x < y
      PROVE  x * capacity + capacity <= y * capacity
  <2>1. x + 1 <= y /\ x + 1 \in Nat
    BY <1>1
  <2>2. (x + 1) * capacity <= y * capacity
    BY <2>1, ProductMonotone
  <2>3. (x + 1) * capacity = x * capacity + capacity
    OBVIOUS
  <2> QED BY <2>2, <2>3
<1>2. PICK c \in Nat : c = a * capacity
  BY ProductMonotone
<1>3. PICK d \in Nat : d = b * capacity
  BY ProductMonotone
<1>4. c + capacity <= d \/ d + capacity <= c
  <2>1. a < b \/ b < a
    OBVIOUS
  <2> QED BY <1>1, <1>2, <1>3, <2>1
<1>5. c + p - 1 # d + q - 1
  BY <1>4
<1> QED BY <1>2, <1>3, <1>5

(* Rows that are stored change no other layer. *)
LEMMA RowsWritten ==
  ASSUME NEW memory, NEW config, IsConfig(config), NEW text, NEW n \in Nat, NEW m \in Nat \ {0},
         NEW k \in 0..(config.main - 1), HoldUpTo(memory, config, text, n, m, k),
         LayerKind(config, k) # "linear", memory.capacity \in Nat, n + m <= memory.capacity,
         NEW next,
         next = [memory EXCEPT !.kv = Stored(memory, config, k, n, RowsOf(text, k, n, m))]
  PROVE  HoldUpTo(next, config, text, n, m, k + 1) /\ next.capacity = memory.capacity
PROOF
<1>1. PICK stored : stored = Stored(memory, config, k, n, RowsOf(text, k, n, m))
  OBVIOUS
<1>2. memory = [capacity |-> memory.capacity, kv |-> memory.kv, recurrent |-> memory.recurrent]
  BY DEF HoldUpTo, IsMemory
<1>3. next = [capacity |-> memory.capacity, kv |-> stored, recurrent |-> memory.recurrent]
  BY <1>1, <1>2
<1>4. next.capacity = memory.capacity /\ next.kv = stored /\ next.recurrent = memory.recurrent
  BY <1>3
<1>5. IsMemory(next)
  BY <1>3 DEF IsMemory
<1>6. RowsHold(memory, config, k, text, n)
  <2>1. Holds(memory, config, k, text, IF k < k THEN n + m ELSE n)
    BY DEF HoldUpTo
  <2> QED BY <2>1 DEF Holds
<1>7. StateOf(config, k) \in Nat /\ k \in Nat
  BY StatesDiffer DEF IsConfig
<1>8. StoresRows(Stored(memory, config, k, n, RowsOf(text, k, n, m)), memory, config, k, text, n, m)
  BY <1>6, <1>7, StoredRows, Zenon
<1>9. /\ \A p \in 1..(n + m) :
           /\ RowPlace(memory, config, k, p) \in DOMAIN stored
           /\ stored[RowPlace(memory, config, k, p)] = [by |-> k, of |-> RowOf(text, k, p)]
      /\ \A x \in DOMAIN memory.kv :
           /\ x \in DOMAIN stored
           /\ (\A p \in (n + 1)..(n + m) : x # RowPlace(memory, config, k, p)) =>
                stored[x] = memory.kv[x]
  BY <1>1, <1>8 DEF StoresRows
<1>10. \A layer, p : RowPlace(next, config, layer, p) = RowPlace(memory, config, layer, p)
  BY <1>4 DEF RowPlace
<1>11. ASSUME NEW layer \in 0..(config.main - 1)
       PROVE  Holds(next, config, layer, text, IF layer < k + 1 THEN n + m ELSE n)
  <2>1. Holds(memory, config, layer, text, IF layer < k THEN n + m ELSE n)
    BY DEF HoldUpTo
  <2>2. k \in Nat /\ layer \in Nat
    OBVIOUS
  <2>3. CASE layer = k
    <3>1. RowsHold(next, config, k, text, n + m)
      BY <1>4, <1>9, <1>10 DEF RowsHold
    <3>2. k < k + 1
      OBVIOUS
    <3> QED BY <2>3, <3>1, <3>2 DEF Holds
  <2>4. CASE layer # k
    <3>1. layer < k + 1 <=> layer < k
      BY <2>2, <2>4
    <3>2. PICK j \in {n, n + m} : /\ j = IF layer < k THEN n + m ELSE n
                                  /\ j = IF layer < k + 1 THEN n + m ELSE n
      BY <3>1
    <3>3. CASE LayerKind(config, layer) = "linear"
      <4>1. StateHolds(memory, config, layer, text, j)
        BY <2>1, <3>2, <3>3 DEF Holds
      <4>2. StateHolds(next, config, layer, text, j)
        BY <1>4, <4>1 DEF StateHolds
      <4> QED BY <3>2, <3>3, <4>2 DEF Holds
    <3>4. CASE LayerKind(config, layer) # "linear"
      <4>1. RowsHold(memory, config, layer, text, j)
        BY <2>1, <3>2, <3>4 DEF Holds
      <4>2. StateOf(config, layer) \in Nat /\ StateOf(config, layer) # StateOf(config, k)
        <5>1. LayerKind(config, layer) = LayerKind(config, k)
          <6>1. config.main \in Nat /\ ~(layer >= config.main) /\ ~(k >= config.main)
            BY <2>2 DEF IsConfig
          <6> QED BY <3>4, <6>1 DEF LayerKind
        <5> QED BY <2>4, <5>1, StatesDiffer DEF IsConfig
      <4>3. ASSUME NEW p \in 1..j
            PROVE  \A q \in (n + 1)..(n + m) :
                     RowPlace(memory, config, layer, p) # RowPlace(memory, config, k, q)
        <5>1. p \in 1..memory.capacity /\ \A q \in (n + 1)..(n + m) : q \in 1..memory.capacity
          OBVIOUS
        <5> QED BY <1>7, <4>2, <5>1, PlacesDiffer DEF RowPlace
      <4>4. ASSUME NEW p \in 1..j
            PROVE  /\ RowPlace(memory, config, layer, p) \in DOMAIN stored
                   /\ stored[RowPlace(memory, config, layer, p)] =
                        [by |-> layer, of |-> RowOf(text, layer, p)]
        <5>1. /\ RowPlace(memory, config, layer, p) \in DOMAIN memory.kv
              /\ memory.kv[RowPlace(memory, config, layer, p)] =
                   [by |-> layer, of |-> RowOf(text, layer, p)]
          BY <4>1 DEF RowsHold
        <5>2. \A q \in (n + 1)..(n + m) :
                RowPlace(memory, config, layer, p) # RowPlace(memory, config, k, q)
          BY <4>3
        <5> QED BY <1>9, <5>1, <5>2
      <4>5. RowsHold(next, config, layer, text, j)
        BY <1>4, <1>10, <4>4 DEF RowsHold
      <4> QED BY <3>2, <3>4, <4>5 DEF Holds
    <3> QED BY <3>3, <3>4
  <2> QED BY <2>3, <2>4
<1> QED BY <1>4, <1>5, <1>11 DEF HoldUpTo

(* One layer more is ahead, and its rows are those of the next. *)
LEMMA ThroughHolds ==
  ASSUME NEW config, IsConfig(config), NEW text, NEW n \in Nat, NEW m \in Nat \ {0},
         NEW k \in 0..(config.main - 1), NEW memory, HoldUpTo(memory, config, text, n, m, k),
         memory.capacity \in Nat, n + m <= memory.capacity,
         NEW done, done = [memory |-> memory, rows |-> RowsOf(text, k, n, m)]
  PROVE  LET next == Through(config, n, done, k)
         IN /\ HoldUpTo(next.memory, config, text, n, m, k + 1)
            /\ next.memory.capacity = memory.capacity
            /\ next = [memory |-> next.memory, rows |-> RowsOf(text, k + 1, n, m)]
PROOF
<1> DEFINE rows == RowsOf(text, k, n, m)
<1>1. done.memory = memory /\ done.rows = rows
  OBVIOUS
<1>2. k \in Nat
  OBVIOUS
<1>3. Holds(memory, config, k, text, n)
  <2>1. Holds(memory, config, k, text, IF k < k THEN n + m ELSE n)
    BY DEF HoldUpTo
  <2> QED BY <2>1
<1>4. CASE LayerKind(config, k) = "linear"
  <2>1. PICK next : next = LinearLayer(memory, config, k, rows)
    OBVIOUS
  <2>2. Through(config, n, done, k) = next
    BY <1>1, <1>4, <2>1 DEF Through
  <2>3. StateHolds(memory, config, k, text, n)
    BY <1>3, <1>4 DEF Holds
  <2>4. /\ LinearLayer(memory, config, k, RowsOf(text, k, n, m)).rows =
             RowsOf(text, k + 1, n, m)
        /\ LinearLayer(memory, config, k, RowsOf(text, k, n, m)).memory =
             WithState(memory, StateOf(config, k), [by |-> k, of |-> First(text, n + m)])
    BY <1>2, <2>3, LinearRuns
  <2>5. /\ next.rows = RowsOf(text, k + 1, n, m)
        /\ next.memory = [memory EXCEPT !.recurrent[StateOf(config, k)] =
                            [by |-> k, of |-> First(text, n + m)]]
    BY <2>1, <2>4 DEF WithState
  <2>6. HoldUpTo(next.memory, config, text, n, m, k + 1)
        /\ next.memory.capacity = memory.capacity
    BY <1>4, <2>5, StateWritten
  <2>7. next = [memory |-> next.memory, rows |-> next.rows]
    BY <2>1 DEF LinearLayer
  <2> QED BY <2>2, <2>5, <2>6, <2>7
<1>5. CASE LayerKind(config, k) # "linear"
  <2>1. PICK next : next = FullLayer(memory, config, k, n, rows)
    OBVIOUS
  <2>2. Through(config, n, done, k) = next
    BY <1>1, <1>5, <2>1 DEF Through
  <2>3. RowsHold(memory, config, k, text, n)
    BY <1>3, <1>5 DEF Holds
  <2>4. StateOf(config, k) \in Nat
    BY StatesDiffer DEF IsConfig
  <2>5. LET r == RowsOf(text, k, n, m)
            ran == FullLayer(memory, config, k, n, r)
        IN /\ ran.rows = RowsOf(text, k + 1, n, m)
           /\ ran.memory = [memory EXCEPT !.kv = Stored(memory, config, k, n, r)]
    BY <1>2, <2>3, <2>4, FullRuns
  <2>6. /\ next.rows = RowsOf(text, k + 1, n, m)
        /\ next.memory = [memory EXCEPT !.kv = Stored(memory, config, k, n, RowsOf(text, k, n, m))]
    BY <2>1, <2>5
  <2>7. HoldUpTo(next.memory, config, text, n, m, k + 1)
        /\ next.memory.capacity = memory.capacity
    BY <1>5, <2>6, RowsWritten
  <2>8. next = [memory |-> next.memory, rows |-> next.rows]
    BY <2>1 DEF FullLayer
  <2> QED BY <2>2, <2>6, <2>7, <2>8
<1> QED BY <1>4, <1>5

(* All layers run over the next tokens of a text: the caches of every layer *)
(* then stand for the text so far, and so does the last row.                *)
LEMMA LayersRunOn ==
  ASSUME NEW config, IsConfig(config), config.main > 0, NEW text,
         NEW n \in Nat, NEW m \in Nat \ {0},
         NEW memory, IsMemory(memory), memory.capacity \in Nat, n + m <= memory.capacity,
         \A layer \in 0..(config.main - 1) : Holds(memory, config, layer, text, n)
  PROVE  LET ran == MainLayers(memory, config, n, RowsOf(text, 0, n, m))
         IN /\ IsMemory(ran.memory) /\ ran.memory.capacity = memory.capacity
            /\ \A layer \in 0..(config.main - 1) : Holds(ran.memory, config, layer, text, n + m)
            /\ Last(ran.rows) = First(text, n + m)
PROOF
<1> DEFINE rows == RowsOf(text, 0, n, m)
           F == Layers(memory, config, n, rows)
           Good(k) == /\ HoldUpTo(F[k].memory, config, text, n, m, k)
                      /\ F[k].memory.capacity = memory.capacity
                      /\ F[k] = [memory |-> F[k].memory, rows |-> RowsOf(text, k, n, m)]
           S == {k \in Nat : k <= config.main => Good(k)}
<1>1. config.main \in Nat
  BY DEF IsConfig
<1>2. /\ DOMAIN F = 0..config.main
      /\ F[0] = [memory |-> memory, rows |-> rows]
      /\ \A k \in 1..config.main : F[k] = Through(config, n, F[k - 1], k - 1)
      /\ MainLayers(memory, config, n, rows) = F[config.main]
  <2> HIDE DEF rows
  <2> QED BY <1>1, LayersRecursion
<1> HIDE DEF F
<1>3. 0 \in S
  <2>1. F[0].memory = memory /\ F[0] = [memory |-> F[0].memory, rows |-> RowsOf(text, 0, n, m)]
    BY <1>2
  <2>2. \A layer \in 0..(config.main - 1) :
          Holds(memory, config, layer, text, IF layer < 0 THEN n + m ELSE n)
    <3>1. ASSUME NEW layer \in 0..(config.main - 1)
          PROVE  Holds(memory, config, layer, text, IF layer < 0 THEN n + m ELSE n)
      <4>1. ~(layer < 0)
        OBVIOUS
      <4>2. Holds(memory, config, layer, text, n)
        OBVIOUS
      <4> QED BY <4>1, <4>2
    <3> QED BY <3>1
  <2>3. HoldUpTo(memory, config, text, n, m, 0)
    BY <2>2 DEF HoldUpTo
  <2>4. Good(0)
    BY <2>1, <2>3
  <2> HIDE DEF Good
  <2> QED BY <2>4
<1>4. ASSUME NEW k \in 0..(config.main - 1), k \in S PROVE k + 1 \in S
  <2>1. k \in Nat /\ k <= config.main /\ k + 1 \in Nat /\ k + 1 \in 1..config.main
        /\ k + 1 - 1 = k
    BY <1>1
  <2>2. Good(k)
    <3> HIDE DEF Good
    <3> QED BY <1>4, <2>1
  <2>3. F[k + 1] = Through(config, n, F[k], k)
    BY <1>2, <2>1
  <2>4. PICK d : d = F[k]
    OBVIOUS
  <2>5. PICK mem : mem = d.memory
    OBVIOUS
  <2>6. /\ HoldUpTo(mem, config, text, n, m, k) /\ mem.capacity = memory.capacity
        /\ d = [memory |-> mem, rows |-> RowsOf(text, k, n, m)]
    BY <2>2, <2>4, <2>5
  <2>7. LET next == Through(config, n, d, k)
        IN /\ HoldUpTo(next.memory, config, text, n, m, k + 1)
           /\ next.memory.capacity = mem.capacity
           /\ next = [memory |-> next.memory, rows |-> RowsOf(text, k + 1, n, m)]
    BY <2>6, ThroughHolds
  <2>8. Good(k + 1)
    BY <2>3, <2>4, <2>6, <2>7
  <2> HIDE DEF Good
  <2> QED BY <2>1, <2>8
<1> HIDE DEF S
<1>5. 0..config.main \subseteq S
  BY <1>1, <1>3, <1>4, UpTo
<1>6. Good(config.main)
  <2> HIDE DEF Good
  <2> QED BY <1>1, <1>5 DEF S
<1>7. ASSUME NEW layer \in 0..(config.main - 1)
      PROVE  Holds(F[config.main].memory, config, layer, text, n + m)
  <2>1. Holds(F[config.main].memory, config, layer, text,
              IF layer < config.main THEN n + m ELSE n)
    BY <1>6 DEF HoldUpTo
  <2>2. layer < config.main
    BY <1>1
  <2> QED BY <2>1, <2>2
<1>8. Last(F[config.main].rows) = First(text, n + m)
  <2>1. F[config.main].rows = RowsOf(text, config.main, n, m)
    BY <1>6
  <2>2. Last(RowsOf(text, config.main, n, m)) = RowOf(text, config.main, n + m)
    BY DEF Last, RowsOf
  <2> QED BY <1>1, <2>1, <2>2 DEF RowOf
<1>9. IsMemory(F[config.main].memory)
  BY <1>6 DEF HoldUpTo
<1> QED BY <1>2, <1>6, <1>7, <1>8, <1>9

(* A chunk of the prompt is appended. *)
WithChunk(rows, cs, c) ==
  IF cs[c].kind = "text" THEN AppendText(rows, cs[c].tokens)
  ELSE AppendImage(rows, c, cs[c].plan)

(* The rows of the prompt after each chunk. *)
PromptUpTo(cs) ==
  LET With(rows, c) == IF cs[c].kind = "text" THEN AppendText(rows, cs[c].tokens)
                       ELSE AppendImage(rows, c, cs[c].plan)
      rows[c \in 0..Len(cs)] == IF c = 0 THEN <<>> ELSE With(rows[c - 1], c)
  IN rows

(* They are the recursion of their definition. *)
LEMMA PromptRecursion ==
  ASSUME NEW cs, Len(cs) \in Nat
  PROVE  /\ PromptUpTo(cs)[0] = <<>>
         /\ \A c \in 1..Len(cs) : PromptUpTo(cs)[c] = WithChunk(PromptUpTo(cs)[c - 1], cs, c)
PROOF
<1> DEFINE n == Len(cs)
           Step(d, k) == WithChunk(d, cs, k)
           Body(f) == [k \in 0..n |-> IF k = 0 THEN <<>> ELSE Step(f[k - 1], k)]
           Run(m, f) == /\ f = [k \in 0..m |-> f[k]] /\ f[0] = <<>>
                        /\ \A k \in 1..m : f[k] = Step(f[k - 1], k)
           S == {m \in Nat : m <= n => \E f : Run(m, f)}
           F == PromptUpTo(cs)
<1>1. n \in Nat
  OBVIOUS
<1> HIDE DEF Step
<1>2. 0 \in S
  <2> DEFINE f == [k \in 0..0 |-> <<>>]
  <2>1. f[0] = <<>> /\ f = [k \in 0..0 |-> f[k]] /\ 1..0 = {}
    OBVIOUS
  <2> HIDE DEF f
  <2>2. Run(0, f)
    BY <2>1
  <2> HIDE DEF Run
  <2> QED BY <2>2
<1>3. ASSUME NEW m \in 0..(n - 1), m \in S PROVE m + 1 \in S
  <2>1. m \in Nat /\ m <= n /\ m + 1 \in Nat
    BY <1>1
  <2>2. PICK f : Run(m, f)
    <3> HIDE DEF Run
    <3> QED BY <1>3, <2>1
  <2> DEFINE g == [k \in 0..(m + 1) |-> IF k = m + 1 THEN Step(f[k - 1], k) ELSE f[k]]
  <2>3. g = [k \in 0..(m + 1) |-> g[k]]
    OBVIOUS
  <2>4. g[0] = <<>>
    BY <2>1, <2>2
  <2>5. ASSUME NEW k \in 1..(m + 1) PROVE g[k] = Step(g[k - 1], k)
    <3>1. k \in 0..(m + 1) /\ k - 1 \in 0..(m + 1) /\ k - 1 # m + 1
      BY <2>1
    <3>2. g[k - 1] = f[k - 1]
      BY <3>1
    <3>3. CASE k = m + 1
      <4>1. g[k] = Step(f[k - 1], k)
        BY <3>1, <3>3
      <4> QED BY <3>2, <4>1
    <3>4. CASE k # m + 1
      <4>1. k \in 1..m
        BY <2>1, <3>4
      <4>2. g[k] = f[k] /\ f[k] = Step(f[k - 1], k)
        BY <2>2, <3>1, <3>4, <4>1
      <4> QED BY <3>2, <4>2
    <3> QED BY <3>3, <3>4
  <2> HIDE DEF g
  <2>6. Run(m + 1, g)
    BY <2>3, <2>4, <2>5
  <2> HIDE DEF Run
  <2> QED BY <2>1, <2>6
<1>4. n \in S
  <2> HIDE DEF S
  <2>1. 0..n \subseteq S
    BY <1>1, <1>2, <1>3, UpTo
  <2> QED BY <1>1, <2>1
<1>5. PICK h : Run(n, h)
  <2> HIDE DEF Run
  <2> QED BY <1>1, <1>4
<1>6. h = Body(h)
  <2>1. \A k \in 0..n : h[k] = IF k = 0 THEN <<>> ELSE Step(h[k - 1], k)
    <3>1. h[0] = <<>> /\ \A k \in 1..n : h[k] = Step(h[k - 1], k)
      BY <1>5
    <3>2. \A k \in 0..n : k = 0 \/ k \in 1..n
      BY <1>1
    <3> HIDE DEF n
    <3> QED BY <3>1, <3>2
  <2> QED BY <1>5, <2>1
<1>7. F = CHOOSE f : f = Body(f)
  BY DEF PromptUpTo, Step, WithChunk
<1>8. F = Body(F)
  <2> HIDE DEF Body, F
  <2> QED BY <1>6, <1>7
<1>9. F[0] = <<>> /\ \A k \in 1..n : F[k] = Step(F[k - 1], k)
  <2> HIDE DEF F, n
  <2>1. 0 \in 0..n /\ \A k \in 1..n : k \in 0..n /\ k # 0
    BY <1>1
  <2> QED BY <1>8, <2>1
<1> QED BY <1>9 DEF Step

(* No position reaches b, and the last before it is used. *)
Ends(rows, b) ==
  /\ \A i \in 1..Len(rows) : \A s \in 1..3 : rows[i].at[s] \in 0..(b - 1)
  /\ IF rows = <<>> THEN b = 0
     ELSE \E i \in 1..Len(rows) : \E s \in 1..3 : rows[i].at[s] = b - 1

(* That is where the rows end. *)
LEMMA EndsBeyond ==
  ASSUME NEW rows, rows \in Seq(ToSet(rows)), NEW b \in Nat, Ends(rows, b)
  PROVE  Beyond(rows) = b
PROOF
<1>1. CASE rows = <<>>
  BY <1>1 DEF Beyond, Ends
<1>2. CASE rows # <<>>
  <2> DEFINE T == Used(rows)
  <2>1. PICK i \in 1..Len(rows), s \in 1..3 : rows[i].at[s] = b - 1
    BY <1>2 DEF Ends
  <2>2. b - 1 \in T
    BY <2>1 DEF Used, ToSet
  <2>3. T \subseteq 0..(b - 1)
    <3>1. ASSUME NEW x \in T PROVE x \in 0..(b - 1)
      <4>1. PICK row \in ToSet(rows) : \E k \in 1..3 : x = row.at[k]
        BY DEF Used
      <4>2. PICK j \in 1..Len(rows) : row = rows[j]
        BY <4>1 DEF ToSet
      <4> QED BY <4>1, <4>2 DEF Ends
    <3> QED BY <3>1
  <2>4. b - 1 \in Nat /\ T # {}
    BY <2>2, <2>3
  <2> HIDE DEF T
  <2>5. Max(T) \in T /\ \A y \in T : y <= Max(T)
    BY <2>3, <2>4, GreatestOf
  <2>6. Max(T) = b - 1
    <3>1. PICK t : t = Max(T)
      OBVIOUS
    <3>2. t \in 0..(b - 1) /\ b - 1 <= t
      BY <2>2, <2>3, <2>5, <3>1
    <3> QED BY <3>1, <3>2
  <2> QED BY <1>2, <2>6 DEF Beyond, T
<1> QED BY <1>1, <1>2

(* A sequence is one of its own elements. *)
LEMMA OwnElements ==
  ASSUME NEW S, NEW s \in Seq(S)
  PROVE  s \in Seq(ToSet(s))
PROOF
BY DEF ToSet

(* A sequence that is one and then another. *)
Follows(c, a, b) ==
  /\ c \in Seq(ToSet(c)) /\ Len(c) = Len(a) + Len(b)
  /\ Len(a) \in Nat /\ Len(b) \in Nat
  /\ \A i \in 1..Len(a) : c[i] = a[i]
  /\ \A i \in 1..Len(b) : c[Len(a) + i] = b[i]
  /\ b = <<>> => c = a

(* Concatenation makes it. *)
LEMMA ConcatAny ==
  ASSUME NEW a, a \in Seq(ToSet(a)), NEW b, b \in Seq(ToSet(b))
  PROVE  Follows(a \o b, a, b)
PROOF
<1> DEFINE S == ToSet(a) \cup ToSet(b)
<1>0. PICK c : c = a \o b
  OBVIOUS
<1>1. a \in Seq(S) /\ b \in Seq(S)
  OBVIOUS
<1> HIDE DEF S
<1>2. /\ a \o b \in Seq(S) /\ Len(a \o b) = Len(a) + Len(b)
      /\ \A i \in 1..(Len(a) + Len(b)) :
           (a \o b)[i] = IF i <= Len(a) THEN a[i] ELSE b[i - Len(a)]
  BY <1>1, ConcatProperties
<1>3. Len(a) \in Nat /\ Len(b) \in Nat
  OBVIOUS
<1>4. /\ c \in Seq(S) /\ Len(c) = Len(a) + Len(b)
      /\ \A i \in 1..(Len(a) + Len(b)) : c[i] = IF i <= Len(a) THEN a[i] ELSE b[i - Len(a)]
  BY <1>0, <1>2
<1>5. c \in Seq(ToSet(c))
  BY <1>4, OwnElements
<1>6. \A i \in 1..Len(a) : c[i] = a[i]
  BY <1>3, <1>4
<1>7. ASSUME NEW i \in 1..Len(b) PROVE c[Len(a) + i] = b[i]
  <2>1. Len(a) + i \in 1..(Len(a) + Len(b)) /\ ~(Len(a) + i <= Len(a))
        /\ (Len(a) + i) - Len(a) = i
    BY <1>3
  <2> QED BY <1>4, <2>1
<1>8. b = <<>> => c = a
  BY <1>0, <1>1, ConcatEmptySeq
<1> QED BY <1>0, <1>3, <1>4, <1>5, <1>6, <1>7, <1>8 DEF Follows

(* Rows that follow move the end. *)
LEMMA EndsGrow ==
  ASSUME NEW rows, rows \in Seq(ToSet(rows)), NEW more, more \in Seq(ToSet(more)),
         NEW b \in Nat, NEW e \in Nat, b <= e, Ends(rows, b),
         \A i \in 1..Len(more) : \A s \in 1..3 : more[i].at[s] \in b..(e - 1),
         \E i \in 1..Len(more) : \E s \in 1..3 : more[i].at[s] = e - 1
  PROVE  Ends(rows \o more, e)
PROOF
<1>1. PICK c : c = rows \o more
  OBVIOUS
<1>7. Follows(c, rows, more)
  BY <1>1, ConcatAny
<1>2. /\ c \in Seq(ToSet(c)) /\ Len(c) = Len(rows) + Len(more)
      /\ Len(rows) \in Nat /\ Len(more) \in Nat
      /\ \A i \in 1..Len(rows) : c[i] = rows[i]
      /\ \A i \in 1..Len(more) : c[Len(rows) + i] = more[i]
  BY <1>7 DEF Follows
<1>3. ASSUME NEW i \in 1..Len(c), NEW s \in 1..3 PROVE c[i].at[s] \in 0..(e - 1)
  <2>1. CASE i <= Len(rows)
    <3>1. i \in 1..Len(rows)
      BY <1>2, <2>1
    <3>2. rows[i].at[s] \in 0..(b - 1)
      BY <3>1 DEF Ends
    <3> QED BY <1>2, <3>1, <3>2
  <2>2. CASE ~(i <= Len(rows))
    <3>1. i - Len(rows) \in 1..Len(more) /\ Len(rows) + (i - Len(rows)) = i
      BY <1>2, <2>2
    <3>2. more[i - Len(rows)].at[s] \in b..(e - 1)
      BY <3>1
    <3>3. c[i] = more[i - Len(rows)]
      BY <1>2, <3>1
    <3> QED BY <3>2, <3>3
  <2> QED BY <2>1, <2>2
<1>4. PICK i \in 1..Len(more), s \in 1..3 : more[i].at[s] = e - 1
  OBVIOUS
<1>5. Len(rows) + i \in 1..Len(c) /\ c[Len(rows) + i].at[s] = e - 1
  <2>1. Len(rows) + i \in 1..Len(c)
    BY <1>2
  <2>2. c[Len(rows) + i] = more[i]
    BY <1>2
  <2> QED BY <1>4, <2>1, <2>2
<1>6. c # <<>>
  BY <1>2, <1>5
<1> QED BY <1>1, <1>3, <1>5, <1>6 DEF Ends

(* The row of a token of a placed chunk, counted from 0. *)
TokenRow(p, c, n) ==
  [token |-> IF p.kind = "text" THEN <<"text", p.tokens[n + 1]>> ELSE <<"image", c, n + 1>>,
   at |-> [s \in 1..4 |-> Position(p, s - 1, n)]]

(* The rows of all its tokens. *)
TokenRows(p, c) == [n \in 1..TokenCount(p) |-> TokenRow(p, c, n - 1)]

(* The last position of a chunk is that of one of its tokens. *)
LEMMA LastPosition ==
  ASSUME NEW p, NEW k, NEW m, NEW messages, Places(p, k), ChunkTakes(k, m, messages),
         p.startPosition \in Nat
  PROVE  \E n \in 1..TokenCount(p) : \E s \in 1..3 :
           Position(p, s - 1, n - 1) = p.startPosition + PositionAdvance(p) - 1
PROOF
<1>1. CASE k.kind = "text"
  <2>1. p.kind = "text"
    BY <1>1 DEF Places
  <2>2. TokenCount(p) = PositionAdvance(p) /\ TokenCount(p) \in Nat \ {0}
    <3>1. TokenCount(p) = PositionAdvance(p)
      BY <2>1 DEF TokenCount, PositionAdvance
    <3> QED BY <3>1, PlacedTakes
  <2>3. Position(p, 1 - 1, TokenCount(p) - 1) = p.startPosition + (TokenCount(p) - 1)
    BY <2>1 DEF Position
  <2>4. TokenCount(p) \in 1..TokenCount(p) /\ 1 \in 1..3
    BY <2>2
  <2>5. p.startPosition + (TokenCount(p) - 1) = p.startPosition + PositionAdvance(p) - 1
    BY <2>2
  <2> QED BY <2>3, <2>4, <2>5
<1>2. CASE k.kind = "image"
  <2>1. p.kind = "image" /\ p.plan = k.plan
    BY <1>2 DEF Places
  <2>2. PICK x \in Nat \ {0}, y \in Nat \ {0}, b \in Nat :
          /\ x = p.plan.mergeX /\ y = p.plan.mergeY /\ b = p.startPosition
          /\ p.plan.tokens = x * y
    BY <1>2, <2>1 DEF ChunkTakes, IsGrid
  <2>3. TokenCount(p) = x * y
    BY <2>1, <2>2 DEF TokenCount
  <2>4. PICK t \in Nat \ {0} : t = x * y /\ t >= x
    BY ProductPositive
  <2>5. PositionAdvance(p) = IF x >= y THEN x ELSE y
    BY <2>1, <2>2 DEF PositionAdvance, AtLeast
  <2>6. \A n : /\ Position(p, 1, n) = b + (n \div x)
               /\ Position(p, 2, n) = b + (n % x)
    BY <2>1, <2>2 DEF Position
  <2>7. CASE x >= y
    <3>1. (x * 0 + (x - 1)) % x = x - 1
      <4>1. x - 1 \in 0..(x - 1) /\ 0 \in Nat
        OBVIOUS
      <4> QED BY <4>1, DivisionUnique
    <3>2. x * 0 + (x - 1) = x - 1
      OBVIOUS
    <3>3. Position(p, 3 - 1, x - 1) = b + (x - 1)
      BY <2>6, <3>1, <3>2
    <3>4. x \in 1..TokenCount(p) /\ 3 \in 1..3
      BY <2>3, <2>4
    <3>5. b + (x - 1) = b + PositionAdvance(p) - 1
      BY <2>5, <2>7
    <3> QED BY <2>2, <3>3, <3>4, <3>5
  <2>8. CASE ~(x >= y)
    <3>1. PICK z \in Nat : z = x * (y - 1)
      <4>1. \A i, j \in Nat : i * j \in Nat
        OBVIOUS
      <4>2. y - 1 \in Nat
        OBVIOUS
      <4> QED BY <4>1, <4>2
    <3>2. (x * (y - 1)) \div x = y - 1
      <4>1. y - 1 \in Nat
        OBVIOUS
      <4> QED BY <4>1, DivisionExact
    <3>3. z + x = t
      <4>1. x * (y - 1) + x = x * y
        OBVIOUS
      <4> QED BY <2>4, <3>1, <4>1
    <3>4. z + 1 \in 1..TokenCount(p) /\ 2 \in 1..3 /\ z + 1 - 1 = z
      BY <2>3, <2>4, <3>3
    <3>5. Position(p, 2 - 1, z) = b + (y - 1)
      BY <2>6, <3>1, <3>2
    <3>6. b + (y - 1) = b + PositionAdvance(p) - 1
      BY <2>5, <2>8
    <3>7. Position(p, 2 - 1, (z + 1) - 1) = p.startPosition + PositionAdvance(p) - 1
      BY <2>2, <3>4, <3>5, <3>6
    <3> QED BY <3>4, <3>7
  <2> QED BY <2>7, <2>8
<1> QED BY <1>1, <1>2 DEF ChunkTakes

(* What is appended for a chunk is the rows of its tokens. *)
LEMMA ChunkAppended ==
  ASSUME NEW cs, NEW c, NEW p, NEW m, NEW messages,
         Places(p, cs[c]), ChunkTakes(cs[c], m, messages), p.startPosition \in Nat,
         NEW rows, Beyond(rows) = p.startPosition
  PROVE  WithChunk(rows, cs, c) = rows \o TokenRows(p, c)
PROOF
<1>1. PICK b \in Nat : b = p.startPosition
  OBVIOUS
<1>2. p.kind = cs[c].kind /\ cs[c].kind \in {"text", "image"}
      /\ TokenCount(p) = TokenCount(cs[c]) /\ TokenCount(p) \in Nat \ {0}
  BY PlacedTakes DEF Places, ChunkTakes
<1>3. CASE cs[c].kind = "text"
  <2>1. p.tokens = cs[c].tokens /\ TokenCount(p) = Len(cs[c].tokens)
    BY <1>2, <1>3 DEF Places, TokenCount
  <2>2. ASSUME NEW n \in 1..Len(cs[c].tokens)
        PROVE  TokenRow(p, c, n - 1) =
                 [token |-> <<"text", cs[c].tokens[n]>>, at |-> [s \in 1..4 |-> Beyond(rows) + n - 1]]
    <3>1. n - 1 + 1 = n
      OBVIOUS
    <3>2. ASSUME NEW s \in 1..4 PROVE Position(p, s - 1, n - 1) = Beyond(rows) + n - 1
      BY <1>1, <1>2, <1>3 DEF Position
    <3> QED BY <1>2, <1>3, <2>1, <3>1, <3>2 DEF TokenRow
  <2>3. TokenRows(p, c) =
          [n \in 1..Len(cs[c].tokens) |->
             [token |-> <<"text", cs[c].tokens[n]>>, at |-> [s \in 1..4 |-> Beyond(rows) + n - 1]]]
    BY <2>1, <2>2 DEF TokenRows
  <2>4. WithChunk(rows, cs, c) = AppendText(rows, cs[c].tokens)
    BY <1>3 DEF WithChunk
  <2> QED BY <2>3, <2>4 DEF AppendText
<1>4. CASE cs[c].kind = "image"
  <2>1. p.plan = cs[c].plan /\ TokenCount(p) = cs[c].plan.tokens /\ p.kind = "image"
    BY <1>2, <1>4 DEF Places, TokenCount
  <2>2. PICK x \in Nat \ {0} : x = cs[c].plan.mergeX
    BY <1>4 DEF ChunkTakes, IsGrid
  <2>3. ASSUME NEW n \in 1..cs[c].plan.tokens
        PROVE  TokenRow(p, c, n - 1) =
                 [token |-> <<"image", c, n>>,
                  at |-> <<Beyond(rows), Beyond(rows) + ((n - 1) \div cs[c].plan.mergeX),
                           Beyond(rows) + ((n - 1) % cs[c].plan.mergeX), 0>>]
    <3>1. n - 1 + 1 = n
      BY <1>2, <2>1
    <3>2. PICK q, r : q = (n - 1) \div x /\ r = (n - 1) % x
      OBVIOUS
    <3>3. /\ Position(p, 0, n - 1) = b /\ Position(p, 1, n - 1) = b + q
          /\ Position(p, 2, n - 1) = b + r /\ Position(p, 3, n - 1) = 0
      BY <1>1, <2>1, <2>2, <3>2 DEF Position
    <3>4. [s \in 1..4 |-> Position(p, s - 1, n - 1)] = <<b, b + q, b + r, 0>>
      <4>1. PICK f : f = [s \in 1..4 |-> Position(p, s - 1, n - 1)]
        OBVIOUS
      <4>2. f[1] = b /\ f[2] = b + q /\ f[3] = b + r /\ f[4] = 0
        BY <3>3, <4>1
      <4>3. f = [s \in 1..4 |-> f[s]]
        BY <4>1
      <4>4. f = <<f[1], f[2], f[3], f[4]>>
        BY <4>3
      <4> QED BY <4>1, <4>2, <4>4
    <3> QED BY <1>1, <2>1, <2>2, <3>1, <3>2, <3>4 DEF TokenRow
  <2>4. TokenRows(p, c) =
          [n \in 1..cs[c].plan.tokens |->
             [token |-> <<"image", c, n>>,
              at |-> <<Beyond(rows), Beyond(rows) + ((n - 1) \div cs[c].plan.mergeX),
                       Beyond(rows) + ((n - 1) % cs[c].plan.mergeX), 0>>]]
    BY <2>1, <2>3 DEF TokenRows
  <2>5. WithChunk(rows, cs, c) = AppendImage(rows, c, cs[c].plan)
    BY <1>4 DEF WithChunk
  <2> QED BY <2>4, <2>5 DEF AppendImage
<1> QED BY <1>2, <1>3, <1>4

(* The rows of the first chunks of a placed prompt. *)
RowsLaid(rows, ps, c) ==
  /\ rows \in Seq(ToSet(rows))
  /\ Len(rows) = TokensBefore(ps, c + 1)
  /\ Ends(rows, PositionsBefore(ps, c + 1))
  /\ \A d \in 1..c : \A n \in 0..(TokenCount(ps[d]) - 1) :
       rows[ps[d].startToken + n + 1] = TokenRow(ps[d], d, n)

(* One chunk more. *)
LEMMA RowsLaidOn ==
  ASSUME NEW ps, NEW cs, NEW m, NEW messages, Placing(ps, cs), Takes(cs, m, messages),
         NEW c \in 1..Len(ps), NEW rows, RowsLaid(rows, ps, c - 1)
  PROVE  RowsLaid(WithChunk(rows, cs, c), ps, c)
PROOF
<1> DEFINE p == ps[c]
           more == TokenRows(p, c)
<1>1. /\ p.startToken \in Nat /\ p.startToken = TokensBefore(ps, c)
      /\ p.startPosition \in Nat /\ p.startPosition = PositionsBefore(ps, c)
      /\ TokenCount(p) \in Nat \ {0} /\ PositionAdvance(p) \in Nat \ {0}
      /\ TokensBefore(ps, c + 1) = p.startToken + TokenCount(p)
      /\ PositionsBefore(ps, c + 1) = p.startPosition + PositionAdvance(p)
      /\ Places(p, cs[c]) /\ ChunkTakes(cs[c], m, messages)
  BY ChunkEnds
<1>2. Len(ps) \in Nat /\ c \in Nat /\ c - 1 + 1 = c
  BY NextBegins
<1> HIDE DEF p
<1>3. /\ rows \in Seq(ToSet(rows)) /\ Len(rows) = p.startToken /\ Ends(rows, p.startPosition)
  BY <1>1, <1>2 DEF RowsLaid
<1>4. Beyond(rows) = p.startPosition
  BY <1>1, <1>3, EndsBeyond
<1>5. WithChunk(rows, cs, c) = rows \o more
  BY <1>1, <1>4, ChunkAppended
<1>6. /\ more \in Seq(ToSet(more)) /\ Len(more) = TokenCount(p)
      /\ \A n \in 1..TokenCount(p) : more[n] = TokenRow(p, c, n - 1)
  <2>1. PICK k \in Nat : k = TokenCount(p)
    BY <1>1
  <2>2. more = [n \in 1..k |-> TokenRow(p, c, n - 1)]
    BY <2>1 DEF TokenRows
  <2> HIDE DEF more
  <2>3. Len(more) = k /\ \A n \in 1..k : more[n] = TokenRow(p, c, n - 1)
    BY <2>2
  <2>4. PICK S : \A n \in 1..k : TokenRow(p, c, n - 1) \in S
    <3>1. \A n \in 1..k : TokenRow(p, c, n - 1) \in {TokenRow(p, c, j - 1) : j \in 1..k}
      OBVIOUS
    <3> QED BY <3>1
  <2>5. more \in Seq(S)
    BY <2>2, <2>4
  <2> QED BY <2>1, <2>3, <2>5, OwnElements
<1> HIDE DEF more
<1>7. PICK new : new = rows \o more
  OBVIOUS
<1>8. Follows(new, rows, more)
  BY <1>3, <1>6, <1>7, ConcatAny
<1>9. PICK e \in Nat : e = p.startPosition + PositionAdvance(p)
  BY <1>1
<1>10. Ends(new, e)
  <2>1. ASSUME NEW i \in 1..Len(more), NEW s \in 1..3
        PROVE  more[i].at[s] = Position(p, s - 1, i - 1)
               /\ more[i].at[s] \in p.startPosition..(e - 1)
    <3>1. i - 1 \in 0..(TokenCount(p) - 1) /\ s - 1 \in 0..2 /\ s \in 1..4
      BY <1>1, <1>6
    <3>2. more[i].at[s] = Position(p, s - 1, i - 1)
      BY <1>6, <3>1 DEF TokenRow
    <3>3. p.startPosition <= Position(p, s - 1, i - 1)
          /\ Position(p, s - 1, i - 1) < p.startPosition + PositionAdvance(p)
      BY <1>1, <3>1, PositionsInside
    <3>4. Position(p, s - 1, i - 1) \in Nat
      <4>1. PICK j \in Nat : j = i - 1
        BY <3>1
      <4>2. CASE p.kind = "text"
        BY <1>1, <4>1, <4>2 DEF Position
      <4>3. CASE p.kind = "image"
        <5>1. PICK x \in Nat \ {0} : x = p.plan.mergeX
          BY <1>1, <4>3 DEF Places, ChunkTakes, IsGrid
        <5>2. j \div x \in Nat /\ j % x \in Nat
          <6>1. j % x \in 0..(x - 1) /\ j \div x \in Nat
            BY Division
          <6> QED BY <6>1
        <5>3. PICK q \in Nat, r \in Nat : q = j \div x /\ r = j % x
          BY <5>2
        <5>4. PICK b \in Nat : b = p.startPosition
          BY <1>1
        <5>5. Position(p, s - 1, j) = IF s - 1 = 0 THEN b + 0 ELSE IF s - 1 = 1 THEN b + q
                                      ELSE IF s - 1 = 2 THEN b + r ELSE 0
          BY <4>3, <5>1, <5>3, <5>4 DEF Position
        <5>6. Position(p, s - 1, j) \in Nat
          BY <5>5
        <5> QED BY <4>1, <5>6
      <4>4. p.kind \in {"text", "image"}
        BY <1>1 DEF Places, ChunkTakes
      <4> QED BY <4>2, <4>3, <4>4
    <3> QED BY <1>1, <1>9, <3>2, <3>3, <3>4
  <2>2. \E n \in 1..TokenCount(p) : \E s \in 1..3 :
           Position(p, s - 1, n - 1) = p.startPosition + PositionAdvance(p) - 1
    BY <1>1, LastPosition
  <2>3. \E i \in 1..Len(more) : \E s \in 1..3 : more[i].at[s] = e - 1
    <3>1. PICK n \in 1..TokenCount(p), s \in 1..3 :
            Position(p, s - 1, n - 1) = p.startPosition + PositionAdvance(p) - 1
      BY <2>2
    <3>2. n \in 1..Len(more)
      BY <1>6
    <3>3. more[n].at[s] = Position(p, s - 1, n - 1)
      BY <2>1, <3>2
    <3>4. more[n].at[s] = e - 1
      BY <1>1, <1>9, <3>1, <3>3
    <3> QED BY <3>2, <3>4
  <2>4. p.startPosition <= e
    BY <1>1, <1>9
  <2>5. Ends(rows \o more, e)
    BY <1>1, <1>3, <1>6, <2>1, <2>3, <2>4, EndsGrow
  <2> QED BY <1>7, <2>5
<1>11. ASSUME NEW d \in 1..c, NEW n \in 0..(TokenCount(ps[d]) - 1)
       PROVE  new[ps[d].startToken + n + 1] = TokenRow(ps[d], d, n)
  <2>1. CASE d = c
    <3>1. n + 1 \in 1..Len(more) /\ n + 1 - 1 = n
      BY <1>1, <1>6, <2>1 DEF p
    <3>2. new[Len(rows) + (n + 1)] = more[n + 1]
      BY <1>8, <3>1 DEF Follows
    <3>3. more[n + 1] = TokenRow(p, c, n)
      BY <1>6, <3>1
    <3>4. Len(rows) + (n + 1) = ps[d].startToken + n + 1
      BY <1>1, <1>3, <2>1 DEF p
    <3> QED BY <2>1, <3>2, <3>3, <3>4 DEF p
  <2>2. CASE d # c
    <3>1. d \in 1..(c - 1) /\ d \in 1..Len(ps) /\ c \in (d + 1)..(Len(ps) + 1)
      BY <1>2, <2>2
    <3>2. rows[ps[d].startToken + n + 1] = TokenRow(ps[d], d, n)
      BY <3>1 DEF RowsLaid
    <3>3. ps[d].startToken \in Nat /\ TokenCount(ps[d]) \in Nat \ {0}
      BY <3>1, ChunkEnds
    <3>4. ps[d].startToken + TokenCount(ps[d]) <= TokensBefore(ps, c)
      BY <3>1, ChunksApart
    <3>5. ps[d].startToken + n + 1 \in 1..Len(rows)
      <4>1. PICK a \in Nat, b \in Nat \ {0}, l \in Nat :
              a = ps[d].startToken /\ b = TokenCount(ps[d]) /\ l = Len(rows) /\ a + b <= l
        BY <1>1, <1>3, <3>3, <3>4
      <4>2. n \in 0..(b - 1)
        BY <4>1
      <4> QED BY <4>1, <4>2
    <3> QED BY <1>8, <3>2, <3>5 DEF Follows
  <2> QED BY <2>1, <2>2
<1>12. new \in Seq(ToSet(new)) /\ Len(new) = TokensBefore(ps, c + 1)
  BY <1>1, <1>3, <1>6, <1>8 DEF Follows
<1>13. Ends(new, PositionsBefore(ps, c + 1))
  BY <1>1, <1>9, <1>10
<1> QED BY <1>5, <1>7, <1>11, <1>12, <1>13 DEF RowsLaid

(* The rows of a placed prompt. *)
LEMMA PromptIsLaid ==
  ASSUME NEW ps, NEW cs, NEW m, NEW messages, Placing(ps, cs), Takes(cs, m, messages),
         Len(ps) = Len(cs)
  PROVE  RowsLaid(PromptUpTo(cs)[Len(cs)], ps, Len(ps))
PROOF
<1> DEFINE F == PromptUpTo(cs)
           S == {c \in Nat : c <= Len(ps) => RowsLaid(F[c], ps, c)}
<1>1. Len(ps) \in Nat
  BY NextBegins
<1>2. F[0] = <<>> /\ \A c \in 1..Len(cs) : F[c] = WithChunk(F[c - 1], cs, c)
  BY <1>1, PromptRecursion
<1> HIDE DEF F
<1>3. 0 \in S
  <2>1. RowsLaid(<<>>, ps, 0)
    <3>1. <<>> \in Seq(ToSet(<<>>)) /\ Len(<<>>) = 0
      BY DEF ToSet
    <3>2. TokensBefore(ps, 0 + 1) = 0 /\ PositionsBefore(ps, 0 + 1) = 0
      BY DEF TokensBefore, PositionsBefore
    <3>3. Ends(<<>>, 0)
      BY <3>1 DEF Ends
    <3> QED BY <3>1, <3>2, <3>3 DEF RowsLaid
  <2> QED BY <1>2, <2>1
<1>4. ASSUME NEW c \in 0..(Len(ps) - 1), c \in S PROVE c + 1 \in S
  <2>1. c + 1 \in 1..Len(ps) /\ c + 1 - 1 = c /\ c <= Len(ps) /\ c + 1 \in Nat
    BY <1>1
  <2>2. RowsLaid(F[c], ps, c)
    BY <1>4, <2>1
  <2>3. F[c + 1] = WithChunk(F[c], cs, c + 1)
    BY <1>2, <2>1
  <2>4. PICK d \in 1..Len(ps) : d = c + 1
    BY <2>1
  <2>5. RowsLaid(F[c], ps, d - 1)
    BY <2>1, <2>2, <2>4
  <2>6. RowsLaid(WithChunk(F[c], cs, d), ps, d)
    BY <2>5, RowsLaidOn
  <2> QED BY <2>1, <2>3, <2>4, <2>6
<1> HIDE DEF S
<1>5. 0..Len(ps) \subseteq S
  BY <1>1, <1>3, <1>4, UpTo
<1> QED BY <1>1, <1>5 DEF S, F

(* The rows of the prompt of the request. *)
LEMMA PromptRowsLaid ==
  ASSUME PlanInv, pc \in {"upload", "prefill", "sample", "decode"}
  PROVE  /\ RowsLaid(PromptRows, placed, Len(placed))
         /\ PromptRows \in Seq(ToSet(PromptRows))
         /\ Len(PromptRows) = TotalTokens /\ TotalTokens \in Nat \ {0}
         /\ Beyond(PromptRows) = PositionsBefore(placed, Len(placed) + 1)
         /\ Beyond(PromptRows) \in Nat
PROOF
<1>1. pc \in Planned
  BY DEF Planned
<1>2. /\ Placing(placed, chunks) /\ Takes(chunks, Vision, request.messages)
      /\ Len(placed) = Len(chunks) /\ chunks # <<>>
  BY <1>1 DEF PlanInv, PromptPlaced, LaidOut
<1>3. TotalTokens = TokensBefore(placed, Len(placed) + 1) /\ TotalTokens \in Nat \ {0}
  BY <1>1, <1>2, PlacedTokens
<1>4. RowsLaid(PromptUpTo(chunks)[Len(chunks)], placed, Len(placed))
  BY <1>2, PromptIsLaid
<1>5. PromptRows = PromptUpTo(chunks)[Len(chunks)]
  BY DEF PromptRows, PromptUpTo
<1>6. RowsLaid(PromptRows, placed, Len(placed))
  BY <1>4, <1>5
<1>7. /\ PromptRows \in Seq(ToSet(PromptRows)) /\ Len(PromptRows) = TotalTokens
      /\ Ends(PromptRows, PositionsBefore(placed, Len(placed) + 1))
  BY <1>3, <1>6 DEF RowsLaid
<1>8. PositionsBefore(placed, Len(placed) + 1) \in Nat
  BY <1>2, NextBegins
<1>9. Beyond(PromptRows) = PositionsBefore(placed, Len(placed) + 1)
  BY <1>7, <1>8, EndsBeyond
<1> QED BY <1>3, <1>6, <1>7, <1>8, <1>9

(* Without images positions count the tokens. *)
LEMMA TextCounts ==
  ASSUME NEW ps, NEW cs, NEW m, NEW messages, Placing(ps, cs), Takes(cs, m, messages),
         ~HasImages(messages)
  PROVE  \A c \in 1..Len(ps) : ps[c].kind = "text" /\ ps[c].startPosition = ps[c].startToken
PROOF
<1> DEFINE S == {k \in Nat : k <= Len(ps) =>
                    PositionsBefore(ps, k + 1) = TokensBefore(ps, k + 1)}
<1>1. Len(ps) \in Nat
  BY NextBegins
<1>2. ASSUME NEW c \in 1..Len(ps) PROVE ps[c].kind = "text"
  <2>1. Images(messages) = {}
    BY DEF HasImages
  <2>2. ImageChunks(m, Images(messages)) = {}
    BY <2>1 DEF ImageChunks
  <2>3. c \in 1..Len(cs)
    BY <1>1 DEF Placing
  <2>4. cs[c] \in EncodedChunks(m, messages)
    BY <2>3 DEF Takes
  <2>5. cs[c].kind = "text"
    BY <2>2, <2>4 DEF EncodedChunks, TextChunks
  <2>6. Places(ps[c], cs[c])
    BY ChunkEnds
  <2> QED BY <2>5, <2>6 DEF Places
<1>3. 0 \in S
  BY DEF PositionsBefore, TokensBefore
<1>4. ASSUME NEW k \in 0..(Len(ps) - 1), k \in S PROVE k + 1 \in S
  <2>1. PICK c \in 1..Len(ps) : c = k + 1
    BY <1>1
  <2>2. k \in Nat /\ k <= Len(ps) /\ c \in Nat
    BY <1>1, <2>1
  <2>3. PositionsBefore(ps, c) = TokensBefore(ps, c)
    BY <1>4, <2>1, <2>2
  <2>4. TokenCount(ps[c]) = PositionAdvance(ps[c])
    BY <1>2 DEF TokenCount, PositionAdvance
  <2>5. PositionsBefore(ps, c + 1) = TokensBefore(ps, c + 1)
    <3>1. /\ TokensBefore(ps, c + 1) = ps[c].startToken + TokenCount(ps[c])
          /\ PositionsBefore(ps, c + 1) = ps[c].startPosition + PositionAdvance(ps[c])
          /\ ps[c].startToken = TokensBefore(ps, c)
          /\ ps[c].startPosition = PositionsBefore(ps, c)
      BY ChunkEnds
    <3> QED BY <2>3, <2>4, <3>1
  <2> QED BY <2>1, <2>2, <2>5
<1> HIDE DEF S
<1>5. 0..Len(ps) \subseteq S
  BY <1>1, <1>3, <1>4, UpTo
<1>6. ASSUME NEW c \in 1..Len(ps) PROVE ps[c].startPosition = ps[c].startToken
  <2>1. c - 1 \in 0..Len(ps) /\ c - 1 + 1 = c /\ c - 1 <= Len(ps)
    BY <1>1
  <2>2. PositionsBefore(ps, c - 1 + 1) = TokensBefore(ps, c - 1 + 1)
    BY <1>5, <2>1 DEF S
  <2>3. PositionsBefore(ps, c) = TokensBefore(ps, c)
    BY <2>1, <2>2
  <2> QED BY <2>3, ChunkEnds
<1> QED BY <1>2, <1>6

(* A token of the prompt is that of its chunk. *)
LEMMA PromptTokenIs ==
  ASSUME NEW m, NEW messages, Placing(placed, chunks), Takes(chunks, m, messages),
         NEW c \in 1..Len(placed), NEW n \in 0..(TokenCount(placed[c]) - 1)
  PROVE  PromptToken(placed[c].startToken + n) = TokenRow(placed[c], c, n).token
PROOF
<1> DEFINE t == placed[c].startToken + n
           In(k) == placed[k].startToken <= t /\ t < placed[k].startToken + TokenCount(placed[k])
           d == CHOOSE k \in DOMAIN placed : In(k)
<1>1. Len(placed) \in Nat /\ DOMAIN placed = 1..Len(placed)
  BY NextBegins DEF Placing
<1>2. \A k \in 1..Len(placed) :
        placed[k].startToken \in Nat /\ TokenCount(placed[k]) \in Nat \ {0}
  BY ChunkEnds
<1>3. c \in DOMAIN placed /\ In(c)
  BY <1>1, <1>2
<1> HIDE DEF In
<1>4. d \in DOMAIN placed /\ In(d)
  BY <1>3
<1>5. d = c
  <2>1. PICK k \in 1..Len(placed) : k = d
    BY <1>1, <1>4
  <2>2. PICK a \in Nat, b \in Nat \ {0} : a = placed[k].startToken /\ b = TokenCount(placed[k])
    BY <1>2
  <2>3. t \in Nat /\ a <= t /\ t < a + b
    BY <1>2, <1>4, <2>1, <2>2 DEF In
  <2> HIDE DEF d, t
  <2>4. t - a \in 0..(TokenCount(placed[k]) - 1) /\ placed[k].startToken + (t - a) = t
    BY <2>2, <2>3
  <2>5. PICK j \in 0..(TokenCount(placed[k]) - 1) : placed[k].startToken + j = t
    BY <2>4
  <2>6. placed[c].startToken + n = placed[k].startToken + j
    BY <2>5 DEF t
  <2>7. c = k
    BY <2>6, OneChunkOfToken
  <2> QED BY <2>1, <2>7
<1>6. t - placed[c].startToken + 1 = n + 1
  BY <1>2
<1>7. PromptToken(t) = IF placed[d].kind = "text"
                       THEN <<"text", placed[d].tokens[t - placed[d].startToken + 1]>>
                       ELSE <<"image", d, t - placed[d].startToken + 1>>
  BY DEF PromptToken, In
<1> HIDE DEF d, t
<1>8. PromptToken(t) = IF placed[c].kind = "text" THEN <<"text", placed[c].tokens[n + 1]>>
                       ELSE <<"image", c, n + 1>>
  BY <1>5, <1>6, <1>7
<1> QED BY <1>8 DEF t, TokenRow

(* The rotary positions a chunk of the prefill brings. *)
ChunkPositions(start, n) ==
  IF WithImages THEN Slice(mrope, TotalTokens, start, n) ELSE Sequential(start, n)

(* For every token they are those of the whole prompt. *)
LEMMA PositionOfToken ==
  ASSUME PlanInv, pc = "prefill", NEW start \in Nat, NEW n \in Nat \ {0},
         start + n <= TotalTokens, NEW t \in 0..(n - 1),
         NEW c \in 1..Len(placed), NEW k \in 0..(TokenCount(placed[c]) - 1),
         start + t = placed[c].startToken + k, NEW s \in 1..4
  PROVE  Section(ChunkPositions(start, n), n, t)[s] = Position(placed[c], s - 1, k)
PROOF
<1>1. /\ Placing(placed, chunks) /\ Takes(chunks, Vision, request.messages)
      /\ TotalTokens \in Nat
  BY PromptLaidOut
<1>2. PICK r \in 0..3 : r = s - 1
  OBVIOUS
<1>3. PICK f : f = ChunkPositions(start, n)
  OBVIOUS
<1>4. Section(ChunkPositions(start, n), n, t)[s] = f[r * n + t]
  BY <1>2, <1>3 DEF Section
<1>5. /\ r * n + t \in 0..(4 * n - 1)
      /\ (r * n + t) \div n = r /\ (r * n + t) % n = t
  <2>1. 0 \in Nat /\ 0 + n <= n /\ n \in Nat \ {0} /\ t \in 0..(n - 1)
    OBVIOUS
  <2>2. /\ r * n + 0 + t \in 0..(4 * n - 1)
        /\ (r * n + 0 + t) \div n = r /\ (r * n + 0 + t) % n = 0 + t
    BY <2>1, PlaceInBuffer
  <2>3. PICK a \in Nat : a = r * n
    BY ProductMonotone
  <2>4. a + 0 + t = a + t /\ 0 + t = t
    BY <2>3
  <2> QED BY <2>2, <2>3, <2>4
<1>6. CASE WithImages
  <2>1. f[r * n + t] = mrope[r * TotalTokens + start + t]
    <3>1. f = [x \in 0..(4 * n - 1) |-> mrope[(x \div n) * TotalTokens + start + (x % n)]]
      BY <1>3, <1>6 DEF ChunkPositions, Slice
    <3>2. PICK x \in 0..(4 * n - 1) : x = r * n + t /\ x \div n = r /\ x % n = t
      BY <1>5
    <3> QED BY <3>1, <3>2
  <2>2. r * TotalTokens + start + t = r * TotalTokens + (placed[c].startToken + k)
    <3>1. PICK b \in Nat : b = r * TotalTokens
      BY <1>1, ProductMonotone
    <3>2. b + start + t = b + (start + t)
      BY <3>1
    <3> QED BY <3>1, <3>2
  <2>3. mrope[r * TotalTokens + (placed[c].startToken + k)] = Position(placed[c], r, k)
    BY <1>6, TokenPosition
  <2> QED BY <1>2, <1>4, <2>1, <2>2, <2>3
<1>7. CASE ~WithImages
  <2>1. f[r * n + t] = start + t
    <3>1. f = [x \in 0..(4 * n - 1) |-> start + (x % n)]
      BY <1>3, <1>7 DEF ChunkPositions, Sequential
    <3>2. PICK x \in 0..(4 * n - 1) : x = r * n + t /\ x % n = t
      BY <1>5
    <3> QED BY <3>1, <3>2
  <2>2. placed[c].kind = "text" /\ placed[c].startPosition = placed[c].startToken
    BY <1>1, <1>7, TextCounts DEF WithImages
  <2>3. Position(placed[c], r, k) = placed[c].startPosition + k
    BY <2>2 DEF Position
  <2> QED BY <1>2, <1>4, <2>1, <2>2, <2>3
<1> QED BY <1>6, <1>7

(* A chunk of the prefill is the next rows of the prompt. *)
LEMMA ChunkIsRows ==
  ASSUME PlanInv, pc = "prefill", NEW start \in Nat, NEW n \in Nat \ {0},
         start + n <= TotalTokens
  PROVE  ChunkRows(start, n) = RowsOf(PromptRows, 0, start, n)
PROOF
<1>1. /\ Placing(placed, chunks) /\ Takes(chunks, Vision, request.messages)
      /\ TotalTokens = TokensBefore(placed, Len(placed) + 1) /\ TotalTokens \in Nat
  BY PromptLaidOut
<1>2. RowsLaid(PromptRows, placed, Len(placed))
  BY PromptRowsLaid
<1>3. ASSUME NEW t \in 1..n
      PROVE  [token |-> PromptToken(start + t - 1),
              at |-> Section(ChunkPositions(start, n), n, t - 1)] = PromptRows[start + t]
  <2>1. PICK u \in 0..(n - 1) : u = t - 1 /\ start + t - 1 = start + u /\ start + t = start + u + 1
    OBVIOUS
  <2>2. start + u \in Nat /\ start + u < TotalTokens
    BY <1>1
  <2>3. PICK c \in 1..Len(placed), k \in Nat :
          k \in 0..(TokenCount(placed[c]) - 1) /\ start + u = placed[c].startToken + k
    <3>1. PICK v \in Nat : v = start + u
      BY <2>2
    <3>2. \E c \in 1..Len(placed) : \E k \in 0..(TokenCount(placed[c]) - 1) :
            v = placed[c].startToken + k
      BY <1>1, <2>2, <3>1, ChunkOfToken
    <3>3. PICK c \in 1..Len(placed) : \E k \in 0..(TokenCount(placed[c]) - 1) :
            v = placed[c].startToken + k
      BY <3>2
    <3>4. PICK k \in 0..(TokenCount(placed[c]) - 1) : v = placed[c].startToken + k
      BY <3>3
    <3>5. k \in Nat
      BY <1>1, <3>3, <3>4, ChunkEnds
    <3> QED BY <3>1, <3>3, <3>4, <3>5
  <2>4. PromptRows[placed[c].startToken + k + 1] = TokenRow(placed[c], c, k)
    <3>1. Len(placed) \in Nat
      BY <1>1, NextBegins
    <3> QED BY <1>2, <2>3 DEF RowsLaid
  <2>5. PromptToken(placed[c].startToken + k) = TokenRow(placed[c], c, k).token
    BY <1>1, <2>3, PromptTokenIs
  <2>6. ASSUME NEW s \in 1..4
        PROVE  Section(ChunkPositions(start, n), n, u)[s] = Position(placed[c], s - 1, k)
    BY <2>3, PositionOfToken
  <2>7. Section(ChunkPositions(start, n), n, u) = [s \in 1..4 |-> Position(placed[c], s - 1, k)]
    <3>1. PICK f : f = Section(ChunkPositions(start, n), n, u)
      OBVIOUS
    <3>2. f = [s \in 1..4 |-> f[s]]
      BY <3>1 DEF Section
    <3>3. \A s \in 1..4 : f[s] = Position(placed[c], s - 1, k)
      BY <2>6, <3>1
    <3> QED BY <3>1, <3>2, <3>3
  <2>8. TokenRow(placed[c], c, k) =
          [token |-> TokenRow(placed[c], c, k).token,
           at |-> [s \in 1..4 |-> Position(placed[c], s - 1, k)]]
    BY DEF TokenRow
  <2>9. placed[c].startToken + k + 1 = start + t
    <3>1. placed[c].startToken \in Nat
      BY <1>1, ChunkEnds
    <3> QED BY <2>1, <2>3, <3>1
  <2> QED BY <2>1, <2>3, <2>4, <2>5, <2>7, <2>8, <2>9
<1>4. ChunkRows(start, n) =
        [t \in 1..n |-> <<[token |-> PromptToken(start + t - 1),
                           at |-> Section(ChunkPositions(start, n), n, t - 1)]>>]
  BY DEF ChunkRows, ChunkPositions
<1>5. RowsOf(PromptRows, 0, start, n) = [t \in 1..n |-> <<PromptRows[start + t]>>]
  BY DEF RowsOf, RowOf
<1> QED BY <1>3, <1>4, <1>5

(* The prompt and the text so far. *)
TextSoFar == AppendText(PromptRows, generated)

(* One after the other, every token of the text at the next position. *)
LEMMA TextRows ==
  ASSUME PlanInv, pc \in {"upload", "prefill", "sample", "decode"},
         NEW tokens, tokens \in Seq(ToSet(tokens))
  PROVE  /\ AppendText(PromptRows, tokens) \in Seq(ToSet(AppendText(PromptRows, tokens)))
         /\ Len(AppendText(PromptRows, tokens)) = TotalTokens + Len(tokens)
         /\ \A i \in 1..TotalTokens : AppendText(PromptRows, tokens)[i] = PromptRows[i]
         /\ \A i \in 1..Len(tokens) : AppendText(PromptRows, tokens)[TotalTokens + i] =
              [token |-> <<"text", tokens[i]>>, at |-> [s \in 1..4 |-> Beyond(PromptRows) + i - 1]]
         /\ tokens = <<>> => AppendText(PromptRows, tokens) = PromptRows
PROOF
<1>1. /\ PromptRows \in Seq(ToSet(PromptRows)) /\ Len(PromptRows) = TotalTokens
      /\ TotalTokens \in Nat \ {0}
  BY PromptRowsLaid
<1>2. PICK n \in Nat : n = Len(tokens)
  OBVIOUS
<1> DEFINE row(i) == [token |-> <<"text", tokens[i]>>,
                      at |-> [s \in 1..4 |-> Beyond(PromptRows) + i - 1]]
           more == [i \in 1..n |-> row(i)]
<1>3. AppendText(PromptRows, tokens) = PromptRows \o more
  BY <1>2 DEF AppendText
<1> HIDE DEF row
<1>4. more \in Seq({more[i] : i \in 1..n}) /\ Len(more) = n /\ \A i \in 1..n : more[i] = row(i)
  <2>1. \A i \in 1..n : more[i] = row(i)
    OBVIOUS
  <2>2. more \in [1..n -> {more[i] : i \in 1..n}]
    OBVIOUS
  <2> HIDE DEF more
  <2>3. more \in Seq({more[i] : i \in 1..n})
    BY <2>2
  <2> QED BY <2>1, <2>2, <2>3
<1>5. more \in Seq(ToSet(more))
  BY <1>4, OwnElements
<1>6. tokens = <<>> => more = <<>>
  <2> SUFFICES ASSUME tokens = <<>> PROVE more = <<>>
    OBVIOUS
  <2>1. n = 0
    BY <1>2
  <2> QED BY <1>4, <2>1, EmptySeq
<1> HIDE DEF more
<1>7. Follows(PromptRows \o more, PromptRows, more)
  BY <1>1, <1>5, ConcatAny
<1>8. PICK text : text = AppendText(PromptRows, tokens)
  OBVIOUS
<1>9. /\ text \in Seq(ToSet(text)) /\ Len(text) = TotalTokens + n
      /\ \A i \in 1..TotalTokens : text[i] = PromptRows[i]
      /\ \A i \in 1..n : text[TotalTokens + i] = row(i)
      /\ more = <<>> => text = PromptRows
  BY <1>1, <1>3, <1>4, <1>7, <1>8 DEF Follows
<1> QED BY <1>2, <1>6, <1>8, <1>9 DEF row

(* They stay while the plan and the tokens do. *)
LEMMA TextStays ==
  ASSUME UNCHANGED chunks
  PROVE  PromptRows' = PromptRows
PROOF
<1>1. PromptRows = PromptUpTo(chunks)[Len(chunks)]
  BY DEF PromptRows, PromptUpTo
<1>2. PromptRows' = PromptUpTo(chunks')[Len(chunks')]
  BY DEF PromptRows, PromptUpTo
<1> QED BY <1>1, <1>2

(* The caches hold what all texts that begin alike have in common. *)
LEMMA HoldsSame ==
  ASSUME NEW memory, NEW config, NEW layer, NEW n \in Nat, NEW text, NEW longer,
         \A i \in 1..n : text[i] = longer[i], Holds(memory, config, layer, text, n)
  PROVE  Holds(memory, config, layer, longer, n)
PROOF
<1>1. ASSUME NEW p \in 0..n
      PROVE  First(text, p) = First(longer, p)
  BY DEF First
<1>2. ASSUME NEW p \in 1..n
      PROVE  RowOf(text, layer, p) = RowOf(longer, layer, p)
  BY <1>1 DEF RowOf
<1>3. CASE LayerKind(config, layer) = "linear"
  <2>1. StateHolds(memory, config, layer, text, n) /\ First(text, n) = First(longer, n)
    BY <1>1, <1>3 DEF Holds
  <2>2. StateHolds(memory, config, layer, longer, n)
    BY <2>1 DEF StateHolds
  <2> QED BY <1>3, <2>2 DEF Holds
<1>4. CASE LayerKind(config, layer) # "linear"
  <2>1. RowsHold(memory, config, layer, text, n)
    BY <1>4 DEF Holds
  <2>2. RowsHold(memory, config, layer, longer, n)
    BY <1>2, <2>1 DEF RowsHold
  <2> QED BY <1>4, <2>2 DEF Holds
<1> QED BY <1>3, <1>4

(* A configuration the weights were bound to counts its layers. *)
LEMMA ConfigNumbers ==
  ASSUME FilesInv, ServeInv, pc \in Planned
  PROVE  IsConfig(ConfigOf[read.bundle]) /\ ConfigOf[read.bundle].main > 0
PROOF
<1>1. read.bundle \in Files /\ IndexFits(read.index, ConfigOf[read.bundle])
  BY DEF FilesInv, IndexBound, ServeInv, BundleRead
<1>2. PICK id \in Files : id = read.bundle
  BY <1>1
<1>3. PICK index : WeightsBind(index, ConfigOf[id])
  BY <1>1, <1>2 DEF IndexFits
<1>4. ConfigOf[id].main \in Nat
  BY <1>3, MainNumber
<1>5. id \in DOMAIN File /\ ConfigOf[id] = Config(IndexOf[id])
      /\ IndexOf[id].metadata = File[id].metadata
  BY DEF ConfigOf, IndexOf, Index, Files
<1>6. ConfigOf[id].total = Meta(File[id].metadata, "block_count", 0)
  BY <1>5 DEF Config
<1>7. Meta(File[id].metadata, "block_count", 0) \in Int
  BY <1>5, FileAssumption
<1>8. /\ ConfigOf[id]["main"] > 0 /\ ConfigOf[id]["total"] > 0
      /\ ConfigOf[id].main <= ConfigOf[id].total
  BY <1>3 DEF WeightsBind, Positive
<1>9. PICK main \in Nat, total \in Int : main = ConfigOf[id].main /\ total = ConfigOf[id].total
  BY <1>4, <1>6, <1>7
<1>10. total \in Nat /\ main <= total /\ main > 0
  BY <1>8, <1>9
<1> QED BY <1>2, <1>9, <1>10 DEF IsConfig

(* Every main layer has run over the first n tokens of a text. *)
Cached(memory, config, text, n) ==
  /\ IsMemory(memory)
  /\ \A layer \in 0..(config.main - 1) : Holds(memory, config, layer, text, n)

(* What the caches hold at each point of a request, and where it goes on. *)
CallInv ==
  /\ pc \notin {"prefill", "sample", "decode"} => chunkStart = 0
  /\ pc = "upload" => Cached(cache, ConfigOf[read.bundle], TextSoFar, 0)
  /\ pc = "prefill" =>
       /\ chunkStart \in 0..(TotalTokens - 1)
       /\ Cached(cache, ConfigOf[read.bundle], TextSoFar, chunkStart)
  /\ pc = "sample" =>
       /\ Cached(cache, ConfigOf[read.bundle], TextSoFar, TotalTokens + Len(generated))
       /\ hidden = TextSoFar
       /\ nextMrope = Beyond(PromptRows) + Len(generated)
  /\ pc = "decode" =>
       /\ Cached(cache, ConfigOf[read.bundle], TextSoFar, TotalTokens + Len(generated) - 1)
       /\ nextMrope = Beyond(PromptRows) + Len(generated) - 1

(* Nothing is held at first. *)
LEMMA CallInit == Init => CallInv
BY DEF Init, CallInv

(* A return leaves nothing to hold. *)
LEMMA CallReturn ==
  ASSUME NEW with, Return(with)
  PROVE  CallInv'
BY DEF Return, CallInv

(* Before the caches are made there is nothing to hold. *)
LEMMA CallBegins ==
  ASSUME CallInv, pc \notin {"upload", "prefill", "sample", "decode"},
         pc' \notin {"upload", "prefill", "sample", "decode"}, chunkStart' = chunkStart
  PROVE  CallInv'
BY DEF CallInv

(* An empty cache is one of no tokens. *)
LEMMA EmptyIsCached ==
  ASSUME NEW config, IsConfig(config), NEW capacity, NEW text
  PROVE  Cached(EmptyCache(config, capacity), config, text, 0)
PROOF
<1>1. PICK memory : memory = EmptyCache(config, capacity)
  OBVIOUS
<1>2. PICK states : states = Cardinality(LayersOfKind(config, "linear"))
  OBVIOUS
<1>3. /\ IsMemory(memory)
      /\ memory.recurrent = [slot \in 0..(states - 1) |-> ZeroState]
  <2>1. PICK kv : memory = [capacity |-> capacity, kv |-> kv,
                            recurrent |-> [slot \in 0..(states - 1) |-> ZeroState]]
    BY <1>1, <1>2 DEF EmptyCache
  <2> QED BY <2>1 DEF IsMemory
<1>4. ASSUME NEW layer \in 0..(config.main - 1)
      PROVE  Holds(memory, config, layer, text, 0)
  <2>1. CASE LayerKind(config, layer) = "linear"
    <3>1. /\ StateOf(config, layer) \in Nat /\ states \in Nat
          /\ StateOf(config, layer) < states
      BY <1>2, <2>1, StatesDiffer DEF IsConfig
    <3>2. StateOf(config, layer) \in 0..(states - 1)
      BY <3>1
    <3>3. StateHolds(memory, config, layer, text, 0)
      BY <1>3, <3>2 DEF StateHolds
    <3> QED BY <2>1, <3>3 DEF Holds
  <2>2. CASE LayerKind(config, layer) # "linear"
    <3>1. RowsHold(memory, config, layer, text, 0)
      BY DEF RowsHold
    <3> QED BY <2>2, <3>1 DEF Holds
  <2> QED BY <2>1, <2>2
<1> QED BY <1>1, <1>3, <1>4 DEF Cached

(* The main layers run over the next tokens of a text. *)
LEMMA CachedRunsOn ==
  ASSUME NEW config, IsConfig(config), config.main > 0, NEW text,
         NEW n \in Nat, NEW m \in Nat \ {0},
         NEW memory, memory.capacity \in Nat, n + m <= memory.capacity,
         Cached(memory, config, text, n)
  PROVE  /\ Cached(MainLayers(memory, config, n, RowsOf(text, 0, n, m)).memory, config, text, n + m)
         /\ Last(MainLayers(memory, config, n, RowsOf(text, 0, n, m)).rows) = First(text, n + m)
BY LayersRunOn DEF Cached

(* What is cached for a text is cached for every text that goes on from it. *)
LEMMA CachedSame ==
  ASSUME NEW memory, NEW config, NEW n \in Nat, NEW text, NEW longer,
         \A i \in 1..n : text[i] = longer[i], Cached(memory, config, text, n)
  PROVE  Cached(memory, config, longer, n)
BY HoldsSame DEF Cached

(* The caches are made empty, and hold nothing until the weights are there. *)
LEMMA CallLaysOut ==
  ASSUME FilesInv, PlanInv, ServeInv, CallInv, LayOut \/ Upload
  PROVE  CallInv'
PROOF
<1> USE DEF envVars, planVars, runVars
<1>1. CASE LayOut
  <2> DEFINE config == ConfigOf[read.bundle]
  <2>1. pc = "place"
    BY <1>1 DEF LayOut
  <2>2. CASE Plannable(config, TotalTokens) /\ Allocatable(config)
    <3>1. /\ pc' = "upload" /\ read' = read /\ chunkStart' = chunkStart
          /\ cache' = EmptyCache(config, Capacity(TotalTokens, request.maxNewTokens))
      BY <1>1, <2>2 DEF LayOut
    <3>2. IsConfig(config)
      BY <2>1, ConfigNumbers DEF Planned
    <3>3. Cached(cache', config, TextSoFar', 0)
      BY <3>1, <3>2, EmptyIsCached
    <3> QED BY <2>1, <3>1, <3>3 DEF CallInv
  <2>3. CASE ~(Plannable(config, TotalTokens) /\ Allocatable(config))
    BY <1>1, <2>3, CallReturn DEF LayOut, Fail
  <2> QED BY <2>2, <2>3
<1>2. CASE Upload
  <2> DEFINE fits == /\ Mappable(IndexOf[read.index], File[disk.model])
                     /\ \A tensor \in ToSet(IndexOf[read.index].tensors) :
                          Uploadable(tensor, File[disk.model].size)
                     /\ RopeSections(ConfigOf[read.bundle])
  <2>1. CASE fits
    <3>1. /\ pc = "upload" /\ pc' = "prefill" /\ UNCHANGED <<planVars, runVars>>
          /\ read' = [read EXCEPT !.weights = disk.model]
      BY <1>2, <2>1 DEF Upload
    <3>2. read'.bundle = read.bundle
      BY <3>1 DEF FilesInv, FilesRead
    <3>3. TotalTokens' = TotalTokens /\ TotalTokens \in Nat \ {0}
      BY <3>1, PromptRowsLaid DEF TotalTokens
    <3>4. TextSoFar' = TextSoFar
      BY <3>1, TextStays DEF TextSoFar
    <3>5. chunkStart' = 0 /\ Cached(cache, ConfigOf[read.bundle], TextSoFar, 0)
      BY <3>1 DEF CallInv
    <3>6. 0 \in 0..(TotalTokens - 1)
      BY <3>3
    <3> QED BY <3>1, <3>2, <3>3, <3>4, <3>5, <3>6 DEF CallInv
  <2>2. CASE ~fits
    BY <1>2, <2>2, CallReturn DEF Upload, Fail
  <2> QED BY <2>1, <2>2
<1> QED BY <1>1, <1>2

(* The smaller of two numbers. *)
LEMMA SmallerOf ==
  ASSUME NEW a \in Nat, NEW b \in Nat
  PROVE  Min({a, b}) = IF a <= b THEN a ELSE b
PROOF
<1>1. {a, b} \subseteq Nat /\ {a, b} # {}
  OBVIOUS
<1>2. \E x \in {a, b} : \A y \in {a, b} : x <= y
  BY <1>1, LeastNumber
<1>3. Min({a, b}) \in {a, b} /\ \A y \in {a, b} : Min({a, b}) <= y
  BY <1>2 DEF Min
<1> QED BY <1>3

(* The next chunk of the prompt runs through the layers. *)
LEMMA CallPrefills ==
  ASSUME FilesInv, PlanInv, ServeInv, CallInv, PrefillChunk
  PROVE  CallInv'
PROOF
<1> USE DEF envVars, planVars, runVars
<1> DEFINE config == ConfigOf[read.bundle]
           index == IndexOf[read.index]
<1>1. pc = "prefill"
  BY DEF PrefillChunk
<1>2. CASE LayersRun(index, config) /\ TokensEmbed(index)
  <2>1. PICK n : n = Min({ChunkTokens, TotalTokens - chunkStart})
    OBVIOUS
  <2>2. PICK ran : /\ ran = MainLayers(cache, config, chunkStart, ChunkRows(chunkStart, n))
                   /\ cache' = ran.memory /\ hidden' = Last(ran.rows)
    BY <1>2, <2>1 DEF PrefillChunk
  <2>3. /\ chunkStart' = chunkStart + ChunkTokens
        /\ IF chunkStart + ChunkTokens >= TotalTokens
           THEN pc' = "sample" ELSE pc' = pc
        /\ UNCHANGED <<planVars, generated, read, nextMrope>>
    BY <1>2 DEF PrefillChunk
  <2>4. TotalTokens \in Nat \ {0}
    BY <1>1, PromptRowsLaid
  <2>5. chunkStart \in 0..(TotalTokens - 1) /\ Cached(cache, config, TextSoFar, chunkStart)
    BY <1>1 DEF CallInv
  <2>6. ChunkTokens \in Nat \ {0}
    <3>1. request.chunkTokens \in Nat
      BY RequestAssumption DEF FilesInv, FilesRead
    <3> QED BY <3>1 DEF ChunkTokens, DefaultChunkTokens
  <2>7. PICK left \in Nat \ {0} : left = TotalTokens - chunkStart
    BY <2>4, <2>5
  <2>8. /\ n \in Nat \ {0} /\ chunkStart + n <= TotalTokens /\ chunkStart \in Nat
        /\ IF chunkStart + ChunkTokens >= TotalTokens THEN chunkStart + n = TotalTokens
           ELSE n = ChunkTokens
    <3>1. n = IF ChunkTokens <= left THEN ChunkTokens ELSE left
      BY <2>1, <2>6, <2>7, SmallerOf
    <3>2. chunkStart \in Nat /\ chunkStart + left = TotalTokens
      BY <2>4, <2>5, <2>7
    <3> QED BY <2>4, <2>6, <3>1, <3>2
  <2>9. generated = <<>> /\ generated' = <<>>
    BY <1>1, <2>3 DEF ServeInv, Growing
  <2>10. /\ TextSoFar = PromptRows /\ TextSoFar \in Seq(ToSet(TextSoFar))
         /\ Len(TextSoFar) = TotalTokens
    <3>1. generated \in Seq(ToSet(generated)) /\ Len(generated) = 0
      BY <2>9
    <3>2. /\ TextSoFar \in Seq(ToSet(TextSoFar)) /\ Len(TextSoFar) = TotalTokens + Len(generated)
          /\ generated = <<>> => TextSoFar = PromptRows
      BY <1>1, <3>1, TextRows DEF TextSoFar
    <3> QED BY <2>4, <2>9, <3>1, <3>2
  <2>11. TextSoFar' = TextSoFar /\ TotalTokens' = TotalTokens /\ PromptRows' = PromptRows
    BY <2>3, TextStays DEF TextSoFar, TotalTokens
  <2>12. ChunkRows(chunkStart, n) = RowsOf(TextSoFar, 0, chunkStart, n)
    BY <1>1, <2>8, <2>10, ChunkIsRows
  <2>13. cache.capacity \in Nat /\ chunkStart + n <= cache.capacity
    <3>1. request.maxNewTokens \in Nat /\ cache.capacity = TotalTokens + request.maxNewTokens
      BY <1>1, RequestAssumption DEF FilesInv, FilesRead, ServeInv, Room
    <3> QED BY <2>4, <2>8, <3>1
  <2>14. IsConfig(config) /\ config.main > 0
    BY <1>1, ConfigNumbers DEF Planned
  <2>15. /\ Cached(cache', config, TextSoFar, chunkStart + n)
         /\ hidden' = First(TextSoFar, chunkStart + n)
    <3> HIDE DEF config
    <3>1. ran = MainLayers(cache, config, chunkStart, RowsOf(TextSoFar, 0, chunkStart, n))
      BY <2>2, <2>12
    <3>2. /\ Cached(ran.memory, config, TextSoFar, chunkStart + n)
          /\ Last(ran.rows) = First(TextSoFar, chunkStart + n)
      BY <2>5, <2>8, <2>13, <2>14, <3>1, CachedRunsOn
    <3> QED BY <2>2, <3>2
  <2>16. CASE chunkStart + ChunkTokens >= TotalTokens
    <3>1. pc' = "sample" /\ chunkStart + n = TotalTokens
      BY <2>3, <2>8, <2>16
    <3>2. hidden' = TextSoFar
      BY <2>10, <2>15, <3>1, FirstIsAll
    <3>3. Len(generated') = 0 /\ TotalTokens + 0 = TotalTokens
      BY <2>4, <2>9
    <3>4. Beyond(PromptRows) \in Nat /\ nextMrope = Beyond(PromptRows)
      BY <1>1, PromptRowsLaid DEF PlanInv, PromptPlaced
    <3>5. nextMrope' = Beyond(PromptRows) + Len(generated')
      BY <2>3, <3>3, <3>4
    <3>6. Cached(cache', config, TextSoFar, TotalTokens + Len(generated'))
      BY <2>15, <3>1, <3>3
    <3> QED BY <2>3, <2>11, <3>1, <3>2, <3>5, <3>6 DEF CallInv
  <2>17. CASE ~(chunkStart + ChunkTokens >= TotalTokens)
    <3>1. pc' = "prefill" /\ chunkStart' = chunkStart + n
      BY <1>1, <2>3, <2>8, <2>17
    <3>2. chunkStart' \in 0..(TotalTokens - 1)
      BY <2>3, <2>4, <2>6, <2>8, <2>17
    <3> QED BY <2>3, <2>11, <2>15, <3>1, <3>2 DEF CallInv
  <2> QED BY <2>16, <2>17
<1>3. CASE ~(LayersRun(index, config) /\ TokensEmbed(index))
  BY <1>3, CallReturn DEF PrefillChunk, Fail
<1> QED BY <1>2, <1>3

(* The text gets the token that was sampled. *)
LEMMA CallSamples ==
  ASSUME FilesInv, PlanInv, ServeInv, CallInv, Sample
  PROVE  CallInv'
PROOF
<1> USE DEF envVars, planVars, runVars
<1> DEFINE token == Selected
           text == Append(generated, token)
           goes == /\ HeadRuns(IndexOf[read.index]) /\ token \notin EosTokens
                   /\ ~(request.stream /\ ~Decodable(Tokens(IndexOf[read.index]), <<token>>))
                   /\ Len(text) # request.maxNewTokens
<1>1. pc = "sample"
  BY DEF Sample
<1>2. CASE ~goes
  <2>1. PICK with : Return(with)
    BY <1>2 DEF Sample, Finish, Fail
  <2> QED BY <2>1, CallReturn
<1>3. CASE goes
  <2>1. /\ generated' = text /\ pc' = "decode"
        /\ UNCHANGED <<read, planVars, cache, chunkStart, nextMrope>>
    BY <1>3 DEF Sample
  <2>2. generated \in Seq(ToSet(generated))
    BY DEF ServeInv, Growing
  <2>3. /\ text \in Seq(ToSet(text)) /\ Len(text) = Len(generated) + 1
        /\ \A i \in 1..Len(generated) : text[i] = generated[i]
    BY <2>2, AppendAny
  <2> HIDE DEF text, goes
  <2>4. PICK l \in Nat : l = Len(generated)
    BY <2>2
  <2>5. TotalTokens' = TotalTokens /\ PromptRows' = PromptRows /\ TotalTokens \in Nat
        /\ Beyond(PromptRows) \in Nat
    BY <1>1, <2>1, TextStays, PromptRowsLaid DEF TotalTokens
  <2>6. PICK now : now = AppendText(PromptRows, text)
    OBVIOUS
  <2>7. TextSoFar' = now
    BY <2>1, <2>5, <2>6 DEF TextSoFar
  <2>8. /\ \A i \in 1..TotalTokens : now[i] = PromptRows[i]
        /\ \A i \in 1..(l + 1) : now[TotalTokens + i] =
             [token |-> <<"text", text[i]>>, at |-> [s \in 1..4 |-> Beyond(PromptRows) + i - 1]]
    BY <1>1, <2>3, <2>4, <2>6, TextRows
  <2>9. /\ \A i \in 1..TotalTokens : TextSoFar[i] = PromptRows[i]
        /\ \A i \in 1..l : TextSoFar[TotalTokens + i] =
             [token |-> <<"text", generated[i]>>,
              at |-> [s \in 1..4 |-> Beyond(PromptRows) + i - 1]]
    BY <1>1, <2>2, <2>4, TextRows DEF TextSoFar
  <2>10. ASSUME NEW i \in 1..(TotalTokens + l)
         PROVE  TextSoFar[i] = now[i]
    <3>1. CASE i <= TotalTokens
      BY <2>5, <2>8, <2>9, <3>1
    <3>2. CASE i > TotalTokens
      <4>1. PICK k \in 1..l : i = TotalTokens + k
        BY <2>5, <3>2
      <4>2. k \in 1..(l + 1)
        OBVIOUS
      <4>3. text[k] = generated[k]
        BY <2>3, <2>4
      <4> QED BY <2>8, <2>9, <4>1, <4>2, <4>3
    <3> QED BY <2>5, <3>1, <3>2
  <2>11. /\ Cached(cache, ConfigOf[read.bundle], TextSoFar, TotalTokens + l)
         /\ nextMrope = Beyond(PromptRows) + l
    BY <1>1, <2>4 DEF CallInv
  <2>12. TotalTokens + l \in Nat
    BY <2>5
  <2>13. Cached(cache, ConfigOf[read.bundle], now, TotalTokens + l)
    BY <2>10, <2>11, <2>12, CachedSame
  <2>14. Len(text) = l + 1 /\ TotalTokens + (l + 1) - 1 = TotalTokens + l
         /\ Beyond(PromptRows) + (l + 1) - 1 = Beyond(PromptRows) + l
    BY <2>3, <2>4, <2>5
  <2>15. /\ Cached(cache', ConfigOf[read'.bundle], TextSoFar', TotalTokens' + Len(generated') - 1)
         /\ nextMrope' = Beyond(PromptRows') + Len(generated') - 1
    BY <2>1, <2>5, <2>7, <2>11, <2>13, <2>14
  <2> QED BY <2>1, <2>15 DEF CallInv
<1> QED BY <1>2, <1>3

(* A token of the text at a position, and its row of run_qwen35_decode_tokens. *)
TextToken(token, p) == [token |-> <<"text", token>>, at |-> [s \in 1..4 |-> p]]
(* The row run_qwen35_decode_tokens makes of a token, at position p. *)
DecodeRow(token, p) ==
  <<[token |-> <<"text", token>>, at |-> Section(Sequential(p, 1), 1, 0)]>>

(* The token that is decoded is the last of the text. *)
LEMMA DecodedRow ==
  ASSUME NEW token, NEW p \in Nat, NEW text, NEW n \in Nat, text[n + 1] = TextToken(token, p)
  PROVE  <<DecodeRow(token, p)>> = RowsOf(text, 0, n, 1)
PROOF
<1>1. PICK at : at = Section(Sequential(p, 1), 1, 0)
  OBVIOUS
<1>2. at = [s \in 1..4 |-> p]
  <2>1. ASSUME NEW s \in 1..4
        PROVE  Sequential(p, 1)[(s - 1) * 1 + 0] = p
    <3>1. PICK k \in 0..3 : k = s - 1
      OBVIOUS
    <3>2. k * 1 + 0 = k /\ k \in 0..(4 * 1 - 1) /\ k % 1 = 0 /\ p + 0 = p
      OBVIOUS
    <3> QED BY <3>1, <3>2 DEF Sequential
  <2> QED BY <1>1, <2>1 DEF Section
<1>3. PICK row : row = <<[token |-> <<"text", token>>, at |-> at]>>
  OBVIOUS
<1>4. row = RowOf(text, 0, n + 1)
  BY <1>2, <1>3 DEF RowOf, TextToken
<1>5. RowsOf(text, 0, n, 1) = [t \in 1..1 |-> RowOf(text, 0, n + t)]
  BY DEF RowsOf
<1>6. [t \in 1..1 |-> RowOf(text, 0, n + t)] = <<row>>
  BY <1>4
<1> QED BY <1>1, <1>3, <1>5, <1>6 DEF DecodeRow

(* The last token of the text runs through the layers. *)
LEMMA CallDecodes ==
  ASSUME FilesInv, PlanInv, ServeInv, CallInv, DecodeToken
  PROVE  CallInv'
PROOF
<1> USE DEF envVars, planVars, runVars
<1> DEFINE config == ConfigOf[read.bundle]
           row == <<[token |-> <<"text", Last(generated)>>,
                     at |-> Section(Sequential(nextMrope, 1), 1, 0)]>>
<1>1. pc = "decode"
  BY DEF DecodeToken
<1>2. CASE nextPosition < cache.capacity
  <2>1. PICK ran : /\ ran = MainLayers(cache, config, nextPosition, <<row>>)
                   /\ cache' = ran.memory /\ hidden' = Last(ran.rows)
    BY <1>2 DEF DecodeToken
  <2>2. /\ pc' = "sample" /\ nextMrope' = nextMrope + 1
        /\ UNCHANGED <<read, planVars, chunkStart, generated>>
    BY <1>2 DEF DecodeToken
  <2>3. /\ generated \in Seq(ToSet(generated)) /\ generated # <<>>
        /\ nextPosition = TotalTokens + Len(generated) - 1
    BY <1>1 DEF ServeInv, Growing
  <2>4. /\ Cached(cache, config, TextSoFar, TotalTokens + Len(generated) - 1)
        /\ nextMrope = Beyond(PromptRows) + Len(generated) - 1
    BY <1>1 DEF CallInv
  <2>5. PICK l \in Nat \ {0} : l = Len(generated)
    BY <2>3
  <2>6. TotalTokens \in Nat \ {0} /\ Beyond(PromptRows) \in Nat
    BY <1>1, PromptRowsLaid
  <2>7. PICK n \in Nat : n = TotalTokens + l - 1
    BY <2>6
  <2>8. PICK p \in Nat : p = Beyond(PromptRows) + l - 1
    BY <2>6
  <2>9. n = nextPosition /\ p = nextMrope /\ n + 1 = TotalTokens + l
    BY <2>3, <2>4, <2>5, <2>6, <2>7, <2>8
  <2>10. /\ TextSoFar \in Seq(ToSet(TextSoFar)) /\ Len(TextSoFar) = n + 1
         /\ TextSoFar[n + 1] = [token |-> <<"text", generated[l]>>, at |-> [s \in 1..4 |-> p]]
    <3>1. /\ TextSoFar \in Seq(ToSet(TextSoFar)) /\ Len(TextSoFar) = TotalTokens + l
          /\ \A i \in 1..l : TextSoFar[TotalTokens + i] =
               [token |-> <<"text", generated[i]>>,
                at |-> [s \in 1..4 |-> Beyond(PromptRows) + i - 1]]
      BY <1>1, <2>3, <2>5, TextRows DEF TextSoFar
    <3>2. l \in 1..l
      OBVIOUS
    <3> QED BY <2>8, <2>9, <3>1, <3>2
  <2>11. <<row>> = RowsOf(TextSoFar, 0, n, 1)
    <3>1. Last(generated) = generated[l]
      BY <2>5 DEF Last
    <3>2. PICK token : token = Last(generated)
      OBVIOUS
    <3>3. TextSoFar[n + 1] = TextToken(token, p)
      BY <2>10, <3>1, <3>2 DEF TextToken
    <3>4. <<DecodeRow(token, p)>> = RowsOf(TextSoFar, 0, n, 1)
      BY <3>3, DecodedRow
    <3> QED BY <2>9, <3>2, <3>4 DEF DecodeRow
  <2>12. cache.capacity \in Nat /\ n + 1 <= cache.capacity
    <3>1. request.maxNewTokens \in Nat /\ cache.capacity = TotalTokens + request.maxNewTokens
      BY <1>1, RequestAssumption DEF FilesInv, FilesRead, ServeInv, Room
    <3>2. cache.capacity \in Nat
      BY <2>6, <3>1
    <3> QED BY <1>2, <2>9, <3>2
  <2>13. IsConfig(config) /\ config.main > 0
    BY <1>1, ConfigNumbers DEF Planned
  <2>14. Cached(cache, config, TextSoFar, n)
    BY <2>4, <2>5, <2>7
  <2>15. /\ Cached(cache', config, TextSoFar, n + 1)
         /\ hidden' = First(TextSoFar, n + 1)
    <3> HIDE DEF config, row
    <3>1. ran = MainLayers(cache, config, n, RowsOf(TextSoFar, 0, n, 1))
      BY <2>1, <2>9, <2>11
    <3>2. 1 \in Nat \ {0}
      OBVIOUS
    <3>3. /\ Cached(ran.memory, config, TextSoFar, n + 1)
          /\ Last(ran.rows) = First(TextSoFar, n + 1)
      BY <2>12, <2>13, <2>14, <3>1, <3>2, CachedRunsOn
    <3> QED BY <2>1, <3>3
  <2>16. hidden' = TextSoFar
    BY <2>10, <2>15, FirstIsAll
  <2>17. TextSoFar' = TextSoFar /\ TotalTokens' = TotalTokens /\ PromptRows' = PromptRows
    BY <2>2, TextStays DEF TextSoFar, TotalTokens
  <2>18. nextMrope' = Beyond(PromptRows) + l
    BY <2>2, <2>6, <2>8, <2>9
  <2>19. Cached(cache', config, TextSoFar, TotalTokens + l)
    BY <2>9, <2>15
  <2> QED BY <2>2, <2>5, <2>16, <2>17, <2>18, <2>19 DEF CallInv
<1>3. CASE ~(nextPosition < cache.capacity)
  BY <1>3, CallReturn DEF DecodeToken, Fail
<1> QED BY <1>2, <1>3

(* Every step keeps what the caches hold. *)
LEMMA CallNext == FilesInv /\ PlanInv /\ ServeInv /\ CallInv /\ [Next]_vars => CallInv'
PROOF
<1> SUFFICES ASSUME FilesInv, PlanInv, ServeInv, CallInv, [Next]_vars PROVE CallInv'
  OBVIOUS
<1> USE DEF envVars, planVars, runVars
<1>1. CASE Ask
  <2>1. pc = "idle" /\ pc' \in {"gateway", "start"} /\ chunkStart' = chunkStart
    BY <1>1 DEF Ask
  <2> QED BY <2>1, CallBegins
<1>2. CASE Gateway \/ Start \/ LoadBundle \/ ReadIndex
  <2>1. /\ pc \in {"gateway", "start", "bundle", "index"}
        /\ \/ pc' \in {"start", "bundle", "index", "place"} /\ chunkStart' = chunkStart
           \/ \E with : Return(with)
    BY <1>2 DEF Gateway, Start, LoadBundle, ReadIndex, Fail
  <2> QED BY <2>1, CallBegins, CallReturn
<1>3. CASE PlaceText \/ EncodeInput \/ EncodeBlocks
  <2>1. /\ pc \in {"place", "blocks"}
        /\ \/ pc' \in {"place", "blocks"} /\ chunkStart' = chunkStart
           \/ \E with : Return(with)
    <3>1. CASE PlaceText \/ EncodeInput
      BY <1>3, <3>1 DEF PlaceText, EncodeInput, Place, Fail
    <3>2. CASE EncodeBlocks
      BY <1>3, <3>2 DEF EncodeBlocks, Place, Fail
    <3> QED BY <1>3, <3>1, <3>2
  <2> QED BY <2>1, CallBegins, CallReturn
<1>4. CASE LayOut \/ Upload
  BY <1>4, CallLaysOut
<1>5. CASE PrefillChunk
  BY <1>5, CallPrefills
<1>6. CASE Sample
  BY <1>6, CallSamples
<1>7. CASE DecodeToken
  BY <1>7, CallDecodes
<1>8. CASE Fault
  <2>1. PICK with : Return(with)
    BY <1>8 DEF Fault
  <2> QED BY <2>1, CallReturn
<1>9. CASE ReplaceFile \/ UNCHANGED vars
  <2>1. UNCHANGED <<pc, read, planVars, runVars, nextMrope>>
    BY <1>9 DEF ReplaceFile, vars
  <2>2. TextSoFar' = TextSoFar /\ TotalTokens' = TotalTokens /\ PromptRows' = PromptRows
    BY <2>1, TextStays DEF TextSoFar, TotalTokens
  <2> QED BY <2>1, <2>2 DEF CallInv
<1> QED
  BY <1>1, <1>2, <1>3, <1>4, <1>5, <1>6, <1>7, <1>8, <1>9 DEF Next

(* For any files, images, chats and chunks: a token is sampled from a state *)
(* of every token of the prompt and of the text so far, in order, each at   *)
(* the position after all positions before it.                              *)
THEOREM SampledStatesAreRight == Spec => []SampledStateIsOfThisPrompt
PROOF
<1>1. CallInv => SampledStateIsOfThisPrompt
  BY DEF CallInv, SampledStateIsOfThisPrompt, TextSoFar
<1>2. Spec => [](ServeInv /\ CallInv)
  BY PlanAlways, ServeInit, ServeNext, CallInit, CallNext, PTL DEF Spec
<1> QED BY <1>1, <1>2, PTL

=============================================================================
