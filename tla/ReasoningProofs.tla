--------------------------- MODULE ReasoningProofs ---------------------------
(***************************************************************************)
(* For any tags, texts and chunks: between two pushes the parser withholds *)
(* nothing but the beginning of a tag, and the text of one thought reaches *)
(* the client as the batch split divides it.  Whatever the parser holds or *)
(* sends is a segment SubSeq(text, k, m) of the text, so the proofs reason *)
(* about places in the text.                                               *)
(***************************************************************************)
EXTENDS ReasoningStream, FiniteSetTheorems, SequenceTheorems,
        WellFoundedInduction, TLAPS

(* A set of numbers has a least element. *)
LEMMA LeastPlace ==
  ASSUME NEW T, T \subseteq Nat, T # {}
  PROVE  Min(T) \in T /\ \A y \in T : Min(T) <= y
PROOF
<1> DEFINE R == {p \in Nat \X Nat : p[1] < p[2]}
<1>1. IsWellFoundedOn(R, Nat)
  BY NatLessThanWellFounded DEF OpToRel
<1>2. PICK x \in T : \A y \in T : ~(<<y, x>> \in R)
  <2> HIDE DEF R
  <2> QED BY <1>1, WFMin
<1>3. ASSUME NEW y \in T PROVE x <= y
  <2>1. x \in Nat /\ y \in Nat /\ <<y, x>> \notin R
    BY <1>2
  <2>2. <<y, x>> \in Nat \X Nat /\ <<y, x>>[1] = y /\ <<y, x>>[2] = x
    BY <2>1
  <2>3. ~(y < x)
    BY <2>1, <2>2
  <2> QED BY <2>1, <2>3
<1>4. \E z \in T : \A y \in T : z <= y
  BY <1>3
<1> QED BY <1>4 DEF Min

(* A bounded set of numbers has a greatest element. *)
LEMMA GreatestPlace ==
  ASSUME NEW n \in Nat, NEW T, T \subseteq 0..n, T # {}
  PROVE  Max(T) \in T /\ \A y \in T : y <= Max(T)
PROOF
<1> DEFINE D == {n - y : y \in T}
<1>1. D \subseteq Nat /\ D # {}
  <2>1. PICK y \in T : TRUE
    OBVIOUS
  <2>2. n - y \in D
    BY <2>1
  <2>3. \A x \in 0..n : n - x \in Nat
    OBVIOUS
  <2> QED BY <2>2, <2>3
<1>2. Min(D) \in D /\ \A y \in D : Min(D) <= y
  <2> HIDE DEF D
  <2> QED BY <1>1, LeastPlace
<1>3. PICK x \in T : Min(D) = n - x
  BY <1>2
<1>4. ASSUME NEW y \in T PROVE y <= x
  <2>1. n - y \in D
    OBVIOUS
  <2>2. n - x <= n - y
    BY <1>2, <1>3, <2>1
  <2> QED BY <2>2
<1>5. \E z \in T : \A y \in T : z >= y
  BY <1>4
<1>6. Max(T) \in T /\ \A y \in T : Max(T) >= y
  BY <1>5 DEF Max
<1> QED BY <1>6

-----------------------------------------------------------------------------
(* Segments of a text, what they hold and how they are joined and cut. *)
LEMMA Segment ==
  ASSUME NEW s \in Seq(Character), NEW k \in Nat \ {0}, NEW m \in Nat,
         k <= m + 1, m <= Len(s)
  PROVE  /\ SubSeq(s, k, m) \in Seq(Character)
         /\ Len(SubSeq(s, k, m)) = m - k + 1
         /\ \A i \in 1..(m - k + 1) : SubSeq(s, k, m)[i] = s[k + i - 1]
PROOF
<1>1. /\ Len(s) \in Nat
      /\ \A i \in k..m : s[i] \in Character
  BY LenProperties, ElementOfSeq
<1>2. k \in Int /\ m \in Int
  OBVIOUS
<1> QED BY <1>1, <1>2, SubSeqProperties

(* A segment of a segment is one of the text. *)
LEMMA SegmentOfSegment ==
  ASSUME NEW s \in Seq(Character), NEW k \in Nat \ {0}, NEW m \in Nat,
         k <= m + 1, m <= Len(s),
         NEW i \in Nat \ {0}, NEW j \in Nat, i <= j + 1, j <= m - k + 1
  PROVE  SubSeq(SubSeq(s, k, m), i, j) = SubSeq(s, k + i - 1, k + j - 1)
PROOF
<1> DEFINE t == SubSeq(s, k, m)
<1>1. /\ t \in Seq(Character) /\ Len(t) = m - k + 1
      /\ \A n \in 1..(m - k + 1) : t[n] = s[k + n - 1]
  BY Segment
<1>2. /\ SubSeq(t, i, j) \in Seq(Character)
      /\ Len(SubSeq(t, i, j)) = j - i + 1
      /\ \A n \in 1..(j - i + 1) : SubSeq(t, i, j)[n] = t[i + n - 1]
  <2> HIDE DEF t
  <2> QED BY <1>1, Segment
<1> DEFINE u == SubSeq(s, k + i - 1, k + j - 1)
<1>3. /\ u \in Seq(Character)
      /\ Len(u) = j - i + 1
      /\ \A n \in 1..(j - i + 1) : u[n] = s[(k + i - 1) + n - 1]
  <2>1. PICK a \in Nat \ {0}, b \in Nat : a = k + i - 1 /\ b = k + j - 1
    OBVIOUS
  <2>2. a <= b + 1 /\ b <= Len(s) /\ b - a + 1 = j - i + 1
    BY <2>1, LenProperties
  <2>3. /\ SubSeq(s, a, b) \in Seq(Character)
        /\ Len(SubSeq(s, a, b)) = b - a + 1
        /\ \A n \in 1..(b - a + 1) : SubSeq(s, a, b)[n] = s[a + n - 1]
    BY <2>2, Segment
  <2> QED BY <2>1, <2>2, <2>3
<1>4. ASSUME NEW n \in 1..(j - i + 1) PROVE SubSeq(t, i, j)[n] = u[n]
  <2>1. i + n - 1 \in 1..(m - k + 1)
    OBVIOUS
  <2>2. t[i + n - 1] = s[k + (i + n - 1) - 1]
    BY <1>1, <2>1
  <2>3. k + (i + n - 1) - 1 = (k + i - 1) + n - 1
    OBVIOUS
  <2> HIDE DEF t, u
  <2> QED BY <1>2, <1>3, <2>2, <2>3
<1> HIDE DEF t, u
<1>5. SubSeq(t, i, j) = u
  BY <1>2, <1>3, <1>4, SeqEqual
<1> QED BY <1>5 DEF t, u

(* Adjacent segments are joined. *)
LEMMA Joined ==
  ASSUME NEW s \in Seq(Character), NEW k \in Nat \ {0}, NEW m \in Nat, NEW n \in Nat,
         k <= m + 1, m <= n, n <= Len(s)
  PROVE  SubSeq(s, k, m) \o SubSeq(s, m + 1, n) = SubSeq(s, k, n)
PROOF
<1>1. k \in 1..(Len(s) + 1) /\ m \in (k - 1)..Len(s) /\ n \in m..Len(s)
  BY LenProperties
<1> QED BY <1>1, ConcatAdjacentSubSeq

(* Nothing is the empty segment, at any place. *)
LEMMA Nil ==
  ASSUME NEW s \in Seq(Character), NEW k \in Nat \ {0}, NEW m \in Nat,
         k <= m + 1, m <= Len(s)
  PROVE  SubSeq(s, k, m) = <<>> <=> k = m + 1
PROOF
<1>1. CASE k = m + 1
  <2>1. SubSeq(s, k, m) = <<>>
    BY <1>1, SubSeqEmpty
  <2> QED BY <1>1, <2>1
<1>2. CASE k # m + 1
  <2>1. Len(SubSeq(s, k, m)) = m - k + 1 /\ m - k + 1 > 0
    BY <1>2, Segment
  <2>2. Len(<<>>) = 0
    BY EmptySeq
  <2> QED BY <1>2, <2>1, <2>2
<1> QED BY <1>1, <1>2

-----------------------------------------------------------------------------
(* The operators on texts, by the places they cut a segment at.  First the *)
(* newlines at its begin and at its end.                                   *)
LEMMA SkipsTo ==
  ASSUME NEW s \in Seq(Character), NEW k \in Nat \ {0}, NEW m \in Nat,
         k <= m + 1, m <= Len(s)
  PROVE  \E b \in k..(m + 1) :
           /\ LeadingNewlines(SubSeq(s, k, m)) = b - k
           /\ SkipNewlines(SubSeq(s, k, m)) = SubSeq(s, b, m)
           /\ \A i \in k..(b - 1) : s[i] \in Newline
           /\ b <= m => s[b] \notin Newline
PROOF
<1> PICK t \in Seq(Character) : t = SubSeq(s, k, m)
  BY Segment
<1>1. /\ Len(t) = m - k + 1 /\ Len(t) \in Nat
      /\ \A n \in 1..(m - k + 1) : t[n] = s[k + n - 1]
  BY Segment
<1> PICK I : I = {i \in 1..Len(t) : t[i] \notin Newline}
  OBVIOUS
<1>2. LeadingNewlines(t) = IF (IF I # {} THEN Min(I) ELSE 0) = 0
                           THEN Len(t) ELSE (IF I # {} THEN Min(I) ELSE 0) - 1
  BY DEF LeadingNewlines, SelectInSeq
<1>3. \E l \in 0..Len(t) : /\ LeadingNewlines(t) = l
                           /\ \A i \in 1..l : t[i] \in Newline
                           /\ l < Len(t) => t[l + 1] \notin Newline
  <2>1. CASE I = {}
    <3>1. LeadingNewlines(t) = Len(t)
      BY <1>2, <2>1
    <3>2. \A i \in 1..Len(t) : t[i] \in Newline
      BY <2>1
    <3>3. Len(t) \in 0..Len(t) /\ ~(Len(t) < Len(t))
      BY <1>1
    <3> QED BY <3>1, <3>2, <3>3
  <2>2. CASE I # {}
    <3>1. Min(I) \in I /\ \A y \in I : Min(I) <= y
      <4>1. I \subseteq Nat
        OBVIOUS
      <4> QED BY <2>2, <4>1, LeastPlace
    <3>2. PICK f : f = Min(I)
      OBVIOUS
    <3>3. f \in 1..Len(t) /\ t[f] \notin Newline /\ \A y \in I : f <= y
      BY <3>1, <3>2
    <3>4. LeadingNewlines(t) = f - 1
      <4>1. f # 0
        BY <3>3
      <4> QED BY <1>2, <2>2, <3>2, <4>1
    <3>5. \A i \in 1..(f - 1) : t[i] \in Newline
      BY <1>1, <3>3
    <3>6. f - 1 \in 0..Len(t) /\ (f - 1) + 1 = f
      BY <1>1, <3>3
    <3> QED BY <3>3, <3>4, <3>5, <3>6
  <2> QED BY <2>1, <2>2
<1>4. PICK l \in 0..Len(t) : /\ LeadingNewlines(t) = l
                             /\ \A i \in 1..l : t[i] \in Newline
                             /\ l < Len(t) => t[l + 1] \notin Newline
  BY <1>3
<1>5. PICK b \in k..(m + 1) : b = k + l
  BY <1>1, <1>4
<1>6. SkipNewlines(t) = SubSeq(s, b, m)
  <2>1. SkipNewlines(t) = SubSeq(t, l + 1, Len(t))
    BY <1>4 DEF SkipNewlines, From
  <2>2. SubSeq(SubSeq(s, k, m), l + 1, m - k + 1)
          = SubSeq(s, k + (l + 1) - 1, k + (m - k + 1) - 1)
    <3>1. l + 1 \in Nat \ {0} /\ m - k + 1 \in Nat /\ l + 1 <= (m - k + 1) + 1
      BY <1>1, <1>4
    <3> QED BY <3>1, SegmentOfSegment
  <2>3. k + (l + 1) - 1 = b /\ k + (m - k + 1) - 1 = m
    BY <1>5
  <2> QED BY <1>1, <2>1, <2>2, <2>3
<1>7. LeadingNewlines(t) = b - k
  BY <1>4, <1>5
<1>8. ASSUME NEW i \in k..(b - 1) PROVE s[i] \in Newline
  <2>1. PICK n \in 1..l : i = k + n - 1
    <3>1. i - k + 1 \in 1..l /\ i = k + (i - k + 1) - 1
      BY <1>5
    <3> QED BY <3>1
  <2>2. t[n] = s[k + n - 1]
    BY <1>1
  <2> QED BY <1>4, <2>1, <2>2
<1>9. ASSUME b <= m PROVE s[b] \notin Newline
  <2>1. l < Len(t) /\ l + 1 \in 1..(m - k + 1) /\ k + (l + 1) - 1 = b
    BY <1>1, <1>5, <1>9
  <2>2. t[l + 1] = s[k + (l + 1) - 1]
    BY <1>1, <2>1
  <2> QED BY <1>4, <2>1, <2>2
<1> QED BY <1>6, <1>7, <1>8, <1>9

(* The trimmed segment ends at its last place that holds no newline. *)
LEMMA TrimsTo ==
  ASSUME NEW s \in Seq(Character), NEW k \in Nat \ {0}, NEW m \in Nat,
         k <= m + 1, m <= Len(s)
  PROVE  \E e \in (k - 1)..m :
           /\ TrailingNewlines(SubSeq(s, k, m)) = m - e
           /\ TrimNewlines(SubSeq(s, k, m)) = SubSeq(s, k, e)
           /\ \A i \in (e + 1)..m : s[i] \in Newline
           /\ e >= k => s[e] \notin Newline
PROOF
<1> PICK t \in Seq(Character) : t = SubSeq(s, k, m)
  BY Segment
<1>1. /\ Len(t) = m - k + 1 /\ Len(t) \in Nat
      /\ \A n \in 1..(m - k + 1) : t[n] = s[k + n - 1]
  BY Segment
<1> PICK I : I = {i \in 1..Len(t) : t[i] \notin Newline}
  OBVIOUS
<1>2. TrailingNewlines(t) = Len(t) - (IF I # {} THEN Max(I) ELSE 0)
  BY DEF TrailingNewlines, SelectLastInSeq
<1>3. \E l \in 0..Len(t) : /\ TrailingNewlines(t) = Len(t) - l
                           /\ \A i \in (l + 1)..Len(t) : t[i] \in Newline
                           /\ l > 0 => t[l] \notin Newline
  <2>1. CASE I = {}
    <3>1. TrailingNewlines(t) = Len(t) - 0
      BY <1>2, <2>1
    <3>2. \A i \in 1..Len(t) : t[i] \in Newline
      BY <2>1
    <3>3. 0 \in 0..Len(t) /\ 0 + 1 = 1 /\ ~(0 > 0)
      BY <1>1
    <3> QED BY <3>1, <3>2, <3>3
  <2>2. CASE I # {}
    <3>1. Max(I) \in I /\ \A y \in I : y <= Max(I)
      <4>1. I \subseteq 0..Len(t)
        OBVIOUS
      <4> QED BY <1>1, <2>2, <4>1, GreatestPlace
    <3>2. PICK f : f = Max(I)
      OBVIOUS
    <3>3. f \in 1..Len(t) /\ t[f] \notin Newline /\ \A y \in I : y <= f
      BY <3>1, <3>2
    <3>4. TrailingNewlines(t) = Len(t) - f
      BY <1>2, <2>2, <3>2
    <3>5. \A i \in (f + 1)..Len(t) : t[i] \in Newline
      BY <1>1, <3>3
    <3>6. f \in 0..Len(t)
      BY <1>1, <3>3
    <3> QED BY <3>3, <3>4, <3>5, <3>6
  <2> QED BY <2>1, <2>2
<1>4. PICK l \in 0..Len(t) : /\ TrailingNewlines(t) = Len(t) - l
                             /\ \A i \in (l + 1)..Len(t) : t[i] \in Newline
                             /\ l > 0 => t[l] \notin Newline
  BY <1>3
<1>5. PICK e \in (k - 1)..m : e = k + l - 1
  BY <1>1, <1>4
<1>6. TrimNewlines(t) = SubSeq(s, k, e)
  <2>1. Len(t) - TrailingNewlines(t) = l
    BY <1>1, <1>4
  <2>2. TrimNewlines(t) = SubSeq(t, 1, l)
    BY <2>1 DEF TrimNewlines, Upto
  <2>3. SubSeq(SubSeq(s, k, m), 1, l) = SubSeq(s, k + 1 - 1, k + l - 1)
    <3>1. 1 \in Nat \ {0} /\ l \in Nat /\ 1 <= l + 1 /\ l <= m - k + 1
      BY <1>1, <1>4
    <3> QED BY <3>1, SegmentOfSegment
  <2>4. k + 1 - 1 = k
    OBVIOUS
  <2> QED BY <1>5, <2>2, <2>3, <2>4
<1>7. TrailingNewlines(t) = m - e
  BY <1>1, <1>4, <1>5
<1>8. ASSUME NEW i \in (e + 1)..m PROVE s[i] \in Newline
  <2>1. PICK n \in (l + 1)..Len(t) : i = k + n - 1
    <3>1. i - k + 1 \in (l + 1)..Len(t) /\ i = k + (i - k + 1) - 1
      BY <1>1, <1>5
    <3> QED BY <3>1
  <2>2. t[n] = s[k + n - 1]
    BY <1>1
  <2> QED BY <1>4, <2>1, <2>2
<1>9. ASSUME e >= k PROVE s[e] \notin Newline
  <2>1. l > 0 /\ l \in 1..(m - k + 1)
    BY <1>1, <1>5, <1>9
  <2>2. t[l] = s[k + l - 1]
    BY <1>1, <2>1
  <2> QED BY <1>4, <1>5, <2>1, <2>2
<1> QED BY <1>6, <1>7, <1>8, <1>9

(* The places are determined by what they separate. *)
LEMMA SkipIsUnique ==
  ASSUME NEW s \in Seq(Character), NEW k \in Nat \ {0}, NEW m \in Nat,
         k <= m + 1, m <= Len(s), NEW b \in k..(m + 1),
         \A i \in k..(b - 1) : s[i] \in Newline,
         b <= m => s[b] \notin Newline
  PROVE  SkipNewlines(SubSeq(s, k, m)) = SubSeq(s, b, m)
PROOF
<1>1. PICK c \in k..(m + 1) :
        /\ SkipNewlines(SubSeq(s, k, m)) = SubSeq(s, c, m)
        /\ \A i \in k..(c - 1) : s[i] \in Newline
        /\ c <= m => s[c] \notin Newline
  BY SkipsTo
<1>2. ~(b < c)
  BY <1>1
<1>3. ~(c < b)
  BY <1>1
<1>4. b = c
  BY <1>2, <1>3
<1> QED BY <1>1, <1>4

(* That place is the only one with newlines behind it and none at it. *)
LEMMA TrimIsUnique ==
  ASSUME NEW s \in Seq(Character), NEW k \in Nat \ {0}, NEW m \in Nat,
         k <= m + 1, m <= Len(s), NEW e \in (k - 1)..m,
         \A i \in (e + 1)..m : s[i] \in Newline,
         e >= k => s[e] \notin Newline
  PROVE  TrimNewlines(SubSeq(s, k, m)) = SubSeq(s, k, e)
PROOF
<1>1. PICK c \in (k - 1)..m :
        /\ TrimNewlines(SubSeq(s, k, m)) = SubSeq(s, k, c)
        /\ \A i \in (c + 1)..m : s[i] \in Newline
        /\ c >= k => s[c] \notin Newline
  BY TrimsTo
<1>2. ~(e < c)
  BY <1>1
<1>3. ~(c < e)
  BY <1>1
<1>4. e = c
  BY <1>2, <1>3
<1> QED BY <1>1, <1>4

-----------------------------------------------------------------------------
(* Tags: where one occurs in a segment it occurs in the text. *)
Tags == Seq(Character) \ {<<>>}

(* A tag occurs in a segment where it occurs in the text and fits. *)
LEMMA OccursAt ==
  ASSUME NEW s \in Seq(Character), NEW k \in Nat \ {0}, NEW m \in Nat,
         k <= m + 1, m <= Len(s), NEW tag \in Tags, NEW i \in Nat \ {0}
  PROVE  i \in Occurrences(SubSeq(s, k, m), tag)
           <=> k + i - 1 \in Occurrences(s, tag) /\ k + i - 1 + Len(tag) - 1 <= m
PROOF
<1>1. Len(tag) \in Nat \ {0} /\ Len(s) \in Nat
  BY EmptySeq, LenProperties DEF Tags
<1> PICK t \in Seq(Character) : t = SubSeq(s, k, m)
  BY Segment
<1>2. Len(t) = m - k + 1
  BY Segment
<1>3. CASE i + Len(tag) <= m - k + 2
  <2>1. SubSeq(SubSeq(s, k, m), i, i + Len(tag) - 1)
          = SubSeq(s, k + i - 1, k + (i + Len(tag) - 1) - 1)
    <3> i + Len(tag) - 1 \in Nat
      BY <1>1
    <3>1. PICK j \in Nat : j = i + Len(tag) - 1
      OBVIOUS
    <3>2. i <= j + 1 /\ j <= m - k + 1
      BY <1>1, <1>3, <3>1
    <3> QED BY <3>1, <3>2, SegmentOfSegment
  <2>2. k + (i + Len(tag) - 1) - 1 = k + i - 1 + Len(tag) - 1
    BY <1>1
  <2>3. /\ i \in 1..(Len(t) + 1 - Len(tag))
        /\ k + i - 1 \in 1..(Len(s) + 1 - Len(tag))
        /\ k + i - 1 + Len(tag) - 1 <= m
    BY <1>1, <1>2, <1>3
  <2> QED BY <2>1, <2>2, <2>3 DEF Occurrences
<1>4. CASE ~(i + Len(tag) <= m - k + 2)
  <2>1. /\ i \notin 1..(Len(t) + 1 - Len(tag))
        /\ ~(k + i - 1 + Len(tag) - 1 <= m)
    BY <1>1, <1>2, <1>4
  <2> QED BY <2>1 DEF Occurrences
<1> QED BY <1>3, <1>4

(* The first place where the segment has the tag, which divides it.       *)
FirstPlace(s, k, m, tag, f) ==
  /\ f \in k..m
  /\ f \in Occurrences(s, tag)
  /\ f + Len(tag) - 1 <= m
  /\ \A g \in Occurrences(s, tag) : g >= k => f <= g
  /\ Before(SubSeq(s, k, m), tag) = SubSeq(s, k, f - 1)
  /\ After(SubSeq(s, k, m), tag) = SubSeq(s, f + Len(tag), m)

(* A tag that is found is found at such a place. *)
LEMMA FindsAt ==
  ASSUME NEW s \in Seq(Character), NEW k \in Nat \ {0}, NEW m \in Nat,
         k <= m + 1, m <= Len(s), NEW tag \in Tags,
         Occurrences(SubSeq(s, k, m), tag) # {}
  PROVE  \E f : FirstPlace(s, k, m, tag, f)
PROOF
<1>1. Len(tag) \in Nat \ {0} /\ Len(s) \in Nat
  BY EmptySeq, LenProperties DEF Tags
<1> PICK t \in Seq(Character) : t = SubSeq(s, k, m)
  BY Segment
<1>2. Len(t) = m - k + 1
  BY Segment
<1>3. Occurrences(t, tag) \subseteq Nat \ {0} /\ Occurrences(t, tag) \subseteq Nat
  BY DEF Occurrences
<1>4. /\ Min(Occurrences(t, tag)) \in Occurrences(t, tag)
      /\ \A y \in Occurrences(t, tag) : Min(Occurrences(t, tag)) <= y
  BY <1>3, LeastPlace
<1>5. PICK i \in Nat \ {0} : i = Min(Occurrences(t, tag))
  BY <1>3, <1>4
<1>6. PICK f \in Nat \ {0} : f = k + i - 1
  OBVIOUS
<1>7. f \in Occurrences(s, tag) /\ f + Len(tag) - 1 <= m
  BY <1>4, <1>5, <1>6, OccursAt
<1>8. f \in k..m
  BY <1>1, <1>6, <1>7
<1>9. ASSUME NEW g \in Occurrences(s, tag), g >= k PROVE f <= g
  <2>1. g \in Nat \ {0}
    BY DEF Occurrences
  <2>2. CASE g + Len(tag) - 1 <= m
    <3>1. PICK j \in Nat \ {0} : g = k + j - 1
      <4>1. g - k + 1 \in Nat \ {0} /\ g = k + (g - k + 1) - 1
        BY <1>9, <2>1
      <4> QED BY <4>1
    <3>2. j \in Occurrences(t, tag)
      BY <2>2, <3>1, OccursAt
    <3>3. i <= j
      BY <1>4, <1>5, <3>2
    <3> QED BY <1>6, <3>1, <3>3
  <2>3. CASE ~(g + Len(tag) - 1 <= m)
    BY <1>1, <1>7, <2>1, <2>3
  <2> QED BY <2>2, <2>3
<1>10. Before(t, tag) = SubSeq(s, k, f - 1)
  <2>1. Before(t, tag) = SubSeq(t, 1, i - 1)
    BY <1>5 DEF Before, Upto
  <2>2. PICK j \in Nat : j = i - 1
    OBVIOUS
  <2>3. SubSeq(SubSeq(s, k, m), 1, j) = SubSeq(s, k + 1 - 1, k + j - 1)
    <3>1. 1 \in Nat \ {0} /\ 1 <= j + 1 /\ j <= m - k + 1
      BY <1>1, <1>6, <1>8, <2>2
    <3> QED BY <3>1, SegmentOfSegment
  <2>4. k + 1 - 1 = k /\ k + j - 1 = f - 1
    BY <1>6, <2>2
  <2> QED BY <2>1, <2>2, <2>3, <2>4
<1>11. After(t, tag) = SubSeq(s, f + Len(tag), m)
  <2>1. After(t, tag) = SubSeq(t, i + Len(tag), Len(t))
    BY <1>5 DEF After, From
  <2>2. PICK a \in Nat \ {0}, b \in Nat : a = i + Len(tag) /\ b = m - k + 1
    BY <1>1
  <2>3. SubSeq(SubSeq(s, k, m), a, b) = SubSeq(s, k + a - 1, k + b - 1)
    <3>1. a <= b + 1 /\ b <= m - k + 1
      BY <1>1, <1>6, <1>7, <2>2
    <3> QED BY <3>1, SegmentOfSegment
  <2>4. k + a - 1 = f + Len(tag) /\ k + b - 1 = m
    BY <1>1, <1>6, <2>2
  <2> QED BY <1>2, <2>1, <2>2, <2>3, <2>4
<1> QED BY <1>7, <1>8, <1>9, <1>10, <1>11 DEF FirstPlace

(* A tag that is not found may begin in the segment but ends after it. *)
LEMMA FindsNothing ==
  ASSUME NEW s \in Seq(Character), NEW k \in Nat \ {0}, NEW m \in Nat,
         k <= m + 1, m <= Len(s), NEW tag \in Tags,
         Occurrences(SubSeq(s, k, m), tag) = {},
         NEW g \in Occurrences(s, tag), g >= k
  PROVE  g + Len(tag) - 1 > m
PROOF
<1>1. g \in Nat \ {0} /\ Len(tag) \in Nat
  BY LenProperties DEF Occurrences, Tags
<1>2. PICK j \in Nat \ {0} : g = k + j - 1
  <2>1. g - k + 1 \in Nat \ {0} /\ g = k + (g - k + 1) - 1
    BY <1>1
  <2> QED BY <2>1
<1>3. ~(k + j - 1 + Len(tag) - 1 <= m)
  BY <1>2, OccursAt
<1> QED BY <1>1, <1>2, <1>3

(* What is held back begins the tag, and no tag that is still to be        *)
(* completed begins before it.                                             *)
LEMMA HoldsFrom ==
  ASSUME NEW s \in Seq(Character), NEW k \in Nat \ {0}, NEW m \in Nat,
         k <= m + 1, m <= Len(s), NEW tag \in Tags
  PROVE  \E h \in k..(m + 1) :
           /\ TagHold(SubSeq(s, k, m), tag) = m - h + 1
           /\ m - h + 1 < Len(tag)
           /\ SubSeq(s, h, m) = Upto(tag, m - h + 1)
           /\ \A g \in Occurrences(s, tag) :
                g >= k /\ g + Len(tag) - 1 > m => g >= h
PROOF
<1>1. Len(tag) \in Nat \ {0} /\ Len(s) \in Nat /\ tag \in Seq(Character)
  BY EmptySeq, LenProperties DEF Tags
<1> PICK t \in Seq(Character) : t = SubSeq(s, k, m)
  BY Segment
<1>2. Len(t) = m - k + 1
  BY Segment
<1> PICK N : N = {n \in 0..(Len(tag) - 1) :
                    n <= Len(t) /\ From(t, Len(t) - n + 1) = Upto(tag, n)}
  OBVIOUS
<1>3. ASSUME NEW n \in Nat, n <= Len(t)
      PROVE  From(t, Len(t) - n + 1) = SubSeq(s, m - n + 1, m)
  <2>1. From(t, Len(t) - n + 1) = SubSeq(t, Len(t) - n + 1, Len(t))
    BY DEF From
  <2>2. PICK a \in Nat \ {0}, b \in Nat : a = Len(t) - n + 1 /\ b = Len(t)
    BY <1>2, <1>3
  <2>3. SubSeq(SubSeq(s, k, m), a, b) = SubSeq(s, k + a - 1, k + b - 1)
    <3>1. a <= b + 1 /\ b <= m - k + 1
      BY <1>2, <1>3, <2>2
    <3> QED BY <3>1, SegmentOfSegment
  <2>4. k + a - 1 = m - n + 1 /\ k + b - 1 = m
    BY <1>2, <2>2
  <2> QED BY <2>1, <2>2, <2>3, <2>4
<1>4. 0 \in N
  <2>1. From(t, Len(t) - 0 + 1) = SubSeq(s, m - 0 + 1, m)
    <3>1. 0 \in Nat /\ 0 <= Len(t)
      BY <1>2
    <3> QED BY <1>3, <3>1
  <2>2. SubSeq(s, m - 0 + 1, m) = <<>> /\ SubSeq(tag, 1, 0) = <<>>
    BY SubSeqEmpty
  <2>3. 0 \in 0..(Len(tag) - 1) /\ 0 <= Len(t)
    BY <1>1, <1>2
  <2> QED BY <2>1, <2>2, <2>3 DEF Upto
<1>5. Max(N) \in N /\ \A y \in N : y <= Max(N)
  <2> Len(tag) - 1 \in Nat
    BY <1>1
  <2>1. PICK top \in Nat : top = Len(tag) - 1
    OBVIOUS
  <2>2. N \subseteq 0..top
    BY <2>1
  <2> QED BY <1>4, <2>2, GreatestPlace
<1>6. PICK n \in Nat : n = Max(N)
  <2>1. \A x \in N : x \in Nat
    OBVIOUS
  <2> QED BY <1>5, <2>1
<1>7. n <= Len(t) /\ n < Len(tag) /\ From(t, Len(t) - n + 1) = Upto(tag, n)
  <2>1. \A x \in N : /\ x \in 0..(Len(tag) - 1) /\ x <= Len(t)
                     /\ From(t, Len(t) - x + 1) = Upto(tag, x)
    OBVIOUS
  <2>2. n \in N
    BY <1>5, <1>6
  <2> QED BY <1>1, <2>1, <2>2
<1>8. PICK h \in k..(m + 1) : h = m - n + 1
  BY <1>2, <1>7
<1>9. n = m - h + 1
  BY <1>8
<1>10. TagHold(t, tag) = n
  BY <1>6 DEF TagHold
<1>11. SubSeq(s, h, m) = Upto(tag, n)
  BY <1>3, <1>7, <1>8
<1>12. ASSUME NEW g \in Occurrences(s, tag), g >= k, g + Len(tag) - 1 > m
       PROVE  g >= h
  <2>1. /\ g \in Nat \ {0} /\ g + Len(tag) - 1 <= Len(s)
        /\ SubSeq(s, g, g + Len(tag) - 1) = tag
    BY <1>1 DEF Occurrences
  <2>2. CASE g > m
    BY <1>8, <2>1, <2>2
  <2>3. CASE g <= m
    <3>1. PICK j \in Nat : j = m - g + 1
      BY <2>1, <2>3
    <3>2. j \in 0..(Len(tag) - 1) /\ j <= Len(t) /\ m - j + 1 = g
      BY <1>1, <1>2, <1>12, <2>1, <2>3, <3>1
    <3>3. From(t, Len(t) - j + 1) = SubSeq(s, g, m)
      BY <1>3, <3>2
    <3>4. SubSeq(SubSeq(s, g, g + Len(tag) - 1), 1, j) = SubSeq(s, g + 1 - 1, g + j - 1)
      <4> g + Len(tag) - 1 \in Nat
        BY <1>1, <2>1
      <4>1. PICK z \in Nat : z = g + Len(tag) - 1
        OBVIOUS
      <4>2. /\ g <= z + 1 /\ z <= Len(s) /\ 1 \in Nat \ {0}
            /\ 1 <= j + 1 /\ j <= z - g + 1
        BY <1>1, <2>1, <3>2, <4>1
      <4> QED BY <2>1, <4>1, <4>2, SegmentOfSegment
    <3>5. g + 1 - 1 = g /\ g + j - 1 = m
      BY <2>1, <3>1
    <3>6. SubSeq(s, g, m) = Upto(tag, j)
      BY <2>1, <3>4, <3>5 DEF Upto
    <3>7. j \in N
      BY <3>2, <3>3, <3>6
    <3>8. j <= n
      BY <1>5, <1>6, <3>7
    <3> QED BY <1>8, <2>1, <3>1, <3>8
  <2> QED BY <1>1, <2>1, <2>2, <2>3
<1> QED BY <1>7, <1>9, <1>10, <1>11, <1>12

-----------------------------------------------------------------------------
(* The buffer is the text from some place up to what was pushed.  A drain  *)
(* takes this place to the next one; the five ways of each mode follow.    *)
Cut(k) == k \in Nat \ {0} /\ k <= pushed + 1 /\ buffer = SubSeq(text, k, pushed)

(* The types the proofs use: the places are within the text. *)
TypeInv ==
  /\ text \in Seq(Character) /\ pushed \in Nat /\ pushed <= Len(text)
  /\ {thinking, extracts, skipReasoning, skipContent, finished, draining} \subseteq BOOLEAN
  /\ mode \in {"none", "reasoning", "content"}
  /\ finished => pushed = Len(text)

(* The newlines before place b are skipped. *)
Skipped(k, b, skip) ==
  /\ b \in k..(pushed + 1)
  /\ \A i \in k..(b - 1) : text[i] \in Newline
  /\ IF skip THEN b <= pushed => text[b] \notin Newline ELSE b = k

(* Nothing but newlines was there. *)
Emptied(b) == b = pushed + 1 /\ Cut(b)' /\ ~draining'

(* A tag is found at place f and taken out of the buffer. *)
Found(b, f, tag) ==
  /\ f \in b..pushed /\ f \in Occurrences(text, tag)
  /\ \A g \in Occurrences(text, tag) : g >= b => f <= g
  /\ f + Len(tag) - 1 <= pushed
  /\ Cut(f + Len(tag))' /\ draining'

(* All of it is held back. *)
Withheld(b) == b <= pushed /\ ~finished /\ Cut(b)' /\ ~draining'

(* The part up to place e is sent; the tag does not begin in it. *)
Sent(b, e, tag) ==
  /\ e \in b..pushed
  /\ finished => e = pushed
  /\ \A g \in Occurrences(text, tag) : g >= b => g > e
  /\ Cut(e + 1)' /\ draining'

(* What a drain in reasoning mode does with the text from place b on. *)
ReasonCases(b) ==
  \/ Emptied(b) /\ ~skipReasoning' /\ UNCHANGED <<mode, skipContent, reasoning>>
  \/ /\ b \in Occurrences(text, ThinkStart)
     /\ Found(b, b, ThinkStart)
     /\ skipReasoning'
     /\ UNCHANGED <<mode, skipContent, reasoning>>
  \/ \E f \in b..pushed :
       /\ Found(b, f, ThinkEnd)
       /\ reasoning' = reasoning \o TrimNewlines(SubSeq(text, b, f - 1))
       /\ mode' = "content" /\ skipContent' /\ ~skipReasoning'
  \/ /\ Withheld(b) /\ IsStrictPrefix(SkipNewlines(buffer'), ThinkEnd)
     /\ ~skipReasoning'
     /\ UNCHANGED <<mode, skipContent, reasoning>>
  \/ \E e \in b..pushed :
       /\ Sent(b, e, ThinkEnd)
       /\ ~finished => text[e] \notin Newline
       /\ reasoning' = reasoning \o (IF finished THEN TrimNewlines(SubSeq(text, b, e))
                                                 ELSE SubSeq(text, b, e))
       /\ ~skipReasoning'
       /\ UNCHANGED <<mode, skipContent>>

(* What a drain in content mode does with the text from place b on. *)
SayCases(b) ==
  \/ Emptied(b) /\ UNCHANGED <<mode, skipReasoning, skipContent, content>>
  \/ \E f \in b..pushed :
       /\ Found(b, f, ThinkStart)
       /\ content' = content \o SubSeq(text, b, f - 1)
       /\ mode' = "reasoning" /\ skipReasoning' /\ ~skipContent'
  \/ /\ Withheld(b) /\ IsStrictPrefix(buffer', ThinkStart)
     /\ ~skipContent'
     /\ UNCHANGED <<mode, skipReasoning, content>>
  \/ \E e \in b..pushed :
       /\ Sent(b, e, ThinkStart)
       /\ content' = content \o SubSeq(text, b, e)
       /\ ~skipContent'
       /\ UNCHANGED <<mode, skipReasoning>>

(* The tags are tags. *)
LEMMA TheTags ==
  /\ ThinkStart \in Tags /\ ThinkEnd \in Tags
  /\ ThinkEnd[1] \notin Newline
  /\ ThinkStart[1] \notin Newline
  /\ ThinkStart \in Seq(Character) /\ Len(ThinkStart) \in Nat \ {0}
  /\ ThinkEnd \in Seq(Character) /\ Len(ThinkEnd) \in Nat \ {0}
PROOF
<1>1. ASSUME NEW tag \in Seq(Character \ Newline) \ {<<>>}
      PROVE  tag \in Tags /\ tag[1] \notin Newline
             /\ tag \in Seq(Character) /\ Len(tag) \in Nat \ {0}
  <2>1. tag \in Seq(Character)
    BY SeqMonotonic
  <2>2. Len(tag) \in Nat \ {0}
    BY EmptySeq
  <2>3. tag[1] \in Character \ Newline
    BY <2>2, ElementOfSeq
  <2> QED BY <2>1, <2>2, <2>3 DEF Tags
<1> QED BY <1>1, TagAssumption

(* What is looked at once the newlines are skipped. *)
LEMMA RestAt ==
  ASSUME TypeInv, NEW k, Cut(k), NEW skip \in BOOLEAN
  PROVE  \E b : /\ Skipped(k, b, skip) /\ b \in Nat \ {0} /\ b <= pushed + 1
                /\ (IF skip THEN SkipNewlines(buffer) ELSE buffer) = SubSeq(text, b, pushed)
PROOF
<1>1. /\ text \in Seq(Character) /\ pushed \in Nat /\ pushed <= Len(text)
      /\ k \in Nat \ {0} /\ k <= pushed + 1 /\ buffer = SubSeq(text, k, pushed)
  BY DEF TypeInv, Cut
<1>2. CASE skip
  <2>1. PICK b \in k..(pushed + 1) :
          /\ SkipNewlines(SubSeq(text, k, pushed)) = SubSeq(text, b, pushed)
          /\ \A i \in k..(b - 1) : text[i] \in Newline
          /\ b <= pushed => text[b] \notin Newline
    BY <1>1, SkipsTo
  <2>2. b \in Nat \ {0} /\ b <= pushed + 1
    BY <1>1
  <2>3. Skipped(k, b, skip)
    BY <1>2, <2>1 DEF Skipped
  <2> QED BY <1>1, <1>2, <2>1, <2>2, <2>3
<1>3. CASE ~skip
  <2>1. k \in k..(pushed + 1) /\ \A i \in k..(k - 1) : FALSE
    BY <1>1
  <2>2. Skipped(k, k, skip)
    BY <1>3, <2>1 DEF Skipped
  <2> QED BY <1>1, <1>3, <2>2
<1> QED BY <1>2, <1>3

(* Nothing left of the buffer is cut at its end, a rest of a segment within. *)
LEMMA CutAgain ==
  ASSUME TypeInv, NEW b \in Nat \ {0}, b <= pushed + 1, UNCHANGED <<asked, pushed>>,
         buffer' = SubSeq(text, b, pushed)
  PROVE  Cut(b)'
PROOF
<1>1. text' = text /\ pushed' = pushed
  BY DEF asked
<1> QED BY <1>1 DEF Cut

(* A rest that begins with a tag. *)
LEMMA Begins ==
  ASSUME TypeInv, NEW b \in Nat \ {0}, b <= pushed + 1, NEW tag \in Tags,
         IsPrefix(tag, SubSeq(text, b, pushed))
  PROVE  b \in Occurrences(text, tag) /\ 1 \in Occurrences(SubSeq(text, b, pushed), tag)
PROOF
<1>1. /\ text \in Seq(Character) /\ pushed \in Nat /\ pushed <= Len(text)
      /\ tag \in Seq(Character) /\ Len(tag) \in Nat \ {0}
  BY EmptySeq DEF TypeInv, Tags
<1> PICK t \in Seq(Character) : t = SubSeq(text, b, pushed)
  BY <1>1, Segment
<1>2. Len(tag) <= Len(t) /\ SubSeq(tag, 1, Len(tag)) = SubSeq(t, 1, Len(tag))
  BY DEF IsPrefix
<1>3. SubSeq(tag, 1, Len(tag)) = tag
  BY <1>1, SubSeqFull
<1>4. 1 \in Occurrences(t, tag)
  <2>1. 1 \in 1..(Len(t) + 1 - Len(tag)) /\ 1 + Len(tag) - 1 = Len(tag)
    <3>1. Len(t) \in Nat
      BY LenProperties
    <3> QED BY <1>1, <1>2, <3>1
  <2> QED BY <1>2, <1>3, <2>1 DEF Occurrences
<1>5. b + 1 - 1 \in Occurrences(text, tag)
  BY <1>1, <1>4, OccursAt
<1>6. b + 1 - 1 = b
  OBVIOUS
<1> QED BY <1>4, <1>5, <1>6

(* A prefix of a tag that is not all of it. *)
LEMMA PartOfTag ==
  ASSUME NEW tag \in Tags, NEW n \in Nat, n < Len(tag)
  PROVE  IsStrictPrefix(Upto(tag, n), tag)
PROOF
<1>1. tag \in Seq(Character) /\ Len(tag) \in Nat
  BY LenProperties DEF Tags
<1>2. SubSeq(tag, 1, n) \in Seq(Character) /\ Len(SubSeq(tag, 1, n)) = n
  <2>1. 1 \in Nat \ {0} /\ 1 <= n + 1 /\ n <= Len(tag) /\ n - 1 + 1 = n
    BY <1>1
  <2> QED BY <1>1, <2>1, Segment
<1> PICK u \in Seq(Character) : u = SubSeq(tag, 1, n)
  BY <1>2
<1>3. SubSeq(u, 1, Len(u)) = u
  BY SubSeqFull
<1>4. Len(u) = n
  BY <1>2
<1>5. u # tag
  BY <1>4
<1> QED BY <1>1, <1>3, <1>4, <1>5 DEF IsStrictPrefix, IsPrefix, Upto

(* A segment that is cut in two. *)
LEMMA CutInTwo ==
  ASSUME NEW s \in Seq(Character), NEW k \in Nat \ {0}, NEW m \in Nat,
         k <= m + 1, m <= Len(s), NEW e \in (k - 1)..m
  PROVE  /\ Upto(SubSeq(s, k, m), e - k + 1) = SubSeq(s, k, e)
         /\ From(SubSeq(s, k, m), Len(SubSeq(s, k, e)) + 1) = SubSeq(s, e + 1, m)
PROOF
<1> PICK t \in Seq(Character) : t = SubSeq(s, k, m)
  BY Segment
<1>1. Len(t) = m - k + 1
  BY Segment
<1> PICK n \in Nat : n = e - k + 1
  <2>1. e - k + 1 \in Nat
    OBVIOUS
  <2> QED BY <2>1
<1>2. Len(SubSeq(s, k, e)) = n
  BY Segment
<1>3. SubSeq(SubSeq(s, k, m), 1, n) = SubSeq(s, k + 1 - 1, k + n - 1)
  <2>1. 1 \in Nat \ {0} /\ 1 <= n + 1 /\ n <= m - k + 1
    OBVIOUS
  <2> QED BY <2>1, SegmentOfSegment
<1>4. SubSeq(SubSeq(s, k, m), n + 1, m - k + 1)
        = SubSeq(s, k + (n + 1) - 1, k + (m - k + 1) - 1)
  <2>1. /\ n + 1 \in Nat \ {0} /\ m - k + 1 \in Nat
        /\ n + 1 <= (m - k + 1) + 1 /\ m - k + 1 <= m - k + 1
    OBVIOUS
  <2> QED BY <2>1, SegmentOfSegment
<1>5. /\ k + 1 - 1 = k /\ k + n - 1 = e
      /\ k + (n + 1) - 1 = e + 1 /\ k + (m - k + 1) - 1 = m
  OBVIOUS
<1>6. Upto(t, n) = SubSeq(s, k, e)
  BY <1>3, <1>5 DEF Upto
<1>7. From(t, n + 1) = SubSeq(s, e + 1, m)
  BY <1>1, <1>4, <1>5 DEF From
<1> QED BY <1>2, <1>6, <1>7

(* A tag ends within the text. *)
LEMMA TagsEnd ==
  ASSUME TypeInv, NEW tag \in Tags, NEW g \in Occurrences(text, tag)
  PROVE  g \in Nat \ {0} /\ g + Len(tag) - 1 <= Len(text)
PROOF
<1>1. Len(tag) \in Nat /\ Len(text) \in Nat
  BY LenProperties DEF Tags, TypeInv
<1> QED BY <1>1 DEF Occurrences

(* A tag that is found and taken out. *)
LEMMA TakenOut ==
  ASSUME TypeInv, NEW b \in Nat \ {0}, b <= pushed + 1, UNCHANGED <<asked, pushed>>,
         NEW tag \in Tags, Occurrences(SubSeq(text, b, pushed), tag) # {},
         buffer' = Erased(SubSeq(text, b, pushed), tag), draining'
  PROVE  \E f \in b..pushed :
           /\ Found(b, f, tag)
           /\ Before(SubSeq(text, b, pushed), tag) = SubSeq(text, b, f - 1)
PROOF
<1>1. /\ text \in Seq(Character) /\ pushed \in Nat /\ pushed <= Len(text)
      /\ Len(tag) \in Nat \ {0}
  BY EmptySeq DEF TypeInv, Tags
<1> PICK f : FirstPlace(text, b, pushed, tag, f)
  <2>1. b <= pushed + 1 /\ Occurrences(SubSeq(text, b, pushed), tag) # {}
    OBVIOUS
  <2> QED BY <1>1, <2>1, FindsAt
<1>2. /\ f \in b..pushed
      /\ f \in Occurrences(text, tag)
      /\ f + Len(tag) - 1 <= pushed
      /\ \A g \in Occurrences(text, tag) : g >= b => f <= g
      /\ Before(SubSeq(text, b, pushed), tag) = SubSeq(text, b, f - 1)
      /\ After(SubSeq(text, b, pushed), tag) = SubSeq(text, f + Len(tag), pushed)
  BY DEF FirstPlace
<1>3. PICK c \in Nat \ {0} : c = f + Len(tag)
  <2>1. f + Len(tag) \in Nat \ {0}
    BY <1>1, <1>2
  <2> QED BY <2>1
<1>4. c <= pushed + 1
  BY <1>1, <1>2, <1>3
<1>5. Cut(c)'
  BY <1>2, <1>3, <1>4, CutAgain DEF Erased
<1>6. Found(b, f, tag)
  BY <1>2, <1>3, <1>5 DEF Found
<1> QED BY <1>2, <1>6

(* The steps of the reasoning mode. *)
LEMMA ReasonsAbout ==
  ASSUME TypeInv, NEW b \in Nat \ {0}, b <= pushed + 1,
         ReasonAbout(SubSeq(text, b, pushed)), draining,
         UNCHANGED <<asked, pushed, finished, content>>
  PROVE  ReasonCases(b)
PROOF
<1>1. /\ text \in Seq(Character) /\ pushed \in Nat /\ pushed <= Len(text)
      /\ finished \in BOOLEAN /\ (finished => pushed = Len(text))
      /\ text' = text /\ pushed' = pushed
  BY DEF TypeInv, asked
<1> PICK rest \in Seq(Character) : rest = SubSeq(text, b, pushed)
  BY <1>1, Segment
<1>2. Len(rest) = pushed - b + 1 /\ (rest = <<>> <=> b = pushed + 1)
  BY <1>1, Segment, Nil
<1>3. ThinkStart \in Tags /\ ThinkEnd \in Tags
      /\ Len(ThinkEnd) \in Nat \ {0} /\ Len(ThinkStart) \in Nat \ {0}
  BY TheTags
<1>4. CASE /\ rest = <<>> /\ Return /\ buffer' = <<>> /\ skipReasoning' = FALSE
           /\ UNCHANGED skipContent
  <2>1. buffer' = SubSeq(text, b, pushed) /\ b = pushed + 1
    BY <1>2, <1>4
  <2>2. Cut(b)'
    BY <2>1, CutAgain
  <2>3. /\ ~draining' /\ ~skipReasoning'
        /\ UNCHANGED <<mode, skipContent, reasoning>>
    BY <1>4 DEF Return
  <2> QED BY <2>1, <2>2, <2>3 DEF ReasonCases, Emptied
<1>5. CASE /\ IsPrefix(ThinkStart, rest) /\ buffer' = Erased(rest, ThinkStart)
           /\ skipReasoning' = TRUE
           /\ UNCHANGED <<mode, skipContent, draining, reasoning>>
  <2>1. b \in Occurrences(text, ThinkStart) /\ Occurrences(rest, ThinkStart) # {}
    BY <1>3, <1>5, Begins
  <2>2. draining'
    BY <1>5
  <2>3. PICK f \in b..pushed : Found(b, f, ThinkStart)
    BY <1>3, <1>5, <2>1, <2>2, TakenOut
  <2>4. f = b
    BY <1>1, <2>1, <2>3 DEF Found
  <2>5. Found(b, b, ThinkStart)
    BY <2>3, <2>4
  <2> QED BY <1>5, <2>1, <2>5 DEF ReasonCases
<1>6. CASE /\ Occurrences(rest, ThinkEnd) # {}
           /\ reasoning' = reasoning \o TrimNewlines(Before(rest, ThinkEnd))
           /\ buffer' = Erased(rest, ThinkEnd)
           /\ mode' = "content" /\ skipContent' = TRUE /\ skipReasoning' = FALSE
           /\ UNCHANGED draining
  <2>1. PICK f \in b..pushed :
          /\ Found(b, f, ThinkEnd)
          /\ Before(rest, ThinkEnd) = SubSeq(text, b, f - 1)
    <3>1. draining'
      BY <1>6
    <3> QED BY <1>3, <1>6, <3>1, TakenOut
  <2>2. /\ reasoning' = reasoning \o TrimNewlines(SubSeq(text, b, f - 1))
        /\ mode' = "content" /\ skipContent' /\ ~skipReasoning'
    BY <1>6, <2>1
  <2> QED BY <2>1, <2>2 DEF ReasonCases
<1>7. ASSUME rest # <<>>, Occurrences(rest, ThinkEnd) = {},
             skipReasoning' = FALSE, UNCHANGED <<mode, skipContent>>,
             NEW hold, hold = ReasoningHold(rest),
             NEW sent, sent = Upto(rest, Len(rest) - hold),
             IF HeldBack(rest, hold)
             THEN /\ buffer' = rest
                  /\ Return
             ELSE /\ reasoning' = reasoning \o
                       (IF finished THEN TrimNewlines(sent) ELSE sent)
                  /\ buffer' = From(rest, Len(sent) + 1)
                  /\ UNCHANGED draining
      PROVE  ReasonCases(b)
  <2>1. ASSUME NEW g \in Occurrences(text, ThinkEnd), g >= b
        PROVE  g + Len(ThinkEnd) - 1 > pushed
    BY <1>1, <1>3, <1>7, <2>1, FindsNothing
  <2>2. b <= pushed
    BY <1>1, <1>2, <1>7
  <2>3. ASSUME NEW e \in b..pushed, sent = SubSeq(text, b, e), ~HeldBack(rest, hold),
               finished => e = pushed, ~finished => text[e] \notin Newline,
               \A g \in Occurrences(text, ThinkEnd) : g >= b => g > e
        PROVE  ReasonCases(b)
    <3>1. buffer' = SubSeq(text, e + 1, pushed)
      <4>1. e \in (b - 1)..pushed
        OBVIOUS
      <4>2. From(SubSeq(text, b, pushed), Len(SubSeq(text, b, e)) + 1)
              = SubSeq(text, e + 1, pushed)
        BY <1>1, <4>1, CutInTwo
      <4> QED BY <1>7, <2>3, <4>2
    <3>2. Cut(e + 1)'
      <4>1. e + 1 \in Nat \ {0} /\ e + 1 <= pushed + 1
        BY <1>1
      <4> QED BY <3>1, <4>1, CutAgain
    <3>3. draining'
      BY <1>7, <2>3
    <3>4. Sent(b, e, ThinkEnd)
      BY <2>3, <3>2, <3>3 DEF Sent
    <3>5. reasoning' = reasoning \o (IF finished THEN TrimNewlines(SubSeq(text, b, e))
                                                 ELSE SubSeq(text, b, e))
      BY <1>7, <2>3
    <3> QED BY <1>7, <2>3, <3>4, <3>5 DEF ReasonCases
  <2>4. CASE finished
    <3>1. hold = 0
      BY <1>7, <2>4 DEF ReasoningHold
    <3>2. ~HeldBack(rest, hold)
      BY <1>2, <2>2, <3>1 DEF HeldBack
    <3>3. sent = SubSeq(text, b, pushed)
      <4>1. Len(rest) - 0 = Len(rest)
        BY LenProperties
      <4>2. Upto(rest, Len(rest)) = rest
        BY SubSeqFull DEF Upto
      <4> QED BY <1>7, <3>1, <4>1, <4>2
    <3>4. \A g \in Occurrences(text, ThinkEnd) : ~(g >= b)
      BY <1>1, <1>3, <2>1, <2>4, TagsEnd
    <3>5. pushed \in b..pushed
      BY <1>1, <2>2
    <3> QED BY <2>3, <2>4, <3>2, <3>3, <3>4, <3>5
  <2>5. CASE ~finished
    <3>1. PICK h \in b..(pushed + 1) :
            /\ TagHold(rest, ThinkEnd) = pushed - h + 1
            /\ pushed - h + 1 < Len(ThinkEnd)
            /\ SubSeq(text, h, pushed) = Upto(ThinkEnd, pushed - h + 1)
            /\ \A g \in Occurrences(text, ThinkEnd) :
                 g >= b /\ g + Len(ThinkEnd) - 1 > pushed => g >= h
      BY <1>1, <1>3, HoldsFrom
    <3>2. PICK x \in Nat : x = h - 1 /\ x \in (b - 1)..pushed
      <4>1. h - 1 \in Nat /\ h - 1 \in (b - 1)..pushed
        BY <1>1
      <4> QED BY <4>1
    <3>3. Upto(rest, Len(rest) - TagHold(rest, ThinkEnd)) = SubSeq(text, b, x)
      <4>1. Upto(SubSeq(text, b, pushed), x - b + 1) = SubSeq(text, b, x)
        BY <1>1, <3>2, CutInTwo
      <4>2. Len(rest) - TagHold(rest, ThinkEnd) = x - b + 1
        BY <1>1, <1>2, <3>1, <3>2
      <4> QED BY <4>1, <4>2
    <3>4. PICK e \in (b - 1)..x :
            /\ TrailingNewlines(SubSeq(text, b, x)) = x - e
            /\ \A i \in (e + 1)..x : text[i] \in Newline
            /\ e >= b => text[e] \notin Newline
      <4>1. b <= x + 1 /\ x <= Len(text)
        BY <1>1, <3>2, LenProperties
      <4> QED BY <1>1, <4>1, TrimsTo
    <3>5. hold = pushed - e
      <4>1. hold = (pushed - h + 1) + (x - e)
        BY <1>7, <2>5, <3>1, <3>3, <3>4 DEF ReasoningHold
      <4> QED BY <1>1, <3>2, <4>1
    <3>6. CASE e = b - 1
      <4>1. HeldBack(rest, hold)
        BY <1>1, <1>2, <3>5, <3>6 DEF HeldBack
      <4>2. buffer' = SubSeq(text, b, pushed) /\ ~draining' /\ reasoning' = reasoning
        BY <1>7, <4>1 DEF Return
      <4>3. Cut(b)'
        BY <4>2, CutAgain
      <4>4. SkipNewlines(SubSeq(text, b, pushed)) = SubSeq(text, h, pushed)
        <5>1. \A i \in b..(h - 1) : text[i] \in Newline
          BY <1>1, <3>2, <3>4, <3>6
        <5>2. ASSUME h <= pushed PROVE text[h] \notin Newline
          <6>1. PICK n \in Nat \ {0} : n = pushed - h + 1
            <7>1. pushed - h + 1 \in Nat \ {0}
              BY <1>1, <5>2
            <7> QED BY <7>1
          <6>2. SubSeq(text, h, pushed)[1] = text[h]
            <7>1. h \in Nat \ {0} /\ h <= pushed + 1 /\ 1 \in 1..(pushed - h + 1)
              BY <1>1, <5>2
            <7>2. SubSeq(text, h, pushed)[1] = text[h + 1 - 1]
              BY <1>1, <7>1, Segment
            <7>3. h + 1 - 1 = h
              BY <7>1
            <7> QED BY <7>2, <7>3
          <6>3. SubSeq(ThinkEnd, 1, n)[1] = ThinkEnd[1]
            <7>1. /\ ThinkEnd \in Seq(Character) /\ 1 \in Nat \ {0} /\ 1 <= n + 1
                  /\ n <= Len(ThinkEnd) /\ 1 \in 1..(n - 1 + 1)
              BY <1>3, <3>1, <6>1 DEF Tags
            <7>2. SubSeq(ThinkEnd, 1, n)[1] = ThinkEnd[1 + 1 - 1]
              BY <7>1, Segment
            <7> QED BY <7>2
          <6> QED BY <3>1, <6>1, <6>2, <6>3, TheTags DEF Upto
        <5> QED BY <1>1, <5>1, <5>2, SkipIsUnique
      <4>5. IsStrictPrefix(SkipNewlines(buffer'), ThinkEnd)
        <5>1. pushed - h + 1 \in Nat
          BY <1>1
        <5> QED BY <1>3, <3>1, <4>2, <4>4, <5>1, PartOfTag
      <4>6. Withheld(b)
        BY <2>2, <2>5, <4>2, <4>3 DEF Withheld
      <4> QED BY <1>7, <4>2, <4>5, <4>6 DEF ReasonCases
    <3>7. CASE e # b - 1
      <4>1. e \in b..pushed /\ e \in (b - 1)..pushed
        BY <1>1, <3>2, <3>7
      <4>2. ~HeldBack(rest, hold)
        BY <1>1, <1>2, <3>5, <4>1 DEF HeldBack
      <4>3. sent = SubSeq(text, b, e)
        <5>1. Upto(SubSeq(text, b, pushed), e - b + 1) = SubSeq(text, b, e)
          BY <1>1, <4>1, CutInTwo
        <5>2. Len(rest) - hold = e - b + 1
          BY <1>1, <1>2, <3>5, <4>1
        <5> QED BY <1>7, <5>1, <5>2
      <4>4. ASSUME NEW g \in Occurrences(text, ThinkEnd), g >= b PROVE g > e
        <5>1. g >= h /\ g \in Nat
          BY <1>3, <2>1, <3>1, <4>4, TagsEnd
        <5> QED BY <1>1, <3>2, <3>4, <5>1
      <4>5. text[e] \notin Newline
        BY <3>4, <4>1
      <4> QED BY <2>3, <2>5, <4>1, <4>2, <4>3, <4>4, <4>5
    <3> QED BY <3>6, <3>7
  <2> QED BY <1>1, <2>4, <2>5
<1>8. ReasonAbout(rest)
  OBVIOUS
<1>9. \/ /\ rest = <<>> /\ Return /\ buffer' = <<>> /\ skipReasoning' = FALSE
         /\ UNCHANGED skipContent
      \/ /\ IsPrefix(ThinkStart, rest) /\ buffer' = Erased(rest, ThinkStart)
         /\ skipReasoning' = TRUE
         /\ UNCHANGED <<mode, skipContent, draining, reasoning>>
      \/ /\ Occurrences(rest, ThinkEnd) # {}
         /\ reasoning' = reasoning \o TrimNewlines(Before(rest, ThinkEnd))
         /\ buffer' = Erased(rest, ThinkEnd)
         /\ mode' = "content" /\ skipContent' = TRUE /\ skipReasoning' = FALSE
         /\ UNCHANGED draining
      \/ /\ rest # <<>> /\ Occurrences(rest, ThinkEnd) = {}
         /\ skipReasoning' = FALSE /\ UNCHANGED <<mode, skipContent>>
         /\ \E hold, sent :
              /\ hold = ReasoningHold(rest) /\ sent = Upto(rest, Len(rest) - hold)
              /\ IF HeldBack(rest, hold)
                 THEN /\ buffer' = rest
                      /\ Return
                 ELSE /\ reasoning' = reasoning \o
                           (IF finished THEN TrimNewlines(sent) ELSE sent)
                      /\ buffer' = From(rest, Len(sent) + 1)
                      /\ UNCHANGED draining
  BY <1>8 DEF ReasonAbout
<1> QED BY <1>4, <1>5, <1>6, <1>7, <1>9

(* The steps of the content mode. *)
LEMMA SaysAbout ==
  ASSUME TypeInv, NEW b \in Nat \ {0}, b <= pushed + 1,
         SayAbout(SubSeq(text, b, pushed)), draining,
         UNCHANGED <<asked, pushed, finished, reasoning>>
  PROVE  SayCases(b)
PROOF
<1>1. /\ text \in Seq(Character) /\ pushed \in Nat /\ pushed <= Len(text)
      /\ finished \in BOOLEAN /\ (finished => pushed = Len(text))
      /\ text' = text /\ pushed' = pushed
  BY DEF TypeInv, asked
<1> PICK rest \in Seq(Character) : rest = SubSeq(text, b, pushed)
  BY <1>1, Segment
<1>2. Len(rest) = pushed - b + 1 /\ (rest = <<>> <=> b = pushed + 1)
  BY <1>1, Segment, Nil
<1>3. ThinkStart \in Tags /\ Len(ThinkStart) \in Nat \ {0}
  BY TheTags
<1>4. CASE /\ rest = <<>> /\ Return /\ buffer' = <<>>
           /\ UNCHANGED <<skipReasoning, skipContent>>
  <2>1. buffer' = SubSeq(text, b, pushed) /\ b = pushed + 1
    BY <1>2, <1>4
  <2>2. Cut(b)'
    BY <2>1, CutAgain
  <2>3. /\ ~draining'
        /\ UNCHANGED <<mode, skipReasoning, skipContent, content>>
    BY <1>4 DEF Return
  <2> QED BY <2>1, <2>2, <2>3 DEF SayCases, Emptied
<1>5. CASE /\ Occurrences(rest, ThinkStart) # {}
           /\ content' = content \o Before(rest, ThinkStart)
           /\ buffer' = Erased(rest, ThinkStart)
           /\ mode' = "reasoning" /\ skipReasoning' = TRUE /\ skipContent' = FALSE
           /\ UNCHANGED draining
  <2>1. PICK f \in b..pushed :
          /\ Found(b, f, ThinkStart)
          /\ Before(rest, ThinkStart) = SubSeq(text, b, f - 1)
    <3>1. draining'
      BY <1>5
    <3> QED BY <1>3, <1>5, <3>1, TakenOut
  <2>2. /\ content' = content \o SubSeq(text, b, f - 1)
        /\ mode' = "reasoning" /\ skipReasoning' /\ ~skipContent'
    BY <1>5, <2>1
  <2> QED BY <2>1, <2>2 DEF SayCases
<1>6. ASSUME rest # <<>>, Occurrences(rest, ThinkStart) = {},
             skipContent' = FALSE, UNCHANGED <<mode, skipReasoning>>,
             NEW hold, hold = ContentHold(rest),
             NEW sent, sent = Upto(rest, Len(rest) - hold),
             IF HeldBack(rest, hold)
             THEN /\ buffer' = rest
                  /\ Return
             ELSE /\ content' = content \o sent
                  /\ buffer' = From(rest, Len(sent) + 1)
                  /\ UNCHANGED draining
      PROVE  SayCases(b)
  <2>1. ASSUME NEW g \in Occurrences(text, ThinkStart), g >= b
        PROVE  g + Len(ThinkStart) - 1 > pushed
    BY <1>1, <1>3, <1>6, <2>1, FindsNothing
  <2>2. b <= pushed
    BY <1>1, <1>2, <1>6
  <2>3. ASSUME NEW e \in b..pushed, sent = SubSeq(text, b, e), ~HeldBack(rest, hold),
               finished => e = pushed,
               \A g \in Occurrences(text, ThinkStart) : g >= b => g > e
        PROVE  SayCases(b)
    <3>1. buffer' = SubSeq(text, e + 1, pushed)
      <4>1. e \in (b - 1)..pushed
        OBVIOUS
      <4>2. From(SubSeq(text, b, pushed), Len(SubSeq(text, b, e)) + 1)
              = SubSeq(text, e + 1, pushed)
        BY <1>1, <4>1, CutInTwo
      <4> QED BY <1>6, <2>3, <4>2
    <3>2. Cut(e + 1)'
      <4>1. e + 1 \in Nat \ {0} /\ e + 1 <= pushed + 1
        BY <1>1
      <4> QED BY <3>1, <4>1, CutAgain
    <3>3. draining'
      BY <1>6, <2>3
    <3>4. Sent(b, e, ThinkStart)
      BY <2>3, <3>2, <3>3 DEF Sent
    <3>5. content' = content \o SubSeq(text, b, e)
      BY <1>6, <2>3
    <3> QED BY <1>6, <2>3, <3>4, <3>5 DEF SayCases
  <2>4. CASE finished
    <3>1. hold = 0
      BY <1>6, <2>4 DEF ContentHold
    <3>2. ~HeldBack(rest, hold)
      BY <1>2, <2>2, <3>1 DEF HeldBack
    <3>3. sent = SubSeq(text, b, pushed)
      <4>1. Len(rest) - 0 = Len(rest)
        BY LenProperties
      <4>2. Upto(rest, Len(rest)) = rest
        BY SubSeqFull DEF Upto
      <4> QED BY <1>6, <3>1, <4>1, <4>2
    <3>4. \A g \in Occurrences(text, ThinkStart) : ~(g >= b)
      BY <1>1, <1>3, <2>1, <2>4, TagsEnd
    <3>5. pushed \in b..pushed
      BY <1>1, <2>2
    <3> QED BY <2>3, <2>4, <3>2, <3>3, <3>4, <3>5
  <2>5. CASE ~finished
    <3>1. PICK h \in b..(pushed + 1) :
            /\ TagHold(rest, ThinkStart) = pushed - h + 1
            /\ pushed - h + 1 < Len(ThinkStart)
            /\ SubSeq(text, h, pushed) = Upto(ThinkStart, pushed - h + 1)
            /\ \A g \in Occurrences(text, ThinkStart) :
                 g >= b /\ g + Len(ThinkStart) - 1 > pushed => g >= h
      BY <1>1, <1>3, HoldsFrom
    <3>2. hold = pushed - h + 1
      BY <1>6, <2>5, <3>1 DEF ContentHold
    <3>3. CASE h = b
      <4>1. HeldBack(rest, hold)
        BY <1>1, <1>2, <3>2, <3>3 DEF HeldBack
      <4>2. buffer' = SubSeq(text, b, pushed) /\ ~draining' /\ content' = content
        BY <1>6, <4>1 DEF Return
      <4>3. Cut(b)'
        BY <4>2, CutAgain
      <4>4. IsStrictPrefix(buffer', ThinkStart)
        <5>1. pushed - h + 1 \in Nat
          BY <1>1
        <5> QED BY <1>3, <3>1, <3>3, <4>2, <5>1, PartOfTag
      <4>5. Withheld(b)
        BY <2>2, <2>5, <4>2, <4>3 DEF Withheld
      <4> QED BY <1>6, <4>2, <4>4, <4>5 DEF SayCases
    <3>4. CASE h # b
      <4>1. PICK e \in b..pushed : e = h - 1 /\ e \in (b - 1)..pushed
        <5>1. h - 1 \in b..pushed /\ h - 1 \in (b - 1)..pushed
          BY <1>1, <3>4
        <5> QED BY <5>1
      <4>2. ~HeldBack(rest, hold)
        BY <1>1, <1>2, <3>2, <4>1 DEF HeldBack
      <4>3. sent = SubSeq(text, b, e)
        <5>1. Upto(SubSeq(text, b, pushed), e - b + 1) = SubSeq(text, b, e)
          BY <1>1, <4>1, CutInTwo
        <5>2. Len(rest) - hold = e - b + 1
          BY <1>1, <1>2, <3>2, <4>1
        <5> QED BY <1>6, <5>1, <5>2
      <4>4. ASSUME NEW g \in Occurrences(text, ThinkStart), g >= b PROVE g > e
        <5>1. g >= h /\ g \in Nat
          BY <1>3, <2>1, <3>1, <4>4, TagsEnd
        <5> QED BY <1>1, <4>1, <5>1
      <4> QED BY <2>3, <2>5, <4>2, <4>3, <4>4
    <3> QED BY <3>3, <3>4
  <2> QED BY <1>1, <2>4, <2>5
<1>7. SayAbout(rest)
  OBVIOUS
<1>8. \/ /\ rest = <<>> /\ Return /\ buffer' = <<>>
         /\ UNCHANGED <<skipReasoning, skipContent>>
      \/ /\ Occurrences(rest, ThinkStart) # {}
         /\ content' = content \o Before(rest, ThinkStart)
         /\ buffer' = Erased(rest, ThinkStart)
         /\ mode' = "reasoning" /\ skipReasoning' = TRUE /\ skipContent' = FALSE
         /\ UNCHANGED draining
      \/ /\ rest # <<>> /\ Occurrences(rest, ThinkStart) = {}
         /\ skipContent' = FALSE /\ UNCHANGED <<mode, skipReasoning>>
         /\ \E hold, sent :
              /\ hold = ContentHold(rest) /\ sent = Upto(rest, Len(rest) - hold)
              /\ IF HeldBack(rest, hold)
                 THEN /\ buffer' = rest
                      /\ Return
                 ELSE /\ content' = content \o sent
                      /\ buffer' = From(rest, Len(sent) + 1)
                      /\ UNCHANGED draining
  BY <1>7 DEF SayAbout
<1> QED BY <1>4, <1>5, <1>6, <1>7, <1>8

-----------------------------------------------------------------------------
(* Between two pushes nothing is withheld but the begin of a tag. *)
ParserInv ==
  /\ TypeInv
  /\ \E k : Cut(k)
  /\ mode = "none" => /\ pushed = 0 /\ buffer = <<>> /\ ~draining /\ ~finished
                      /\ reasoning = <<>> /\ content = <<>> /\ ~skipContent
  /\ HoldsBackOnlyTag

(* A drain in the reasoning mode, from where the newlines end. *)
LEMMA Reasons ==
  ASSUME TypeInv, NEW k, Cut(k), DrainReasoning
  PROVE  \E b : /\ b \in Nat \ {0} /\ b <= pushed + 1
                /\ Skipped(k, b, skipReasoning) /\ ReasonCases(b)
PROOF
<1>1. /\ draining /\ UNCHANGED <<asked, pushed, finished, content>>
      /\ ReasonAbout(IF skipReasoning THEN SkipNewlines(buffer) ELSE buffer)
  BY DEF DrainReasoning
<1>2. skipReasoning \in BOOLEAN
  BY DEF TypeInv
<1>3. PICK b : /\ Skipped(k, b, skipReasoning) /\ b \in Nat \ {0} /\ b <= pushed + 1
               /\ (IF skipReasoning THEN SkipNewlines(buffer) ELSE buffer)
                    = SubSeq(text, b, pushed)
  BY <1>2, RestAt
<1>4. ReasonAbout(SubSeq(text, b, pushed))
  BY <1>1, <1>3
<1>5. ReasonCases(b)
  BY <1>1, <1>3, <1>4, ReasonsAbout
<1> QED BY <1>3, <1>5

(* A drain in content mode is one of its five ways. *)
LEMMA Says ==
  ASSUME TypeInv, NEW k, Cut(k), DrainContent
  PROVE  \E b : /\ b \in Nat \ {0} /\ b <= pushed + 1
                /\ Skipped(k, b, skipContent) /\ SayCases(b)
PROOF
<1>1. /\ draining /\ UNCHANGED <<asked, pushed, finished, reasoning>>
      /\ SayAbout(IF skipContent THEN SkipNewlines(buffer) ELSE buffer)
  BY DEF DrainContent
<1>2. skipContent \in BOOLEAN
  BY DEF TypeInv
<1>3. PICK b : /\ Skipped(k, b, skipContent) /\ b \in Nat \ {0} /\ b <= pushed + 1
               /\ (IF skipContent THEN SkipNewlines(buffer) ELSE buffer)
                    = SubSeq(text, b, pushed)
  BY <1>2, RestAt
<1>4. SayAbout(SubSeq(text, b, pushed))
  BY <1>1, <1>3
<1>5. SayCases(b)
  BY <1>1, <1>3, <1>4, SaysAbout
<1> QED BY <1>3, <1>5

(* Every step keeps the types, whatever it does to the texts. *)
LEMMA TypeStep ==
  ASSUME TypeInv, mode = "none" => pushed = 0 /\ ~finished, [Next]_vars
  PROVE  TypeInv'
PROOF
<1> USE DEF TypeInv, asked
<1>1. CASE Construct
  BY <1>1, TextAssumption DEF Construct, StartsInThought
<1>2. CASE Push
  <2>1. /\ UNCHANGED <<asked, mode, skipReasoning, skipContent, finished>>
        /\ draining' = TRUE
        /\ pushed' \in (pushed + 1)..Len(text)
    BY <1>2 DEF Push
  <2>2. Len(text) \in Nat
    BY LenProperties
  <2>3. ~finished
    BY <2>1, <2>2
  <2> QED BY <2>1, <2>2, <2>3
<1>3. CASE Finish
  BY <1>3 DEF Finish
<1>4. CASE PassThrough
  BY <1>4 DEF PassThrough
<1>5. CASE BufferEmpty
  BY <1>5 DEF BufferEmpty, Return
<1>6. CASE DrainReasoning
  <2>1. PICK rest : ReasonAbout(rest)
    BY <1>6 DEF DrainReasoning
  <2>2. /\ mode = "reasoning" /\ UNCHANGED <<asked, pushed, finished>>
    BY <1>6 DEF DrainReasoning
  <2>3. /\ skipReasoning' \in BOOLEAN /\ skipContent' \in BOOLEAN /\ draining' \in BOOLEAN
        /\ mode' \in {"reasoning", "content"}
    BY <2>1, <2>2 DEF ReasonAbout, Return
  <2> QED BY <2>2, <2>3
<1>7. CASE DrainContent
  <2>1. PICK rest : SayAbout(rest)
    BY <1>7 DEF DrainContent
  <2>2. /\ mode = "content" /\ UNCHANGED <<asked, pushed, finished>>
    BY <1>7 DEF DrainContent
  <2>3. /\ skipReasoning' \in BOOLEAN /\ skipContent' \in BOOLEAN /\ draining' \in BOOLEAN
        /\ mode' \in {"reasoning", "content"}
    BY <2>1, <2>2 DEF SayAbout, Return
  <2> QED BY <2>2, <2>3
<1>8. CASE UNCHANGED vars
  BY <1>8 DEF vars
<1> QED BY <1>1, <1>2, <1>3, <1>4, <1>5, <1>6, <1>7, <1>8 DEF Next, Drain

(* What is pushed is added to the buffer, all else is taken from it. *)
LEMMA PushCut ==
  ASSUME TypeInv, NEW k, Cut(k), Push
  PROVE  Cut(k)' /\ pushed < pushed' /\ pushed' <= Len(text)
PROOF
<1>1. PICK end \in (pushed + 1)..Len(text) :
        pushed' = end /\ buffer' = buffer \o SubSeq(text, pushed + 1, end)
  BY DEF Push
<1>2. text' = text
  BY DEF Push, asked
<1>3. /\ text \in Seq(Character) /\ pushed \in Nat /\ end \in Nat /\ Len(text) \in Nat
      /\ k \in Nat \ {0} /\ k <= pushed + 1 /\ buffer = SubSeq(text, k, pushed)
      /\ pushed <= end /\ end <= Len(text)
  BY LenProperties DEF TypeInv, Cut
<1>4. SubSeq(text, k, pushed) \o SubSeq(text, pushed + 1, end) = SubSeq(text, k, end)
  BY <1>3, Joined
<1> QED BY <1>1, <1>2, <1>3, <1>4 DEF Cut

(* A buffer that was emptied is cut behind what was pushed. *)
LEMMA EmptyCut ==
  ASSUME TypeInv, UNCHANGED <<asked, pushed>>, buffer' = <<>>
  PROVE  Cut(pushed + 1)'
PROOF
<1>1. pushed + 1 \in Nat \ {0} /\ pushed + 1 <= pushed + 1 /\ pushed \in Nat
      /\ text \in Seq(Character) /\ pushed <= Len(text)
  BY DEF TypeInv
<1>2. SubSeq(text, pushed + 1, pushed) = <<>>
  BY <1>1, Nil
<1>3. text' = text /\ pushed' = pushed
  BY DEF asked
<1> QED BY <1>1, <1>2, <1>3 DEF Cut

(* An empty buffer withholds nothing. *)
LEMMA NothingHeld ==
  /\ IsStrictPrefix(<<>>, ThinkStart)
  /\ IsStrictPrefix(SkipNewlines(<<>>), ThinkEnd)
PROOF
<1>1. ASSUME NEW tag \in Tags PROVE IsStrictPrefix(<<>>, tag)
  <2>1. 0 \in Nat /\ 0 < Len(tag)
    BY EmptySeq, LenProperties DEF Tags
  <2>2. Upto(tag, 0) = <<>>
    BY SubSeqEmpty DEF Upto
  <2> QED BY <2>1, <2>2, PartOfTag
<1>2. SkipNewlines(<<>>) = <<>>
  <2>1. /\ ThinkEnd \in Seq(Character) /\ 1 \in Nat \ {0} /\ 0 \in Nat
        /\ 1 <= 0 + 1 /\ 0 <= Len(ThinkEnd) /\ 1 \in 1..(0 + 1)
    BY TheTags
  <2>2. \A i \in 1..(1 - 1) : ThinkEnd[i] \in Newline
    OBVIOUS
  <2>3. SkipNewlines(SubSeq(ThinkEnd, 1, 0)) = SubSeq(ThinkEnd, 1, 0)
    BY <2>1, <2>2, SkipIsUnique
  <2>4. SubSeq(ThinkEnd, 1, 0) = <<>>
    BY SubSeqEmpty
  <2> QED BY <2>3, <2>4
<1> QED BY <1>1, <1>2, TheTags

(* Every step of the parser keeps its invariant. *)
LEMMA ParserStep == ParserInv /\ [Next]_vars => ParserInv'
PROOF
<1> SUFFICES ASSUME ParserInv, [Next]_vars PROVE ParserInv'
  OBVIOUS
<1>1. TypeInv /\ TypeInv' /\ (mode = "none" => pushed = 0 /\ ~finished)
  BY TypeStep DEF ParserInv
<1>2. PICK k : Cut(k)
  BY DEF ParserInv
<1>3. CASE Construct
  <2>1. /\ mode = "none" /\ mode' \in {"reasoning", "content"}
        /\ UNCHANGED <<pushed, buffer, draining, finished>>
        /\ buffer = <<>> /\ ~draining /\ ~finished /\ pushed = 0
    BY <1>3 DEF Construct, ParserInv
  <2>2. HoldsBackOnlyTag'
    BY <2>1, NothingHeld DEF HoldsBackOnlyTag
  <2>3. Cut(1)'
    <3>1. SubSeq(text', 1, 0) = <<>>
      BY SubSeqEmpty
    <3> QED BY <2>1, <3>1 DEF Cut
  <2> QED BY <1>1, <2>1, <2>2, <2>3 DEF ParserInv
<1>4. CASE Push
  <2>1. Cut(k)' /\ mode' = mode /\ mode # "none" /\ draining'
    BY <1>1, <1>2, <1>4, PushCut DEF Push
  <2>2. HoldsBackOnlyTag'
    BY <2>1 DEF HoldsBackOnlyTag
  <2> QED BY <1>1, <2>1, <2>2 DEF ParserInv
<1>5. CASE Finish
  <2>1. /\ mode' = mode /\ mode # "none" /\ draining'
        /\ UNCHANGED <<asked, pushed, buffer>>
    BY <1>5 DEF Finish
  <2>2. HoldsBackOnlyTag'
    BY <2>1 DEF HoldsBackOnlyTag
  <2>3. Cut(k)'
    BY <1>2, <2>1 DEF Cut, asked
  <2> QED BY <1>1, <2>1, <2>2, <2>3 DEF ParserInv
<1>6. CASE PassThrough \/ BufferEmpty
  <2>1. /\ mode' = mode /\ mode # "none" /\ buffer' = <<>>
        /\ UNCHANGED <<asked, pushed, finished>>
    BY <1>6 DEF PassThrough, BufferEmpty, Return, ParserInv
  <2>2. HoldsBackOnlyTag'
    <3>1. mode' \in {"reasoning", "content"}
      BY <1>1, <2>1 DEF TypeInv
    <3> QED BY <2>1, <3>1, NothingHeld DEF HoldsBackOnlyTag
  <2>3. Cut(pushed + 1)'
    BY <1>1, <2>1, EmptyCut
  <2> QED BY <1>1, <2>1, <2>2, <2>3 DEF ParserInv
<1>7. CASE DrainReasoning
  <2>1. /\ mode = "reasoning" /\ extracts' = extracts /\ finished' = finished /\ extracts
        /\ UNCHANGED <<asked, pushed>>
    BY <1>7 DEF DrainReasoning, asked
  <2>2. PICK b : b \in Nat \ {0} /\ b <= pushed + 1 /\ ReasonCases(b)
    BY <1>1, <1>2, <1>7, Reasons
  <2>3. \E c : Cut(c)'
    BY <2>2 DEF ReasonCases, Emptied, Found, Withheld, Sent
  <2>4. mode' \in {"reasoning", "content"}
    BY <2>1, <2>2 DEF ReasonCases
  <2>5. HoldsBackOnlyTag'
    <3>1. CASE draining'
      BY <3>1 DEF HoldsBackOnlyTag
    <3>2. CASE Emptied(b) /\ mode' = mode
      <4>1. buffer' = SubSeq(text', b, pushed') /\ b = pushed + 1 /\ pushed' = pushed
            /\ text' \in Seq(Character) /\ pushed' \in Nat /\ pushed' <= Len(text')
        BY <1>1, <2>1, <3>2 DEF Emptied, Cut, TypeInv
      <4>2. buffer' = <<>>
        BY <2>2, <4>1, Nil
      <4> QED BY <2>1, <3>2, <4>2, NothingHeld DEF HoldsBackOnlyTag
    <3>3. CASE /\ Withheld(b) /\ IsStrictPrefix(SkipNewlines(buffer'), ThinkEnd)
               /\ mode' = mode
      <4>1. ~finished'
        BY <2>1, <3>3 DEF Withheld
      <4> QED BY <2>1, <3>3, <4>1 DEF HoldsBackOnlyTag
    <3> QED BY <2>2, <3>1, <3>2, <3>3 DEF ReasonCases, Found, Sent
  <2> QED BY <1>1, <2>3, <2>4, <2>5 DEF ParserInv
<1>8. CASE DrainContent
  <2>1. /\ mode = "content" /\ extracts' = extracts /\ finished' = finished /\ extracts
        /\ UNCHANGED <<asked, pushed>>
    BY <1>8 DEF DrainContent, asked
  <2>2. PICK b : b \in Nat \ {0} /\ b <= pushed + 1 /\ SayCases(b)
    BY <1>1, <1>2, <1>8, Says
  <2>3. \E c : Cut(c)'
    BY <2>2 DEF SayCases, Emptied, Found, Withheld, Sent
  <2>4. mode' \in {"reasoning", "content"}
    BY <2>1, <2>2 DEF SayCases
  <2>5. HoldsBackOnlyTag'
    <3>1. CASE draining'
      BY <3>1 DEF HoldsBackOnlyTag
    <3>2. CASE Emptied(b) /\ mode' = mode
      <4>1. buffer' = SubSeq(text', b, pushed') /\ b = pushed + 1 /\ pushed' = pushed
            /\ text' \in Seq(Character) /\ pushed' \in Nat /\ pushed' <= Len(text')
        BY <1>1, <2>1, <3>2 DEF Emptied, Cut, TypeInv
      <4>2. buffer' = <<>>
        BY <2>2, <4>1, Nil
      <4> QED BY <2>1, <3>2, <4>2, NothingHeld DEF HoldsBackOnlyTag
    <3>3. CASE /\ Withheld(b) /\ IsStrictPrefix(buffer', ThinkStart)
               /\ mode' = mode
      <4>1. ~finished'
        BY <2>1, <3>3 DEF Withheld
      <4> QED BY <2>1, <3>3, <4>1 DEF HoldsBackOnlyTag
    <3> QED BY <2>2, <3>1, <3>2, <3>3 DEF SayCases, Found, Sent
  <2> QED BY <1>1, <2>3, <2>4, <2>5 DEF ParserInv
<1>9. CASE UNCHANGED vars
  <2>1. HoldsBackOnlyTag'
    BY <1>9 DEF vars, HoldsBackOnlyTag, asked, ParserInv
  <2>2. Cut(k)'
    BY <1>2, <1>9 DEF vars, Cut, asked
  <2> QED BY <1>1, <1>9, <2>1, <2>2 DEF vars, asked, ParserInv
<1> QED BY <1>3, <1>4, <1>5, <1>6, <1>7, <1>8, <1>9 DEF Next, Drain

(* An unused parser satisfies it. *)
LEMMA ParserStarts == Init => ParserInv
PROOF
<1> SUFFICES ASSUME Init PROVE ParserInv
  OBVIOUS
<1>1. TypeInv
  <2>1. text \in Seq(Character) /\ Len(text) = 0
    BY EmptySeq DEF Init
  <2>2. /\ pushed = 0 /\ mode = "none" /\ finished = FALSE
        /\ thinking = FALSE /\ extracts = FALSE /\ skipReasoning = FALSE
        /\ skipContent = FALSE /\ draining = FALSE
    BY DEF Init
  <2>3. {thinking, extracts, skipReasoning, skipContent, finished, draining} \subseteq BOOLEAN
    BY <2>2
  <2>4. pushed \in Nat /\ pushed <= Len(text) /\ mode \in {"none", "reasoning", "content"}
    BY <2>1, <2>2
  <2> QED BY <2>1, <2>2, <2>3, <2>4 DEF TypeInv
<1>2. Cut(1)
  <2>1. SubSeq(<<>>, 1, 0) = <<>>
    BY SubSeqEmpty
  <2> QED BY <2>1 DEF Init, Cut
<1>3. HoldsBackOnlyTag
  BY DEF Init, HoldsBackOnlyTag
<1> QED BY <1>1, <1>2, <1>3 DEF Init, ParserInv

(* So it always holds. *)
LEMMA ParserInvariant == Spec => []ParserInv
PROOF
<1> QED BY ParserStarts, ParserStep, PTL DEF Spec

(* Whatever the model generates and wherever the chunks end: between two   *)
(* pushes the client is only owed the begin of the tag that would end the  *)
(* current part, with the newlines before it, and after finish nothing.    *)
THEOREM OnlyTagsAreHeldBack == Spec => []HoldsBackOnlyTag
PROOF
<1>1. ParserInv => HoldsBackOnlyTag
  BY DEF ParserInv
<1> QED BY <1>1, ParserInvariant, PTL

-----------------------------------------------------------------------------
(* The text of one thought.  Its reasoning follows the start tag at place  *)
(* a and, after at most one newline, begins at place b; what comes before  *)
(* the tag is the opening of the content.                                  *)
ThoughtAt(a, b) ==
  /\ a \in Nat \ {0} /\ b \in {a, a + 1} /\ b <= Len(text) + 1
  /\ \A i \in a..(b - 1) : text[i] \in Newline
  /\ b <= Len(text) => text[b] \notin Newline
  /\ \A g \in Occurrences(text, ThinkStart) : g < a
  /\ IF thinking THEN a = 1 /\ b = 1
     ELSE \E o \in Occurrences(text, ThinkStart) :
            a = o + Len(ThinkStart) /\ Occurrences(text, ThinkStart) = {o}

(* The content before the start tag that ends at place a. *)
Opening(a) == IF thinking THEN <<>> ELSE SubSeq(text, 1, a - Len(ThinkStart) - 1)

(* The least place of the end tag.                                         *)
EndsAt(b, f) ==
  /\ f \in Occurrences(text, ThinkEnd) /\ f >= b
  /\ \A g \in Occurrences(text, ThinkEnd) : g >= b => f <= g

(* What was sent when the buffer begins at place k: all of the content     *)
(* before the start tag;                                                   *)
Verbatim(k) == Cut(k) /\ reasoning = <<>> /\ content = SubSeq(text, 1, k - 1)

(* no start tag begins before place k; *)
BeforeThought(k) ==
  /\ mode = "content" /\ ~thinking /\ skipContent = FALSE
  /\ Verbatim(k)
  /\ \A g \in Occurrences(text, ThinkStart) : g >= k

(* the reasoning up to its last character that is no newline,              *)
Thinks(b, k) ==
  /\ b <= k
  /\ reasoning = SubSeq(text, b, k - 1)
  /\ k = b \/ text[k - 1] \notin Newline
  /\ \A g \in Occurrences(text, ThinkEnd) : g >= b => g >= k

(* once its newline is skipped; *)
InThought(a, b, k) ==
  /\ mode = "reasoning" /\ ThoughtAt(a, b) /\ content = Opening(a)
  /\ Cut(k)
  /\ IF skipReasoning THEN k = a /\ reasoning = <<>> ELSE Thinks(b, k)

(* all of it if the text ended in it,                                      *)
ThoughtOver(a, b) ==
  /\ mode = "reasoning" /\ ThoughtAt(a, b) /\ content = Opening(a)
  /\ finished /\ buffer = <<>>
  /\ \A g \in Occurrences(text, ThinkEnd) : ~(g >= b)
  /\ reasoning = TrimNewlines(SubSeq(text, b, Len(text)))

(* and the content after the end tag and its newlines.                     *)
Answers(a, c, d, k) ==
  IF skipContent
  THEN content = Opening(a) /\ \A i \in c..(k - 1) : text[i] \in Newline
  ELSE /\ d \in c..k /\ d <= Len(text)
       /\ \A i \in c..(d - 1) : text[i] \in Newline
       /\ text[d] \notin Newline
       /\ content = Opening(a) \o SubSeq(text, d, k - 1)

(* with the reasoning trimmed before the end tag. *)
AfterThought(a, b, f, d, k) ==
  /\ mode = "content" /\ ThoughtAt(a, b) /\ EndsAt(b, f)
  /\ reasoning = TrimNewlines(SubSeq(text, b, f - 1))
  /\ f + Len(ThinkEnd) <= k /\ Cut(k)
  /\ Answers(a, f + Len(ThinkEnd), d, k)

(* The four phases of a text of one thought. *)
OfOneThought ==
  \/ \E k : BeforeThought(k)
  \/ \E a, b, k : InThought(a, b, k)
  \/ \E a, b : ThoughtOver(a, b)
  \/ \E a, b, f, d, k : AfterThought(a, b, f, d, k)

(* Without extraction everything sent is content, whatever the text. *)
StreamInv ==
  mode # "none" =>
    IF extracts THEN OneThought => OfOneThought ELSE \E k : Verbatim(k)

(* What is trimmed behind a character that is no newline.                  *)
LEMMA TrimJoined ==
  ASSUME NEW s \in Seq(Character), NEW b \in Nat \ {0}, NEW p \in Nat \ {0}, NEW m \in Nat,
         b <= p, p <= m + 1, m <= Len(s), p = b \/ s[p - 1] \notin Newline
  PROVE  SubSeq(s, b, p - 1) \o TrimNewlines(SubSeq(s, p, m))
           = TrimNewlines(SubSeq(s, b, m))
PROOF
<1>1. PICK e \in (p - 1)..m :
        /\ TrimNewlines(SubSeq(s, p, m)) = SubSeq(s, p, e)
        /\ \A i \in (e + 1)..m : s[i] \in Newline
        /\ e >= p => s[e] \notin Newline
  BY TrimsTo
<1>2. TrimNewlines(SubSeq(s, b, m)) = SubSeq(s, b, e)
  <2>1. e \in (b - 1)..m /\ b <= m + 1
    BY <1>1
  <2>2. ASSUME e >= b PROVE s[e] \notin Newline
    <3>1. CASE e >= p
      BY <1>1, <3>1
    <3>2. CASE ~(e >= p)
      <4>1. e = p - 1 /\ p # b
        BY <1>1, <2>2, <3>2
      <4> QED BY <4>1
    <3> QED BY <3>1, <3>2
  <2> QED BY <1>1, <2>1, <2>2, TrimIsUnique
<1>3. SubSeq(s, b, p - 1) \o SubSeq(s, p, e) = SubSeq(s, b, e)
  <2>1. PICK q \in Nat : q = p - 1
    <3>1. p - 1 \in Nat
      OBVIOUS
    <3> QED BY <3>1
  <2>2. b <= q + 1 /\ q <= e /\ e <= Len(s) /\ e \in Nat /\ q + 1 = p
    BY <1>1, <2>1, LenProperties
  <2>3. SubSeq(s, b, q) \o SubSeq(s, q + 1, e) = SubSeq(s, b, e)
    BY <2>2, Joined
  <2> QED BY <2>1, <2>2, <2>3
<1> QED BY <1>1, <1>2, <1>3

(* What is appended to a segment that ends before it.                      *)
LEMMA JoinedAt ==
  ASSUME NEW s \in Seq(Character), NEW b \in Nat \ {0}, NEW p \in Nat \ {0}, NEW e \in Nat,
         b <= p, p <= e + 1, e <= Len(s)
  PROVE  SubSeq(s, b, p - 1) \o SubSeq(s, p, e) = SubSeq(s, b, e)
PROOF
<1>1. PICK q \in Nat : q = p - 1
  <2>1. p - 1 \in Nat
    OBVIOUS
  <2> QED BY <2>1
<1>2. b <= q + 1 /\ q <= e /\ q + 1 = p
  BY <1>1
<1>3. SubSeq(s, b, q) \o SubSeq(s, q + 1, e) = SubSeq(s, b, e)
  BY <1>2, Joined
<1> QED BY <1>1, <1>2, <1>3

(* A set that is not larger than one has no two elements.                  *)
LEMMA OnlyOne ==
  ASSUME NEW n \in Nat, NEW T, T \subseteq 1..n, Cardinality(T) <= 1,
         NEW x \in T, NEW y \in T
  PROVE  x = y
PROOF
<1>1. IsFiniteSet(T)
  <2>1. IsFiniteSet(1..n)
    BY FS_Interval
  <2> QED BY <2>1, FS_Subset
<1>2. SUFFICES ASSUME x # y PROVE FALSE
  OBVIOUS
<1>3. Cardinality(T \ {x}) = Cardinality(T) - 1 /\ IsFiniteSet(T \ {x})
      /\ Cardinality(T) \in Nat
  BY <1>1, FS_RemoveElement, FS_CardinalityType
<1>4. Cardinality(T \ {x}) = 0
  BY <1>3, FS_CardinalityType
<1>5. T \ {x} = {}
  BY <1>3, <1>4, FS_EmptySet
<1> QED BY <1>2, <1>5

(* A step that sends nothing and keeps the place leaves it at that.        *)
LEMMA PhaseStays ==
  ASSUME StreamInv,
         UNCHANGED <<asked, mode, skipReasoning, skipContent, reasoning, content>>,
         \A k : Cut(k) => Cut(k)',
         finished => finished' /\ buffer' = buffer
  PROVE  StreamInv'
PROOF
<1>1. /\ text' = text /\ thinking' = thinking /\ extracts' = extracts
      /\ mode' = mode /\ skipReasoning' = skipReasoning /\ skipContent' = skipContent
      /\ reasoning' = reasoning /\ content' = content
  BY DEF asked
<1>2. ASSUME NEW a, NEW b, ThoughtAt(a, b) PROVE ThoughtAt(a, b)' /\ Opening(a)' = Opening(a)
  BY <1>1, <1>2 DEF ThoughtAt, Opening
<1>3. ASSUME mode # "none", extracts, OneThought, OfOneThought PROVE OfOneThought'
  <2>1. ASSUME NEW k, BeforeThought(k) PROVE BeforeThought(k)'
    BY <1>1, <2>1 DEF BeforeThought, Verbatim
  <2>2. ASSUME NEW a, NEW b, NEW k, InThought(a, b, k) PROVE InThought(a, b, k)'
    <3>1. ThoughtAt(a, b)' /\ Opening(a)' = Opening(a) /\ Cut(k)'
      BY <1>2, <2>2 DEF InThought
    <3> QED BY <1>1, <2>2, <3>1 DEF InThought, Thinks
  <2>3. ASSUME NEW a, NEW b, ThoughtOver(a, b) PROVE ThoughtOver(a, b)'
    <3>1. ThoughtAt(a, b)' /\ Opening(a)' = Opening(a) /\ finished' /\ buffer' = <<>>
      BY <1>2, <2>3 DEF ThoughtOver
    <3> QED BY <1>1, <2>3, <3>1 DEF ThoughtOver
  <2>4. ASSUME NEW a, NEW b, NEW f, NEW d, NEW k, AfterThought(a, b, f, d, k)
        PROVE  AfterThought(a, b, f, d, k)'
    <3>1. ThoughtAt(a, b)' /\ Opening(a)' = Opening(a) /\ Cut(k)'
      BY <1>2, <2>4 DEF AfterThought
    <3>2. EndsAt(b, f)'
      BY <1>1, <2>4 DEF AfterThought, EndsAt
    <3>3. Answers(a, f + Len(ThinkEnd), d, k)'
      <4>1. ASSUME NEW c, Answers(a, c, d, k) PROVE Answers(a, c, d, k)'
        <5>1. CASE skipContent
          BY <1>1, <3>1, <4>1, <5>1 DEF Answers
        <5>2. CASE ~skipContent
          <6>1. /\ d \in c..k /\ d <= Len(text)
                /\ \A i \in c..(d - 1) : text[i] \in Newline
                /\ text[d] \notin Newline
                /\ content = Opening(a) \o SubSeq(text, d, k - 1)
            BY <4>1, <5>2 DEF Answers
          <6>2. content' = Opening(a)' \o SubSeq(text', d, k - 1)
            BY <1>1, <3>1, <6>1
          <6>3. /\ d \in c..k /\ d <= Len(text')
                /\ \A i \in c..(d - 1) : text'[i] \in Newline
                /\ text'[d] \notin Newline
            BY <1>1, <6>1
          <6> QED BY <1>1, <5>2, <6>2, <6>3 DEF Answers
        <5> QED BY <5>1, <5>2
      <4> QED BY <2>4, <4>1 DEF AfterThought
    <3> QED BY <1>1, <2>4, <3>1, <3>2, <3>3 DEF AfterThought
  <2> QED BY <1>3, <2>1, <2>2, <2>3, <2>4 DEF OfOneThought
<1>4. ASSUME NEW k, Verbatim(k) PROVE Verbatim(k)'
  BY <1>1, <1>4 DEF Verbatim
<1>5. OneThought' = OneThought
  BY <1>1 DEF OneThought
<1> QED BY <1>1, <1>3, <1>4, <1>5 DEF StreamInv

(* The thought of a thinking text begins where the text does, now and in   *)
(* the next state.                                                         *)
ThinksFromTheStart ==
  text \in Seq(Character) /\ thinking /\ OneThought => ThoughtAt(1, 1)

(* Every text that begins in its thought, in the state at hand.            *)
LEMMA ThinkingThought == ThinksFromTheStart
PROOF
<1> SUFFICES ASSUME text \in Seq(Character), thinking, OneThought
             PROVE  ThoughtAt(1, 1)
  BY DEF ThinksFromTheStart
<1>1. Occurrences(text, ThinkStart) = {} /\ LeadingNewlines(text) = 0
  BY DEF OneThought
<1>2. /\ 1 \in Nat \ {0} /\ Len(text) \in Nat /\ 1 <= Len(text) + 1
      /\ Len(text) <= Len(text) /\ SubSeq(text, 1, Len(text)) = text
  BY LenProperties, SubSeqFull
<1>3. PICK b \in 1..(Len(text) + 1) :
        /\ LeadingNewlines(text) = b - 1
        /\ b <= Len(text) => text[b] \notin Newline
  BY <1>2, SkipsTo
<1>4. b = 1
  BY <1>1, <1>3
<1>5. \A i \in 1..(1 - 1) : text[i] \in Newline
  OBVIOUS
<1> QED BY <1>1, <1>2, <1>3, <1>4, <1>5 DEF ThoughtAt

(* The same of the next state.                                             *)
LEMMA ThinkingThoughtNext == ThinksFromTheStart'
BY ThinkingThought, PTL

(* Without thinking it begins after the only start tag.                    *)
LEMMA TaggedThought ==
  ASSUME text \in Seq(Character), ~thinking, OneThought,
         NEW f \in Occurrences(text, ThinkStart)
  PROVE  \E a \in Nat \ {0} : /\ a = f + Len(ThinkStart) /\ a <= Len(text) + 1
                              /\ \E b : ThoughtAt(a, b)
PROOF
<1>1. /\ ThinkStart \in Tags /\ Len(ThinkStart) \in Nat \ {0} /\ Len(text) \in Nat
      /\ SubSeq(text, 1, Len(text)) = text
  BY TheTags, LenProperties, SubSeqFull
<1>2. /\ Cardinality(Occurrences(text, ThinkStart)) <= 1
      /\ LeadingNewlines(After(text, ThinkStart)) <= 1
  BY DEF OneThought
<1>3. Occurrences(text, ThinkStart) = {f}
  <2>1. Occurrences(text, ThinkStart) \subseteq 1..Len(text)
    BY <1>1 DEF Occurrences
  <2>2. \A g \in Occurrences(text, ThinkStart) : g = f
    BY <1>1, <1>2, <2>1, OnlyOne
  <2> QED BY <2>2
<1>4. f \in Nat \ {0} /\ f + Len(ThinkStart) - 1 <= Len(text)
  BY <1>1 DEF Occurrences
<1>5. PICK a \in Nat \ {0} : a = f + Len(ThinkStart)
  <2>1. f + Len(ThinkStart) \in Nat \ {0}
    BY <1>1, <1>4
  <2> QED BY <2>1
<1>6. a <= Len(text) + 1
  BY <1>1, <1>4, <1>5
<1>7. After(text, ThinkStart) = SubSeq(text, a, Len(text))
  <2>1. /\ 1 \in Nat \ {0} /\ 1 <= Len(text) + 1 /\ Occurrences(text, ThinkStart) # {}
        /\ text = SubSeq(text, 1, Len(text))
    BY <1>1, <1>3
  <2>2. PICK g : FirstPlace(text, 1, Len(text), ThinkStart, g)
    <3>1. Occurrences(SubSeq(text, 1, Len(text)), ThinkStart) # {}
      BY <2>1, Zenon
    <3>2. 1 <= Len(text) + 1 /\ Len(text) <= Len(text)
      BY <1>1
    <3> QED BY <1>1, <3>1, <3>2, FindsAt
  <2>3. /\ g \in Occurrences(text, ThinkStart)
        /\ After(SubSeq(text, 1, Len(text)), ThinkStart)
             = SubSeq(text, g + Len(ThinkStart), Len(text))
    BY <2>2 DEF FirstPlace
  <2>4. g = f
    BY <1>3, <2>3
  <2>5. After(text, ThinkStart) = SubSeq(text, g + Len(ThinkStart), Len(text))
    BY <2>1, <2>3, Zenon
  <2> QED BY <1>5, <2>4, <2>5
<1>8. PICK b \in a..(Len(text) + 1) :
        /\ LeadingNewlines(SubSeq(text, a, Len(text))) = b - a
        /\ \A i \in a..(b - 1) : text[i] \in Newline
        /\ b <= Len(text) => text[b] \notin Newline
  <2>1. Len(text) <= Len(text)
    BY <1>1
  <2> QED BY <1>1, <1>6, <2>1, SkipsTo
<1>9. b \in {a, a + 1}
  BY <1>2, <1>7, <1>8
<1>10. ThoughtAt(a, b)
  <2>1. b <= Len(text) + 1
    BY <1>1, <1>8
  <2>2. \A g \in Occurrences(text, ThinkStart) : g < a
    BY <1>1, <1>3, <1>4, <1>5
  <2> QED BY <1>3, <1>5, <1>8, <1>9, <2>1, <2>2 DEF ThoughtAt
<1> QED BY <1>5, <1>6, <1>10

(* A thought is read on where its text begins, or after what was sent.     *)
LEMMA ReadsOn ==
  ASSUME TypeInv, NEW a, NEW b, NEW k, InThought(a, b, k), buffer # <<>>,
         NEW p \in Nat \ {0}, p <= pushed + 1, Skipped(k, p, skipReasoning)
  PROVE  /\ Thinks(b, p) /\ a \in Nat \ {0} /\ b \in Nat \ {0} /\ a <= b
         /\ b <= p
PROOF
<1>1. /\ text \in Seq(Character) /\ pushed \in Nat /\ pushed <= Len(text)
      /\ Len(text) \in Nat
      /\ k \in Nat \ {0} /\ k <= pushed + 1 /\ buffer = SubSeq(text, k, pushed)
  BY LenProperties DEF TypeInv, InThought, Cut
<1>2. k <= pushed
  <2>1. k # pushed + 1
    BY <1>1, Nil
  <2> QED BY <1>1, <2>1
<1>3. /\ a \in Nat \ {0} /\ b \in {a, a + 1} /\ b <= Len(text) + 1
      /\ \A i \in a..(b - 1) : text[i] \in Newline
      /\ b <= Len(text) => text[b] \notin Newline
  BY DEF InThought, ThoughtAt
<1>4. CASE skipReasoning
  <2>1. /\ p \in k..(pushed + 1) /\ (p <= pushed => text[p] \notin Newline)
        /\ \A i \in k..(p - 1) : text[i] \in Newline
    BY <1>4 DEF Skipped
  <2>2. k = a /\ reasoning = <<>>
    BY <1>4 DEF InThought
  <2>3. ~(p > b)
    <3>1. SUFFICES ASSUME p > b PROVE FALSE
      OBVIOUS
    <3>2. b \in k..(p - 1) /\ b <= Len(text)
      BY <1>1, <1>3, <2>1, <2>2, <3>1
    <3> QED BY <1>3, <2>1, <3>2
  <2>4. ~(p < b)
    <3>1. SUFFICES ASSUME p < b PROVE FALSE
      OBVIOUS
    <3>2. p = a /\ a \in a..(b - 1)
      BY <1>3, <2>1, <2>2, <3>1
    <3> QED BY <1>2, <1>3, <2>1, <2>2, <3>2
  <2>5. p = b
    BY <1>3, <2>3, <2>4
  <2>6. SubSeq(text, b, p - 1) = <<>>
    BY <1>3, <2>5, SubSeqEmpty
  <2>7. Thinks(b, p)
    BY <1>3, <2>2, <2>5, <2>6 DEF Thinks
  <2> QED BY <1>3, <2>5, <2>7
<1>5. CASE ~skipReasoning
  <2>1. p = k /\ Thinks(b, k)
    BY <1>5 DEF Skipped, InThought
  <2> QED BY <1>1, <1>3, <2>1 DEF Thinks
<1> QED BY <1>4, <1>5

(* The thought keeps its place while the text does. *)
LEMMA PlaceStays ==
  ASSUME NEW a, NEW b, ThoughtAt(a, b), UNCHANGED asked
  PROVE  ThoughtAt(a, b)' /\ Opening(a)' = Opening(a)
PROOF
<1>1. text' = text /\ thinking' = thinking
  BY DEF asked
<1>2. ThoughtAt(a, b)'
  BY <1>1 DEF ThoughtAt
<1>3. Opening(a)' = Opening(a)
  BY <1>1 DEF Opening
<1> QED BY <1>2, <1>3

(* Reasoning is sent up to a place where it does not end in a newline, or  *)
(* complete.                                                               *)
LEMMA ThoughtStep ==
  ASSUME TypeInv, TypeInv', NEW a, NEW b, NEW k, InThought(a, b, k), DrainReasoning
  PROVE  OfOneThought'
PROOF
<1>1. /\ UNCHANGED <<asked, pushed, finished, content>> /\ buffer # <<>>
      /\ mode = "reasoning" /\ text' = text /\ pushed' = pushed /\ finished' = finished
      /\ content' = content
  BY DEF DrainReasoning, asked
<1>2. ThoughtAt(a, b) /\ content = Opening(a) /\ Cut(k)
  BY DEF InThought
<1>3. ThoughtAt(a, b)' /\ content' = Opening(a)'
  BY <1>1, <1>2, PlaceStays
<1>4. PICK p : /\ p \in Nat \ {0} /\ p <= pushed + 1
               /\ Skipped(k, p, skipReasoning) /\ ReasonCases(p)
  BY <1>2, Reasons
<1>5. /\ Thinks(b, p) /\ a \in Nat \ {0} /\ b \in Nat \ {0} /\ a <= b /\ b <= p
  BY <1>1, <1>4, ReadsOn
<1>6. /\ reasoning = SubSeq(text, b, p - 1)
      /\ p = b \/ text[p - 1] \notin Newline
      /\ \A g \in Occurrences(text, ThinkEnd) : g >= b => g >= p
  BY <1>5 DEF Thinks
<1>7. /\ text \in Seq(Character) /\ pushed \in Nat /\ pushed <= Len(text)
      /\ Len(text) \in Nat /\ finished \in BOOLEAN /\ (finished => pushed = Len(text))
  BY LenProperties DEF TypeInv
<1>8. CASE /\ Emptied(p) \/ Withheld(p)
           /\ ~skipReasoning' /\ UNCHANGED <<mode, skipContent, reasoning>>
  <2>1. Cut(p)'
    BY <1>8 DEF Emptied, Withheld
  <2>2. Thinks(b, p)'
    BY <1>1, <1>5, <1>8 DEF Thinks
  <2>3. InThought(a, b, p)'
    BY <1>1, <1>3, <1>8, <2>1, <2>2 DEF InThought
  <2> QED BY <2>3 DEF OfOneThought
<1>9. CASE p \in Occurrences(text, ThinkStart)
  <2>1. p < a
    BY <1>2, <1>9 DEF ThoughtAt
  <2> QED BY <1>4, <1>5, <2>1
<1>10. ASSUME NEW f \in p..pushed, Found(p, f, ThinkEnd),
              reasoning' = reasoning \o TrimNewlines(SubSeq(text, p, f - 1)),
              mode' = "content", skipContent'
       PROVE  OfOneThought'
  <2>1. /\ f \in Occurrences(text, ThinkEnd)
        /\ \A g \in Occurrences(text, ThinkEnd) : g >= p => f <= g
        /\ Cut(f + Len(ThinkEnd))'
    BY <1>10 DEF Found
  <2>2. EndsAt(b, f)'
    <3>1. f >= b
      BY <1>4, <1>5
    <3>2. EndsAt(b, f)
      BY <1>6, <2>1, <3>1 DEF EndsAt
    <3> QED BY <1>1, <3>2 DEF EndsAt
  <2>3. reasoning' = TrimNewlines(SubSeq(text', b, f - 1))
    <3>1. PICK m \in Nat : m = f - 1
      <4>1. f - 1 \in Nat
        BY <1>4
      <4> QED BY <4>1
    <3>2. p <= m + 1 /\ m <= Len(text)
      BY <1>4, <1>7, <3>1
    <3>3. SubSeq(text, b, p - 1) \o TrimNewlines(SubSeq(text, p, m))
            = TrimNewlines(SubSeq(text, b, m))
      BY <1>4, <1>5, <1>6, <1>7, <3>2, TrimJoined
    <3> QED BY <1>1, <1>6, <1>10, <3>1, <3>3
  <2>4. PICK c \in Nat : c = f + Len(ThinkEnd)
    <3>1. f + Len(ThinkEnd) \in Nat
      BY <1>4, TheTags
    <3> QED BY <3>1
  <2>5. Answers(a, c, c, c)'
    <3>1. \A i \in c..(c - 1) : text'[i] \in Newline
      OBVIOUS
    <3> QED BY <1>3, <1>10, <3>1 DEF Answers
  <2>6. AfterThought(a, b, f, c, c)'
    <3>1. f + Len(ThinkEnd) <= c
      BY <2>4
    <3>2. Cut(c)'
      BY <2>1, <2>4
    <3>3. Answers(a, f + Len(ThinkEnd), c, c)'
      BY <2>4, <2>5
    <3> QED BY <1>3, <1>10, <2>2, <2>3, <3>1, <3>2, <3>3 DEF AfterThought
  <2> QED BY <2>6 DEF OfOneThought
<1>11. ASSUME NEW e \in p..pushed, Sent(p, e, ThinkEnd), ~finished => text[e] \notin Newline,
              reasoning' = reasoning \o (IF finished THEN TrimNewlines(SubSeq(text, p, e))
                                                     ELSE SubSeq(text, p, e)),
              ~skipReasoning', UNCHANGED mode
       PROVE  OfOneThought'
  <2>1. /\ finished => e = pushed
        /\ \A g \in Occurrences(text, ThinkEnd) : g >= p => g > e
        /\ Cut(e + 1)' /\ e \in Nat \ {0} /\ e <= Len(text) /\ p <= e + 1
    BY <1>4, <1>7, <1>11 DEF Sent
  <2>2. CASE finished
    <3>1. e = Len(text)
      BY <1>7, <2>1, <2>2
    <3>2. reasoning' = TrimNewlines(SubSeq(text', b, Len(text')))
      <4>1. SubSeq(text, b, p - 1) \o TrimNewlines(SubSeq(text, p, e))
              = TrimNewlines(SubSeq(text, b, e))
        BY <1>4, <1>5, <1>6, <1>7, <2>1, TrimJoined
      <4> QED BY <1>1, <1>6, <1>11, <2>2, <3>1, <4>1
    <3>3. buffer' = <<>>
      <4>1. buffer' = SubSeq(text, e + 1, pushed) /\ pushed = e
        BY <1>1, <1>7, <2>1, <3>1 DEF Cut
      <4>2. SubSeq(text, e + 1, e) = <<>>
        BY <2>1, SubSeqEmpty
      <4> QED BY <4>1, <4>2
    <3>4. \A g \in Occurrences(text', ThinkEnd) : ~(g >= b)
      <4>1. ASSUME NEW g \in Occurrences(text, ThinkEnd), g >= b PROVE FALSE
        <5>1. g > Len(text)
          BY <1>6, <2>1, <3>1, <4>1
        <5>2. g \in Nat \ {0} /\ g + Len(ThinkEnd) - 1 <= Len(text)
              /\ Len(ThinkEnd) \in Nat \ {0}
          BY TheTags, TagsEnd
        <5> QED BY <1>7, <5>1, <5>2
      <4> QED BY <1>1, <4>1
    <3>5. ThoughtOver(a, b)'
      BY <1>1, <1>3, <1>11, <2>2, <3>2, <3>3, <3>4 DEF ThoughtOver
    <3> QED BY <3>5 DEF OfOneThought
  <2>3. CASE ~finished
    <3>1. reasoning' = SubSeq(text, b, e)
      <4>1. SubSeq(text, b, p - 1) \o SubSeq(text, p, e) = SubSeq(text, b, e)
        BY <1>4, <1>5, <1>7, <2>1, JoinedAt
      <4> QED BY <1>6, <1>11, <2>3, <4>1
    <3>2. Thinks(b, e + 1)'
      <4>1. (e + 1) - 1 = e /\ b <= e + 1
        BY <1>4, <1>5, <2>1
      <4>2. \A g \in Occurrences(text, ThinkEnd) : g >= b => g >= e + 1
        <5>1. ASSUME NEW g \in Occurrences(text, ThinkEnd), g >= b PROVE g >= e + 1
          <6>1. g > e /\ g \in Nat
            BY <1>6, <2>1, <5>1, TheTags, TagsEnd
          <6> QED BY <2>1, <6>1
        <5> QED BY <5>1
      <4>3. text[(e + 1) - 1] \notin Newline
        BY <1>11, <2>3, <4>1
      <4>4. reasoning' = SubSeq(text, b, (e + 1) - 1)
        BY <3>1, <4>1
      <4> QED BY <1>1, <4>1, <4>2, <4>3, <4>4 DEF Thinks
    <3>3. InThought(a, b, e + 1)'
      BY <1>1, <1>3, <1>11, <2>1, <3>2 DEF InThought
    <3> QED BY <3>3 DEF OfOneThought
  <2> QED BY <1>7, <2>2, <2>3
<1> QED BY <1>4, <1>8, <1>9, <1>10, <1>11 DEF ReasonCases

(* Before the thought the content is sent as it is.                        *)
LEMMA OpeningStep ==
  ASSUME TypeInv, TypeInv', OneThought, NEW k, BeforeThought(k), DrainContent
  PROVE  OfOneThought'
PROOF
<1>1. /\ UNCHANGED <<asked, pushed, finished, reasoning>> /\ buffer # <<>>
      /\ text' = text /\ pushed' = pushed /\ thinking' = thinking
      /\ reasoning' = reasoning
  BY DEF DrainContent, asked
<1>2. /\ mode = "content" /\ ~thinking /\ skipContent = FALSE /\ Cut(k)
      /\ reasoning = <<>> /\ content = SubSeq(text, 1, k - 1)
      /\ \A g \in Occurrences(text, ThinkStart) : g >= k
  BY DEF BeforeThought, Verbatim
<1>3. PICK p : /\ p \in Nat \ {0} /\ p <= pushed + 1
               /\ Skipped(k, p, skipContent) /\ SayCases(p)
  BY <1>2, Says
<1>4. p = k
  BY <1>2, <1>3 DEF Skipped
<1>5. /\ text \in Seq(Character) /\ pushed \in Nat /\ pushed <= Len(text)
      /\ Len(text) \in Nat
  BY LenProperties DEF TypeInv
<1>6. CASE /\ Emptied(p) \/ Withheld(p)
           /\ skipContent' = FALSE /\ UNCHANGED <<mode, content>>
  <2>1. Cut(p)'
    BY <1>6 DEF Emptied, Withheld
  <2>2. BeforeThought(p)'
    BY <1>1, <1>2, <1>4, <1>6, <2>1 DEF BeforeThought, Verbatim
  <2> QED BY <2>2 DEF OfOneThought
<1>7. ASSUME NEW f \in p..pushed, Found(p, f, ThinkStart),
             content' = content \o SubSeq(text, p, f - 1),
             mode' = "reasoning", skipReasoning'
      PROVE  OfOneThought'
  <2>1. f \in Occurrences(text, ThinkStart) /\ Cut(f + Len(ThinkStart))'
    BY <1>7 DEF Found
  <2>2. PICK a \in Nat \ {0} : a = f + Len(ThinkStart) /\ \E b : ThoughtAt(a, b)
    BY <1>2, <1>5, <2>1, TaggedThought
  <2>3. PICK b : ThoughtAt(a, b)
    BY <2>2
  <2>4. content' = SubSeq(text, 1, f - 1)
    <3>1. PICK m \in Nat : m = f - 1
      <4>1. f - 1 \in Nat
        BY <1>3
      <4> QED BY <4>1
    <3>2. 1 \in Nat \ {0} /\ 1 <= p /\ p <= m + 1 /\ m <= Len(text)
      BY <1>3, <1>5, <3>1
    <3>3. SubSeq(text, 1, p - 1) \o SubSeq(text, p, m) = SubSeq(text, 1, m)
      BY <1>3, <1>5, <3>2, JoinedAt
    <3> QED BY <1>2, <1>4, <1>7, <3>1, <3>3
  <2>5. content' = Opening(a)
    <3>1. a - Len(ThinkStart) - 1 = f - 1
      BY <1>3, <2>2, TheTags
    <3> QED BY <1>2, <2>4, <3>1 DEF Opening
  <2>6. ThoughtAt(a, b)' /\ content' = Opening(a)'
    BY <1>1, <2>3, <2>5, PlaceStays
  <2>7. InThought(a, b, a)'
    BY <1>1, <1>2, <1>7, <2>1, <2>2, <2>6 DEF InThought
  <2> QED BY <2>7 DEF OfOneThought
<1>8. ASSUME NEW e \in p..pushed, Sent(p, e, ThinkStart),
             content' = content \o SubSeq(text, p, e),
             skipContent' = FALSE, UNCHANGED mode
      PROVE  OfOneThought'
  <2>1. /\ \A g \in Occurrences(text, ThinkStart) : g >= p => g > e
        /\ Cut(e + 1)' /\ e \in Nat /\ e <= Len(text) /\ p <= e + 1
        /\ (e + 1) - 1 = e /\ 1 \in Nat \ {0} /\ 1 <= p
    BY <1>3, <1>5, <1>8 DEF Sent
  <2>2. content' = SubSeq(text, 1, (e + 1) - 1)
    <3>1. SubSeq(text, 1, p - 1) \o SubSeq(text, p, e) = SubSeq(text, 1, e)
      BY <1>3, <1>5, <2>1, JoinedAt
    <3> QED BY <1>2, <1>4, <1>8, <2>1, <3>1
  <2>3. ASSUME NEW g \in Occurrences(text, ThinkStart) PROVE g >= e + 1
    <3>1. g > e /\ g \in Nat
      BY <1>2, <1>4, <2>1, TheTags, TagsEnd
    <3> QED BY <2>1, <3>1
  <2>4. BeforeThought(e + 1)'
    BY <1>1, <1>2, <1>8, <2>1, <2>2, <2>3 DEF BeforeThought, Verbatim
  <2> QED BY <2>4 DEF OfOneThought
<1>9. \/ Emptied(p) /\ UNCHANGED <<mode, skipReasoning, skipContent, content>>
      \/ \E f \in p..pushed :
           /\ Found(p, f, ThinkStart)
           /\ content' = content \o SubSeq(text, p, f - 1)
           /\ mode' = "reasoning" /\ skipReasoning'
      \/ Withheld(p) /\ skipContent' = FALSE /\ UNCHANGED <<mode, content>>
      \/ \E e \in p..pushed :
           /\ Sent(p, e, ThinkStart)
           /\ content' = content \o SubSeq(text, p, e)
           /\ skipContent' = FALSE
           /\ UNCHANGED mode
  BY <1>3 DEF SayCases, TypeInv
<1> QED BY <1>2, <1>6, <1>7, <1>8, <1>9

(* What comes before the thought is a text. *)
LEMMA OpeningIsText ==
  ASSUME TypeInv, NEW a, NEW b, ThoughtAt(a, b)
  PROVE  Opening(a) \in Seq(Character)
PROOF
<1>1. text \in Seq(Character) /\ Len(text) \in Nat
  BY LenProperties DEF TypeInv
<1>2. CASE thinking
  BY <1>2, EmptySeq DEF Opening
<1>3. CASE ~thinking
  <2>1. PICK o \in Occurrences(text, ThinkStart) : a = o + Len(ThinkStart)
    BY <1>3 DEF ThoughtAt
  <2>2. /\ o \in Nat \ {0} /\ o + Len(ThinkStart) - 1 <= Len(text)
        /\ Len(ThinkStart) \in Nat \ {0}
    BY TheTags, TagsEnd
  <2>3. PICK n \in Nat : n = a - Len(ThinkStart) - 1
    <3>1. a - Len(ThinkStart) - 1 \in Nat
      BY <2>1, <2>2
    <3> QED BY <3>1
  <2>4. 1 \in Nat \ {0} /\ 1 <= n + 1 /\ n <= Len(text)
    BY <1>1, <2>1, <2>2, <2>3
  <2>5. SubSeq(text, 1, n) \in Seq(Character)
    BY <1>1, <2>4, Segment
  <2> QED BY <1>3, <2>3, <2>5 DEF Opening
<1> QED BY <1>2, <1>3

(* After the end tag it is sent but for the first newlines. *)
LEMMA AnswerStep ==
  ASSUME TypeInv, TypeInv',
         NEW a, NEW b, NEW f, NEW d, NEW k, AfterThought(a, b, f, d, k), DrainContent
  PROVE  OfOneThought'
PROOF
<1>1. /\ UNCHANGED <<asked, pushed, finished, reasoning>> /\ buffer # <<>>
      /\ mode = "content" /\ text' = text /\ pushed' = pushed
      /\ reasoning' = reasoning
  BY DEF DrainContent, asked
<1>2. /\ ThoughtAt(a, b) /\ EndsAt(b, f) /\ Cut(k)
      /\ reasoning = TrimNewlines(SubSeq(text, b, f - 1))
      /\ f + Len(ThinkEnd) <= k
  BY DEF AfterThought
<1>3. PICK p : /\ p \in Nat \ {0} /\ p <= pushed + 1
               /\ Skipped(k, p, skipContent) /\ SayCases(p)
  BY <1>2, Says
<1>4. /\ text \in Seq(Character) /\ pushed \in Nat /\ pushed <= Len(text)
      /\ Len(text) \in Nat /\ skipContent \in BOOLEAN /\ skipContent' \in BOOLEAN
  BY LenProperties DEF TypeInv
<1>5. /\ f \in Nat \ {0} /\ f >= b /\ a \in Nat \ {0} /\ b \in Nat \ {0} /\ a <= b
      /\ k \in Nat \ {0} /\ Len(ThinkEnd) \in Nat \ {0}
  <2>1. f \in Nat \ {0} /\ f >= b
    BY <1>2, TheTags, TagsEnd DEF EndsAt
  <2>2. a \in Nat \ {0} /\ b \in {a, a + 1}
    BY <1>2 DEF ThoughtAt
  <2>3. k \in Nat \ {0}
    BY <1>2 DEF Cut
  <2> QED BY <2>1, <2>2, <2>3, TheTags
<1>6. PICK c \in Nat \ {0} : c = f + Len(ThinkEnd)
  <2>1. f + Len(ThinkEnd) \in Nat \ {0}
    BY <1>5
  <2> QED BY <2>1
<1>7. Answers(a, c, d, k) /\ c <= k
  BY <1>2, <1>6 DEF AfterThought
<1>8. /\ p \in k..(pushed + 1) /\ \A i \in k..(p - 1) : text[i] \in Newline
      /\ IF skipContent THEN p <= pushed => text[p] \notin Newline ELSE p = k
  BY <1>3 DEF Skipped
<1>9. c <= p
  BY <1>5, <1>7, <1>8
<1>10. ThoughtAt(a, b)' /\ Opening(a)' = Opening(a)
  BY <1>1, <1>2, PlaceStays
<1>11. ASSUME NEW x, NEW q, Answers(a, c, x, q)', c <= q, Cut(q)', mode' = "content"
       PROVE  OfOneThought'
  <2>1. EndsAt(b, f)'
    BY <1>1, <1>2 DEF EndsAt
  <2>2. reasoning' = TrimNewlines(SubSeq(text', b, f - 1))
    BY <1>1, <1>2
  <2>3. f + Len(ThinkEnd) <= q /\ Answers(a, f + Len(ThinkEnd), x, q)'
    BY <1>6, <1>11
  <2>4. AfterThought(a, b, f, x, q)'
    BY <1>10, <1>11, <2>1, <2>2, <2>3 DEF AfterThought
  <2> QED BY <2>4 DEF OfOneThought
<1>12. \/ skipContent /\ content = Opening(a) /\ \A i \in c..(p - 1) : text[i] \in Newline
       \/ ~skipContent /\ p = k /\ Answers(a, c, d, p)
  <2>1. CASE skipContent
    <3>1. content = Opening(a) /\ \A i \in c..(k - 1) : text[i] \in Newline
      BY <1>7, <2>1 DEF Answers
    <3>2. \A i \in c..(p - 1) : text[i] \in Newline
      BY <1>5, <1>8, <3>1
    <3> QED BY <2>1, <3>1, <3>2
  <2>2. CASE ~skipContent
    BY <1>7, <1>8, <2>2
  <2> QED BY <2>1, <2>2
<1>13. ASSUME p <= pushed
       PROVE  \E x : /\ x \in c..p /\ x <= Len(text)
                     /\ \A i \in c..(x - 1) : text[i] \in Newline
                     /\ text[x] \notin Newline
                     /\ content = Opening(a) \o SubSeq(text, x, p - 1)
  <2>1. CASE skipContent
    <3>1. /\ p \in c..p /\ p <= Len(text) /\ text[p] \notin Newline
          /\ \A i \in c..(p - 1) : text[i] \in Newline
      BY <1>3, <1>4, <1>8, <1>9, <1>12, <1>13, <2>1
    <3>2. content = Opening(a) \o SubSeq(text, p, p - 1)
      <4>1. Opening(a) \in Seq(Character)
        BY <1>2, OpeningIsText
      <4>2. SubSeq(text, p, p - 1) = <<>>
        BY <1>3, SubSeqEmpty
      <4>3. Opening(a) \o <<>> = Opening(a)
        BY <4>1, ConcatEmptySeq
      <4> QED BY <1>12, <2>1, <4>2, <4>3
    <3> QED BY <3>1, <3>2
  <2>2. CASE ~skipContent
    <3>1. Answers(a, c, d, p)
      BY <1>12, <2>2
    <3> QED BY <2>2, <3>1 DEF Answers
  <2> QED BY <2>1, <2>2
<1>14. CASE Emptied(p) /\ UNCHANGED <<mode, skipContent, content>>
  <2>1. Cut(p)'
    BY <1>14 DEF Emptied
  <2>2. CASE skipContent
    <3>1. Answers(a, c, d, p)'
      BY <1>1, <1>10, <1>12, <1>14, <2>2 DEF Answers
    <3> QED BY <1>1, <1>9, <1>11, <1>14, <2>1, <3>1
  <2>3. CASE ~skipContent
    <3>1. Answers(a, c, d, p)
      BY <1>12, <2>3
    <3>2. /\ d \in c..p /\ d <= Len(text)
          /\ \A i \in c..(d - 1) : text[i] \in Newline
          /\ text[d] \notin Newline
          /\ content = Opening(a) \o SubSeq(text, d, p - 1)
      BY <2>3, <3>1 DEF Answers
    <3>3. content' = Opening(a)' \o SubSeq(text', d, p - 1)
      BY <1>1, <1>10, <1>14, <3>2
    <3>4. Answers(a, c, d, p)'
      BY <1>1, <1>14, <2>3, <3>2, <3>3 DEF Answers
    <3> QED BY <1>1, <1>9, <1>11, <1>14, <2>1, <3>4
  <2> QED BY <2>2, <2>3
<1>15. ASSUME NEW g \in p..pushed, Found(p, g, ThinkStart) PROVE FALSE
  <2>1. g \in Occurrences(text, ThinkStart)
    BY <1>15 DEF Found
  <2>2. g < a
    BY <1>2, <2>1 DEF ThoughtAt
  <2> QED BY <1>3, <1>5, <1>6, <1>9, <2>2
<1>16. CASE Withheld(p) /\ ~skipContent' /\ UNCHANGED <<mode, content>>
  <2>1. Cut(p)' /\ p <= pushed
    BY <1>16 DEF Withheld
  <2>2. PICK x : /\ x \in c..p /\ x <= Len(text)
                 /\ \A i \in c..(x - 1) : text[i] \in Newline
                 /\ text[x] \notin Newline
                 /\ content = Opening(a) \o SubSeq(text, x, p - 1)
    BY <1>13, <2>1
  <2>3. content' = Opening(a)' \o SubSeq(text', x, p - 1)
    BY <1>1, <1>10, <1>16, <2>2
  <2>4. Answers(a, c, x, p)'
    BY <1>1, <1>16, <2>2, <2>3 DEF Answers
  <2> QED BY <1>1, <1>9, <1>11, <1>16, <2>1, <2>4
<1>17. ASSUME NEW e \in p..pushed, Sent(p, e, ThinkStart),
              content' = content \o SubSeq(text, p, e), ~skipContent', UNCHANGED mode
       PROVE  OfOneThought'
  <2>1. /\ Cut(e + 1)' /\ p <= pushed /\ e \in Nat /\ e <= Len(text)
        /\ p <= e + 1 /\ (e + 1) - 1 = e
    BY <1>3, <1>4, <1>17 DEF Sent
  <2>2. PICK x : /\ x \in c..p /\ x <= Len(text)
                 /\ \A i \in c..(x - 1) : text[i] \in Newline
                 /\ text[x] \notin Newline
                 /\ content = Opening(a) \o SubSeq(text, x, p - 1)
    BY <1>13, <2>1
  <2>3. x \in Nat \ {0} /\ x <= p /\ x \in c..(e + 1) /\ c <= e + 1
    BY <1>3, <1>6, <2>1, <2>2
  <2>4. SubSeq(text, x, p - 1) \o SubSeq(text, p, e) = SubSeq(text, x, e)
    BY <1>3, <1>4, <2>1, <2>3, JoinedAt
  <2>5. content' = Opening(a) \o (SubSeq(text, x, p - 1) \o SubSeq(text, p, e))
    <3>1. /\ SubSeq(text, x, p - 1) \in Seq(Character)
          /\ SubSeq(text, p, e) \in Seq(Character)
      <4>1. PICK q \in Nat : q = p - 1
        <5>1. p - 1 \in Nat
          BY <1>3
        <5> QED BY <5>1
      <4>2. x <= q + 1 /\ q <= Len(text)
        BY <1>3, <2>1, <2>3, <4>1
      <4>3. SubSeq(text, x, q) \in Seq(Character)
        BY <1>4, <2>3, <4>2, Segment
      <4>4. SubSeq(text, p, e) \in Seq(Character)
        BY <1>3, <1>4, <2>1, Segment
      <4> QED BY <4>1, <4>3, <4>4
    <3>2. Opening(a) \in Seq(Character)
      BY <1>2, OpeningIsText
    <3>3. (Opening(a) \o SubSeq(text, x, p - 1)) \o SubSeq(text, p, e)
            = Opening(a) \o (SubSeq(text, x, p - 1) \o SubSeq(text, p, e))
      <4>1. \A s, t, u \in Seq(Character) : (s \o t) \o u = s \o (t \o u)
        BY ConcatAssociative
      <4> QED BY <3>1, <3>2, <4>1, Zenon
    <3> QED BY <1>17, <2>2, <3>3
  <2>6. content' = Opening(a)' \o SubSeq(text', x, (e + 1) - 1)
    BY <1>1, <1>10, <2>1, <2>4, <2>5
  <2>7. Answers(a, c, x, e + 1)'
    BY <1>1, <1>17, <2>2, <2>3, <2>6 DEF Answers
  <2> QED BY <1>1, <1>11, <1>17, <2>1, <2>3, <2>7
<1> QED BY <1>3, <1>14, <1>15, <1>16, <1>17 DEF SayCases

-----------------------------------------------------------------------------
(* What the batch split makes of the whole text. *)
LEMMA ThoughtSplits ==
  ASSUME text \in Seq(Character), extracts, NEW a, NEW b, ThoughtAt(a, b)
  PROVE  SplitContent(text, thinking, extracts)
           = SplitThought(Opening(a), SubSeq(text, b, Len(text)))
PROOF
<1>1. /\ Len(text) \in Nat /\ SubSeq(text, 1, Len(text)) = text
      /\ 1 \in Nat \ {0} /\ 1 <= Len(text) + 1 /\ Len(text) <= Len(text)
      /\ ThinkStart \in Tags /\ Len(ThinkStart) \in Nat \ {0}
      /\ ThinkStart \in Seq(Character)
  BY LenProperties, SubSeqFull, TheTags
<1>2. /\ a \in Nat \ {0} /\ b \in {a, a + 1} /\ b <= Len(text) + 1
      /\ \A i \in a..(b - 1) : text[i] \in Newline
      /\ b <= Len(text) => text[b] \notin Newline
      /\ \A g \in Occurrences(text, ThinkStart) : g < a
  BY DEF ThoughtAt
<1>3. CASE thinking
  <2>1. a = 1
    BY <1>3 DEF ThoughtAt
  <2>2. ~IsPrefix(ThinkStart, text)
    <3>1. SUFFICES ASSUME IsPrefix(ThinkStart, text) PROVE FALSE
      OBVIOUS
    <3>2. /\ Len(ThinkStart) <= Len(text)
          /\ SubSeq(text, 1, Len(ThinkStart)) = SubSeq(ThinkStart, 1, Len(ThinkStart))
      BY <3>1 DEF IsPrefix
    <3>3. SubSeq(ThinkStart, 1, Len(ThinkStart)) = ThinkStart
      BY <1>1, SubSeqFull
    <3>4. 1 \in Occurrences(text, ThinkStart)
      <4>1. 1 \in 1..(Len(text) + 1 - Len(ThinkStart)) /\ 1 + Len(ThinkStart) - 1 = Len(ThinkStart)
        BY <1>1, <3>2
      <4> QED BY <3>2, <3>3, <4>1 DEF Occurrences
    <3> QED BY <1>2, <2>1, <3>4
  <2>3. b = 1
    BY <1>3 DEF ThoughtAt
  <2>4. SplitContent(text, thinking, extracts) = SplitThought(<<>>, text)
    BY <1>3, <2>2 DEF SplitContent
  <2> QED BY <1>1, <1>3, <2>3, <2>4 DEF Opening
<1>4. CASE ~thinking
  <2>1. PICK o \in Occurrences(text, ThinkStart) :
          a = o + Len(ThinkStart) /\ Occurrences(text, ThinkStart) = {o}
    BY <1>4 DEF ThoughtAt
  <2> PICK f : FirstPlace(text, 1, Len(text), ThinkStart, f)
    <3>1. Occurrences(text, ThinkStart) # {} /\ text = SubSeq(text, 1, Len(text))
      BY <1>1, <2>1
    <3>2. Occurrences(SubSeq(text, 1, Len(text)), ThinkStart) # {}
      BY <3>1, Zenon
    <3>3. /\ Len(text) \in Nat /\ 1 \in Nat \ {0} /\ 1 <= Len(text) + 1
          /\ Len(text) <= Len(text) /\ ThinkStart \in Tags
      BY <1>1
    <3> QED BY <3>2, <3>3, FindsAt
  <2>2. /\ f \in 1..Len(text) /\ f \in Occurrences(text, ThinkStart)
        /\ Before(text, ThinkStart) = SubSeq(text, 1, f - 1)
        /\ After(text, ThinkStart) = SubSeq(text, f + Len(ThinkStart), Len(text))
    <3>1. /\ f \in 1..Len(text) /\ f \in Occurrences(text, ThinkStart)
          /\ Before(SubSeq(text, 1, Len(text)), ThinkStart) = SubSeq(text, 1, f - 1)
          /\ After(SubSeq(text, 1, Len(text)), ThinkStart)
               = SubSeq(text, f + Len(ThinkStart), Len(text))
      BY DEF FirstPlace
    <3>2. text = SubSeq(text, 1, Len(text))
      BY <1>1
    <3> QED BY <3>1, <3>2, Zenon
  <2>3. f = o /\ f \in Nat
    BY <2>1, <2>2
  <2>4. Before(text, ThinkStart) = Opening(a)
    <3>1. a - Len(ThinkStart) - 1 = f - 1
      BY <1>1, <2>1, <2>3
    <3> QED BY <1>1, <1>4, <2>2, <3>1 DEF Opening
  <2>5. After(text, ThinkStart) = SubSeq(text, a, Len(text))
    BY <1>1, <2>1, <2>2, <2>3
  <2>6. SkipNewlines(SubSeq(text, a, Len(text))) = SubSeq(text, b, Len(text))
    <3>1. a <= Len(text) + 1 /\ b \in a..(Len(text) + 1)
      BY <1>1, <1>2
    <3> QED BY <1>1, <1>2, <3>1, SkipIsUnique
  <2>7. SplitContent(text, thinking, extracts)
          = SplitThought(Before(text, ThinkStart), SkipNewlines(After(text, ThinkStart)))
    BY <1>4, <2>1 DEF SplitContent
  <2> QED BY <2>4, <2>5, <2>6, <2>7
<1> QED BY <1>3, <1>4

(* The text of a thought that does not end. *)
LEMMA EndlessThought ==
  ASSUME text \in Seq(Character), NEW a, NEW b \in Nat \ {0}, b <= Len(text) + 1,
         \A g \in Occurrences(text, ThinkEnd) : ~(g >= b)
  PROVE  SplitThought(Opening(a), SubSeq(text, b, Len(text)))
           = Message(TrimNewlines(SubSeq(text, b, Len(text))), Opening(a))
PROOF
<1>1. Len(text) \in Nat /\ Len(text) <= Len(text) /\ ThinkEnd \in Tags
  BY LenProperties, TheTags
<1>2. Occurrences(SubSeq(text, b, Len(text)), ThinkEnd) = {}
  <2>1. SUFFICES ASSUME Occurrences(SubSeq(text, b, Len(text)), ThinkEnd) # {}
                 PROVE  FALSE
    OBVIOUS
  <2>2. PICK f : FirstPlace(text, b, Len(text), ThinkEnd, f)
    BY <1>1, <2>1, FindsAt
  <2>3. f \in b..Len(text) /\ f \in Occurrences(text, ThinkEnd)
    BY <2>2 DEF FirstPlace
  <2> QED BY <2>3
<1> QED BY <1>2 DEF SplitThought

(* The text of a thought that ends. *)
LEMMA EndedThought ==
  ASSUME text \in Seq(Character), NEW a, NEW b \in Nat \ {0}, b <= Len(text) + 1,
         NEW f, EndsAt(b, f)
  PROVE  SplitThought(Opening(a), SubSeq(text, b, Len(text)))
           = Message(TrimNewlines(SubSeq(text, b, f - 1)),
                     Opening(a) \o SkipNewlines(SubSeq(text, f + Len(ThinkEnd), Len(text))))
PROOF
<1>1. /\ Len(text) \in Nat /\ Len(text) <= Len(text) /\ ThinkEnd \in Tags
      /\ Len(ThinkEnd) \in Nat \ {0}
  BY LenProperties, TheTags
<1>2. /\ f \in Occurrences(text, ThinkEnd) /\ f >= b
      /\ \A g \in Occurrences(text, ThinkEnd) : g >= b => f <= g
  BY DEF EndsAt
<1>3. f \in Nat \ {0} /\ f + Len(ThinkEnd) - 1 <= Len(text)
  BY <1>1, <1>2 DEF Occurrences
<1>4. Occurrences(SubSeq(text, b, Len(text)), ThinkEnd) # {}
  <2>1. SUFFICES ASSUME Occurrences(SubSeq(text, b, Len(text)), ThinkEnd) = {}
                 PROVE  FALSE
    OBVIOUS
  <2>2. f + Len(ThinkEnd) - 1 > Len(text)
    BY <1>1, <1>2, <2>1, FindsNothing
  <2> QED BY <1>1, <1>3, <2>2
<1> PICK g : FirstPlace(text, b, Len(text), ThinkEnd, g)
  BY <1>1, <1>4, FindsAt
<1>5. /\ g \in b..Len(text) /\ g \in Occurrences(text, ThinkEnd)
      /\ \A h \in Occurrences(text, ThinkEnd) : h >= b => g <= h
      /\ Before(SubSeq(text, b, Len(text)), ThinkEnd) = SubSeq(text, b, g - 1)
      /\ After(SubSeq(text, b, Len(text)), ThinkEnd)
           = SubSeq(text, g + Len(ThinkEnd), Len(text))
  BY DEF FirstPlace
<1>6. g = f
  BY <1>2, <1>3, <1>5
<1> QED BY <1>4, <1>5, <1>6 DEF SplitThought

-----------------------------------------------------------------------------
(* At first nothing is asked for. *)
LEMMA StreamStarts == Init => StreamInv
BY DEF Init, StreamInv

(* A generation begins with nothing sent. *)
LEMMA ConstructBegins ==
  ASSUME ParserInv, TypeInv', Construct
  PROVE  StreamInv'
PROOF
<1>1. /\ mode = "none" /\ pushed = 0 /\ buffer = <<>> /\ pushed' = 0 /\ buffer' = <<>>
      /\ reasoning' = <<>> /\ content' = <<>> /\ skipContent = FALSE /\ skipContent' = FALSE
      /\ mode' = (IF thinking' /\ extracts' THEN "reasoning" ELSE "content")
      /\ skipReasoning' = (thinking' /\ extracts')
  <2>1. /\ mode = "none" /\ pushed = 0 /\ buffer = <<>>
        /\ reasoning = <<>> /\ content = <<>> /\ skipContent = FALSE
    BY DEF Construct, ParserInv, TypeInv
  <2> QED BY <2>1 DEF Construct, StartsInThought
<1>2. /\ text' \in Seq(Character) /\ Len(text') \in Nat
      /\ thinking' \in BOOLEAN /\ extracts' \in BOOLEAN
  BY LenProperties DEF TypeInv
<1>3. Cut(1)'
  <2>1. SubSeq(text', 1, 0) = <<>>
    BY SubSeqEmpty
  <2> QED BY <1>1, <2>1 DEF Cut
<1>4. Verbatim(1)'
  <2>1. SubSeq(text', 1, 1 - 1) = <<>>
    BY SubSeqEmpty
  <2> QED BY <1>1, <1>3, <2>1 DEF Verbatim
<1>5. ASSUME extracts', OneThought' PROVE OfOneThought'
  <2>1. CASE thinking'
    <3>1. ThoughtAt(1, 1)'
      BY <1>2, <1>5, <2>1, ThinkingThoughtNext DEF ThinksFromTheStart
    <3>2. content' = Opening(1)'
      BY <1>1, <2>1 DEF Opening
    <3>3. InThought(1, 1, 1)'
      BY <1>1, <1>3, <1>5, <2>1, <3>1, <3>2 DEF InThought
    <3> QED BY <3>3 DEF OfOneThought
  <2>2. CASE ~thinking'
    <3>1. \A g \in Occurrences(text', ThinkStart) : g >= 1
      BY DEF Occurrences
    <3>2. BeforeThought(1)'
      BY <1>1, <1>4, <2>2, <3>1 DEF BeforeThought
    <3> QED BY <3>2 DEF OfOneThought
  <2> QED BY <2>1, <2>2
<1> QED BY <1>4, <1>5 DEF StreamInv

(* Every step of the parser keeps what was sent in its phase. *)
LEMMA StreamStep == ParserInv /\ StreamInv /\ [Next]_vars => StreamInv'
PROOF
<1> SUFFICES ASSUME ParserInv, StreamInv, [Next]_vars PROVE StreamInv'
  OBVIOUS
<1>1. TypeInv /\ ParserInv' /\ TypeInv'
  BY ParserStep DEF ParserInv
<1>2. CASE Construct
  BY <1>1, <1>2, ConstructBegins
<1>3. CASE Push
  <2>1. /\ UNCHANGED <<asked, mode, skipReasoning, skipContent, finished,
                       reasoning, content>>
    BY <1>3 DEF Push
  <2>2. \A k : Cut(k) => Cut(k)'
    BY <1>1, <1>3, PushCut
  <2>3. ~finished
    <3>1. PICK end \in (pushed + 1)..Len(text) : TRUE
      BY <1>3 DEF Push
    <3>2. pushed \in Nat /\ (finished => pushed = Len(text))
      BY <1>1 DEF TypeInv
    <3> QED BY <3>1, <3>2
  <2> QED BY <2>1, <2>2, <2>3, PhaseStays
<1>4. CASE Finish
  <2>1. /\ UNCHANGED <<asked, pushed, mode, skipReasoning, skipContent, buffer,
                       reasoning, content>>
        /\ ~finished
    BY <1>4 DEF Finish
  <2>2. \A k : Cut(k) => Cut(k)'
    BY <2>1 DEF Cut, asked
  <2> QED BY <2>1, <2>2, PhaseStays
<1>5. CASE BufferEmpty \/ UNCHANGED vars
  <2>1. /\ UNCHANGED <<asked, pushed, mode, skipReasoning, skipContent, buffer,
                       finished, reasoning, content>>
    BY <1>5 DEF BufferEmpty, Return, vars
  <2>2. \A k : Cut(k) => Cut(k)'
    BY <2>1 DEF Cut, asked
  <2> QED BY <2>1, <2>2, PhaseStays
<1>6. CASE PassThrough
  <2>1. /\ ~extracts /\ content' = content \o buffer /\ buffer' = <<>>
        /\ UNCHANGED <<asked, pushed, mode, reasoning>>
        /\ text' = text /\ extracts' = extracts /\ pushed' = pushed
    BY <1>6 DEF PassThrough, asked
  <2>2. mode # "none"
    BY <1>6 DEF PassThrough, ParserInv
  <2>3. PICK k : Verbatim(k)
    BY <2>1, <2>2 DEF StreamInv
  <2>4. /\ k \in Nat \ {0} /\ k <= pushed + 1 /\ buffer = SubSeq(text, k, pushed)
        /\ reasoning = <<>> /\ content = SubSeq(text, 1, k - 1)
        /\ pushed \in Nat /\ pushed <= Len(text) /\ text \in Seq(Character)
    BY <1>1, <2>3 DEF Verbatim, Cut, TypeInv
  <2>5. Cut(pushed + 1)'
    BY <1>1, <2>1, EmptyCut
  <2>6. content' = SubSeq(text, 1, pushed)
    <3>1. 1 \in Nat \ {0} /\ 1 <= k
      BY <2>4
    <3>2. SubSeq(text, 1, k - 1) \o SubSeq(text, k, pushed) = SubSeq(text, 1, pushed)
      BY <2>4, <3>1, JoinedAt
    <3> QED BY <2>1, <2>4, <3>2
  <2>7. content' = SubSeq(text', 1, (pushed + 1) - 1)
    <3>1. (pushed + 1) - 1 = pushed
      BY <2>4
    <3> QED BY <2>1, <2>6, <3>1
  <2>8. Verbatim(pushed + 1)'
    BY <2>1, <2>4, <2>5, <2>7 DEF Verbatim
  <2> QED BY <2>1, <2>8 DEF StreamInv
<1>7. CASE DrainReasoning
  <2>1. extracts /\ mode = "reasoning" /\ extracts' = extracts /\ buffer # <<>>
        /\ OneThought' = OneThought
    BY <1>7 DEF DrainReasoning, asked, OneThought
  <2>2. ASSUME OneThought PROVE OfOneThought'
    <3>1. OfOneThought
      BY <2>1, <2>2 DEF StreamInv
    <3>2. ASSUME NEW k, BeforeThought(k) PROVE FALSE
      BY <2>1, <3>2 DEF BeforeThought
    <3>3. ASSUME NEW a, NEW b, ThoughtOver(a, b) PROVE FALSE
      BY <2>1, <3>3 DEF ThoughtOver
    <3>4. ASSUME NEW a, NEW b, NEW f, NEW d, NEW k, AfterThought(a, b, f, d, k) PROVE FALSE
      BY <2>1, <3>4 DEF AfterThought
    <3>5. PICK a, b, k : InThought(a, b, k)
      BY <3>1, <3>2, <3>3, <3>4 DEF OfOneThought
    <3> QED BY <1>1, <1>7, <3>5, ThoughtStep
  <2> QED BY <2>1, <2>2 DEF StreamInv
<1>8. CASE DrainContent
  <2>1. extracts /\ mode = "content" /\ extracts' = extracts
        /\ OneThought' = OneThought
    BY <1>8 DEF DrainContent, asked, OneThought
  <2>2. ASSUME OneThought PROVE OfOneThought'
    <3>1. OfOneThought
      BY <2>1, <2>2 DEF StreamInv
    <3>2. ASSUME NEW a, NEW b, NEW k, InThought(a, b, k) PROVE FALSE
      BY <2>1, <3>2 DEF InThought
    <3>3. ASSUME NEW a, NEW b, ThoughtOver(a, b) PROVE FALSE
      BY <2>1, <3>3 DEF ThoughtOver
    <3>4. ASSUME NEW k, BeforeThought(k) PROVE OfOneThought'
      BY <1>1, <1>8, <2>2, <3>4, OpeningStep
    <3>5. ASSUME NEW a, NEW b, NEW f, NEW d, NEW k, AfterThought(a, b, f, d, k)
          PROVE  OfOneThought'
      BY <1>1, <1>8, <3>5, AnswerStep
    <3> QED BY <3>1, <3>2, <3>3, <3>4, <3>5 DEF OfOneThought
  <2> QED BY <2>1, <2>2 DEF StreamInv
<1> QED BY <1>2, <1>3, <1>4, <1>5, <1>6, <1>7, <1>8 DEF Next, Drain

(* At the end all of the text was sent, as the batch split divides it. *)
LEMMA AtTheEnd ==
  ASSUME ParserInv, StreamInv
  PROVE  StreamEqualsBatch
PROOF
<1> SUFFICES ASSUME finished, ~draining, OneThought \/ ~extracts
             PROVE  Message(reasoning, content) = SplitContent(text, thinking, extracts)
  BY DEF StreamEqualsBatch, Delivered
<1>1. /\ text \in Seq(Character) /\ Len(text) \in Nat /\ pushed = Len(text)
      /\ SubSeq(text, 1, Len(text)) = text /\ TypeInv
      /\ 1 \in Nat \ {0} /\ 1 <= Len(text) + 1 /\ Len(text) <= Len(text)
  BY LenProperties, SubSeqFull DEF ParserInv, TypeInv
<1>2. mode # "none" /\ buffer = <<>>
  BY DEF ParserInv, HoldsBackOnlyTag
<1>3. ASSUME NEW k, Cut(k) PROVE k = Len(text) + 1 /\ k - 1 = Len(text) /\ k \in Nat \ {0}
  <2>1. /\ k \in Nat \ {0} /\ k <= Len(text) + 1
        /\ SubSeq(text, k, Len(text)) = <<>>
    BY <1>1, <1>2, <1>3 DEF Cut
  <2>2. k = Len(text) + 1
    BY <1>1, <2>1, Nil
  <2> QED BY <1>1, <2>2
<1>4. ASSUME NEW k, Verbatim(k) PROVE reasoning = <<>> /\ content = text
  <2>1. Cut(k) /\ reasoning = <<>> /\ content = SubSeq(text, 1, k - 1)
    BY <1>4 DEF Verbatim
  <2>2. k - 1 = Len(text)
    BY <1>3, <2>1
  <2> QED BY <1>1, <2>1, <2>2
<1>5. CASE ~extracts
  <2>1. reasoning = <<>> /\ content = text
    BY <1>2, <1>4, <1>5 DEF StreamInv
  <2> QED BY <1>5, <2>1 DEF SplitContent
<1>6. CASE extracts
  <2>1. ASSUME NEW k, BeforeThought(k)
        PROVE  Message(reasoning, content) = SplitContent(text, thinking, extracts)
    <3>1. reasoning = <<>> /\ content = text /\ ~thinking /\ Cut(k)
          /\ \A g \in Occurrences(text, ThinkStart) : g >= k
      BY <1>4, <2>1 DEF BeforeThought, Verbatim
    <3>2. Occurrences(text, ThinkStart) = {}
      <4>1. SUFFICES ASSUME NEW g \in Occurrences(text, ThinkStart) PROVE FALSE
        OBVIOUS
      <4>2. g >= Len(text) + 1
        BY <1>3, <3>1
      <4>3. g \in Nat /\ g + Len(ThinkStart) - 1 <= Len(text) /\ Len(ThinkStart) \in Nat \ {0}
        BY <1>1, TheTags, TagsEnd
      <4> QED BY <1>1, <4>2, <4>3
    <3> QED BY <1>6, <3>1, <3>2 DEF SplitContent
  <2>2. ASSUME NEW a, NEW b, ThoughtAt(a, b)
        PROVE  /\ b \in Nat \ {0} /\ b <= Len(text) + 1 /\ b >= a
               /\ SplitContent(text, thinking, extracts)
                    = SplitThought(Opening(a), SubSeq(text, b, Len(text)))
    <3>1. b \in Nat \ {0} /\ b <= Len(text) + 1 /\ b >= a
      BY <2>2 DEF ThoughtAt
    <3>2. SplitContent(text, thinking, extracts)
            = SplitThought(Opening(a), SubSeq(text, b, Len(text)))
      BY <1>1, <1>6, <2>2, ThoughtSplits
    <3> QED BY <3>1, <3>2
  <2>3. ASSUME NEW g \in Occurrences(text, ThinkEnd) PROVE ~(g >= Len(text) + 1)
    <3>1. g \in Nat /\ g + Len(ThinkEnd) - 1 <= Len(text) /\ Len(ThinkEnd) \in Nat \ {0}
      BY <1>1, TheTags, TagsEnd
    <3> QED BY <1>1, <3>1
  <2>4. ASSUME NEW a, NEW b, NEW k, InThought(a, b, k)
        PROVE  Message(reasoning, content) = SplitContent(text, thinking, extracts)
    <3>1. ThoughtAt(a, b) /\ content = Opening(a) /\ k = Len(text) + 1 /\ k - 1 = Len(text)
      BY <1>3, <2>4 DEF InThought
    <3>2. /\ \A g \in Occurrences(text, ThinkEnd) : ~(g >= b)
          /\ reasoning = TrimNewlines(SubSeq(text, b, Len(text)))
      <4>1. CASE skipReasoning
        <5>1. k = a /\ reasoning = <<>>
          BY <2>4, <4>1 DEF InThought
        <5>2. b = Len(text) + 1
          BY <1>1, <2>2, <3>1, <5>1
        <5>3. SubSeq(text, b, Len(text)) = <<>>
          BY <1>1, <5>2, SubSeqEmpty
        <5>4. TrimNewlines(SubSeq(text, b, Len(text))) = SubSeq(text, b, Len(text))
          <6>1. /\ Len(text) \in (b - 1)..Len(text) /\ ~(Len(text) >= b)
                /\ \A i \in (Len(text) + 1)..Len(text) : text[i] \in Newline
            BY <1>1, <5>2
          <6> QED BY <1>1, <2>2, <3>1, <6>1, TrimIsUnique
        <5> QED BY <2>3, <5>1, <5>2, <5>3, <5>4
      <4>2. CASE ~skipReasoning
        <5>1. /\ b <= k /\ reasoning = SubSeq(text, b, k - 1)
              /\ k = b \/ text[k - 1] \notin Newline
              /\ \A g \in Occurrences(text, ThinkEnd) : g >= b => g >= k
          BY <2>4, <4>2 DEF InThought, Thinks
        <5>2. TrimNewlines(SubSeq(text, b, Len(text))) = SubSeq(text, b, Len(text))
          <6>1. Len(text) \in (b - 1)..Len(text) /\ b <= Len(text) + 1 /\ b \in Nat \ {0}
            BY <1>1, <2>2, <3>1
          <6>2. Len(text) >= b => text[Len(text)] \notin Newline
            BY <1>1, <3>1, <5>1
          <6>3. \A i \in (Len(text) + 1)..Len(text) : text[i] \in Newline
            BY <1>1
          <6> QED BY <1>1, <6>1, <6>2, <6>3, TrimIsUnique
        <5>3. reasoning = SubSeq(text, b, Len(text))
          BY <3>1, <5>1
        <5>4. \A g \in Occurrences(text, ThinkEnd) : ~(g >= b)
          BY <2>3, <3>1, <5>1
        <5> QED BY <5>2, <5>3, <5>4
      <4> QED BY <4>1, <4>2
    <3>3. SplitThought(Opening(a), SubSeq(text, b, Len(text)))
            = Message(TrimNewlines(SubSeq(text, b, Len(text))), Opening(a))
      BY <1>1, <2>2, <3>1, <3>2, EndlessThought
    <3> QED BY <2>2, <3>1, <3>2, <3>3
  <2>5. ASSUME NEW a, NEW b, ThoughtOver(a, b)
        PROVE  Message(reasoning, content) = SplitContent(text, thinking, extracts)
    <3>1. /\ ThoughtAt(a, b) /\ content = Opening(a)
          /\ \A g \in Occurrences(text, ThinkEnd) : ~(g >= b)
          /\ reasoning = TrimNewlines(SubSeq(text, b, Len(text)))
      BY <2>5 DEF ThoughtOver
    <3>2. SplitThought(Opening(a), SubSeq(text, b, Len(text)))
            = Message(TrimNewlines(SubSeq(text, b, Len(text))), Opening(a))
      BY <1>1, <2>2, <3>1, EndlessThought
    <3> QED BY <2>2, <3>1, <3>2
  <2>6. ASSUME NEW a, NEW b, NEW f, NEW d, NEW k, AfterThought(a, b, f, d, k)
        PROVE  Message(reasoning, content) = SplitContent(text, thinking, extracts)
    <3>1. /\ ThoughtAt(a, b) /\ EndsAt(b, f) /\ Cut(k)
          /\ reasoning = TrimNewlines(SubSeq(text, b, f - 1))
          /\ f + Len(ThinkEnd) <= k
          /\ Answers(a, f + Len(ThinkEnd), d, k)
      BY <2>6 DEF AfterThought
    <3>2. k = Len(text) + 1 /\ k - 1 = Len(text)
      BY <1>3, <3>1
    <3>3. PICK c \in Nat \ {0} : c = f + Len(ThinkEnd)
      <4>1. f \in Nat /\ Len(ThinkEnd) \in Nat \ {0}
        BY <1>1, <3>1, TheTags, TagsEnd DEF EndsAt
      <4>2. f + Len(ThinkEnd) \in Nat \ {0}
        BY <4>1
      <4> QED BY <4>2
    <3>4. c <= Len(text) + 1
      BY <3>1, <3>2, <3>3
    <3>5. content = Opening(a) \o SkipNewlines(SubSeq(text, c, Len(text)))
      <4>1. CASE skipContent
        <5>1. content = Opening(a) /\ \A i \in c..(k - 1) : text[i] \in Newline
          BY <3>1, <3>3, <4>1 DEF Answers
        <5>2. SkipNewlines(SubSeq(text, c, Len(text))) = SubSeq(text, k, Len(text))
          <6>1. k \in c..(Len(text) + 1) /\ ~(k <= Len(text))
            BY <1>1, <3>2, <3>4
          <6> QED BY <1>1, <3>3, <3>4, <5>1, <6>1, SkipIsUnique
        <5>3. SubSeq(text, k, Len(text)) = <<>>
          BY <1>1, <3>2, SubSeqEmpty
        <5>4. Opening(a) \o <<>> = Opening(a)
          <6>1. Opening(a) \in Seq(Character)
            BY <1>1, <3>1, OpeningIsText
          <6> QED BY <6>1, ConcatEmptySeq
        <5> QED BY <5>1, <5>2, <5>3, <5>4
      <4>2. CASE ~skipContent
        <5>1. /\ d \in c..k /\ d <= Len(text)
              /\ \A i \in c..(d - 1) : text[i] \in Newline
              /\ text[d] \notin Newline
              /\ content = Opening(a) \o SubSeq(text, d, k - 1)
          BY <3>1, <3>3, <4>2 DEF Answers
        <5>2. SkipNewlines(SubSeq(text, c, Len(text))) = SubSeq(text, d, Len(text))
          <6>1. d \in c..(Len(text) + 1)
            BY <3>2, <5>1
          <6> QED BY <1>1, <3>3, <3>4, <5>1, <6>1, SkipIsUnique
        <5> QED BY <3>2, <5>1, <5>2
      <4> QED BY <4>1, <4>2
    <3>6. SplitThought(Opening(a), SubSeq(text, b, Len(text)))
            = Message(TrimNewlines(SubSeq(text, b, f - 1)),
                      Opening(a) \o SkipNewlines(SubSeq(text, f + Len(ThinkEnd), Len(text))))
      BY <1>1, <2>2, <3>1, EndedThought
    <3> QED BY <2>2, <3>1, <3>3, <3>5, <3>6
  <2>7. OfOneThought
    BY <1>2, <1>6 DEF StreamInv
  <2> QED BY <2>1, <2>4, <2>5, <2>6, <2>7 DEF OfOneThought
<1> QED BY <1>1, <1>5, <1>6 DEF TypeInv

(* However a text of one thought is cut into chunks: the deltas of the     *)
(* stream add up to the reasoning and the content that a client which does *)
(* not stream gets; and without extraction to the text, whatever it is.    *)
THEOREM StreamsLikeBatch == Spec => []StreamEqualsBatch
PROOF
<1>1. ParserInv /\ StreamInv => StreamEqualsBatch
  BY AtTheEnd
<1>2. Spec => []StreamInv
  BY StreamStarts, StreamStep, ParserInvariant, PTL DEF Spec
<1> QED BY <1>1, <1>2, ParserInvariant, PTL
=============================================================================
