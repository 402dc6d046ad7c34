--------------------------- MODULE MtpDecodeProofs ---------------------------
(***************************************************************************)
(* Proofs about the decode loops, for every model, prompt, vocabulary,     *)
(* capacity and budget: their invariants, and that they decode greedily.   *)
(***************************************************************************)
EXTENDS MtpDecode, SequenceTheorems, TLAPS

(* The text grows by one token at its end. *)
LEMMA AppendToConcat ==
  ASSUME NEW s \in Seq(Token), NEW t \in Seq(Token), NEW e \in Token
  PROVE  s \o Append(t, e) = Append(s \o t, e)
<1>1. <<e>> \in Seq(Token)
  OBVIOUS
<1>2. /\ Append(t, e) = t \o <<e>>
      /\ Append(s \o t, e) = (s \o t) \o <<e>>
  BY AppendIsConcat, ConcatProperties
<1> QED
  BY <1>1, <1>2, ConcatAssociative

(* A longer prefix of a batch adds the next token of the batch. *)
LEMMA PrefixGrows ==
  ASSUME NEW s \in Seq(Token), NEW t \in Seq(Token), NEW n \in 0..(Len(t) - 1)
  PROVE  s \o SubSeq(t, 1, n + 1) = Append(s \o SubSeq(t, 1, n), t[n + 1])
<1>1. n + 1 \in 1..Len(t) /\ t[n + 1] \in Token /\ (n + 1) - 1 = n
  BY LenProperties, ElementOfSeq
<1>2. SubSeq(t, 1, n + 1) = SubSeq(t, 1, n) \o <<t[n + 1]>>
  <2>1. 1 \in 1..Len(t) /\ n + 1 \in 1..Len(t)
    BY <1>1
  <2> QED
    BY <1>1, <2>1, SubSeqRecursiveSecond
<1>3. SubSeq(t, 1, n) \in Seq(Token)
  <2>1. n \in Int /\ \A i \in 1..n : t[i] \in Token
    BY LenProperties, ElementOfSeq
  <2> QED
    BY <2>1, SubSeqProperties
<1>4. SubSeq(t, 1, n + 1) = Append(SubSeq(t, 1, n), t[n + 1])
  BY <1>1, <1>2, <1>3, AppendIsConcat
<1> QED
  BY <1>1, <1>3, <1>4, AppendToConcat

(* The prefix of a batch is a sequence of its first tokens. *)
LEMMA PrefixProperties ==
  ASSUME NEW t \in Seq(Token), NEW n \in 0..Len(t)
  PROVE  /\ SubSeq(t, 1, n) \in Seq(Token)
         /\ Len(SubSeq(t, 1, n)) = n
         /\ \A i \in 1..n : SubSeq(t, 1, n)[i] = t[i]
<1>1. n \in Int /\ n \in Nat /\ \A i \in 1..n : t[i] \in Token
  BY LenProperties, ElementOfSeq
<1>2. /\ SubSeq(t, 1, n) \in Seq(Token)
      /\ Len(SubSeq(t, 1, n)) = IF 1 <= n THEN n - 1 + 1 ELSE 0
      /\ \A i \in 1..(n - 1 + 1) : SubSeq(t, 1, n)[i] = t[1 + i - 1]
  BY <1>1, SubSeqProperties
<1> QED
  BY <1>1, <1>2
-----------------------------------------------------------------------------
(* The KV cache holds the rows of a text at the text's positions. *)
Holds(rows, h) ==
  /\ h \in Seq(Token)
  /\ Len(h) <= Capacity
  /\ \A i \in 1..Len(h) : rows[i - 1] = h[i]

Rows == [0..(Capacity - 1) -> Token \cup {NoToken}]

(* Attending to the rows of a text reads that text. *)
LEMMA HoldsIsAttended ==
  ASSUME NEW rows, NEW h, Holds(rows, h)
  PROVE  Attended(rows, Len(h)) = h
<1>1. h = [i \in 1..Len(h) |-> h[i]]
  BY LenProperties DEF Holds
<1> QED
  BY <1>1 DEF Holds, Attended

(* A cache that holds a text holds its beginning. *)
LEMMA HoldsPrefix ==
  ASSUME NEW rows, NEW s \in Seq(Token), NEW t \in Seq(Token),
         NEW n \in 0..Len(t), Holds(rows, s \o t)
  PROVE  Holds(rows, s \o SubSeq(t, 1, n))
<1> DEFINE p == SubSeq(t, 1, n)
<1>1. p \in Seq(Token) /\ Len(p) = n /\ \A i \in 1..n : p[i] = t[i]
  BY PrefixProperties
<1>2. /\ s \o t \in Seq(Token) /\ Len(s \o t) = Len(s) + Len(t)
      /\ \A i \in 1..(Len(s) + Len(t)) :
           (s \o t)[i] = IF i <= Len(s) THEN s[i] ELSE t[i - Len(s)]
  BY ConcatProperties
<1> HIDE DEF p
<1>3. /\ s \o p \in Seq(Token) /\ Len(s \o p) = Len(s) + n
      /\ \A i \in 1..(Len(s) + n) :
           (s \o p)[i] = IF i <= Len(s) THEN s[i] ELSE p[i - Len(s)]
  BY <1>1, ConcatProperties
<1>4. Len(s) \in Nat /\ Len(t) \in Nat /\ n \in Nat /\ Capacity \in Nat
  BY LenProperties, DecodeAssumption
<1>5. \A i \in 1..(Len(s) + n) : (s \o p)[i] = (s \o t)[i]
  BY <1>1, <1>2, <1>3, <1>4
<1>6. Holds(rows, s \o p)
  BY <1>2, <1>3, <1>4, <1>5 DEF Holds
<1> QED
  BY <1>6 DEF p

(* What one target batch does to a cache and a recurrent state that agree  *)
(* on the text h: both go on with the batch, and each row is computed from *)
(* the text up to its own token.                                           *)
LEMMA DecodeExtends ==
  ASSUME kv \in Rows, Holds(kv, recurrent), position = Len(recurrent),
         NEW tokens \in Seq(Token), Len(tokens) <= Capacity - position,
         Decode(tokens)
  PROVE  /\ kv' \in Rows
         /\ recurrent' = recurrent \o tokens
         /\ recurrent' \in Seq(Token)
         /\ Holds(kv', recurrent')
         /\ logits' = [i \in 1..Len(tokens) |->
                         Row(recurrent \o SubSeq(tokens, 1, i),
                             recurrent \o SubSeq(tokens, 1, i))]
<1>1. /\ recurrent \in Seq(Token) /\ position \in Nat /\ Len(tokens) \in Nat
      /\ Len(recurrent) \in Nat /\ Capacity \in Nat
  BY LenProperties, DecodeAssumption DEF Holds
<1>2. /\ recurrent' = recurrent \o tokens
      /\ recurrent' \in Seq(Token) /\ Len(recurrent') = position + Len(tokens)
      /\ \A i \in 1..(position + Len(tokens)) :
           recurrent'[i] = IF i <= position THEN recurrent[i] ELSE tokens[i - position]
  BY <1>1, ConcatProperties DEF Decode
<1>3. kv' = [p \in 0..(Capacity - 1) |->
              IF p \in position..(position + Len(tokens) - 1)
              THEN tokens[p - position + 1] ELSE kv[p]]
  BY DEF Decode, Rows
<1>4. kv' \in Rows
  <2>1. \A p \in position..(position + Len(tokens) - 1) :
          tokens[p - position + 1] \in Token
    <3> TAKE p \in position..(position + Len(tokens) - 1)
    <3>1. p - position + 1 \in 1..Len(tokens)
      BY <1>1
    <3> QED
      BY <3>1, ElementOfSeq
  <2> QED
    BY <1>3, <2>1 DEF Rows
<1>5. \A i \in 1..(position + Len(tokens)) : kv'[i - 1] = recurrent'[i]
  <2> TAKE i \in 1..(position + Len(tokens))
  <2>1. i - 1 \in 0..(Capacity - 1)
    BY <1>1
  <2>2. CASE i <= position
    <3>1. kv'[i - 1] = kv[i - 1]
      BY <1>1, <1>3, <2>1, <2>2
    <3> QED
      BY <1>1, <1>2, <2>2, <3>1 DEF Holds
  <2>3. CASE ~(i <= position)
    <3>1. i - 1 \in position..(position + Len(tokens) - 1) /\ (i - 1) - position + 1 = i - position
      BY <1>1, <2>3
    <3>2. kv'[i - 1] = tokens[i - position]
      BY <1>3, <2>1, <3>1
    <3> QED
      BY <1>2, <2>3, <3>2
  <2> QED
    BY <2>2, <2>3
<1>6. Holds(kv', recurrent')
  BY <1>1, <1>2, <1>5 DEF Holds
<1>7. \A i \in 1..Len(tokens) :
        Attended(kv', position + i) = recurrent \o SubSeq(tokens, 1, i)
  <2> TAKE i \in 1..Len(tokens)
  <2>1. i \in 0..Len(tokens) /\ SubSeq(tokens, 1, i) \in Seq(Token)
        /\ Len(SubSeq(tokens, 1, i)) = i
    BY <1>1, PrefixProperties
  <2>2. Holds(kv', recurrent \o SubSeq(tokens, 1, i))
    BY <1>1, <1>2, <1>6, <2>1, HoldsPrefix
  <2>3. Len(recurrent \o SubSeq(tokens, 1, i)) = position + i
    BY <1>1, <2>1, ConcatProperties
  <2> QED
    BY <2>2, <2>3, HoldsIsAttended
<1>8. logits' = [i \in 1..Len(tokens) |->
                   Row(recurrent \o SubSeq(tokens, 1, i),
                       recurrent \o SubSeq(tokens, 1, i))]
  BY <1>7 DEF Decode
<1> QED
  BY <1>2, <1>4, <1>6, <1>8
-----------------------------------------------------------------------------
(* The inductive invariant, by the point the generation has reached.  It   *)
(* says at every point which text the KV cache, the recurrent state, the   *)
(* snapshot and the rows of logits were computed from, and how that text   *)
(* relates to the text emitted so far.                                     *)
LastToken == generated[Len(generated)]

(* Before a row is sampled, both caches hold the whole text. *)
AtSample ==
  pc = "sample" =>
    /\ Generating
    /\ recurrent = History /\ position = Len(History) /\ Holds(kv, History)
    /\ logits[row] = Row(History, History)
    /\ mtp => pending = Row(History, History)

(* Until the next target batch ran, they lack the last token. *)
AtStep ==
  pc \in {"decode", "draft", "snapshot", "verify"} =>
    /\ Generating
    /\ generated # <<>>
    /\ History = Append(recurrent, LastToken)
    /\ position = Len(recurrent) /\ Holds(kv, recurrent)
    /\ row = 1
    /\ mtp <=> pc # "decode"
    /\ mtp => pending = Row(recurrent, recurrent)

(* The batch begins with that token and fits the budget and the request. *)
AtBatch ==
  pc \in {"snapshot", "verify"} =>
    /\ verify # <<>>
    /\ verify[1] = LastToken
    /\ Len(verify) - 1 <= controller.budget
    /\ Len(verify) - 1 <= Remaining
    /\ pc = "verify" => snapshot = recurrent

(* While a round is judged, the text is that of the snapshot followed by   *)
(* the sampled token and the accepted drafts.                              *)
AtRound ==
  pc \in {"accept", "settle", "replay"} =>
    /\ mtp
    /\ accepted < Len(verify)
    /\ Len(verify) - 1 <= DraftTokens
    /\ History = snapshot \o SubSeq(verify, 1, 1 + accepted)
    /\ position = Len(snapshot) /\ Holds(kv, snapshot)
    /\ Len(verify) <= Capacity - position
    /\ pc = "accept" => finish = "length"

(* Until the recurrent state is restored, both caches hold the batch. *)
AtVerified ==
  pc \in {"accept", "settle"} =>
    /\ Len(verify) - 1 <= controller.budget
    /\ recurrent = snapshot \o verify /\ Holds(kv, recurrent)
    /\ \A i \in 1..Len(verify) :
         logits[i] = Row(snapshot \o SubSeq(verify, 1, i),
                         snapshot \o SubSeq(verify, 1, i))

AtReplay == pc = "replay" => recurrent = snapshot

(* At the end the used rows are the whole text or lack its last token. *)
AtEnd ==
  pc \in {"finish", "done"} =>
    /\ finish = "length" => ~Generating
    /\ \/ position = Len(History) /\ Holds(kv, History)
       \/ /\ finish = "length"
          /\ generated # <<>>
          /\ History = Append(recurrent, LastToken)
          /\ position = Len(recurrent) /\ Holds(kv, recurrent)

(* Generation stops only where the model's choice is an EOS token. *)
StopIsEos ==
  finish = "stop" =>
    /\ pc \in {"settle", "finish", "done", "error"}
    /\ Generating
    /\ Argmax(model, History, History) \in EosTokens

Inv ==
  /\ TypeOK
  /\ AtSample /\ AtStep /\ AtBatch /\ AtRound /\ AtVerified /\ AtReplay /\ AtEnd
  /\ StopIsEos
-----------------------------------------------------------------------------
(* The types and sizes the text and the constants have. *)
LEMMA HistoryIsText ==
  ASSUME TypeOK
  PROVE  /\ generated \in Seq(Token) /\ Prompt \in Seq(Token)
         /\ History \in Seq(Token)
         /\ Len(History) = Len(Prompt) + Len(generated)
         /\ Len(generated) \in Nat /\ Len(Prompt) \in Nat \ {0}
         /\ Len(History) \in Nat /\ Len(History) <= Capacity
         /\ Capacity \in Nat /\ MaxNewTokens \in Nat \ {0}
         /\ DraftTokens \in Nat \ {0}
         /\ controller.budget \in 1..DraftTokens
<1>1. generated \in Seq(Token)
  <2>1. generated \in Seq(Token \ EosTokens) /\ Token \ EosTokens \subseteq Token
    BY DEF TypeOK
  <2> QED
    BY <2>1, SeqMonotonic
<1>2. Prompt \in Seq(Token) /\ Len(Prompt) \in Nat \ {0}
  BY DecodeAssumption, EmptySeq
<1>3. Len(generated) \in Nat /\ Len(generated) <= MaxNewTokens
  BY <1>1, LenProperties DEF TypeOK
<1>4. History \in Seq(Token) /\ Len(History) = Len(Prompt) + Len(generated)
  BY <1>1, <1>2, ConcatProperties DEF History
<1> QED
  BY <1>1, <1>2, <1>3, <1>4, DecodeAssumption, ControllerAssumption
     DEF TypeOK, Controller

(* The greedy choice after the text is a token. *)
LEMMA ChoiceIsToken ==
  ASSUME TypeOK
  PROVE  /\ Argmax(model, History, History) \in Token
         /\ Sampled(Row(History, History)) = Argmax(model, History, History)
<1>1. History \in [1..Len(History) -> Token] /\ Len(History) \in 0..Capacity
  BY HistoryIsText, LenProperties
<1>2. History \in Histories
  BY <1>1 DEF Histories
<1>3. model \in Models
  BY DEF TypeOK
<1> QED
  BY <1>2, <1>3, ArgmaxAssumption DEF Sampled, Row

(* What emitting a token does to the text. *)
LEMMA EmitExtends ==
  ASSUME TypeOK, Generating, NEW t \in Token, t \notin EosTokens,
         generated' = Append(generated, t)
  PROVE  /\ generated' \in Seq(Token \ EosTokens)
         /\ generated' # <<>>
         /\ Len(generated') = Len(generated) + 1
         /\ Len(generated') <= MaxNewTokens
         /\ LastToken' = t
         /\ History' = Append(History, t)
         /\ Len(History') = Len(History) + 1
<1>1. generated \in Seq(Token \ EosTokens) /\ t \in Token \ EosTokens
  BY DEF TypeOK
<1>2. /\ generated' \in Seq(Token \ EosTokens) /\ generated' # <<>>
      /\ Len(generated') = Len(generated) + 1
      /\ generated'[Len(generated) + 1] = t
  BY <1>1, AppendProperties
<1>3. History' = Append(History, t)
  BY HistoryIsText, AppendToConcat DEF History
<1>4. Len(History') = Len(History) + 1
  BY <1>3, HistoryIsText, AppendProperties
<1> QED
  BY <1>2, <1>3, <1>4, HistoryIsText DEF LastToken, Generating

(* The beginning of a grown text. *)
LEMMA FrontOfAppend ==
  ASSUME NEW s \in Seq(Token), NEW e \in Token
  PROVE  /\ SubSeq(Append(s, e), 1, Len(s)) = s
         /\ Len(Append(s, e)) = Len(s) + 1
<1> DEFINE a == Append(s, e)
<1>1. /\ a \in Seq(Token) /\ Len(a) = Len(s) + 1 /\ Len(s) \in Nat
      /\ \A i \in 1..Len(s) : a[i] = s[i]
  BY AppendProperties, LenProperties
<1>2. Len(s) \in 0..Len(a)
  BY <1>1
<1> HIDE DEF a
<1>3. /\ SubSeq(a, 1, Len(s)) \in Seq(Token)
      /\ Len(SubSeq(a, 1, Len(s))) = Len(s)
      /\ \A i \in 1..Len(s) : SubSeq(a, 1, Len(s))[i] = a[i]
  BY <1>1, <1>2, PrefixProperties
<1>4. SubSeq(a, 1, Len(s)) = s
  BY <1>1, <1>3, SeqEqual
<1> QED
  BY <1>1, <1>4 DEF a

(* The state a completed prefill leaves behind satisfies the invariant. *)
LEMMA InvInit == Init => Inv
<1> SUFFICES ASSUME Init
             PROVE  Inv
  OBVIOUS
<1>1. /\ Prompt \in Seq(Token) /\ Len(Prompt) \in Nat \ {0}
      /\ Len(Prompt) <= Capacity /\ Capacity \in Nat
      /\ MaxNewTokens \in Nat \ {0} /\ DraftTokens \in Nat \ {0}
  <2>1. Prompt \in Seq(Token) /\ Len(Prompt) \in Nat \ {0}
    BY DecodeAssumption, EmptySeq
  <2> QED
    BY <2>1, DecodeAssumption, ControllerAssumption
<1>2. /\ generated = <<>> /\ Len(generated) = 0 /\ History = Prompt
      /\ generated \in Seq(Token \ EosTokens) /\ <<>> \in Seq(Token)
  BY <1>1, EmptySeq, ConcatEmptySeq DEF Init, History
<1>3. kv \in Rows /\ Holds(kv, Prompt)
  <2>1. \A i \in 1..Len(Prompt) : Prompt[i] \in Token
    BY <1>1, ElementOfSeq
  <2> QED
    BY <1>1, <2>1 DEF Init, Rows, Holds
<1>4. /\ logits[row] = Row(Prompt, Prompt) /\ pending = Row(Prompt, Prompt)
      /\ row \in 1..(DraftTokens + 1)
  BY <1>1 DEF Init
<1>5. controller \in Controller
  BY <1>1 DEF Init, InitialController, Controller
<1>6. TypeOK
  BY <1>1, <1>2, <1>3, <1>4, <1>5 DEF Init, TypeOK, Rows, Zeroes
<1>7. AtSample
  BY <1>1, <1>2, <1>3, <1>4 DEF Init, AtSample, Generating
<1> QED
  BY <1>6, <1>7 DEF Init, Inv, AtStep, AtBatch, AtRound, AtVerified, AtReplay,
                    AtEnd, StopIsEos
-----------------------------------------------------------------------------
(* Each action keeps the invariant.  Sampling EOS leaves the whole text    *)
(* in the used rows; the other actions follow in the order of the loops.   *)
LEMMA SampleEosStep == Inv /\ SampleEos => Inv'
<1> SUFFICES ASSUME Inv, SampleEos
             PROVE  Inv'
  OBVIOUS
<1>1. TypeOK'
  <2>1. 1 \in 1..(DraftTokens + 1)
    BY HistoryIsText DEF Inv
  <2>2. row' = 1 /\ finish' = "stop" /\ pc' = "finish"
    BY DEF SampleEos
  <2>3. UNCHANGED <<model, mtp, generated, kv, recurrent, snapshot, position, verify,
                    accepted, controller, verified_by_position, accepted_by_position>>
    BY DEF SampleEos, request, cache, stats
  <2> QED
    BY <2>1, <2>2, <2>3 DEF Inv, TypeOK
<1> USE DEF SampleEos, Inv, request, cache, stats
<1>2. History' = History /\ Generating' = Generating
  BY DEF History, Generating
<1>3. StopIsEos'
  BY <1>2, ChoiceIsToken DEF AtSample, StopIsEos
<1>4. AtEnd'
  BY <1>2 DEF AtSample, AtEnd
<1> QED
  BY <1>1, <1>3, <1>4 DEF AtSample, AtStep, AtBatch, AtRound, AtVerified, AtReplay

(* Emitting the sampled token leaves both caches one token behind. *)
LEMMA SampleTokenStep == Inv /\ SampleToken => Inv'
<1> SUFFICES ASSUME Inv, SampleToken
             PROVE  Inv'
  OBVIOUS
<1> DEFINE t == Argmax(model, History, History)
<1> USE DEF Inv
<1>1. /\ Generating /\ recurrent = History /\ position = Len(History)
      /\ Holds(kv, History) /\ (mtp => pending = Row(History, History))
      /\ Sampled(logits[row]) = t
      /\ t \in Token /\ t \notin EosTokens
      /\ generated' = Append(generated, t)
  BY ChoiceIsToken DEF SampleToken, AtSample
<1> HIDE DEF t
<1>2. /\ generated' \in Seq(Token \ EosTokens) /\ generated' # <<>>
      /\ Len(generated') <= MaxNewTokens /\ Len(generated') \in Nat
      /\ LastToken' = t /\ History' = Append(History, t)
  BY <1>1, EmitExtends, HistoryIsText
<1>3. \/ ~Generating' /\ pc' = "finish"
      \/ Generating' /\ mtp /\ pc' = "draft"
      \/ Generating' /\ ~mtp /\ pc' = "decode"
  BY <1>2, HistoryIsText DEF SampleToken, Generating
<1>4. /\ row' = 1
      /\ UNCHANGED <<model, mtp, finish, kv, recurrent, snapshot, logits, pending,
                     position, verify, accepted, controller,
                     verified_by_position, accepted_by_position>>
  BY DEF SampleToken, request, cache, stats
<1>5. TypeOK'
  <2>1. row' \in 1..(DraftTokens + 1)
    BY <1>4, HistoryIsText
  <2> QED
    BY <1>2, <1>3, <1>4, <2>1, Zenon DEF TypeOK
<1>6. /\ History' = Append(recurrent', LastToken')
      /\ position' = Len(recurrent') /\ Holds(kv', recurrent')
      /\ mtp' => pending' = Row(recurrent', recurrent')
  BY <1>1, <1>2, <1>4
<1>7. AtStep'
  <2>1. pc' # "finish" => Generating' /\ (mtp' <=> pc' # "decode")
    BY <1>3, <1>4
  <2> QED
    BY <1>2, <1>4, <1>6, <2>1 DEF AtStep
<1>8. AtEnd'
  <2>1. finish' = "length"
    BY <1>4 DEF SampleToken, StopIsEos, TypeOK
  <2>2. pc' \in {"finish", "done"} => ~Generating'
    BY <1>3
  <2> QED
    BY <1>2, <1>6, <2>1, <2>2 DEF AtEnd
<1>9. StopIsEos'
  BY DEF StopIsEos, SampleToken
<1> QED
  BY <1>5, <1>7, <1>8, <1>9, <1>3
     DEF AtSample, AtBatch, AtRound, AtVerified, AtReplay

(* The plain target step brings both caches up to the text. *)
LEMMA PlainDecodeStep == Inv /\ PlainDecode => Inv'
<1> SUFFICES ASSUME Inv, PlainDecode
             PROVE  Inv'
  OBVIOUS
<1> USE DEF Inv
<1>1. /\ Generating /\ generated # <<>>
      /\ History = Append(recurrent, LastToken)
      /\ position = Len(recurrent) /\ Holds(kv, recurrent)
      /\ recurrent \in Seq(Token)
  BY DEF PlainDecode, AtStep, Holds
<1>2. LastToken \in Token /\ <<LastToken>> \in Seq(Token) /\ Len(<<LastToken>>) = 1
  <2>1. generated \in Seq(Token) /\ generated # <<>>
    BY <1>1, HistoryIsText
  <2>2. Len(generated) \in 1..Len(generated)
    BY <2>1, EmptySeq
  <2> QED
    BY <2>1, <2>2, ElementOfSeq DEF LastToken
<1>3. Decode(<<LastToken>>) /\ Len(<<LastToken>>) <= Capacity - position
  BY <1>2 DEF PlainDecode, Decode, Fits, LastToken
<1>4. recurrent \o <<LastToken>> = History
  BY <1>1, <1>2, AppendIsConcat
<1>5. /\ kv' \in Rows /\ recurrent' = History /\ recurrent' \in Seq(Token)
      /\ Holds(kv', History)
      /\ logits' = [i \in 1..1 |-> Row(recurrent \o SubSeq(<<LastToken>>, 1, i),
                                       recurrent \o SubSeq(<<LastToken>>, 1, i))]
  BY <1>1, <1>2, <1>3, <1>4, DecodeExtends DEF TypeOK, Rows
<1>6. SubSeq(<<LastToken>>, 1, 1) = <<LastToken>>
  BY <1>2, SubSeqFull
<1>7. logits'[1] = Row(History, History)
  <2>1. logits'[1] = Row(recurrent \o SubSeq(<<LastToken>>, 1, 1),
                         recurrent \o SubSeq(<<LastToken>>, 1, 1))
    BY <1>5
  <2> QED
    BY <1>4, <1>6, <2>1, Zenon
<1>8. Len(History) = position + 1 /\ Len(History) <= Capacity /\ position \in Nat
  BY <1>1, <1>2, FrontOfAppend, HistoryIsText, LenProperties
<1>9. ~mtp /\ row' = 1 /\ History' = History /\ (Generating' = Generating)
  BY DEF PlainDecode, AtStep, request, History, Generating
<1>10. TypeOK'
  BY <1>1, <1>5, <1>8 DEF TypeOK, Rows, PlainDecode, request, stats
<1>11. AtSample'
  BY <1>1, <1>5, <1>7, <1>8, <1>9 DEF AtSample, PlainDecode, request
<1>12. StopIsEos'
  BY DEF StopIsEos, PlainDecode
<1> QED
  BY <1>10, <1>11, <1>12
     DEF PlainDecode, AtStep, AtBatch, AtRound, AtVerified, AtReplay, AtEnd

(* Drafting builds a batch that fits the budget and the request. *)
LEMMA DraftStep == Inv /\ Draft => Inv'
<1> SUFFICES ASSUME Inv, Draft
             PROVE  Inv'
  OBVIOUS
<1> USE DEF Inv
<1>1. /\ Generating /\ generated # <<>>
      /\ History = Append(recurrent, LastToken)
      /\ position = Len(recurrent) /\ Holds(kv, recurrent) /\ row = 1
      /\ mtp /\ pending = Row(recurrent, recurrent)
  BY DEF Draft, AtStep
<1>2. DraftBudget \in Nat /\ DraftBudget <= controller.budget /\ DraftBudget <= Remaining
  BY <1>1, HistoryIsText DEF DraftBudget, Remaining, Generating
<1>3. LastToken \in Token
  <2>1. Len(generated) \in 1..Len(generated)
    BY <1>1, HistoryIsText, EmptySeq
  <2> QED
    BY <2>1, HistoryIsText, ElementOfSeq DEF LastToken
<1>4. PICK count \in 0..DraftBudget :
        \E drafted \in [1..count -> Token] : verify' = <<LastToken>> \o drafted
  BY <1>2 DEF Draft, LastToken
<1>5. PICK drafted \in [1..count -> Token] : verify' = <<LastToken>> \o drafted
  BY <1>4
<1>6. drafted \in Seq(Token) /\ Len(drafted) = count /\ count \in Nat
  <2>1. count \in Nat /\ drafted \in Seq(Token)
    BY <1>2, SeqDef
  <2> QED
    BY <2>1
<1>7. /\ verify' \in Seq(Token) /\ verify' # <<>>
      /\ verify'[1] = LastToken /\ Len(verify') = 1 + count
  <2>1. <<LastToken>> \in Seq(Token) /\ Len(<<LastToken>>) = 1
    BY <1>3
  <2>2. /\ verify' \in Seq(Token) /\ Len(verify') = 1 + count
        /\ \A i \in 1..(1 + count) :
             verify'[i] = IF i <= 1 THEN <<LastToken>>[i] ELSE drafted[i - 1]
    BY <1>5, <1>6, <2>1, ConcatProperties
  <2>3. verify'[1] = LastToken
    BY <1>6, <2>2
  <2>4. verify' # <<>>
    BY <1>6, <2>2, EmptySeq
  <2> QED
    BY <2>2, <2>3, <2>4
<1>8. /\ pc' = "snapshot"
      /\ UNCHANGED <<model, mtp, generated, finish, kv, recurrent, snapshot,
                     logits, row, pending, position, accepted, controller,
                     verified_by_position, accepted_by_position>>
  BY DEF Draft, request, cache, stats
<1>9. /\ History' = History /\ (Generating' <=> Generating)
      /\ LastToken' = LastToken /\ Remaining' = Remaining
  BY <1>8 DEF History, Generating, LastToken, Remaining
<1>10. TypeOK'
  BY <1>7, <1>8, Zenon DEF TypeOK
<1>11. AtStep'
  BY <1>1, <1>8, <1>9 DEF AtStep
<1>12. AtBatch'
  BY <1>2, <1>4, <1>6, <1>7, <1>8, <1>9, HistoryIsText DEF AtBatch, Remaining
<1>13. StopIsEos'
  BY <1>8 DEF StopIsEos, Draft
<1> QED
  BY <1>8, <1>10, <1>11, <1>12, <1>13
     DEF AtSample, AtRound, AtVerified, AtReplay, AtEnd

(* The snapshot is the recurrent state before the batch. *)
LEMMA SnapshotStep == Inv /\ Snapshot => Inv'
<1> SUFFICES ASSUME Inv, Snapshot
             PROVE  Inv'
  OBVIOUS
<1> USE DEF Inv
<1>1. /\ pc = "snapshot" /\ pc' = "verify" /\ snapshot' = recurrent
      /\ UNCHANGED <<model, mtp, generated, finish, kv, recurrent, logits, row,
                     pending, position, verify, accepted, controller,
                     verified_by_position, accepted_by_position>>
  BY DEF Snapshot, request, cache, stats
<1>2. /\ History' = History /\ (Generating' <=> Generating)
      /\ LastToken' = LastToken /\ Remaining' = Remaining
  BY <1>1 DEF History, Generating, LastToken, Remaining
<1>3. TypeOK'
  BY <1>1, Zenon DEF TypeOK
<1>4. AtStep'
  BY <1>1, <1>2 DEF AtStep
<1>5. AtBatch'
  BY <1>1, <1>2 DEF AtBatch
<1>6. StopIsEos'
  BY <1>1 DEF StopIsEos
<1> QED
  BY <1>1, <1>3, <1>4, <1>5, <1>6
     DEF AtSample, AtRound, AtVerified, AtReplay, AtEnd

(* A batch fits: it ends at most one position behind the requested tokens, *)
(* and prompt and requested tokens fit.                                    *)
LEMMA BatchFits ==
  ASSUME Inv, pc \in {"snapshot", "verify"}
  PROVE  /\ Len(verify) \in Nat \ {0}
         /\ Len(verify) <= Capacity - position
         /\ position \in Nat /\ position < Capacity
         /\ position + 1 = Len(History)
<1>1. /\ verify \in Seq(Token) /\ verify # <<>>
      /\ Len(verify) - 1 <= Remaining
      /\ generated # <<>> /\ position = Len(recurrent)
      /\ recurrent \in Seq(Token)
      /\ History = Append(recurrent, LastToken)
  BY DEF Inv, AtBatch, AtStep, TypeOK
<1>2. LastToken \in Token
  <2>1. Len(generated) \in 1..Len(generated)
    BY <1>1, HistoryIsText, EmptySeq DEF Inv
  <2> QED
    BY <2>1, HistoryIsText, ElementOfSeq DEF Inv, LastToken
<1>3. Len(History) = position + 1 /\ position \in Nat
  BY <1>1, <1>2, FrontOfAppend, LenProperties
<1>4. Len(verify) \in Nat \ {0}
  BY <1>1, EmptySeq
<1>5. Len(Prompt) + MaxNewTokens <= Capacity
  BY DecodeAssumption
<1> QED
  BY <1>1, <1>3, <1>4, <1>5, HistoryIsText DEF Inv, Remaining

(* The verified rows are those of the text continued by the batch. *)
LEMMA VerifyStep == Inv /\ Verify => Inv'
<1> SUFFICES ASSUME Inv, Verify
             PROVE  Inv'
  OBVIOUS
<1> USE DEF Inv
<1>1. /\ Generating /\ generated # <<>>
      /\ History = Append(recurrent, LastToken)
      /\ position = Len(recurrent) /\ Holds(kv, recurrent)
      /\ recurrent \in Seq(Token) /\ mtp
      /\ verify \in Seq(Token) /\ verify # <<>> /\ verify[1] = LastToken
      /\ Len(verify) - 1 <= controller.budget
      /\ snapshot = recurrent
  BY DEF Verify, AtStep, AtBatch, TypeOK
<1>2. /\ Len(verify) \in Nat \ {0} /\ Len(verify) <= Capacity - position
  BY BatchFits DEF Verify
<1>3. /\ pc' = "accept" /\ accepted' = 0
      /\ UNCHANGED <<model, mtp, generated, finish, snapshot, row, pending,
                     position, verify, controller,
                     verified_by_position, accepted_by_position>>
  BY DEF Verify, request, stats
<1>4. /\ kv' \in Rows /\ recurrent' = recurrent \o verify
      /\ recurrent' \in Seq(Token) /\ Holds(kv', recurrent')
      /\ logits' = [i \in 1..Len(verify) |->
                      Row(recurrent \o SubSeq(verify, 1, i),
                          recurrent \o SubSeq(verify, 1, i))]
  BY <1>1, <1>2, DecodeExtends DEF Verify, TypeOK, Rows
<1>5. \A i \in 1..Len(verify) :
        logits'[i] = Row(snapshot \o SubSeq(verify, 1, i),
                         snapshot \o SubSeq(verify, 1, i))
  BY <1>1, <1>4
<1>6. History' = History /\ (Generating' <=> Generating)
  BY <1>3 DEF History, Generating
<1>7. Holds(kv', snapshot)
  <2>1. SubSeq(verify, 1, 0) = <<>>
    BY SubSeqEmpty
  <2>2. Holds(kv', recurrent \o SubSeq(verify, 1, 0))
    BY <1>1, <1>2, <1>4, HoldsPrefix
  <2> QED
    BY <1>1, <2>1, <2>2, ConcatEmptySeq
<1>8. History = snapshot \o SubSeq(verify, 1, 1)
  <2>1. 0 \in 0..(Len(verify) - 1)
    BY <1>2
  <2>2. recurrent \o SubSeq(verify, 1, 0 + 1)
          = Append(recurrent \o SubSeq(verify, 1, 0), verify[0 + 1])
    BY <1>1, <2>1, PrefixGrows
  <2>3. SubSeq(verify, 1, 0) = <<>> /\ recurrent \o <<>> = recurrent
    BY <1>1, SubSeqEmpty, ConcatEmptySeq
  <2> QED
    BY <1>1, <2>2, <2>3
<1>9. TypeOK'
  <2>1. accepted' \in 0..DraftTokens
    BY <1>3, HistoryIsText
  <2> QED
    BY <1>3, <1>4, <2>1, Zenon DEF TypeOK, Rows
<1>10. AtRound'
  <2>1. /\ accepted' < Len(verify') /\ Len(verify') - 1 <= DraftTokens
        /\ Len(verify') <= Capacity - position' /\ 1 + accepted' = 1
    BY <1>1, <1>2, <1>3, HistoryIsText
  <2>2. finish' = "length"
    BY <1>3 DEF Verify, StopIsEos, TypeOK
  <2>3. /\ mtp' /\ position' = Len(snapshot') /\ Holds(kv', snapshot')
        /\ History' = snapshot' \o SubSeq(verify', 1, 1 + accepted')
    BY <1>1, <1>3, <1>6, <1>7, <1>8, <2>1
  <2> QED
    BY <2>1, <2>2, <2>3 DEF AtRound
<1>11. AtVerified'
  BY <1>1, <1>3, <1>4, <1>5 DEF AtVerified
<1>12. StopIsEos'
  BY <1>3 DEF Verify, StopIsEos
<1> QED
  BY <1>3, <1>9, <1>10, <1>11, <1>12
     DEF AtSample, AtStep, AtBatch, AtReplay, AtEnd
-----------------------------------------------------------------------------
(* The accept loop.  The row that judges the next draft is the row of the  *)
(* text emitted so far.                                                    *)
LEMMA JudgedIsChoice ==
  ASSUME Inv, pc = "accept"
  PROVE  /\ logits[accepted + 1] = Row(History, History)
         /\ Judged = Argmax(model, History, History)
<1>1. /\ accepted \in Nat /\ accepted < Len(verify) /\ Len(verify) \in Nat
      /\ 1 + accepted = accepted + 1
  BY HistoryIsText, LenProperties DEF Inv, AtRound, TypeOK
<1>2. logits[accepted + 1] = Row(History, History)
  <2>1. accepted + 1 \in 1..Len(verify)
    BY <1>1
  <2>2. History = snapshot \o SubSeq(verify, 1, accepted + 1)
    BY <1>1 DEF Inv, AtRound
  <2> QED
    BY <2>1, <2>2 DEF Inv, AtVerified
<1> QED
  BY <1>2, ChoiceIsToken DEF Inv, Judged

(* An accepted draft is the next token of text and batch alike. *)
LEMMA AcceptDraftStep == Inv /\ AcceptDraft => Inv'
<1> SUFFICES ASSUME Inv, AcceptDraft
             PROVE  Inv'
  OBVIOUS
<1> DEFINE t == verify[accepted + 2]
<1> USE DEF Inv
<1>1. /\ pc = "accept" /\ Generating /\ accepted < Len(verify) - 1
      /\ t = Argmax(model, History, History) /\ t \notin EosTokens
      /\ generated' = Append(generated, t)
      /\ accepted' = accepted + 1
  BY JudgedIsChoice DEF AcceptDraft, Undecided
<1>2. /\ UNCHANGED <<model, mtp, pc, finish, kv, recurrent, snapshot, logits, row,
                     pending, position, verify, controller>>
  BY DEF AcceptDraft, request, cache
<1>3. /\ t \in Token
      /\ accepted \in Nat /\ Len(verify) \in Nat /\ Len(verify) - 1 <= DraftTokens
      /\ verify \in Seq(Token) /\ snapshot \in Seq(Token)
      /\ History = snapshot \o SubSeq(verify, 1, 1 + accepted)
  BY <1>1, ChoiceIsToken, LenProperties DEF AtRound, TypeOK
<1> HIDE DEF t
<1>4. /\ generated' \in Seq(Token \ EosTokens)
      /\ Len(generated') <= MaxNewTokens
      /\ History' = Append(History, t)
  BY <1>1, <1>3, EmitExtends
<1>5. History' = snapshot' \o SubSeq(verify', 1, 1 + accepted')
  <2>1. 1 + accepted \in 0..(Len(verify) - 1) /\ (1 + accepted) + 1 = 1 + accepted'
        /\ (1 + accepted) + 1 = accepted + 2
    BY <1>1, <1>3
  <2>2. snapshot \o SubSeq(verify, 1, (1 + accepted) + 1)
          = Append(snapshot \o SubSeq(verify, 1, 1 + accepted),
                   verify[(1 + accepted) + 1])
    BY <1>3, <2>1, PrefixGrows
  <2>3. verify[(1 + accepted) + 1] = t
    BY <2>1 DEF t
  <2> QED
    BY <1>2, <1>3, <1>4, <2>1, <2>2, <2>3
<1>6. /\ verified_by_position' \in [1..DraftTokens -> Nat]
      /\ accepted_by_position' \in [1..DraftTokens -> Nat]
  <2>1. accepted + 1 \in 1..DraftTokens
    BY <1>1, <1>3, HistoryIsText
  <2>2. verified_by_position' =
          [verified_by_position EXCEPT ![accepted + 1] = @ + 1]
    BY DEF AcceptDraft, CountVerified
  <2>3. accepted_by_position' =
          [accepted_by_position EXCEPT ![accepted + 1] = @ + 1]
    BY DEF AcceptDraft
  <2>4. /\ verified_by_position \in [1..DraftTokens -> Nat]
        /\ accepted_by_position \in [1..DraftTokens -> Nat]
    BY DEF TypeOK
  <2>5. verified_by_position' \in [1..DraftTokens -> Nat]
    BY ONLY <2>1, <2>2, <2>4
  <2>6. accepted_by_position' \in [1..DraftTokens -> Nat]
    BY ONLY <2>1, <2>3, <2>4
  <2> QED
    BY <2>5, <2>6
<1>7. accepted' \in 0..DraftTokens /\ accepted' < Len(verify')
  BY <1>1, <1>2, <1>3, HistoryIsText
<1>8. TypeOK'
  BY <1>2, <1>4, <1>6, <1>7, Zenon DEF TypeOK
<1>9. AtRound'
  BY <1>1, <1>2, <1>5, <1>7 DEF AtRound
<1>10. AtVerified'
  BY <1>1, <1>2 DEF AtVerified
<1>11. StopIsEos'
  BY <1>1, <1>2 DEF StopIsEos
<1> QED
  BY <1>1, <1>2, <1>8, <1>9, <1>10, <1>11
     DEF AtSample, AtStep, AtBatch, AtReplay, AtEnd

(* A rejected draft, an EOS row or the end of the batch end the round. *)
LEMMA DecidedStep ==
  Inv /\ (RejectDraft \/ AcceptEos \/ AcceptEnd) => Inv'
<1> SUFFICES ASSUME Inv, RejectDraft \/ AcceptEos \/ AcceptEnd
             PROVE  Inv'
  OBVIOUS
<1> USE DEF Inv
<1>1. /\ pc = "accept" /\ pc' = "settle"
      /\ UNCHANGED <<model, mtp, generated, kv, recurrent, snapshot, logits, row,
                     pending, position, verify, accepted, controller,
                     accepted_by_position>>
  BY DEF RejectDraft, AcceptEos, AcceptEnd, request, cache, stats
<1>2. History' = History /\ (Generating' <=> Generating)
  BY <1>1 DEF History, Generating
<1>3. verified_by_position' \in [1..DraftTokens -> Nat]
  <2>1. CASE AcceptEnd
    BY <2>1 DEF AcceptEnd, stats, TypeOK
  <2>2. CASE ~AcceptEnd
    <3>1. accepted + 1 \in 1..DraftTokens /\ CountVerified
      <4>1. Undecided /\ CountVerified
        BY <2>2 DEF RejectDraft, AcceptEos
      <4> QED
        BY <1>1, <4>1, HistoryIsText, LenProperties
           DEF Undecided, AtRound, TypeOK
    <3>2. verified_by_position \in [1..DraftTokens -> Nat]
      BY DEF TypeOK
    <3>3. verified_by_position' =
            [verified_by_position EXCEPT ![accepted + 1] = @ + 1]
      BY <3>1 DEF CountVerified
    <3>4. accepted + 1 \in 1..DraftTokens
      BY <3>1
    <3> QED
      BY ONLY <3>2, <3>3, <3>4
  <2> QED
    BY <2>1, <2>2
<1>4. finish' \in {"length", "stop"}
  BY DEF RejectDraft, AcceptEos, AcceptEnd, TypeOK
<1>5. TypeOK'
  BY <1>1, <1>3, <1>4, Zenon DEF TypeOK
<1>6. AtRound'
  BY <1>1, <1>2 DEF AtRound
<1>7. AtVerified'
  BY <1>1 DEF AtVerified
<1>8. StopIsEos'
  <2>1. CASE AcceptEos
    <3>1. Generating /\ Argmax(model, History, History) \in EosTokens
      BY <2>1, <1>1, JudgedIsChoice DEF AcceptEos, Undecided
    <3> QED
      BY <1>1, <1>2, <3>1 DEF StopIsEos
  <2>2. CASE ~AcceptEos
    <3>1. finish' = finish
      BY <2>2 DEF RejectDraft, AcceptEnd
    <3> QED
      BY <1>1, <3>1 DEF StopIsEos
  <2> QED
    BY <2>1, <2>2
<1> QED
  BY <1>1, <1>5, <1>6, <1>7, <1>8
     DEF AtSample, AtStep, AtBatch, AtReplay, AtEnd
-----------------------------------------------------------------------------
(* The controller stays one, whatever a round counted. *)
LEMMA UpdateIsController ==
  ASSUME NEW c \in Controller, NEW n \in 0..c.budget, NEW a \in 0..n
  PROVE  UpdateBudget(c, n, a) \in Controller
<1> DEFINE seen == [budget |-> c.budget, drafted |-> c.drafted + n,
                    accepted |-> c.accepted + a]
<1>1. /\ c.budget \in 1..DraftTokens /\ c.drafted \in Nat /\ c.accepted \in Nat
      /\ n \in Nat /\ a \in Nat /\ DraftTokens \in Nat \ {0}
  BY ControllerAssumption DEF Controller
<1>2. seen \in Controller /\ seen.budget = c.budget
  BY <1>1 DEF Controller
<1>3. Judge(seen) \in Controller
  <2> HIDE DEF seen
  <2> QED
    BY <1>1, <1>2 DEF Judge, TooManyRejected, AllAccepted, Fresh, Controller
<1> QED
  BY <1>2, <1>3 DEF UpdateBudget

(* The end of a round. *)
LEMMA JudgeRoundTypes ==
  ASSUME Inv, pc = "settle", JudgeRound
  PROVE  controller' \in Controller
<1>1. /\ Len(verify) \in Nat \ {0} /\ accepted \in Nat /\ accepted < Len(verify)
      /\ Len(verify) - 1 <= controller.budget /\ controller.budget \in Nat
      /\ controller \in Controller
  <2>1. Len(verify) \in Nat
    BY LenProperties DEF Inv, TypeOK
  <2>2. accepted \in Nat /\ controller.budget \in Nat /\ controller \in Controller
    BY HistoryIsText DEF Inv, TypeOK
  <2> QED
    BY <2>1, <2>2 DEF Inv, AtRound, AtVerified
<1>2. Len(verify) - 1 \in 0..controller.budget /\ accepted \in 0..(Len(verify) - 1)
  BY <1>1
<1> QED
  BY <1>1, <1>2, UpdateIsController DEF JudgeRound

(* Where a round ends: behind the last token of the text. *)
LEMMA RoundEndsBehindText ==
  ASSUME Inv, pc \in {"settle", "replay"}
  PROVE  /\ VerifiedPosition = Len(History)
         /\ VerifiedPosition \in 0..Capacity
         /\ Len(verify) \in Nat /\ accepted \in Nat /\ accepted < Len(verify)
         /\ SubSeq(verify, 1, 1 + accepted) \in Seq(Token)
         /\ Len(SubSeq(verify, 1, 1 + accepted)) = 1 + accepted
         /\ 1 + accepted \in 1..(DraftTokens + 1)
<1>1. /\ verify \in Seq(Token) /\ snapshot \in Seq(Token)
      /\ Len(verify) \in Nat /\ accepted \in Nat /\ accepted < Len(verify)
      /\ Len(verify) - 1 <= DraftTokens /\ DraftTokens \in Nat
      /\ position = Len(snapshot) /\ position \in Nat
      /\ History = snapshot \o SubSeq(verify, 1, 1 + accepted)
  <2>1. /\ verify \in Seq(Token) /\ snapshot \in Seq(Token)
        /\ Len(verify) \in Nat /\ Len(snapshot) \in Nat
    BY LenProperties DEF Inv, TypeOK
  <2>2. accepted \in Nat /\ DraftTokens \in Nat
    BY HistoryIsText DEF Inv, TypeOK
  <2> QED
    BY <2>1, <2>2 DEF Inv, AtRound
<1>2. /\ SubSeq(verify, 1, 1 + accepted) \in Seq(Token)
      /\ Len(SubSeq(verify, 1, 1 + accepted)) = 1 + accepted
  <2>1. 1 + accepted \in 0..Len(verify)
    BY <1>1
  <2> QED
    BY <1>1, <2>1, PrefixProperties
<1>3. Len(History) = position + (1 + accepted)
  BY <1>1, <1>2, ConcatProperties
<1> QED
  BY <1>1, <1>2, <1>3, HistoryIsText DEF Inv, VerifiedPosition

(* Stopping on EOS leaves exactly the text among the used rows. *)
LEMMA SettleStopStep == Inv /\ SettleStop => Inv'
<1> SUFFICES ASSUME Inv, SettleStop
             PROVE  Inv'
  OBVIOUS
<1> USE DEF Inv
<1>1. /\ pc = "settle" /\ pc' = "finish" /\ finish = "stop"
      /\ position' = VerifiedPosition
      /\ UNCHANGED <<model, mtp, generated, finish, kv, recurrent, snapshot,
                     logits, row, pending, verify, accepted,
                     verified_by_position, accepted_by_position>>
  BY DEF SettleStop, request, cache, stats
<1>2. History' = History /\ (Generating' <=> Generating)
  BY <1>1 DEF History, Generating
<1>3. TypeOK'
  <2>1. controller' \in Controller /\ position' \in 0..Capacity
    BY <1>1, JudgeRoundTypes, RoundEndsBehindText DEF SettleStop
  <2> QED
    BY <1>1, <2>1, Zenon DEF TypeOK
<1>4. Holds(kv, History)
  <2>1. 1 + accepted \in 0..Len(verify)
    BY <1>1, RoundEndsBehindText
  <2> QED
    BY <1>1, <2>1, HoldsPrefix DEF AtRound, AtVerified, TypeOK
<1>5. AtEnd'
  BY <1>1, <1>2, <1>4, RoundEndsBehindText DEF AtEnd
<1>6. StopIsEos'
  BY <1>1, <1>2 DEF StopIsEos
<1> QED
  BY <1>1, <1>3, <1>5, <1>6
     DEF AtSample, AtStep, AtBatch, AtRound, AtVerified, AtReplay

(* A batch accepted as a whole stands as it is. *)
LEMMA KeepBatchStep == Inv /\ KeepBatch => Inv'
<1> SUFFICES ASSUME Inv, KeepBatch
             PROVE  Inv'
  OBVIOUS
<1> USE DEF Inv
<1>1. /\ pc = "settle" /\ finish # "stop" /\ accepted = Len(verify) - 1
      /\ position' = VerifiedPosition
      /\ pending' = logits[1 + accepted] /\ row' = 1 + accepted
      /\ UNCHANGED <<model, mtp, generated, finish, kv, recurrent, snapshot,
                     logits, verify, accepted,
                     verified_by_position, accepted_by_position>>
  BY DEF KeepBatch, KeepRow, request, cache, stats
<1>2. History' = History /\ (Generating' <=> Generating)
  BY <1>1 DEF History, Generating
<1>3. \/ Generating /\ pc' = "sample"
      \/ ~Generating /\ pc' = "finish"
  BY DEF KeepBatch
<1>4. TypeOK'
  <2>1. /\ controller' \in Controller /\ position' \in 0..Capacity
        /\ row' \in 1..(DraftTokens + 1)
    BY <1>1, JudgeRoundTypes, RoundEndsBehindText DEF KeepBatch
  <2> QED
    BY <1>1, <1>3, <2>1, Zenon DEF TypeOK
<1>5. /\ verify \in Seq(Token) /\ 1 + accepted = Len(verify)
      /\ 1 + accepted \in 1..Len(verify) /\ position' = Len(History)
  BY <1>1, RoundEndsBehindText DEF TypeOK
<1>6. /\ recurrent = History /\ Holds(kv, History)
      /\ logits[1 + accepted] = Row(History, History)
  BY <1>1, <1>5, SubSeqFull DEF AtRound, AtVerified
<1>7. AtSample'
  BY <1>1, <1>2, <1>3, <1>5, <1>6 DEF AtSample
<1>8. AtEnd'
  BY <1>1, <1>2, <1>3, <1>5, <1>6 DEF AtEnd
<1>9. StopIsEos'
  BY <1>1 DEF StopIsEos
<1> QED
  BY <1>3, <1>4, <1>7, <1>8, <1>9
     DEF AtStep, AtBatch, AtRound, AtVerified, AtReplay

(* Restoring brings back the recurrent state of the snapshot. *)
LEMMA RestoreStep == Inv /\ Restore => Inv'
<1> SUFFICES ASSUME Inv, Restore
             PROVE  Inv'
  OBVIOUS
<1> USE DEF Inv
<1>1. /\ pc = "settle" /\ finish # "stop" /\ pc' = "replay"
      /\ recurrent' = snapshot
      /\ UNCHANGED <<model, mtp, generated, finish, kv, snapshot, logits, row,
                     pending, position, verify, accepted,
                     verified_by_position, accepted_by_position>>
  BY DEF Restore, Restored, request, stats
<1>2. History' = History
  BY <1>1 DEF History
<1>3. controller' \in Controller
  BY <1>1, JudgeRoundTypes DEF Restore
<1>4. TypeOK'
  BY <1>1, <1>3, Zenon DEF TypeOK
<1>5. AtRound'
  BY <1>1, <1>2 DEF AtRound
<1>6. AtReplay' /\ StopIsEos'
  BY <1>1 DEF AtReplay, StopIsEos
<1> QED
  BY <1>1, <1>4, <1>5, <1>6
     DEF AtSample, AtStep, AtBatch, AtVerified, AtEnd

(* Replaying the accepted part brings both caches up to the text. *)
LEMMA ReplayStep == Inv /\ Replay => Inv'
<1> SUFFICES ASSUME Inv, Replay
             PROVE  Inv'
  OBVIOUS
<1> DEFINE tokens == SubSeq(verify, 1, 1 + accepted)
<1> USE DEF Inv
<1>1. /\ pc = "replay" /\ position' = VerifiedPosition
      /\ pending' = logits'[1 + accepted] /\ row' = 1 + accepted
      /\ UNCHANGED <<model, mtp, generated, finish, snapshot, verify, accepted,
                     controller, verified_by_position, accepted_by_position>>
  BY DEF Replay, KeepRow, request, stats
<1>2. History' = History /\ (Generating' <=> Generating)
  BY <1>1 DEF History, Generating
<1>3. \/ Generating /\ pc' = "sample"
      \/ ~Generating /\ pc' = "finish"
  BY DEF Replay
<1>4. /\ tokens \in Seq(Token) /\ Len(tokens) = 1 + accepted
      /\ 1 + accepted \in 1..(DraftTokens + 1) /\ 1 + accepted \in 1..Len(tokens)
      /\ position' = Len(History) /\ position' \in 0..Capacity
      /\ Len(tokens) <= Len(verify) /\ Len(verify) \in Nat
  BY <1>1, RoundEndsBehindText
<1>5. Len(tokens) <= Capacity - position
  <2>1. Len(verify) <= Capacity - position /\ position \in Nat /\ Capacity \in Nat
    BY <1>1, HistoryIsText DEF AtRound, TypeOK
  <2> QED
    BY <1>4, <2>1
<1> HIDE DEF tokens
<1>6. /\ recurrent = snapshot /\ Holds(kv, recurrent)
      /\ position = Len(recurrent)
      /\ History = recurrent \o tokens
  BY <1>1 DEF AtRound, AtReplay, tokens
<1>7. Decode(tokens)
  BY DEF Replay, tokens
<1>8. /\ kv' \in Rows /\ recurrent' = History /\ recurrent' \in Seq(Token)
      /\ Holds(kv', History)
      /\ logits' = [i \in 1..Len(tokens) |->
                      Row(recurrent \o SubSeq(tokens, 1, i),
                          recurrent \o SubSeq(tokens, 1, i))]
  BY <1>4, <1>5, <1>6, <1>7, DecodeExtends DEF TypeOK, Rows
<1>9. logits'[1 + accepted] = Row(History, History)
  <2>1. SubSeq(tokens, 1, 1 + accepted) = tokens
    BY <1>4, SubSeqFull
  <2> QED
    BY <1>4, <1>6, <1>8, <2>1
<1>10. TypeOK'
  BY <1>1, <1>3, <1>4, <1>8, Zenon DEF TypeOK, Rows
<1>11. AtSample'
  BY <1>1, <1>2, <1>3, <1>4, <1>8, <1>9 DEF AtSample
<1>12. AtEnd'
  BY <1>1, <1>2, <1>3, <1>4, <1>8 DEF AtEnd
<1>13. StopIsEos'
  BY <1>1 DEF StopIsEos
<1> QED
  BY <1>3, <1>10, <1>11, <1>12, <1>13
     DEF AtStep, AtBatch, AtRound, AtVerified, AtReplay

(* Finishing and failing change nothing but the point reached. *)
LEMMA EndStep == Inv /\ (Finish \/ Fail) => Inv'
<1> SUFFICES ASSUME Inv, Finish \/ Fail
             PROVE  Inv'
  OBVIOUS
<1> USE DEF Inv
<1>1. UNCHANGED <<model, mtp, generated, finish, kv, recurrent, snapshot, logits,
                  row, pending, position, verify, accepted, controller,
                  verified_by_position, accepted_by_position>>
  BY DEF Finish, Fail, request, cache, stats
<1>2. History' = History /\ (Generating' <=> Generating) /\ LastToken' = LastToken
  BY <1>1 DEF History, Generating, LastToken
<1>3. \/ pc = "finish" /\ pc' = "done"
      \/ pc' = "error"
  BY DEF Finish, Fail
<1>4. TypeOK'
  BY <1>1, <1>3, Zenon DEF TypeOK
<1>5. AtEnd'
  BY <1>1, <1>2, <1>3 DEF AtEnd
<1>6. StopIsEos'
  BY <1>1, <1>2, <1>3 DEF StopIsEos
<1> QED
  BY <1>3, <1>4, <1>5, <1>6
     DEF AtSample, AtStep, AtBatch, AtRound, AtVerified, AtReplay

(* Every step keeps the invariant. *)
LEMMA InvStep == Inv /\ [Next]_vars => Inv'
<1> SUFFICES ASSUME Inv, [Next]_vars
             PROVE  Inv'
  OBVIOUS
<1>1. CASE UNCHANGED vars
  <2>1. UNCHANGED <<model, mtp, pc, generated, finish, kv, recurrent, snapshot,
                    logits, row, pending, position, verify, accepted, controller,
                    verified_by_position, accepted_by_position>>
    BY <1>1 DEF vars
  <2>2. /\ History' = History /\ (Generating' <=> Generating)
        /\ LastToken' = LastToken /\ Remaining' = Remaining
    BY <2>1 DEF History, Generating, LastToken, Remaining
  <2>3. TypeOK'
    BY <2>1, Zenon DEF Inv, TypeOK
  <2>4. AtSample' /\ AtStep' /\ AtBatch'
    BY <2>1, <2>2 DEF Inv, AtSample, AtStep, AtBatch
  <2>5. AtRound' /\ AtVerified' /\ AtReplay'
    BY <2>1, <2>2 DEF Inv, AtRound, AtVerified, AtReplay
  <2>6. AtEnd' /\ StopIsEos'
    BY <2>1, <2>2 DEF Inv, AtEnd, StopIsEos
  <2> QED
    BY <2>3, <2>4, <2>5, <2>6 DEF Inv
<1>2. CASE Next
  BY <1>2, SampleEosStep, SampleTokenStep, PlainDecodeStep, DraftStep,
     SnapshotStep, VerifyStep, AcceptDraftStep, DecidedStep, SettleStopStep,
     KeepBatchStep, RestoreStep, ReplayStep, EndStep
     DEF Next, Progress
<1> QED
  BY <1>1, <1>2

(* The invariant holds in every reachable state. *)
THEOREM Invariance == Spec => []Inv
BY InvInit, InvStep, PTL DEF Spec

(* Every variable of the decode state keeps its type. *)
THEOREM TypeCorrect == Spec => []TypeOK
<1>1. Inv => TypeOK
  BY DEF Inv
<1> QED
  BY <1>1, Invariance, PTL

(* No rejected draft and no stale row is behind the choice of a token. *)
THEOREM SampledRowsAreCurrent == Spec => []SampledRowIsCurrent
<1>1. Inv => SampledRowIsCurrent
  BY JudgedIsChoice DEF Inv, AtSample, SampledRowIsCurrent
<1> QED
  BY <1>1, Invariance, PTL

(* Drafting starts from the h_nextn row of the last committed token. *)
THEOREM PendingIsCommitted == Spec => []PendingIsLastCommitted
<1>1. Inv => PendingIsLastCommitted
  <2> SUFFICES ASSUME Inv, pc = "draft"
               PROVE  LET before == SubSeq(History, 1, Len(History) - 1)
                      IN  pending = Row(before, before) /\ position = Len(before)
    BY DEF PendingIsLastCommitted
  <2>1. /\ generated # <<>> /\ mtp /\ pending = Row(recurrent, recurrent)
        /\ position = Len(recurrent) /\ recurrent \in Seq(Token)
        /\ History = Append(recurrent, LastToken)
    BY DEF Inv, AtStep, TypeOK
  <2>2. LastToken \in Token
    <3>1. Len(generated) \in 1..Len(generated)
      BY <2>1, HistoryIsText, EmptySeq DEF Inv
    <3> QED
      BY <3>1, HistoryIsText, ElementOfSeq DEF Inv, LastToken
  <2>3. /\ SubSeq(Append(recurrent, LastToken), 1, Len(recurrent)) = recurrent
        /\ Len(Append(recurrent, LastToken)) = Len(recurrent) + 1
    BY <2>1, <2>2, FrontOfAppend
  <2>4. Len(History) - 1 = Len(recurrent)
    BY <2>1, <2>3, LenProperties
  <2>5. SubSeq(History, 1, Len(History) - 1) = recurrent
    BY <2>1, <2>3, <2>4
  <2> QED
    BY <2>1, <2>5
<1> QED
  BY <1>1, Invariance, PTL

(* A request never fails because a batch does not fit into its cache. *)
THEOREM BatchesFit == Spec => []NoCapacityError
<1>1. Inv => NoCapacityError
  <2> SUFFICES ASSUME Inv
               PROVE  NoCapacityError
    OBVIOUS
  <2>1. Len(Prompt) + MaxNewTokens <= Capacity
    BY DecodeAssumption
  <2>2. ASSUME pc \in {"decode", "draft"}
        PROVE  Fits(1) /\ Fits(DraftBudget)
    <3>1. /\ Generating /\ generated # <<>> /\ position = Len(recurrent)
          /\ recurrent \in Seq(Token) /\ History = Append(recurrent, LastToken)
      BY <2>2 DEF Inv, AtStep, TypeOK
    <3>2. LastToken \in Token
      <4>1. Len(generated) \in 1..Len(generated)
        BY <3>1, HistoryIsText, EmptySeq DEF Inv
      <4> QED
        BY <4>1, HistoryIsText, ElementOfSeq DEF Inv, LastToken
    <3>3. Len(History) = position + 1 /\ position \in Nat
      BY <3>1, <3>2, FrontOfAppend, LenProperties
    <3> QED
      BY <2>1, <3>1, <3>3, HistoryIsText
         DEF Inv, Fits, DraftBudget, Remaining, Generating
  <2>3. ASSUME pc \in {"snapshot", "verify"}
        PROVE  Fits(Len(verify))
    BY <2>3, BatchFits DEF Fits
  <2>4. ASSUME pc = "replay"
        PROVE  Fits(1 + accepted)
    <3>1. /\ Len(verify) <= Capacity - position
          /\ position \in Nat /\ Capacity \in Nat
      BY <2>4, HistoryIsText DEF Inv, AtRound, TypeOK
    <3> QED
      BY <2>4, <3>1, RoundEndsBehindText DEF Fits
  <2> QED
    BY <2>2, <2>3, <2>4 DEF NoCapacityError
<1> QED
  BY <1>1, Invariance, PTL

(* The rows a finished request reports as used are those of its text. *)
THEOREM UsedRowsCommitted == Spec => []UsedRowsAreCommitted
<1>1. Inv => UsedRowsAreCommitted
  <2> SUFFICES ASSUME Inv, pc = "done"
               PROVE  /\ position \in {Len(History) - 1, Len(History)}
                      /\ Attended(kv, position) = SubSeq(History, 1, position)
                      /\ finish = "stop" => position = Len(History)
    BY DEF UsedRowsAreCommitted
  <2>1. CASE position = Len(History) /\ Holds(kv, History)
    <3>1. Attended(kv, position) = History
      BY <2>1, HoldsIsAttended
    <3>2. SubSeq(History, 1, position) = History
      BY <2>1, HistoryIsText, SubSeqFull DEF Inv
    <3> QED
      BY <2>1, <3>1, <3>2
  <2>2. CASE /\ finish = "length" /\ generated # <<>>
             /\ History = Append(recurrent, LastToken)
             /\ position = Len(recurrent) /\ Holds(kv, recurrent)
    <3>1. recurrent \in Seq(Token) /\ LastToken \in Token
      <4>1. Len(generated) \in 1..Len(generated)
        BY <2>2, HistoryIsText, EmptySeq DEF Inv
      <4> QED
        BY <4>1, HistoryIsText, ElementOfSeq DEF Inv, TypeOK, LastToken
    <3>2. /\ SubSeq(History, 1, position) = recurrent
          /\ Len(History) = position + 1
      BY <2>2, <3>1, FrontOfAppend
    <3>3. Attended(kv, position) = recurrent
      BY <2>2, HoldsIsAttended
    <3>4. position \in Nat
      BY <2>2, <3>1, LenProperties
    <3> QED
      BY <2>2, <3>2, <3>3, <3>4
  <2> QED
    BY <2>1, <2>2 DEF Inv, AtEnd
<1> QED
  BY <1>1, Invariance, PTL
-----------------------------------------------------------------------------
(* While drafts are judged, draft accepted + 1 was verified less often than *)
(* draft accepted was accepted: the acceptance this round is still ahead.   *)
StatsInv ==
  /\ StatsTelescope
  /\ pc = "accept" /\ accepted > 0 /\ accepted < DraftTokens =>
       verified_by_position[accepted + 1] < accepted_by_position[accepted]

(* Every step keeps the counts telescoping. *)
LEMMA StatsStep == Inv /\ StatsInv /\ [Next]_vars => StatsInv'
<1> SUFFICES ASSUME Inv, StatsInv, [Next]_vars
             PROVE  StatsInv'
  OBVIOUS
<1> DEFINE v == verified_by_position
           a == accepted_by_position
           k == accepted + 1
<1>1. /\ v \in [1..DraftTokens -> Nat] /\ a \in [1..DraftTokens -> Nat]
      /\ DraftTokens \in Nat \ {0} /\ accepted \in Nat
      /\ \A i \in 1..DraftTokens :
           a[i] <= v[i] /\ (i < DraftTokens => v[i + 1] <= a[i])
  <2>1. TypeOK /\ StatsTelescope
    BY DEF Inv, StatsInv
  <2>2. v \in [1..DraftTokens -> Nat] /\ a \in [1..DraftTokens -> Nat]
    BY <2>1 DEF TypeOK
  <2>3. DraftTokens \in Nat \ {0} /\ accepted \in Nat
    BY HistoryIsText DEF Inv, TypeOK
  <2>4. \A i \in 1..DraftTokens :
           a[i] <= v[i] /\ (i < DraftTokens => v[i + 1] <= a[i])
    BY <2>1 DEF StatsTelescope
  <2> QED
    BY <2>2, <2>3, <2>4
<1>2. CASE AcceptDraft
  <2>1. /\ pc = "accept" /\ pc' = "accept" /\ accepted' = k
        /\ v' = [v EXCEPT ![k] = @ + 1] /\ a' = [a EXCEPT ![k] = @ + 1]
    BY <1>2 DEF AcceptDraft, CountVerified
  <2>2. k \in 1..DraftTokens
    <3>1. accepted < Len(verify) - 1 /\ Len(verify) - 1 <= DraftTokens
      BY <1>2, <2>1 DEF AcceptDraft, Undecided, Inv, AtRound
    <3>2. Len(verify) \in Nat
      BY LenProperties DEF Inv, TypeOK
    <3> QED
      BY <1>1, <3>1, <3>2
  <2>3. accepted > 0 => v[k] < a[accepted]
    BY <1>1, <2>1, <2>2 DEF StatsInv
  <2> HIDE DEF v, a, k
  <2>4. k = accepted + 1
    BY DEF k
  <2>5. StatsTelescope'
    <3>1. \A i \in 1..DraftTokens :
            a'[i] <= v'[i] /\ (i < DraftTokens => v'[i + 1] <= a'[i])
      <4> TAKE i \in 1..DraftTokens
      <4>1. a'[i] <= v'[i]
        BY <1>1, <2>1, <2>2
      <4>2. ASSUME i < DraftTokens
            PROVE  v'[i + 1] <= a'[i]
        <5>1. i + 1 \in 1..DraftTokens /\ v[i + 1] <= a[i]
          BY <1>1, <4>2
        <5>2. CASE i + 1 = k
          <6>1. i = accepted /\ accepted > 0 /\ i # k
            BY <1>1, <2>4, <5>2
          <6> QED
            BY <1>1, <2>1, <2>2, <2>3, <5>1, <5>2, <6>1
        <5>3. CASE i + 1 # k
          <6>1. v'[i + 1] = v[i + 1]
            BY <1>1, <2>1, <5>1, <5>3
          <6>2. a[i] \in Nat /\ v[i + 1] \in Nat
            BY <1>1, <5>1
          <6>3. a'[i] = IF i = k THEN a[i] + 1 ELSE a[i]
            BY <1>1, <2>1
          <6> QED
            BY ONLY <5>1, <6>1, <6>2, <6>3
        <5> QED
          BY <5>2, <5>3
      <4> QED
        BY <4>1, <4>2
    <3> QED
      BY <3>1 DEF StatsTelescope, v, a
  <2>6. k < DraftTokens => v'[k + 1] < a'[k]
    BY <1>1, <2>1, <2>2
  <2> QED
    BY <2>1, <2>5, <2>6 DEF StatsInv, v, a
<1>3. CASE RejectDraft \/ AcceptEos
  <2>1. /\ pc = "accept" /\ pc' = "settle" /\ a' = a
        /\ v' = [v EXCEPT ![k] = @ + 1]
    BY <1>3 DEF RejectDraft, AcceptEos, CountVerified
  <2>2. k \in 1..DraftTokens
    <3>1. accepted < Len(verify) - 1 /\ Len(verify) - 1 <= DraftTokens
      BY <1>3, <2>1 DEF RejectDraft, AcceptEos, Undecided, Inv, AtRound
    <3>2. Len(verify) \in Nat
      BY LenProperties DEF Inv, TypeOK
    <3> QED
      BY <1>1, <3>1, <3>2
  <2>3. accepted > 0 => v[k] < a[accepted]
    BY <1>1, <2>1, <2>2 DEF StatsInv
  <2> HIDE DEF v, a, k
  <2>4. k = accepted + 1
    BY DEF k
  <2>5. \A i \in 1..DraftTokens :
          a'[i] <= v'[i] /\ (i < DraftTokens => v'[i + 1] <= a'[i])
    <3> TAKE i \in 1..DraftTokens
    <3>1. a'[i] <= v'[i]
      BY <1>1, <2>1, <2>2
    <3>2. ASSUME i < DraftTokens
          PROVE  v'[i + 1] <= a'[i]
      <4>1. i + 1 \in 1..DraftTokens /\ v[i + 1] <= a[i]
        BY <1>1, <3>2
      <4>2. CASE i + 1 = k
        <5>1. i = accepted /\ accepted > 0
          BY <1>1, <2>4, <4>2
        <5> QED
          BY <1>1, <2>1, <2>2, <2>3, <4>1, <4>2, <5>1
      <4>3. CASE i + 1 # k
        BY <1>1, <2>1, <2>2, <4>1, <4>3
      <4> QED
        BY <4>2, <4>3
    <3> QED
      BY <3>1, <3>2
  <2> QED
    BY <2>1, <2>5 DEF StatsInv, StatsTelescope, v, a
<1>4. CASE ~(AcceptDraft \/ RejectDraft \/ AcceptEos)
  <2>1. /\ UNCHANGED <<verified_by_position, accepted_by_position>>
        /\ pc' = "accept" => accepted' = 0 \/ (pc = "accept" /\ accepted' = accepted)
    BY <1>4 DEF Next, Progress, vars, stats, SampleEos, SampleToken, PlainDecode,
       Draft, Snapshot, Verify, AcceptEnd, SettleStop, KeepBatch, Restore, Replay,
       Finish, Fail
  <2> QED
    BY <1>1, <2>1 DEF StatsInv, StatsTelescope
<1> QED
  BY <1>2, <1>3, <1>4

(* The reported counts telescope. *)
THEOREM CountsTelescope == Spec => []StatsTelescope
<1>1. Init => StatsInv
  BY ControllerAssumption DEF Init, StatsInv, StatsTelescope, Zeroes
<1>2. StatsInv => StatsTelescope
  BY DEF StatsInv
<1> QED
  BY <1>1, <1>2, StatsStep, Invariance, PTL DEF Spec

-----------------------------------------------------------------------------
(* The safety part of the refinement: every behaviour of the decode loops, *)
(* speculative or plain, is a behaviour of greedy decoding.  What the MTP  *)
(* layer drafts decides only how many target batches it takes.             *)

(* What the generation owes its caller at any point is the greedy choice   *)
(* after the text, under the mapping of Greedy.                            *)
LEMMA FollowingIsChoice ==
  Greedy!Following = Argmax(model, History, History)
BY DEF Greedy!Following, GreedyChoice, History

(* A generation that has not ended has a "running" outcome. *)
LEMMA RunningOutcome ==
  ASSUME pc \notin {"done", "error"}
  PROVE  Outcome = "running"
BY DEF Outcome

(* The text after which the model chooses is set up by Init. *)
LEMMA RefinesInit == Init => Greedy!Init
BY DEF Init, Greedy!Init, Outcome

(* The first token of a round, or a token of the plain loop, is emitted. *)
LEMMA SampleTokenEmits == Inv /\ SampleToken => Greedy!Emit
<1> SUFFICES ASSUME Inv, SampleToken
             PROVE  Greedy!Emit
  OBVIOUS
<1>1. /\ pc = "sample" /\ pc' \notin {"done", "error"} /\ UNCHANGED model
      /\ Sampled(logits[row]) \notin EosTokens
      /\ generated' = Append(generated, Sampled(logits[row]))
  BY DEF SampleToken, request
<1>2. Outcome = "running" /\ Outcome' = "running"
  BY <1>1 DEF Outcome
<1>3. /\ Generating
      /\ Sampled(logits[row]) = Argmax(model, History, History)
  BY <1>1, ChoiceIsToken DEF Inv, AtSample
<1> QED
  BY <1>1, <1>2, <1>3, FollowingIsChoice DEF Greedy!Emit, Generating

(* A draft is emitted only where it is the model's own choice. *)
LEMMA AcceptDraftEmits == Inv /\ AcceptDraft => Greedy!Emit
<1> SUFFICES ASSUME Inv, AcceptDraft
             PROVE  Greedy!Emit
  OBVIOUS
<1>1. /\ pc = "accept" /\ UNCHANGED <<pc, model>> /\ Generating
      /\ Judged \notin EosTokens
      /\ generated' = Append(generated, Judged)
  BY DEF AcceptDraft, Undecided, request
<1>2. Outcome = "running" /\ Outcome' = "running"
  BY <1>1 DEF Outcome
<1>3. Judged = Argmax(model, History, History)
  BY <1>1, JudgedIsChoice
<1> QED
  BY <1>1, <1>2, <1>3, FollowingIsChoice DEF Greedy!Emit, Generating

(* The finish reason of a result is the greedy one: "stop" exactly where   *)
(* the model's choice is an EOS token, "length" at the token limit.        *)
LEMMA FinishEnds == Inv /\ Finish => Greedy!Stop \/ Greedy!Exhaust
<1> SUFFICES ASSUME Inv, Finish
             PROVE  Greedy!Stop \/ Greedy!Exhaust
  OBVIOUS
<1>1. /\ pc = "finish" /\ pc' = "done"
      /\ UNCHANGED <<model, generated, finish>>
  BY DEF Finish, request
<1>2. Outcome = "running" /\ Outcome' = finish
  BY <1>1 DEF Outcome
<1>3. CASE finish = "stop"
  <2>1. Generating /\ Argmax(model, History, History) \in EosTokens
    BY <1>3 DEF Inv, StopIsEos
  <2> QED
    BY <1>1, <1>2, <1>3, <2>1, FollowingIsChoice DEF Greedy!Stop, Generating
<1>4. CASE finish = "length"
  <2>1. Len(generated) = MaxNewTokens
    <3>1. ~Generating
      BY <1>1, <1>4 DEF Inv, AtEnd
    <3>2. Len(generated) <= MaxNewTokens
      BY DEF Inv, TypeOK
    <3> QED
      BY <3>1, <3>2, HistoryIsText DEF Inv, Generating
  <2> QED
    BY <1>1, <1>2, <1>4, <2>1 DEF Greedy!Exhaust
<1> QED
  BY <1>3, <1>4 DEF Inv, TypeOK

(* A failure anywhere is an abort, with what was emitted left as it is. *)
LEMMA FailAborts == Fail => Greedy!Abort
<1> SUFFICES ASSUME Fail
             PROVE  Greedy!Abort
  OBVIOUS
<1>1. /\ pc \notin {"done", "error"} /\ pc' = "error"
      /\ UNCHANGED <<model, generated>>
  BY DEF Fail, request
<1>2. Outcome = "running" /\ Outcome' = "error"
  BY <1>1 DEF Outcome
<1> QED
  BY <1>1, <1>2 DEF Greedy!Abort

(* Every other step, the whole repair of a rejected round among them, is   *)
(* invisible to the caller.                                                *)
LEMMA OthersStutter ==
  ASSUME \/ SampleEos \/ PlainDecode \/ Draft \/ Snapshot \/ Verify
         \/ RejectDraft \/ AcceptEos \/ AcceptEnd
         \/ SettleStop \/ KeepBatch \/ Restore \/ Replay
  PROVE  UNCHANGED Greedy!vars
<1>1. /\ pc \notin {"done", "error"} /\ pc' \notin {"done", "error"}
      /\ UNCHANGED <<model, generated>>
  BY DEF request, SampleEos, PlainDecode, Draft, Snapshot, Verify, RejectDraft,
         AcceptEos, AcceptEnd, SettleStop, KeepBatch, Restore, Replay
<1>2. Outcome = "running" /\ Outcome' = "running"
  BY <1>1 DEF Outcome
<1> QED
  BY <1>1, <1>2 DEF Greedy!vars

(* Every step of the decode loops is a greedy step or invisible. *)
LEMMA RefinesStep == Inv /\ [Next]_vars => [Greedy!Next]_(Greedy!vars)
<1> SUFFICES ASSUME Inv, [Next]_vars
             PROVE  [Greedy!Next]_(Greedy!vars)
  OBVIOUS
<1>1. CASE UNCHANGED vars
  BY <1>1 DEF vars, Greedy!vars, Outcome
<1>2. CASE SampleToken
  BY <1>2, SampleTokenEmits DEF Greedy!Next
<1>3. CASE AcceptDraft
  BY <1>3, AcceptDraftEmits DEF Greedy!Next
<1>4. CASE Finish
  BY <1>4, FinishEnds DEF Greedy!Next
<1>5. CASE Fail
  BY <1>5, FailAborts DEF Greedy!Next
<1>6. CASE \/ SampleEos \/ PlainDecode \/ Draft \/ Snapshot \/ Verify
           \/ RejectDraft \/ AcceptEos \/ AcceptEnd
           \/ SettleStop \/ KeepBatch \/ Restore \/ Replay
  BY <1>6, OthersStutter
<1> QED
  BY <1>1, <1>2, <1>3, <1>4, <1>5, <1>6 DEF Next, Progress

(* Speculative and plain decoding emit the tokens, in the order and with   *)
(* the finish reason, of greedy decoding, whatever is drafted; that they   *)
(* also come to an end is a fairness property and left to the model        *)
(* checker (ImplementsGreedyDecode).                                       *)
THEOREM RefinesGreedyDecode ==
  Spec => Greedy!Init /\ [][Greedy!Next]_(Greedy!vars)
BY RefinesInit, RefinesStep, Invariance, PTL DEF Spec

=============================================================================
