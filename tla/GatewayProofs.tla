---------------------------- MODULE GatewayProofs ----------------------------
(***************************************************************************)
(* For any number of connection threads, kinds of request, connections and *)
(* tokens, and with exceptions, failing clients and failing generations:   *)
(* at most one inference runs, the busy flag tells whether one does, and a *)
(* client that reads to the end receives one whole response.               *)
(***************************************************************************)
EXTENDS Gateway, SequenceTheorems, TLAPS

(* The places at which a thread is inside the permit's scope, and those    *)
(* that are reached only with a permit that was acquired.                  *)
InScope == {"parse", "respond", "generate", "leave", "unwind"}
Permitted == {"parse", "respond", "generate", "unwind"}

(* The strengthening: the flag's owner is unique, it is in the permit's    *)
(* scope, and every permitted thread is the owner.                         *)
PermitInv ==
  /\ busy <=> \E t \in Threads : acquired[t]
  /\ \A t, u \in Threads : acquired[t] /\ acquired[u] => t = u
  /\ \A t \in Threads : acquired[t] => pc[t] \in InScope
  /\ \A t \in Threads : pc[t] \in Permitted => acquired[t]

IInv == TypeOK /\ PermitInv

(* What a response to request r may begin or end with is made of messages. *)
LEMMA MessagesTyped ==
  ASSUME TypeOK, NEW t \in Threads
  PROVE  /\ StreamEnd(t) \in Seq(Message)
         /\ StreamError \in Seq(Message)
         /\ <<"sse", "delta">> \o StreamEnd(t) \in Seq(Message)
         /\ \A m \in Message : <<m>> \in Seq(Message)
         /\ <<>> \in Seq(Message)
PROOF
<1>1. /\ <<"final">> \in Seq(Message) /\ <<"usage">> \in Seq(Message)
      /\ <<"done">> \in Seq(Message) /\ <<>> \in Seq(Message)
      /\ <<"sse", "delta">> \in Seq(Message)
      /\ <<"error", "done">> \in Seq(Message)
      /\ \A m \in Message : <<m>> \in Seq(Message)
  BY DEF Message
<1>2. (IF request[t].usage THEN <<"usage">> ELSE <<>>) \in Seq(Message)
  BY <1>1
<1>3. StreamEnd(t) \in Seq(Message)
  <2>1. \A a, b \in Seq(Message) : a \o b \in Seq(Message)
    OBVIOUS
  <2> QED BY <1>1, <1>2, <2>1 DEF StreamEnd
<1>4. <<"sse", "delta">> \o StreamEnd(t) \in Seq(Message)
  BY <1>1, <1>3
<1> QED BY <1>1, <1>3, <1>4 DEF StreamError

(* The gateway starts in the invariant. *)
LEMMA InitInv == Init => IInv
PROOF
<1> SUFFICES ASSUME Init PROVE IInv
  OBVIOUS
<1>1. TypeOK
  <2>1. <<>> \in Seq(Message)
    OBVIOUS
  <2>2. /\ accepted \in 0..MaxConnections
        /\ tokens \in [Threads -> 0..MaxTokens]
    BY GatewayAssumption DEF Init
  <2> QED BY <2>1, <2>2 DEF Init, TypeOK
<1>2. PermitInv
  BY DEF Init, PermitInv, InScope, Permitted
<1> QED BY <1>1, <1>2 DEF IInv

(* Every step keeps the types. *)
LEMMA NextTypeOK == TypeOK /\ [Next]_vars => TypeOK'
PROOF
<1> SUFFICES ASSUME TypeOK, [Next]_vars PROVE TypeOK'
  OBVIOUS
<1> USE GatewayAssumption
<1>1. CASE UNCHANGED vars
  BY <1>1 DEF vars, TypeOK
<1>2. CASE ServeFails
  BY <1>2 DEF ServeFails, TypeOK
<1>3. ASSUME NEW t \in Threads, Accept(t) PROVE TypeOK'
  BY <1>3 DEF Accept, TypeOK
<1>4. ASSUME NEW t \in Threads, ClientMoves(t) PROVE TypeOK'
  BY <1>4 DEF ClientMoves, TypeOK
<1>5. ASSUME NEW t \in Threads, WriteNext(t) PROVE TypeOK'
  <2>1. /\ Head(todo[t]) \in Message /\ Tail(todo[t]) \in Seq(Message)
    BY <1>5 DEF WriteNext, TypeOK
  <2>2. todo' \in [Threads -> Seq(Message)]
    BY <1>5, <2>1 DEF WriteNext, TypeOK
  <2>3. Append(sent[t], Head(todo[t])) \in Seq(Message)
    BY <2>1 DEF TypeOK
  <2>4. sent' \in [Threads -> Seq(Message)]
    BY <1>5, <2>3 DEF WriteNext, TypeOK
  <2> QED BY <1>5, <2>2, <2>4 DEF WriteNext, TypeOK
<1>6. ASSUME NEW t \in Threads, Read(t) PROVE TypeOK'
  BY <1>6 DEF Read, At, Goto, TypeOK
<1>7. ASSUME NEW t \in Threads, ReadFails(t) PROVE TypeOK'
  BY <1>7 DEF ReadFails, At, Goto, TypeOK
<1>8. ASSUME NEW t \in Threads, Route(t) PROVE TypeOK'
  <2>1. <<"200">> \in Seq(Message)
    BY MessagesTyped DEF Message
  <2>2. request[t].route # "query" => request[t].route = "inference"
    BY <1>8 DEF Route, At, TypeOK
  <2>3. CASE request[t].route = "query"
    <3>1. todo' = [todo EXCEPT ![t] = <<"200">>] /\ pc' = [pc EXCEPT ![t] = "close"]
      BY <1>8, <2>3 DEF Route, Routed, Goto, Write
    <3>2. todo' \in [Threads -> Seq(Message)]
      BY <2>1, <3>1 DEF TypeOK
    <3> QED BY <1>8, <3>1, <3>2 DEF Route, TypeOK
  <2>4. CASE request[t].route # "query"
    BY <1>8, <2>2, <2>4 DEF Route, Routed, At, Goto, TypeOK
  <2> QED BY <2>3, <2>4
<1>9. ASSUME NEW t \in Threads, Acquire(t) PROVE TypeOK'
  <2>1. <<"429">> \in Seq(Message)
    BY MessagesTyped DEF Message
  <2>2. request[t].route = "inference"
    BY <1>9 DEF Acquire, At, TypeOK
  <2>3. CASE busy
    <3>1. todo' = [todo EXCEPT ![t] = <<"429">>] /\ pc' = [pc EXCEPT ![t] = "leave"]
      BY <1>9, <2>3 DEF Acquire, Goto, Write
    <3>2. todo' \in [Threads -> Seq(Message)]
      BY <2>1, <3>1 DEF TypeOK
    <3>3. acquired' \in [Threads -> BOOLEAN] /\ busy' \in BOOLEAN
      BY <1>9 DEF Acquire, TypeOK
    <3> QED BY <1>9, <2>2, <3>1, <3>2, <3>3 DEF Acquire, TypeOK
  <2>4. CASE ~busy
    BY <1>9, <2>2, <2>4 DEF Acquire, At, Goto, TypeOK
  <2> QED BY <2>3, <2>4
<1>10. ASSUME NEW t \in Threads, Parse(t) PROVE TypeOK'
  BY <1>10 DEF Parse, At, Goto, TypeOK
<1>11. ASSUME NEW t \in Threads, Respond(t) PROVE TypeOK'
  <2>1. /\ <<"400">> \in Seq(Message) /\ <<"200">> \in Seq(Message)
        /\ <<"sse">> \in Seq(Message) /\ <<>> \in Seq(Message)
        /\ <<"sse", "delta">> \o StreamEnd(t) \in Seq(Message)
    BY MessagesTyped DEF Message
  <2>2. PICK place \in {"leave", "generate"} : pc' = [pc EXCEPT ![t] = place]
    BY <1>11 DEF Respond, Goto
  <2>3. PICK messages \in Seq(Message) : todo' = [todo EXCEPT ![t] = messages]
    BY <1>11, <2>1 DEF Respond, Write
  <2>4. todo' \in [Threads -> Seq(Message)]
    BY <2>3 DEF TypeOK
  <2>5. request[t].route = "inference"
    BY <1>11 DEF Respond, At, TypeOK
  <2> QED BY <1>11, <2>2, <2>4, <2>5 DEF Respond, TypeOK
<1>12. ASSUME NEW t \in Threads, Token(t) PROVE TypeOK'
  <2>1. Shown(t) \subseteq Seq(Message)
    BY MessagesTyped DEF Shown, Message
  <2>2. tokens' \in [Threads -> 0..MaxTokens]
    BY <1>12 DEF Token, TypeOK
  <2>3. PICK deltas \in Seq(Message) : todo' = [todo EXCEPT ![t] = deltas]
    BY <1>12, <2>1 DEF Token, Write
  <2>4. todo' \in [Threads -> Seq(Message)]
    BY <2>3 DEF TypeOK
  <2> QED BY <1>12, <2>2, <2>4 DEF Token, TypeOK
<1>13. ASSUME NEW t \in Threads, Generated(t) PROVE TypeOK'
  <2>1. PICK deltas \in Shown(t) :
          Write(t, IF request[t].stream THEN deltas \o StreamEnd(t) ELSE <<"200">>)
    BY <1>13 DEF Generated
  <2>2. deltas \in Seq(Message)
    BY MessagesTyped DEF Shown, Message
  <2>3. StreamEnd(t) \in Seq(Message) /\ <<"200">> \in Seq(Message)
    BY MessagesTyped DEF Message
  <2>4. deltas \o StreamEnd(t) \in Seq(Message)
    BY <2>2, <2>3
  <2>5. todo' \in [Threads -> Seq(Message)]
    BY <2>1, <2>3, <2>4 DEF Write, TypeOK
  <2>6. request[t].route = "inference"
    BY <1>13 DEF Generated, At, TypeOK
  <2> QED BY <1>13, <2>5, <2>6 DEF Generated, Goto, TypeOK
<1>14. ASSUME NEW t \in Threads, GenerationFails(t) PROVE TypeOK'
  <2>1. StreamError \in Seq(Message) /\ <<"500">> \in Seq(Message)
    BY MessagesTyped DEF Message
  <2> QED BY <1>14, <2>1 DEF GenerationFails, At, Goto, Write, TypeOK
<1>15. ASSUME NEW t \in Threads, GenerationThrows(t) PROVE TypeOK'
  BY <1>15 DEF GenerationThrows, At, Goto, TypeOK
<1>16. ASSUME NEW t \in Threads, Leave(t) PROVE TypeOK'
  <2>1. busy' \in BOOLEAN
    BY <1>16 DEF Leave, Released, TypeOK
  <2> QED BY <1>16, <2>1 DEF Leave, At, Goto, TypeOK
<1>17. ASSUME NEW t \in Threads, Catch(t) PROVE TypeOK'
  <2>1. <<"400">> \in Seq(Message)
    BY MessagesTyped DEF Message
  <2> QED BY <1>17, <2>1 DEF Catch, At, Goto, Write, TypeOK
<1>18. ASSUME NEW t \in Threads, Close(t) PROVE TypeOK'
  <2>1. <<>> \in Seq(Message)
    BY MessagesTyped
  <2> QED BY <1>18, <2>1 DEF Close, At, Goto, TypeOK
<1> QED BY <1>1, <1>2, <1>3, <1>4, <1>5, <1>6, <1>7, <1>8, <1>9, <1>10, <1>11,
           <1>12, <1>13, <1>14, <1>15, <1>16, <1>17, <1>18 DEF Next, Step

(* A thread that moves without touching a permit keeps the strengthening,  *)
(* if it does not enter or leave the permitted places.                     *)
LEMMA MoveKeepsPermit ==
  ASSUME IInv, NEW t \in Threads, UNCHANGED <<busy, acquired>>,
         NEW place, pc' = [pc EXCEPT ![t] = place],
         acquired[t] => place \in InScope,
         place \in Permitted => acquired[t]
  PROVE  PermitInv'
PROOF
  BY DEF IInv, TypeOK, PermitInv

(* Every step keeps the strengthening. *)
LEMMA NextPermitInv == IInv /\ [Next]_vars => PermitInv'
PROOF
<1> SUFFICES ASSUME IInv, [Next]_vars PROVE PermitInv'
  OBVIOUS
<1>1. CASE UNCHANGED vars
  BY <1>1 DEF vars, IInv, PermitInv
<1>2. CASE ServeFails
  BY <1>2 DEF ServeFails, IInv, PermitInv
<1>3. ASSUME NEW t \in Threads, Accept(t) \/ Read(t) \/ ReadFails(t)
      PROVE  PermitInv'
  <2>1. ~acquired[t]
    BY <1>3 DEF Accept, Read, ReadFails, At, IInv, PermitInv, InScope
  <2>2. UNCHANGED <<busy, acquired>>
    BY <1>3 DEF Accept, Read, ReadFails
  <2>3. PICK place \in {"read", "route", "catch"} : pc' = [pc EXCEPT ![t] = place]
    BY <1>3 DEF Accept, Read, ReadFails, Goto
  <2> QED BY <2>1, <2>2, <2>3, MoveKeepsPermit DEF Permitted
<1>4. ASSUME NEW t \in Threads, ClientMoves(t) \/ WriteNext(t) \/ Token(t)
      PROVE  PermitInv'
  BY <1>4 DEF ClientMoves, WriteNext, Token, IInv, PermitInv
<1>5. ASSUME NEW t \in Threads, Route(t) \/ Catch(t) \/ Close(t) PROVE PermitInv'
  <2>1. ~acquired[t]
    BY <1>5 DEF Route, Catch, Close, At, IInv, PermitInv, InScope
  <2>2. UNCHANGED <<busy, acquired>>
    BY <1>5 DEF Route, Catch, Close
  <2>3. PICK place \in {"close", "permit", "none"} : pc' = [pc EXCEPT ![t] = place]
    BY <1>5 DEF Route, Routed, Catch, Close, Goto
  <2> QED BY <2>1, <2>2, <2>3, MoveKeepsPermit DEF Permitted
<1>6. ASSUME NEW t \in Threads, Acquire(t) PROVE PermitInv'
  <2>1. CASE busy
    <3>1. ~acquired[t]
      BY <1>6 DEF Acquire, At, IInv, PermitInv, InScope
    <3>2. UNCHANGED <<busy, acquired>> /\ pc' = [pc EXCEPT ![t] = "leave"]
      BY <1>6, <2>1, <3>1 DEF Acquire, Goto, IInv, TypeOK
    <3> QED BY <3>1, <3>2, MoveKeepsPermit DEF Permitted
  <2>2. CASE ~busy
    <3>1. \A u \in Threads : ~acquired[u]
      BY <2>2 DEF IInv, PermitInv
    <3>2. /\ busy' = TRUE
          /\ acquired' = [acquired EXCEPT ![t] = TRUE]
          /\ pc' = [pc EXCEPT ![t] = "parse"]
      BY <1>6, <2>2 DEF Acquire, Goto
    <3> QED BY <3>1, <3>2 DEF IInv, TypeOK, PermitInv, InScope, Permitted
  <2> QED BY <2>1, <2>2
<1>7. ASSUME NEW t \in Threads,
             \/ Parse(t) \/ Respond(t) \/ Generated(t) \/ GenerationFails(t)
             \/ GenerationThrows(t)
      PROVE  PermitInv'
  <2>1. acquired[t]
    BY <1>7 DEF Parse, Respond, Generated, GenerationFails, GenerationThrows, At,
                IInv, PermitInv, Permitted
  <2>2. UNCHANGED <<busy, acquired>>
    BY <1>7 DEF Parse, Respond, Generated, GenerationFails, GenerationThrows
  <2>3. PICK place \in InScope : pc' = [pc EXCEPT ![t] = place]
    BY <1>7 DEF Parse, Respond, Generated, GenerationFails, GenerationThrows, Goto,
                InScope
  <2> QED BY <2>1, <2>2, <2>3, MoveKeepsPermit
<1>8. ASSUME NEW t \in Threads, Leave(t) PROVE PermitInv'
  <2>1. /\ acquired' = [acquired EXCEPT ![t] = FALSE]
        /\ busy' = IF acquired[t] THEN FALSE ELSE busy
    BY <1>8 DEF Leave, Released
  <2>2. PICK place \in {"close", "catch"} : pc' = [pc EXCEPT ![t] = place]
    BY <1>8 DEF Leave, Goto
  <2>3. \A u \in Threads \ {t} : acquired'[u] = acquired[u] /\ pc'[u] = pc[u]
    BY <2>1, <2>2 DEF IInv, TypeOK
  <2>4. ~acquired'[t] /\ pc'[t] = place
    BY <2>1, <2>2 DEF IInv, TypeOK
  <2>5. busy' <=> \E u \in Threads : acquired'[u]
    BY <2>1, <2>3, <2>4 DEF IInv, PermitInv
  <2> QED BY <2>2, <2>3, <2>4, <2>5 DEF IInv, PermitInv, InScope, Permitted
<1> QED BY <1>1, <1>2, <1>3, <1>4, <1>5, <1>6, <1>7, <1>8 DEF Next, Step

(* The invariant holds in every behaviour. *)
LEMMA Invariance == Spec => []IInv
PROOF
<1>1. IInv /\ [Next]_vars => IInv'
  BY NextTypeOK, NextPermitInv DEF IInv
<1> QED BY InitInv, <1>1, PTL DEF Spec

(* The threads, their permits and their messages keep their types, and no  *)
(* query ever waits for or holds a permit.                                 *)
THEOREM TypeCorrect == Spec => []TypeOK
PROOF
<1>1. IInv => TypeOK
  BY DEF IInv
<1> QED BY Invariance, <1>1, PTL

(* At most one inference at a time, and the flag is set exactly while a    *)
(* permit is held: refusals, exceptions and clients that leave included.   *)
THEOREM InferencesExclude == Spec => []OneInference
PROOF
<1>1. IInv => OneInference
  <2> SUFFICES ASSUME IInv PROVE OneInference
    OBVIOUS
  <2>1. \A t \in Served : t \in Threads /\ acquired[t]
    BY DEF Served, IInv, PermitInv, Permitted
  <2> QED BY <2>1 DEF OneInference, IInv, PermitInv
<1> QED BY Invariance, <1>1, PTL

-----------------------------------------------------------------------------
(* What a client is told.  The messages it received and those still to be  *)
(* written, in this order, are s; n tokens were generated for request r.   *)
EndOf(r) == <<"final">> \o (IF r.usage THEN <<"usage">> ELSE <<>>) \o <<"done">>

Begun(r, n, s) ==
  IF r.stream THEN \E k \in 0..n : s = <<"sse">> \o Deltas(k) ELSE s = <<>>

Whole(r, n, s) ==
  IF r.route = "none" THEN s = <<"400">>
  ELSE IF r.route = "query" THEN s = <<"200">>
  ELSE \/ s = <<"429">>
       \/ s = <<"400">> /\ r.fault # "none"
       \/ s \in {<<"200">>, <<"500">>} /\ r.fault = "none" /\ ~r.stream
       \/ /\ r.fault = "none" /\ r.stream
          /\ \E k \in 0..(n + 1) :
               s \in {<<"sse">> \o Deltas(k) \o end :
                        end \in {EndOf(r), <<"error", "done">>}}

(* What a thread knows of its request, and what its client was told so     *)
(* far: nothing before the response, the begin of a stream in a            *)
(* generation, and a whole response afterwards.                            *)
Before == {"none", "read", "route", "permit", "parse", "respond"}

Told(t) ==
  LET r == request[t]
      told == sent[t] \o todo[t]
  IN  /\ pc[t] \in Before => todo[t] = <<>> /\ sent[t] = <<>> /\ tokens[t] = 0
      /\ pc[t] \in {"none", "read"} => r = NoRequest
      /\ pc[t] = "respond" => r.fault # "parse"
      /\ pc[t] = "generate" =>
           r.fault = "none" /\ (link[t] # "gone" => Begun(r, tokens[t], told))
      /\ pc[t] \in {"unwind", "catch"} =>
           /\ todo[t] = <<>>
           /\ \/ thrown[t]
              \/ /\ sent[t] = <<>>
                 /\ r = NoRequest \/ (r.route = "inference" /\ r.fault = "parse")
      /\ pc[t] \in {"leave", "close"} =>
           thrown[t] \/ link[t] = "gone" \/ Whole(r, tokens[t], told)

(* Sequences of deltas, and a stream that goes on. *)
LEMMA DeltasGrow ==
  ASSUME NEW k \in Nat
  PROVE  /\ Deltas(k) \in Seq(Message)
         /\ <<"sse">> \o Deltas(k) \in Seq(Message)
         /\ (<<"sse">> \o Deltas(k)) \o <<"delta">> = <<"sse">> \o Deltas(k + 1)
PROOF
<1>1. <<"sse">> \in Seq(Message) /\ <<"delta">> \in Seq(Message)
  BY DEF Message
<1>2. /\ Deltas(k) \in Seq(Message) /\ Len(Deltas(k)) = k
      /\ Deltas(k + 1) \in Seq(Message) /\ Len(Deltas(k + 1)) = k + 1
  BY DEF Deltas, Message
<1>3. Deltas(k) \o <<"delta">> = Deltas(k + 1)
  <2>1. /\ Deltas(k) \o <<"delta">> \in Seq(Message)
        /\ Len(Deltas(k) \o <<"delta">>) = k + 1
    BY <1>1, <1>2
  <2>2. \A i \in 1..(k + 1) : (Deltas(k) \o <<"delta">>)[i] = Deltas(k + 1)[i]
    BY <1>1, <1>2 DEF Deltas
  <2> QED BY <1>2, <2>1, <2>2, SeqEqual
<1>4. (<<"sse">> \o Deltas(k)) \o <<"delta">> = <<"sse">> \o (Deltas(k) \o <<"delta">>)
  BY <1>1, <1>2, ConcatAssociative
<1>5. <<"sse">> \o Deltas(k) \in Seq(Message)
  BY <1>1, <1>2, ConcatProperties
<1> QED BY <1>2, <1>3, <1>4, <1>5

(* Writing the next message moves it from those to be written to those the *)
(* client received.                                                        *)
LEMMA WriteMoves ==
  ASSUME NEW s \in Seq(Message), NEW m \in Seq(Message), m # <<>>
  PROVE  Append(s, Head(m)) \o Tail(m) = s \o m
PROOF
<1>1. Head(m) \in Message /\ Tail(m) \in Seq(Message) /\ m = <<Head(m)>> \o Tail(m)
  <2>1. /\ Head(m) \in Message /\ Tail(m) \in Seq(Message)
        /\ Len(Tail(m)) = Len(m) - 1 /\ Len(m) \in Nat \ {0}
        /\ \A i \in 1..Len(Tail(m)) : Tail(m)[i] = m[i + 1]
    BY HeadTailProperties, EmptySeq
  <2>2. <<Head(m)>> \in Seq(Message) /\ Len(<<Head(m)>>) = 1 /\ <<Head(m)>>[1] = m[1]
    BY <2>1
  <2>3. /\ <<Head(m)>> \o Tail(m) \in Seq(Message)
        /\ Len(<<Head(m)>> \o Tail(m)) = Len(m)
        /\ \A i \in 1..Len(m) : (<<Head(m)>> \o Tail(m))[i] = m[i]
    BY <2>1, <2>2, ConcatProperties
  <2> QED BY <2>1, <2>3, SeqEqual
<1>2. Append(s, Head(m)) = s \o <<Head(m)>>
  BY <1>1
<1>3. (s \o <<Head(m)>>) \o Tail(m) = s \o (<<Head(m)>> \o Tail(m))
  <2>1. <<Head(m)>> \in Seq(Message)
    BY <1>1
  <2> QED BY <1>1, <2>1, ConcatAssociative
<1> QED BY <1>1, <1>2, <1>3

(* A thread and its client know of no other thread's steps. *)
LEMMA OthersUntold ==
  ASSUME TypeOK, NEW t \in Threads, Accept(t) \/ ClientMoves(t) \/ Step(t),
         NEW u \in Threads, u # t, Told(u)
  PROVE  Told(u)'
PROOF
<1>1. /\ pc'[u] = pc[u] /\ request'[u] = request[u] /\ tokens'[u] = tokens[u]
      /\ todo'[u] = todo[u] /\ sent'[u] = sent[u] /\ link'[u] = link[u]
      /\ thrown'[u] = thrown[u]
  <2>1. pc'[u] = pc[u] /\ request'[u] = request[u] /\ tokens'[u] = tokens[u]
    BY DEF TypeOK, Accept, ClientMoves, Step, WriteNext, Read, ReadFails, Route, Routed,
           Acquire, Parse, Respond, Token, Generated, GenerationFails,
           GenerationThrows, Leave, Catch, Close, Goto
  <2>2. todo'[u] = todo[u] /\ sent'[u] = sent[u]
    BY DEF TypeOK, Accept, ClientMoves, Step, WriteNext, Read, ReadFails, Route, Routed,
           Acquire, Parse, Respond, Token, Generated, GenerationFails,
           GenerationThrows, Leave, Catch, Close, Write
  <2>3. link'[u] = link[u] /\ thrown'[u] = thrown[u]
    BY DEF TypeOK, Accept, ClientMoves, Step, WriteNext, Read, ReadFails, Route, Routed,
           Acquire, Parse, Respond, Token, Generated, GenerationFails,
           GenerationThrows, Leave, Catch, Close
  <2> QED BY <2>1, <2>2, <2>3
<1> QED BY <1>1 DEF Told

(* A thread that leaves the generation, or never entered it, has written a *)
(* whole response.                                                         *)
LEMMA AnswerIsWhole ==
  ASSUME TypeOK, NEW t \in Threads, Told(t), NEW messages \in Seq(Message),
         pc' \in {[pc EXCEPT ![t] = place] : place \in {"leave", "close"}},
         todo' = [todo EXCEPT ![t] = messages],
         UNCHANGED <<request, tokens, sent, link, thrown>>,
         \/ thrown[t] \/ link[t] = "gone"
         \/ Whole(request[t], tokens[t], sent[t] \o messages)
  PROVE  Told(t)'
PROOF
<1>1. pc'[t] \in {"leave", "close"} /\ todo'[t] = messages
  BY DEF TypeOK
<1>2. \/ thrown'[t] \/ link'[t] = "gone"
      \/ Whole(request'[t], tokens'[t], sent'[t] \o todo'[t])
  BY <1>1, Zenon
<1> QED BY <1>1, <1>2 DEF Told, Before

(* Writing, reading, routing and parsing, and what a client does.          *)
LEMMA AcceptTold ==
  ASSUME TypeOK, NEW t \in Threads, Told(t), Accept(t) \/ ClientMoves(t)
  PROVE  Told(t)'
PROOF
<1>1. CASE Accept(t)
  <2>1. /\ pc[t] = "none" /\ pc'[t] = "read"
        /\ UNCHANGED <<request, tokens, todo, sent, thrown>>
    BY <1>1 DEF Accept, TypeOK
  <2> QED BY <2>1 DEF Told, Before
<1>2. CASE ClientMoves(t)
  <2>1. link[t] # "gone" /\ UNCHANGED <<pc, request, tokens, todo, sent, thrown>>
    BY <1>2 DEF ClientMoves
  <2> QED BY <2>1 DEF Told
<1> QED BY <1>1, <1>2

LEMMA WriteTold ==
  ASSUME TypeOK, NEW t \in Threads, Told(t), WriteNext(t)
  PROVE  Told(t)'
PROOF
<1>1. /\ todo[t] # <<>> /\ todo[t] \in Seq(Message) /\ sent[t] \in Seq(Message)
      /\ UNCHANGED <<pc, request, tokens, link, thrown>>
      /\ todo'[t] = Tail(todo[t])
      /\ sent'[t] = IF link[t] = "open" THEN Append(sent[t], Head(todo[t])) ELSE sent[t]
      /\ link[t] \in {"open", "gone"}
  BY DEF WriteNext, TypeOK
<1>2. link[t] # "gone" => sent'[t] \o todo'[t] = sent[t] \o todo[t]
  BY <1>1, WriteMoves
<1>3. pc[t] \in {"generate", "leave", "close"} \/ pc[t] \notin Before \cup {"unwind", "catch"}
  BY <1>1 DEF Told
<1> HIDE DEF Told
<1>4. CASE link[t] = "gone"
  BY <1>1, <1>3, <1>4 DEF Told, Before
<1>5. CASE link[t] # "gone"
  BY <1>1, <1>2, <1>3, <1>5 DEF Told, Before
<1> QED BY <1>4, <1>5

LEMMA ReadTold ==
  ASSUME TypeOK, NEW t \in Threads, Told(t),
         Read(t) \/ ReadFails(t) \/ Parse(t) \/ GenerationThrows(t) \/ Close(t)
  PROVE  Told(t)'
PROOF
<1>1. CASE Read(t)
  <2>1. /\ pc[t] = "read" /\ pc'[t] = "route"
        /\ UNCHANGED <<tokens, todo, sent, link, thrown>>
    BY <1>1 DEF Read, At, Goto, TypeOK
  <2> QED BY <2>1 DEF Told, Before
<1>2. CASE ReadFails(t)
  <2>1. /\ pc[t] = "read" /\ pc'[t] = "catch"
        /\ UNCHANGED <<request, tokens, todo, sent, link, thrown>>
    BY <1>2 DEF ReadFails, At, Goto, TypeOK
  <2> QED BY <2>1 DEF Told, Before
<1>3. CASE Parse(t)
  <2>1. /\ pc[t] = "parse"
        /\ pc'[t] = IF request[t].fault = "parse" THEN "unwind" ELSE "respond"
        /\ UNCHANGED <<request, tokens, todo, sent, link, thrown>>
        /\ request[t].route = "inference"
    BY <1>3 DEF Parse, At, Goto, TypeOK
  <2> QED BY <2>1 DEF Told, Before
<1>4. CASE GenerationThrows(t)
  <2>1. /\ pc'[t] = "unwind" /\ thrown'[t] = TRUE /\ todo[t] = <<>> /\ UNCHANGED todo
    BY <1>4 DEF GenerationThrows, At, Goto, TypeOK
  <2> QED BY <2>1 DEF Told, Before
<1>5. CASE Close(t)
  <2>1. /\ todo[t] = <<>> /\ UNCHANGED todo /\ pc'[t] = "none"
        /\ sent'[t] = <<>> /\ tokens'[t] = 0 /\ request'[t] = NoRequest
    BY <1>5 DEF Close, At, Goto, TypeOK
  <2> QED BY <2>1 DEF Told, Before
<1> QED BY <1>1, <1>2, <1>3, <1>4, <1>5

(* Answers that need no generation, and the way out of the permit's scope. *)
LEMMA AnswerTold ==
  ASSUME TypeOK, NEW t \in Threads, Told(t),
         Route(t) \/ Acquire(t) \/ Leave(t) \/ Catch(t)
  PROVE  Told(t)'
PROOF
<1>0. /\ \A m \in Message : <<m>> \in Seq(Message) /\ <<>> \o <<m>> = <<m>>
      /\ \A s \in Seq(Message) : s \o <<>> = s
      /\ sent[t] \in Seq(Message) /\ todo[t] \in Seq(Message)
  BY MessagesTyped, ConcatEmptySeq DEF TypeOK
<1>1. CASE Route(t)
  <2>1. /\ pc[t] = "route" /\ sent[t] = <<>> /\ todo[t] = <<>> /\ tokens[t] = 0
        /\ UNCHANGED <<request, tokens, sent, link, thrown>>
    BY <1>1 DEF Route, At, Told, Before
  <2>2. CASE request[t].route = "query"
    <3>1. Whole(request[t], tokens[t], sent[t] \o <<"200">>)
      BY <1>0, <2>1, <2>2 DEF Whole, Message
    <3>2. /\ pc' = [pc EXCEPT ![t] = "close"] /\ <<"200">> \in Seq(Message)
          /\ todo' = [todo EXCEPT ![t] = <<"200">>]
      BY <1>0, <1>1, <2>2 DEF Route, Routed, Goto, Write, Message
    <3> QED BY <2>1, <3>1, <3>2, AnswerIsWhole
  <2>3. CASE request[t].route # "query"
    <3>1. pc'[t] = "permit" /\ UNCHANGED todo
      BY <1>1, <2>3 DEF Route, Routed, Goto, TypeOK
    <3> QED BY <2>1, <3>1 DEF Told, Before
  <2> QED BY <2>2, <2>3
<1>2. CASE Acquire(t)
  <2>1. /\ pc[t] = "permit" /\ sent[t] = <<>> /\ todo[t] = <<>> /\ tokens[t] = 0
        /\ UNCHANGED <<request, tokens, sent, link, thrown>>
        /\ request[t].route = "inference"
    BY <1>2 DEF Acquire, At, Told, Before, TypeOK
  <2>2. CASE busy
    <3>1. Whole(request[t], tokens[t], sent[t] \o <<"429">>)
      BY <1>0, <2>1, <2>2 DEF Whole, Message
    <3>2. /\ pc' = [pc EXCEPT ![t] = "leave"] /\ <<"429">> \in Seq(Message)
          /\ todo' = [todo EXCEPT ![t] = <<"429">>]
      BY <1>0, <1>2, <2>2 DEF Acquire, Goto, Write, Message
    <3> QED BY <2>1, <3>1, <3>2, AnswerIsWhole
  <2>3. CASE ~busy
    <3>1. pc'[t] = "parse" /\ UNCHANGED todo
      BY <1>2, <2>3 DEF Acquire, Goto, TypeOK
    <3> QED BY <2>1, <3>1 DEF Told, Before
  <2> QED BY <2>2, <2>3
<1>3. CASE Leave(t)
  <2>1. /\ pc[t] \in {"leave", "unwind"} /\ todo[t] = <<>>
        /\ UNCHANGED <<request, tokens, todo, sent, link, thrown>>
        /\ pc'[t] = IF pc[t] = "leave" THEN "close" ELSE "catch"
    BY <1>3 DEF Leave, At, Goto, TypeOK
  <2>2. CASE pc[t] = "leave"
    BY <2>1, <2>2 DEF Told, Before
  <2>3. CASE pc[t] = "unwind"
    BY <2>1, <2>3 DEF Told, Before
  <2> QED BY <2>1, <2>2, <2>3
<1>4. CASE Catch(t)
  <2>1. /\ pc[t] = "catch" /\ UNCHANGED <<request, tokens, sent, link, thrown>>
        /\ pc' = [pc EXCEPT ![t] = "close"]
        /\ todo' = [todo EXCEPT ![t] = <<"400">>] /\ <<"400">> \in Seq(Message)
    BY <1>0, <1>4 DEF Catch, At, Goto, Write, Message
  <2>2. \/ thrown[t]
        \/ sent[t] = <<>> /\ (request[t] = NoRequest
                             \/ (request[t].route = "inference" /\ request[t].fault = "parse"))
    BY <2>1 DEF Told
  <2>3. \/ thrown[t]
        \/ Whole(request[t], tokens[t], sent[t] \o <<"400">>)
    <3>1. request[t] = NoRequest => request[t].route = "none"
      BY DEF NoRequest
    <3> QED BY <1>0, <2>2, <3>1 DEF Whole, Message
  <2> QED BY <2>1, <2>3, AnswerIsWhole
<1> QED BY <1>1, <1>2, <1>3, <1>4

(* The begin of a response, and one that a forced tool or a bad image ends *)
LEMMA RespondTold ==
  ASSUME TypeOK, NEW t \in Threads, Told(t), Respond(t)
  PROVE  Told(t)'
PROOF
<1>0. /\ <<"400">> \in Seq(Message) /\ <<"200">> \in Seq(Message)
      /\ <<"sse">> \in Seq(Message) /\ <<>> \in Seq(Message)
      /\ <<"sse", "delta">> \o StreamEnd(t) \in Seq(Message)
      /\ \A s \in Seq(Message) : <<>> \o s = s
  BY MessagesTyped, ConcatEmptySeq DEF Message
<1>1. /\ pc[t] = "respond" /\ todo[t] = <<>> /\ sent[t] = <<>> /\ tokens[t] = 0
      /\ request[t].route = "inference" /\ request[t].fault # "parse"
      /\ UNCHANGED <<request, tokens, sent, link, thrown>>
  BY DEF Respond, At, Told, Before, TypeOK
<1>2. request[t].fault \in {"none", "parse", "image"}
  <2>1. request[t] # NoRequest
    BY <1>1 DEF NoRequest
  <2> QED BY <2>1, GatewayAssumption DEF TypeOK
<1>3. CASE request[t].fault = "image"
  <2>1. Whole(request[t], tokens[t], sent[t] \o <<"400">>)
    BY <1>0, <1>1, <1>3 DEF Whole
  <2>2. /\ pc' = [pc EXCEPT ![t] = "leave"]
        /\ todo' = [todo EXCEPT ![t] = <<"400">>]
    BY <1>3 DEF Respond, Goto, Write
  <2> QED BY <1>0, <1>1, <2>1, <2>2, AnswerIsWhole
<1>4. CASE request[t].fault # "image" /\ request[t].tool
  <2> DEFINE messages == IF request[t].stream
                         THEN <<"sse", "delta">> \o StreamEnd(t) ELSE <<"200">>
  <2>1. /\ pc' = [pc EXCEPT ![t] = "leave"]
        /\ todo' = [todo EXCEPT ![t] = messages]
    BY <1>4 DEF Respond, Goto, Write
  <2>2. messages \in Seq(Message) /\ sent[t] \o messages = messages
    BY <1>0, <1>1
  <2>3. Whole(request[t], tokens[t], messages)
    <3>1. CASE request[t].stream
      <4>1. Deltas(1) = <<"delta">> /\ 1 \in 0..(tokens[t] + 1)
        BY <1>1 DEF Deltas
      <4>2. <<"sse">> \o Deltas(1) = <<"sse", "delta">>
        <5>1. /\ <<"sse">> \in Seq(Message) /\ <<"delta">> \in Seq(Message)
              /\ <<"sse", "delta">> \in Seq(Message)
          BY DEF Message
        <5> DEFINE two == <<"sse">> \o <<"delta">>
        <5>2. /\ two \in Seq(Message) /\ Len(two) = 2
              /\ two[1] = "sse" /\ two[2] = "delta"
          BY <5>1
        <5>3. two = <<"sse", "delta">>
          <6> HIDE DEF two
          <6> QED BY <5>1, <5>2, SeqEqual
        <5> QED BY <4>1, <5>3
      <4>3. messages = <<"sse">> \o Deltas(1) \o EndOf(request[t])
        BY <3>1, <4>2 DEF StreamEnd, EndOf
      <4> HIDE DEF messages
      <4> QED BY <1>1, <1>2, <1>4, <3>1, <4>1, <4>3 DEF Whole
    <3>2. CASE ~request[t].stream
      BY <1>1, <1>2, <1>4, <3>2 DEF Whole
    <3> QED BY <3>1, <3>2
  <2> HIDE DEF messages
  <2> QED BY <1>1, <2>1, <2>2, <2>3, AnswerIsWhole
<1>5. CASE request[t].fault # "image" /\ ~request[t].tool
  <2>1. /\ pc'[t] = "generate"
        /\ todo'[t] = IF request[t].stream THEN <<"sse">> ELSE <<>>
    BY <1>5 DEF Respond, Goto, Write, TypeOK
  <2>2. Begun(request[t], tokens[t], sent[t] \o todo'[t])
    <3>1. CASE request[t].stream
      <4>1. Deltas(0) = <<>> /\ 0 \in 0..tokens[t]
        BY <1>1 DEF Deltas
      <4>2. <<"sse">> \o Deltas(0) = <<"sse">>
        BY <1>0, <4>1, ConcatEmptySeq
      <4>3. sent[t] \o todo'[t] = <<"sse">> \o Deltas(0)
        BY <1>0, <1>1, <2>1, <3>1, <4>2
      <4> QED BY <3>1, <4>1, <4>3 DEF Begun
    <3>2. CASE ~request[t].stream
      BY <1>0, <1>1, <2>1, <3>2 DEF Begun
    <3> QED BY <3>1, <3>2
  <2>3. request'[t] = request[t] /\ tokens'[t] = tokens[t] /\ sent'[t] = sent[t]
    BY <1>1
  <2>4. Begun(request'[t], tokens'[t], sent'[t] \o todo'[t])
    BY <2>2, <2>3
  <2> QED BY <1>1, <1>2, <1>5, <2>1, <2>3, <2>4 DEF Told, Before
<1> QED BY <1>3, <1>4, <1>5

(* A generation goes on, ends, or fails. *)
LEMMA GenerationTold ==
  ASSUME TypeOK, NEW t \in Threads, Told(t),
         Token(t) \/ Generated(t) \/ GenerationFails(t)
  PROVE  Told(t)'
PROOF
<1> DEFINE r == request[t]
           n == tokens[t]
           s == sent[t]
<1>1. /\ pc[t] = "generate" /\ todo[t] = <<>> /\ s \in Seq(Message) /\ n \in Nat
      /\ r.route = "inference" /\ r.fault = "none"
      /\ UNCHANGED <<request, sent, link, thrown>>
      /\ s \o todo[t] = s
  BY ConcatEmptySeq DEF Token, Generated, GenerationFails, At, Told, TypeOK
<1>2. link[t] = "gone" \/ Begun(r, n, s)
  BY <1>1 DEF Told
<1>3. /\ <<"200">> \in Seq(Message) /\ <<"500">> \in Seq(Message) /\ <<>> \in Seq(Message)
      /\ <<"delta">> \in Seq(Message) /\ StreamEnd(t) \in Seq(Message)
      /\ StreamError \in Seq(Message) /\ <<>> \o StreamEnd(t) = StreamEnd(t)
      /\ s \o <<>> = s /\ StreamEnd(t) = EndOf(r) /\ StreamError = <<"error", "done">>
  BY <1>1, MessagesTyped, ConcatEmptySeq DEF Message, EndOf, StreamEnd, StreamError
(* A stream that began goes on with what is shown of a token. *)
<1>4. ASSUME NEW deltas \in Shown(t), Begun(r, n, s)
      PROVE  /\ deltas \in Seq(Message)
             /\ Begun(r, n + 1, s \o deltas)
  <2>1. CASE r.stream
    <3>1. PICK k \in 0..n : s = <<"sse">> \o Deltas(k)
      BY <1>4, <2>1 DEF Begun
    <3>2. CASE deltas = <<>>
      <4>1. k \in 0..(n + 1) /\ s \o deltas = <<"sse">> \o Deltas(k)
        BY <1>1, <1>3, <3>1, <3>2
      <4> HIDE DEF s
      <4> QED BY <1>3, <2>1, <3>2, <4>1 DEF Begun
    <3>3. CASE deltas = <<"delta">>
      <4>1. k \in Nat /\ k + 1 \in 0..(n + 1)
        BY <1>1
      <4>2. s \o deltas = <<"sse">> \o Deltas(k + 1)
        BY <3>1, <3>3, <4>1, DeltasGrow
      <4> HIDE DEF s
      <4> QED BY <1>3, <2>1, <3>3, <4>1, <4>2 DEF Begun
    <3> QED BY <2>1, <3>2, <3>3 DEF Shown
  <2>2. CASE ~r.stream
    BY <1>1, <1>3, <1>4, <2>2 DEF Begun, Shown
  <2> QED BY <2>1, <2>2
<1>5. CASE Token(t)
  <2>1. PICK deltas \in Shown(t) : todo' = [todo EXCEPT ![t] = deltas]
    BY <1>5 DEF Token, Write
  <2>2. pc'[t] = "generate" /\ tokens'[t] = n + 1 /\ todo'[t] = deltas
    BY <1>1, <1>5, <2>1 DEF Token, TypeOK
  <2>3. request'[t] = r /\ sent'[t] = s /\ link'[t] = link[t]
    BY <1>1
  <2>4. link[t] = "gone" \/ Begun(request'[t], tokens'[t], sent'[t] \o todo'[t])
    <3> HIDE DEF r, n, s
    <3> QED BY <1>2, <1>4, <2>2, <2>3
  <2> QED BY <1>1, <2>2, <2>3, <2>4 DEF Told, Before
<1>6. CASE Generated(t)
  <2>1. PICK deltas \in Shown(t) :
          todo' = [todo EXCEPT ![t] = IF r.stream THEN deltas \o StreamEnd(t)
                                      ELSE <<"200">>]
    BY <1>6 DEF Generated, Write
  <2>2. /\ pc' = [pc EXCEPT ![t] = "leave"]
        /\ UNCHANGED <<request, tokens, sent, link, thrown>>
    BY <1>6 DEF Generated, Goto
  <2>3. deltas \in Seq(Message)
    BY <1>3 DEF Shown
  <2>4. CASE r.stream
    <3>1. todo' = [todo EXCEPT ![t] = deltas \o StreamEnd(t)]
      BY <2>1, <2>4
    <3>2. deltas \o StreamEnd(t) \in Seq(Message)
      BY <1>3, <2>3
    <3>3. ASSUME Begun(r, n, s) PROVE Whole(r, n, s \o (deltas \o StreamEnd(t)))
      <4>1. PICK k \in 0..(n + 1) : s \o deltas = <<"sse">> \o Deltas(k)
        BY <1>4, <2>4, <3>3 DEF Begun
      <4>2. s \o (deltas \o StreamEnd(t)) = (s \o deltas) \o StreamEnd(t)
        <5>1. /\ s \in Seq(Message) /\ deltas \in Seq(Message)
              /\ StreamEnd(t) \in Seq(Message)
          BY <1>1, <1>3, <2>3
        <5> HIDE DEF s
        <5> QED BY <5>1, ConcatAssociative
      <4>3. s \o (deltas \o StreamEnd(t)) = <<"sse">> \o Deltas(k) \o EndOf(r)
        BY <1>3, <4>1, <4>2
      <4> HIDE DEF s, n
      <4> QED BY <1>1, <2>4, <4>1, <4>3 DEF Whole
    <3> QED BY <1>2, <2>2, <3>1, <3>2, <3>3, AnswerIsWhole
  <2>5. CASE ~r.stream
    <3>1. todo' = [todo EXCEPT ![t] = <<"200">>]
      BY <2>1, <2>5
    <3>2. ASSUME Begun(r, n, s) PROVE Whole(r, n, s \o <<"200">>)
      <4>1. s = <<>> /\ s \o <<"200">> = <<"200">>
        BY <1>1, <1>3, <2>5, <3>2, ConcatEmptySeq DEF Begun
      <4> QED BY <1>1, <2>5, <4>1 DEF Whole
    <3> QED BY <1>2, <1>3, <2>2, <3>1, <3>2, AnswerIsWhole
  <2> QED BY <2>4, <2>5
<1>7. CASE GenerationFails(t)
  <2>1. /\ pc' = [pc EXCEPT ![t] = "leave"]
        /\ UNCHANGED <<request, tokens, sent, link, thrown>>
        /\ todo' = [todo EXCEPT ![t] = IF r.stream THEN StreamError ELSE <<"500">>]
    BY <1>7 DEF GenerationFails, Goto, Write
  <2>2. CASE r.stream
    <3>1. todo' = [todo EXCEPT ![t] = StreamError]
      BY <2>1, <2>2
    <3>2. ASSUME Begun(r, n, s) PROVE Whole(r, n, s \o StreamError)
      <4>1. PICK k \in 0..n : s = <<"sse">> \o Deltas(k)
        BY <2>2, <3>2 DEF Begun
      <4>2. /\ k \in 0..(n + 1)
            /\ s \o StreamError = <<"sse">> \o Deltas(k) \o <<"error", "done">>
        BY <1>1, <1>3, <4>1
      <4> HIDE DEF s, n
      <4> QED BY <1>1, <2>2, <4>2 DEF Whole
    <3> QED BY <1>2, <1>3, <2>1, <3>1, <3>2, AnswerIsWhole
  <2>3. CASE ~r.stream
    <3>1. todo' = [todo EXCEPT ![t] = <<"500">>]
      BY <2>1, <2>3
    <3>2. ASSUME Begun(r, n, s) PROVE Whole(r, n, s \o <<"500">>)
      <4>1. s = <<>> /\ s \o <<"500">> = <<"500">>
        BY <1>1, <1>3, <2>3, <3>2, ConcatEmptySeq DEF Begun
      <4> QED BY <1>1, <2>3, <4>1 DEF Whole
    <3> QED BY <1>2, <1>3, <2>1, <3>1, <3>2, AnswerIsWhole
  <2> QED BY <2>2, <2>3
<1> QED BY <1>5, <1>6, <1>7

(* What a client that reads to the end has received when its connection is *)
(* about to be closed is one whole response, that its request can have,    *)
(* unless an exception ended the generation.                               *)
THEOREM ResponsesAreComplete == Spec => []ResponseIsComplete
PROOF
<1> DEFINE J == \A t \in Threads : Told(t)
<1>1. Init => J
  BY DEF Init, Told, Before
<1>2. TypeOK /\ J /\ [Next]_vars => J'
  <2> SUFFICES ASSUME TypeOK, J, [Next]_vars PROVE J'
    OBVIOUS
  <2>1. ASSUME NEW t \in Threads, Accept(t) \/ ClientMoves(t) \/ Step(t) PROVE Told(t)'
    BY <2>1, AcceptTold, WriteTold, ReadTold, AnswerTold, RespondTold, GenerationTold
    DEF Step
  <2>2. ASSUME NEW t \in Threads, Accept(t) \/ ClientMoves(t) \/ Step(t) PROVE J'
    <3>1. ASSUME NEW u \in Threads PROVE Told(u)'
      <4>1. CASE u = t
        BY <2>1, <2>2, <4>1
      <4>2. CASE u # t
        BY <2>2, <4>2, OthersUntold
      <4> QED BY <4>1, <4>2
    <3> QED BY <3>1
  <2>3. CASE ServeFails \/ UNCHANGED vars
    <3>1. UNCHANGED <<pc, request, tokens, todo, sent, link, thrown>>
      BY <2>3 DEF ServeFails, vars
    <3>2. ASSUME NEW u \in Threads PROVE Told(u)'
      <4>1. Told(u)
        OBVIOUS
      <4> QED BY <3>1, <4>1 DEF Told
    <3> QED BY <3>2
  <2> QED BY <2>2, <2>3 DEF Next
<1>3. TypeOK /\ J => ResponseIsComplete
  <2> SUFFICES ASSUME TypeOK, J, NEW t \in Threads, Closing(t), ~thrown[t]
               PROVE  Complete(t)
    BY DEF ResponseIsComplete
  <2>1. sent[t] \o todo[t] = sent[t]
    BY ConcatEmptySeq DEF Closing, At, TypeOK
  <2>2. Whole(request[t], tokens[t], sent[t])
    BY <2>1 DEF Closing, At, Told
  <2> QED BY <2>2 DEF Whole, Complete, EndOf, StreamEnd
<1> QED BY TypeCorrect, <1>1, <1>2, <1>3, PTL DEF Spec

=============================================================================
