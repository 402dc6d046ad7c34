------------------------------- MODULE Gateway -------------------------------
(***************************************************************************)
(* The HTTP gateway: an accept loop that starts a detached thread for      *)
(* every connection, and handle_client, which answers one request.  Only   *)
(* one thread may run an inference: the GatewayInferencePermit, a process- *)
(* wide flag taken by compare-and-swap and given back by the destructor.   *)
(*                                                                         *)
(* A message is what a client tells apart: a complete JSON response by its *)
(* status, or an event of a stream.  A write blocks while the client does  *)
(* not read; a write to a client that is gone is lost, and ignored: serve  *)
(* has SIGPIPE ignored.                                                    *)
(*                                                                         *)
(* RoutedThroughPermit, AcquireWaiting, ReleasedByAll, NeverReleased and   *)
(* StreamErrorAlone are mistakes the code could contain; nothing uses      *)
(* them.                                                                   *)
(***************************************************************************)
EXTENDS Naturals, Sequences, FiniteSets

CONSTANTS
  Threads,           \* the connection threads
  Requests,          \* route, fault, tool, stream and usage of a request
  ArtifactsFail,     \* a profile is asked for and its directory cannot be made
  MaxConnections,    \* bound on the number of connections of a behaviour
  MaxTokens          \* bound on the tokens of a generation

ASSUME GatewayAssumption ==
  /\ \A r \in Requests :
       /\ r.route \in {"query", "inference"}
       /\ r.fault \in {"none", "parse", "image"}
       /\ r.tool \in BOOLEAN /\ r.stream \in BOOLEAN /\ r.usage \in BOOLEAN
  /\ ArtifactsFail \in BOOLEAN
  /\ MaxConnections \in Nat /\ MaxTokens \in Nat

VARIABLES
  running,           \* serve_openai_gateway has not returned
  accepted,          \* number of connections accepted (bounded)
  busy,              \* gateway_inference_busy()
  pc, request, acquired, tokens,     \* a thread's progress, request and permit
  todo, sent,        \* messages being written, and those the client received
  link,              \* the client: it reads, it does not, it has left
  thrown             \* observer: an exception ended the generation

vars == <<running, accepted, busy, pc, request, acquired, tokens, todo, sent,
          link, thrown>>

NoRequest == [route |-> "none"]

Init ==
  /\ running = TRUE
  /\ accepted = 0
  /\ busy = FALSE
  /\ pc = [t \in Threads |-> "none"]
  /\ request = [t \in Threads |-> NoRequest]
  /\ acquired = [t \in Threads |-> FALSE]
  /\ tokens = [t \in Threads |-> 0]
  /\ todo = [t \in Threads |-> <<>>]
  /\ sent = [t \in Threads |-> <<>>]
  /\ link = [t \in Threads |-> "gone"]
  /\ thrown = [t \in Threads |-> FALSE]
-----------------------------------------------------------------------------
(* The accept loop.  A thread that cannot be started: its socket is closed *)
(* and nothing else happens, which is the same as no connection.           *)
Accept(t) ==
  /\ running
  /\ pc[t] = "none"
  /\ accepted < MaxConnections
  /\ accepted' = accepted + 1
  /\ pc' = [pc EXCEPT ![t] = "read"]
  /\ link' = [link EXCEPT ![t] = "open"]
  /\ UNCHANGED <<running, busy, request, acquired, tokens, todo, sent, thrown>>

(* accept fails: serve returns, the process exits and its threads with it. *)
ServeFails ==
  /\ running
  /\ running' = FALSE
  /\ UNCHANGED <<accepted, busy, pc, request, acquired, tokens, todo, sent,
                 link, thrown>>

(* A client leaves, stops reading or reads again at any time. *)
ClientMoves(t) ==
  /\ running
  /\ pc[t] # "none" /\ link[t] # "gone"
  /\ \E state \in {"open", "stalled", "gone"} \ {link[t]} :
       link' = [link EXCEPT ![t] = state]
  /\ UNCHANGED <<running, accepted, busy, pc, request, acquired, tokens, todo,
                 sent, thrown>>
-----------------------------------------------------------------------------
(* A thread runs on when its last writes are over. *)
At(t, place) == running /\ pc[t] = place /\ todo[t] = <<>>
Goto(t, place) == pc' = [pc EXCEPT ![t] = place]
Write(t, messages) == todo' = [todo EXCEPT ![t] = messages]

(* write_all: the first failed send ends it, and nobody looks at it. *)
WriteNext(t) ==
  /\ running
  /\ todo[t] # <<>>
  /\ link[t] # "stalled"
  /\ sent' = [sent EXCEPT ![t] =
               IF link[t] = "open" THEN Append(@, Head(todo[t])) ELSE @]
  /\ todo' = [todo EXCEPT ![t] = Tail(@)]
  /\ UNCHANGED <<running, accepted, busy, pc, request, acquired, tokens, link, thrown>>

Read(t) ==
  /\ At(t, "read")
  /\ link[t] = "open"
  /\ \E r \in Requests : request' = [request EXCEPT ![t] = r]
  /\ Goto(t, "route")
  /\ UNCHANGED <<running, accepted, busy, acquired, tokens, todo, sent, link, thrown>>

ReadFails(t) ==
  /\ At(t, "read")
  /\ link[t] # "stalled"
  /\ Goto(t, "catch")
  /\ UNCHANGED <<running, accepted, busy, request, acquired, tokens, todo, sent,
                 link, thrown>>

RoutedThroughPermit(t) == Goto(t, "permit") /\ UNCHANGED todo

(* Everything but the two inference routes is answered at once. *)
Routed(t) ==
  IF request[t].route = "query"
  THEN Goto(t, "close") /\ Write(t, <<"200">>)
  ELSE Goto(t, "permit") /\ UNCHANGED todo

Route(t) ==
  /\ At(t, "route")
  /\ Routed(t)
  /\ UNCHANGED <<running, accepted, busy, request, acquired, tokens, sent, link, thrown>>

AcquireWaiting(t) ==
  /\ At(t, "permit")
  /\ ~busy
  /\ busy' = TRUE
  /\ acquired' = [acquired EXCEPT ![t] = TRUE]
  /\ Goto(t, "parse")
  /\ UNCHANGED <<running, accepted, request, tokens, todo, sent, link, thrown>>

(* GatewayInferencePermit(): the exchange succeeds if nobody holds it. *)
Acquire(t) ==
  /\ At(t, "permit")
  /\ acquired' = [acquired EXCEPT ![t] = ~busy]
  /\ busy' = TRUE
  /\ IF busy THEN Goto(t, "leave") /\ Write(t, <<"429">>)
             ELSE Goto(t, "parse") /\ UNCHANGED todo
  /\ UNCHANGED <<running, accepted, request, tokens, sent, link, thrown>>

Parse(t) ==
  /\ At(t, "parse")
  /\ Goto(t, IF request[t].fault = "parse" THEN "unwind" ELSE "respond")
  /\ UNCHANGED <<running, accepted, busy, request, acquired, tokens, todo, sent,
                 link, thrown>>

StreamEnd(t) ==
  <<"final">> \o (IF request[t].usage THEN <<"usage">> ELSE <<>>) \o <<"done">>

(* An image that cannot be used and a forced tool need no generation; a    *)
(* stream's headers are written before the generation begins.              *)
Respond(t) ==
  /\ At(t, "respond")
  /\ IF request[t].fault = "image"
     THEN Goto(t, "leave") /\ Write(t, <<"400">>)
     ELSE IF request[t].tool
     THEN /\ Goto(t, "leave")
          /\ Write(t, IF request[t].stream
                      THEN <<"sse", "delta">> \o StreamEnd(t) ELSE <<"200">>)
     ELSE /\ Goto(t, "generate")
          /\ Write(t, IF request[t].stream THEN <<"sse">> ELSE <<>>)
  /\ UNCHANGED <<running, accepted, busy, request, acquired, tokens, sent, link, thrown>>
-----------------------------------------------------------------------------
(* What the reasoning parser makes of a token or of the end of the text:   *)
(* it may hold text back and send it later.                                *)
Shown(t) == IF request[t].stream THEN {<<>>, <<"delta">>} ELSE {<<>>}

(* generate_cpu calls stream_token, which writes on the same thread. *)
Token(t) ==
  /\ At(t, "generate")
  /\ tokens[t] < MaxTokens
  /\ tokens' = [tokens EXCEPT ![t] = @ + 1]
  /\ \E deltas \in Shown(t) : Write(t, deltas)
  /\ UNCHANGED <<running, accepted, busy, pc, request, acquired, sent, link, thrown>>

Generated(t) ==
  /\ At(t, "generate")
  /\ Goto(t, "leave")
  /\ \E deltas \in Shown(t) :
       Write(t, IF request[t].stream THEN deltas \o StreamEnd(t) ELSE <<"200">>)
  /\ UNCHANGED <<running, accepted, busy, request, acquired, tokens, sent, link, thrown>>

StreamErrorAlone == <<"error">>

StreamError == <<"error", "done">>

GenerationFails(t) ==
  /\ At(t, "generate")
  /\ Goto(t, "leave")
  /\ Write(t, IF request[t].stream THEN StreamError ELSE <<"500">>)
  /\ UNCHANGED <<running, accepted, busy, request, acquired, tokens, sent, link, thrown>>

(* write_artifacts throws; the Qwen3.5 path has no handler of its own. *)
GenerationThrows(t) ==
  /\ At(t, "generate")
  /\ ArtifactsFail
  /\ Goto(t, "unwind")
  /\ thrown' = [thrown EXCEPT ![t] = TRUE]
  /\ UNCHANGED <<running, accepted, busy, request, acquired, tokens, todo, sent, link>>
-----------------------------------------------------------------------------
ReleasedByAll(t) == FALSE

NeverReleased(t) == busy

(* ~GatewayInferencePermit(): only a permit that was acquired clears it. *)
Released(t) == IF acquired[t] THEN FALSE ELSE busy

(* The permit goes out of scope after the response was written, or when an *)
(* exception is on its way to the handler that writes the response.        *)
Leave(t) ==
  /\ At(t, "leave") \/ At(t, "unwind")
  /\ busy' = Released(t)
  /\ acquired' = [acquired EXCEPT ![t] = FALSE]
  /\ Goto(t, IF pc[t] = "leave" THEN "close" ELSE "catch")
  /\ UNCHANGED <<running, accepted, request, tokens, todo, sent, link, thrown>>

Catch(t) ==
  /\ At(t, "catch")
  /\ Goto(t, "close")
  /\ Write(t, <<"400">>)
  /\ UNCHANGED <<running, accepted, busy, request, acquired, tokens, sent, link, thrown>>

(* The socket is closed and the thread ends. *)
Close(t) ==
  /\ At(t, "close")
  /\ Goto(t, "none")
  /\ request' = [request EXCEPT ![t] = NoRequest]
  /\ tokens' = [tokens EXCEPT ![t] = 0]
  /\ sent' = [sent EXCEPT ![t] = <<>>]
  /\ link' = [link EXCEPT ![t] = "gone"]
  /\ thrown' = [thrown EXCEPT ![t] = FALSE]
  /\ UNCHANGED <<running, accepted, busy, acquired, todo>>

Step(t) ==
  \/ WriteNext(t) \/ Read(t) \/ ReadFails(t) \/ Route(t) \/ Acquire(t) \/ Parse(t)
  \/ Respond(t) \/ Token(t) \/ Generated(t) \/ GenerationFails(t)
  \/ GenerationThrows(t) \/ Leave(t) \/ Catch(t) \/ Close(t)

Next ==
  \/ ServeFails
  \/ \E t \in Threads : Accept(t) \/ ClientMoves(t) \/ Step(t)

Spec == Init /\ [][Next]_vars /\ \A t \in Threads : WF_vars(Step(t))
-----------------------------------------------------------------------------
Message == {"200", "400", "429", "500", "sse", "delta", "final", "usage", "error", "done"}

(* Type correctness of the gateway's flag and threads. *)
TypeOK ==
  /\ running \in BOOLEAN /\ busy \in BOOLEAN
  /\ accepted \in 0..MaxConnections
  /\ pc \in [Threads -> {"none", "read", "route", "permit", "parse", "respond",
                         "generate", "leave", "unwind", "catch", "close"}]
  /\ request \in [Threads -> Requests \cup {NoRequest}]
  /\ acquired \in [Threads -> BOOLEAN]
  /\ \A t \in Threads :
       pc[t] \in {"permit", "parse", "respond", "generate", "leave", "unwind"} =>
         request[t].route = "inference"
  /\ \A t \in Threads : pc[t] = "route" => request[t] \in Requests
  /\ tokens \in [Threads -> 0..MaxTokens]
  /\ todo \in [Threads -> Seq(Message)] /\ sent \in [Threads -> Seq(Message)]
  /\ link \in [Threads -> {"open", "stalled", "gone"}]
  /\ thrown \in [Threads -> BOOLEAN]

Served == {t \in Threads : pc[t] \in {"parse", "respond", "generate"}}

(* At most one request is being parsed or generated at any time, and the   *)
(* flag is set exactly while some thread holds the permit: a request that  *)
(* was refused takes nothing from the one that is running.                 *)
OneInference ==
  /\ \A t, u \in Served : t = u
  /\ busy <=> \E t \in Threads : acquired[t]
  /\ \A t \in Served : acquired[t]

(* One complete response, that the thread's request can have. *)
Deltas(n) == [i \in 1..n |-> "delta"]
Complete(t) ==
  LET r == request[t]
      s == sent[t]
  IN  IF r.route = "none" THEN s = <<"400">>
      ELSE IF r.route = "query" THEN s = <<"200">>
      ELSE \/ s = <<"429">>
           \/ s = <<"400">> /\ r.fault # "none"
           \/ s \in {<<"200">>, <<"500">>} /\ r.fault = "none" /\ ~r.stream
           \/ /\ r.fault = "none" /\ r.stream
              /\ \E n \in 0..(tokens[t] + 1) :
                   s \in {<<"sse">> \o Deltas(n) \o end :
                            end \in {StreamEnd(t), <<"error", "done">>}}

(* The connection of a client that is still there is about to be closed. *)
Closing(t) == At(t, "close") /\ link[t] # "gone"

(* What a client that reads to the end has received when its connection is *)
(* about to be closed: one complete response, that its request can have.   *)
ResponseIsComplete == \A t \in Threads : Closing(t) /\ ~thrown[t] => Complete(t)

(* A permit that was taken is given back whatever becomes of the request,  *)
(* as long as the client does not stop reading.                            *)
PermitIsGivenBack ==
  busy ~> ~busy \/ ~running \/ \E t \in Threads : acquired[t] /\ link[t] = "stalled"

(* A request is answered and its connection closed also while another      *)
(* request's inference is held up for ever.                                *)
EveryRequestEnds ==
  \A t \in Threads :
    pc[t] # "none" ~> pc[t] = "none" \/ link[t] = "stalled" \/ ~running

(* docs/architecture.md: SSE streaming with `data: [DONE]`.  Here: the     *)
(* last message of every stream a client reads to its end.                 *)
StreamsEndWithDone ==
  \A t \in Threads :
    Closing(t) /\ sent[t] # <<>> /\ Head(sent[t]) = "sse" =>
      sent[t][Len(sent[t])] = "done"

=============================================================================
