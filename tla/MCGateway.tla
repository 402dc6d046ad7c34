------------------------------ MODULE MCGateway ------------------------------
(***************************************************************************)
(* One request of every kind handle_client tells apart.  Two connections   *)
(* at a time and three in all: one holds the permit, one is refused, and   *)
(* a third comes after the refusal.                                        *)
(***************************************************************************)
EXTENDS Gateway

Request(route, fault, tool, stream, usage) ==
  [route |-> route, fault |-> fault, tool |-> tool, stream |-> stream,
   usage |-> usage]

MCRequests ==
  {Request("query", "none", FALSE, FALSE, FALSE),
   Request("inference", "parse", FALSE, FALSE, FALSE),
   Request("inference", "image", FALSE, FALSE, FALSE),
   Request("inference", "none", TRUE, TRUE, TRUE),
   Request("inference", "none", FALSE, FALSE, FALSE),
   Request("inference", "none", FALSE, TRUE, TRUE)}

=============================================================================
