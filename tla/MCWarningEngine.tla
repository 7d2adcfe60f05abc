-------------------------- MODULE MCWarningEngine --------------------------
(***************************************************************************)
(* Canvases that are one or two edits away from the thresholds of the      *)
(* rules.                                                                  *)
(***************************************************************************)
EXTENDS CanvasAnalysis

\* Three services on a database, the third one asynchronously.
DatabaseHub ==
    [type |-> <<"database", "service", "service", "service">>,
     edges |-> {Edge(1, 2, 1, "http"), Edge(2, 3, 1, "http"), Edge(3, 4, 1, "async")}]

\* A chain with a gap, and a way back into it.
Chain ==
    [type |-> <<"service", "loadBalancer", "service", "database">>,
     edges |-> {Edge(1, 1, 2, "http"), Edge(2, 2, 3, "http"), Edge(3, 3, 1, "http")}]

\* A client before a gateway, and a queue with one consumer.
Pipeline ==
    [type |-> <<"client", "apiGateway", "queue", "worker">>,
     edges |-> {Edge(1, 1, 2, "http"), Edge(2, 2, 3, "async"), Edge(3, 3, 4, "async")}]

\* A service that calls four others, all of them behind one search engine.
FanOut ==
    [type |-> <<"service", "service", "worker", "service", "service", "searchEngine">>,
     edges |-> {Edge(1, 1, 2, "grpc"), Edge(2, 1, 3, "grpc"), Edge(3, 1, 4, "grpc"),
                Edge(4, 1, 5, "grpc"), Edge(5, 2, 6, "http"), Edge(6, 4, 6, "http")}]

\* A client that a firewall guards, and a service that is observed.
Guarded ==
    [type |-> <<"client", "firewall", "service", "database", "monitoring">>,
     edges |-> {Edge(1, 1, 2, "http"), Edge(2, 2, 3, "http"), Edge(3, 3, 4, "http"),
                Edge(4, 5, 3, "internal")}]

MCStarts == {DatabaseHub, Chain, Pipeline, FanOut, Guarded}
=============================================================================
