-------------------------- MODULE CanvasAnalysis ---------------------------
(***************************************************************************)
(* The warnings of a canvas while it is edited: nodes and edges are added  *)
(* and deleted as ot.ts does it, and each canvas is analyzed.              *)
(***************************************************************************)
EXTENDS WarningEngine, SequencesExt

CONSTANTS
    Starts,     \* the canvases that editing starts from
    NodeTypes,  \* the types of the nodes that users add
    EdgeTypes,  \* the types of the edges that users draw
    MaxEdits

Edge(at, source, target, type) ==
    [at |-> at, source |-> source, target |-> target, edgeType |-> type]

Canvas(c) ==
    /\ c = [type |-> c.type, edges |-> c.edges]
    /\ Ids(c) \subseteq Nat /\ IsFiniteSet(Ids(c)) /\ IsFiniteSet(c.edges)
    /\ \A e \in c.edges : /\ e = Edge(e.at, e.source, e.target, e.edgeType)
                         /\ e.at \in Nat /\ {e.source, e.target} \subseteq Ids(c)

ASSUME StartsAssumption == \A c \in Starts : Canvas(c)
ASSUME MaxEditsAssumption == MaxEdits \in Nat

VARIABLES
    canvas,
    warnings,   \* what the analysis of the canvas found
    edits       \* how many edits are left

vars == <<canvas, warnings, edits>>

Init ==
    /\ canvas \in Starts
    /\ warnings = analyze(canvas)
    /\ edits = MaxEdits

Becomes(c) ==
    /\ edits > 0
    /\ canvas' = c
    /\ warnings' = analyze(c)
    /\ edits' = edits - 1

\* A new node's id and a new edge's place are above all others.
Above(S) == Max(S \cup {0}) + 1

AddNode(type) ==
    Becomes([canvas EXCEPT !.type = [n \in Ids(canvas) \cup {Above(Ids(canvas))} |->
                                        IF n \in Ids(canvas) THEN @[n] ELSE type]])

DeleteNode(n) ==
    Becomes([type  |-> [m \in Ids(canvas) \ {n} |-> canvas.type[m]],
             edges |-> {e \in canvas.edges : ~Touches(e, n)}])

AddEdge(m, n, type) ==
    Becomes([canvas EXCEPT !.edges = @ \cup {Edge(Above({e.at : e \in @}), m, n, type)}])

DeleteEdge(e) == Becomes([canvas EXCEPT !.edges = @ \ {e}])

Next ==
    \/ \E type \in NodeTypes : AddNode(type)
    \/ \E n \in Ids(canvas) : DeleteNode(n)
    \/ \E m, n \in Ids(canvas), type \in EdgeTypes : AddEdge(m, n, type)
    \/ \E e \in canvas.edges : DeleteEdge(e)

Spec == Init /\ [][Next]_vars

-----------------------------------------------------------------------------
Warns(type) == {w.nodeId : w \in {w \in warnings : w.type = type}}

\* Rules written apart agree where they overlap: a database without a replica
\* is a single point of failure, and so is a service without a load balancer
\* unless it has a replica; a client whose traffic nothing limits meets no
\* firewall.
RulesAgree ==
    /\ Warns("DATABASE_NO_READ_REPLICA") \subseteq Warns("SPOF")
    /\ \A s \in Warns("NO_LOAD_BALANCER") :
          s \in Warns("SPOF") \/ Connected(canvas, {canvas.type[s]}) \ {s} # {}
    /\ Warns("NO_RATE_LIMITING") \cap OfType(canvas, ClientTypes) \subseteq Warns("NO_FIREWALL")

\* The paths of k nodes along synchronous edges, none visited twice, grown from
\* application nodes one node at a time.
Paths ==
    LET paths[k \in 1..Cardinality(Ids(canvas))] ==
            IF k = 1 THEN {<<n>> : n \in Ids(canvas) \ OfType(canvas, INFRASTRUCTURE_TYPES)}
            ELSE UNION {{Append(p, e.target) : e \in {e \in SyncEdges(canvas) :
                             e.source = Last(p) /\ ~Contains(p, e.target)}} : p \in paths[k - 1]}
    IN  paths

\* Rule 3 finds every application node that begins a synchronous chain of four
\* nodes or more, whatever cycles the search runs into, and warns about no node
\* that is not on such a chain.  (It does not warn about all of them: one chain
\* is reported for each beginning.)
CascadesAreChains ==
    LET long == UNION {Paths[k] : k \in 4..Cardinality(Ids(canvas))}
    IN  /\ {p[1] : p \in long} \subseteq Warns("CASCADING_FAILURE")
        /\ Warns("CASCADING_FAILURE") \subseteq UNION {{p[i] : i \in DOMAIN p} : p \in long}

\* "An unconnected node sitting on the canvas does not satisfy rules that
\* require its presence" (README.md:170): adding a node clears no warning.  The
\* exception is rule 16, which any firewall satisfies.
UnconnectedNodeClearsNothing ==
    [][Ids(canvas) \subseteq Ids(canvas') /\ canvas'.edges = canvas.edges =>
          {w \in warnings : w.type # "NO_RATE_LIMITING"} \subseteq warnings']_vars

Coupling == {"SPOF", "MISSING_CACHE", "CASCADING_FAILURE", "NO_LOAD_BALANCER",
             "DATABASE_NO_READ_REPLICA", "UNBOUNDED_FANOUT", "NO_CACHE_FOR_SEARCH"}

Decoupling == {"async", "pubsub", "eventStream", "websocket"}

\* Failures propagate along synchronous edges only (warning-engine.service.ts:6,
\* :202): an edge of another type never adds a warning about coupling, and it
\* leaves the chains alone.
AsyncEdgeAddsNoCoupling ==
    [][/\ canvas'.type = canvas.type
       /\ canvas.edges \subseteq canvas'.edges
       /\ \A e \in canvas'.edges \ canvas.edges : e.edgeType \in Decoupling
       =>
          /\ \A w \in warnings' \ warnings : w.type \notin Coupling
          /\ Warns("CASCADING_FAILURE")' = Warns("CASCADING_FAILURE")]_vars
=============================================================================
