--------------------------- MODULE WarningProofs ---------------------------
(***************************************************************************)
(* What the rules say of one canvas fits together, which edits take no     *)
(* warning away or add none, and that the search of rule 3 finds every     *)
(* chain, for canvases of every size.                                      *)
(***************************************************************************)
EXTENDS CanvasAnalysis, FiniteSetTheorems, TLAPS

\* The canvas is a record with a finite list of edges between nodes that are
\* there, and the warnings shown are those of this canvas.
ShapeInv ==
    /\ canvas = [type |-> canvas.type, edges |-> canvas.edges]
    /\ IsFiniteSet(Ids(canvas)) /\ IsFiniteSet(canvas.edges)
    /\ \A e \in canvas.edges : e.source \in Ids(canvas) /\ e.target \in Ids(canvas)

AnalysisInv == ShapeInv /\ warnings = analyze(canvas)

-----------------------------------------------------------------------------
(* The invariant.                                                          *)

LEMMA InitAnalyzed == Init => AnalysisInv
<1>1. ASSUME Init PROVE ShapeInv
  <2>1. Canvas(canvas) BY <1>1, StartsAssumption DEF Init
  <2>2. \A e \in canvas.edges : e.source \in Ids(canvas) /\ e.target \in Ids(canvas)
    BY <2>1 DEF Canvas
  <2> QED BY <2>1, <2>2 DEF Canvas, ShapeInv
<1> QED BY <1>1 DEF Init, AnalysisInv

LEMMA AddNodeKeepsShape ==
    ASSUME AnalysisInv, NEW type, AddNode(type)
    PROVE  AnalysisInv'
<1> DEFINE new == Above(Ids(canvas))
<1>1. canvas' = [type  |-> [n \in Ids(canvas) \cup {new} |->
                               IF n \in Ids(canvas) THEN canvas.type[n] ELSE type],
                 edges |-> canvas.edges]
  BY DEF AnalysisInv, ShapeInv, AddNode, Becomes
<1>2. Ids(canvas') = Ids(canvas) \cup {new} BY <1>1 DEF Ids
<1>3. IsFiniteSet(Ids(canvas'))
  <2> HIDE DEF new
  <2> QED BY <1>2, FS_AddElement DEF AnalysisInv, ShapeInv
<1> QED BY <1>1, <1>2, <1>3 DEF AnalysisInv, ShapeInv, AddNode, Becomes

LEMMA DeleteNodeKeepsShape ==
    ASSUME AnalysisInv, NEW n \in Ids(canvas), DeleteNode(n)
    PROVE  AnalysisInv'
<1>1. canvas' = [type  |-> [m \in Ids(canvas) \ {n} |-> canvas.type[m]],
                 edges |-> {e \in canvas.edges : ~Touches(e, n)}]
  BY DEF DeleteNode, Becomes
<1>2. Ids(canvas') = Ids(canvas) \ {n} BY <1>1 DEF Ids
<1>3. IsFiniteSet(Ids(canvas')) /\ IsFiniteSet(canvas'.edges)
  BY <1>1, <1>2, FS_Subset DEF AnalysisInv, ShapeInv
<1>4. \A e \in canvas'.edges : e.source \in Ids(canvas') /\ e.target \in Ids(canvas')
  BY <1>1, <1>2 DEF AnalysisInv, ShapeInv, Touches
<1> QED BY <1>1, <1>3, <1>4 DEF AnalysisInv, ShapeInv, DeleteNode, Becomes

LEMMA AddEdgeKeepsShape ==
    ASSUME AnalysisInv, NEW m \in Ids(canvas), NEW n \in Ids(canvas), NEW type,
           AddEdge(m, n, type)
    PROVE  AnalysisInv'
<1> DEFINE new == Edge(Above({e.at : e \in canvas.edges}), m, n, type)
<1>1. canvas' = [type |-> canvas.type, edges |-> canvas.edges \cup {new}]
  BY DEF AnalysisInv, ShapeInv, AddEdge, Becomes
<1>2. new.source = m /\ new.target = n BY DEF Edge
<1>3. IsFiniteSet(canvas'.edges)
  <2> HIDE DEF new
  <2> QED BY <1>1, FS_AddElement DEF AnalysisInv, ShapeInv
<1>4. Ids(canvas') = Ids(canvas) BY <1>1 DEF Ids
<1>5. \A e \in canvas'.edges : e.source \in Ids(canvas') /\ e.target \in Ids(canvas')
  <2> HIDE DEF new
  <2> QED BY <1>1, <1>2, <1>4 DEF AnalysisInv, ShapeInv
<1> QED BY <1>1, <1>3, <1>4, <1>5 DEF AnalysisInv, ShapeInv, AddEdge, Becomes

LEMMA DeleteEdgeKeepsShape ==
    ASSUME AnalysisInv, NEW e \in canvas.edges, DeleteEdge(e)
    PROVE  AnalysisInv'
<1>1. canvas' = [type |-> canvas.type, edges |-> canvas.edges \ {e}]
  BY DEF AnalysisInv, ShapeInv, DeleteEdge, Becomes
<1>2. Ids(canvas') = Ids(canvas) BY <1>1 DEF Ids
<1>3. IsFiniteSet(canvas'.edges) BY <1>1, FS_Subset DEF AnalysisInv, ShapeInv
<1> QED BY <1>1, <1>2, <1>3 DEF AnalysisInv, ShapeInv, DeleteEdge, Becomes

LEMMA NextAnalyzed == AnalysisInv /\ [Next]_vars => AnalysisInv'
<1> SUFFICES ASSUME AnalysisInv, [Next]_vars PROVE AnalysisInv'
  OBVIOUS
<1>1. CASE \E type \in NodeTypes : AddNode(type) BY <1>1, AddNodeKeepsShape
<1>2. CASE \E n \in Ids(canvas) : DeleteNode(n) BY <1>2, DeleteNodeKeepsShape
<1>3. CASE \E m, n \in Ids(canvas), type \in EdgeTypes : AddEdge(m, n, type)
  BY <1>3, AddEdgeKeepsShape
<1>4. CASE \E e \in canvas.edges : DeleteEdge(e) BY <1>4, DeleteEdgeKeepsShape
<1>5. CASE UNCHANGED vars BY <1>5 DEF vars, AnalysisInv, ShapeInv, Ids
<1> QED BY <1>1, <1>2, <1>3, <1>4, <1>5 DEF Next

\* What is shown is the analysis of what is there, and every edge has its ends.
THEOREM Analyzed == Spec => []AnalysisInv
BY InitAnalyzed, NextAnalyzed, PTL DEF Spec

-----------------------------------------------------------------------------
(* The warnings of a type are the nodes of its rule.                       *)

LEMMA AnalyzeCases ==
    ASSUME NEW c, NEW w
    PROVE  w \in analyze(c) <=>
             \/ w \in Warned("SPOF", checkSPOF(c))
             \/ w \in Warned("MISSING_CACHE", checkMissingCache(c))
             \/ w \in Warned("CASCADING_FAILURE", checkCascadingFailure(c))
             \/ w \in Warned("NO_LOAD_BALANCER", checkNoLoadBalancer(c))
             \/ w \in Warned("DIRECT_CLIENT_TO_DATABASE", checkDirectClientToDatabase(c))
             \/ w \in Warned("NO_API_GATEWAY", checkNoApiGateway(c))
             \/ w \in Warned("NO_FIREWALL", checkNoFirewall(c))
             \/ w \in Warned("DATABASE_NO_READ_REPLICA", checkDatabaseNoReadReplica(c))
             \/ w \in Warned("SINGLE_QUEUE_CONSUMER", checkSingleQueueConsumer(c))
             \/ w \in Warned("SYNCHRONOUS_WRITE_CRITICAL_PATH", checkSynchronousWriteCriticalPath(c))
             \/ w \in Warned("NO_DEAD_LETTER_QUEUE", checkNoDeadLetterQueue(c))
             \/ w \in Warned("NO_CDN_FOR_CLIENT", checkNoCdnForClient(c))
             \/ w \in Warned("NO_OBJECT_STORAGE_FOR_MEDIA", checkNoObjectStorageForMedia(c))
             \/ w \in Warned("UNBOUNDED_FANOUT", checkUnboundedFanout(c))
             \/ w \in Warned("NO_CACHE_FOR_SEARCH", checkNoCacheForSearch(c))
             \/ w \in Warned("NO_RATE_LIMITING", checkNoRateLimiting(c))
             \/ w \in Warned("NO_MONITORING", checkNoMonitoring(c))
             \/ w \in Warned("NO_LOGGING", checkNoLogging(c))
BY DEF analyze

LEMMA WarnedForm ==
    ASSUME NEW type, NEW nodes, NEW w
    PROVE  /\ w \in Warned(type, nodes) =>
                /\ w.type = type /\ w.nodeId \in nodes
                /\ w = [nodeId |-> w.nodeId, type |-> type, severity |-> Severity(type)]
           /\ \A n \in nodes :
                [nodeId |-> n, type |-> type, severity |-> Severity(type)] \in Warned(type, nodes)
BY DEF Warned

\* The rules as one function of the type of the warning.
Rule(c, type) ==
    CASE type = "SPOF" -> checkSPOF(c)
      [] type = "MISSING_CACHE" -> checkMissingCache(c)
      [] type = "CASCADING_FAILURE" -> checkCascadingFailure(c)
      [] type = "NO_LOAD_BALANCER" -> checkNoLoadBalancer(c)
      [] type = "DIRECT_CLIENT_TO_DATABASE" -> checkDirectClientToDatabase(c)
      [] type = "NO_API_GATEWAY" -> checkNoApiGateway(c)
      [] type = "NO_FIREWALL" -> checkNoFirewall(c)
      [] type = "DATABASE_NO_READ_REPLICA" -> checkDatabaseNoReadReplica(c)
      [] type = "SINGLE_QUEUE_CONSUMER" -> checkSingleQueueConsumer(c)
      [] type = "SYNCHRONOUS_WRITE_CRITICAL_PATH" -> checkSynchronousWriteCriticalPath(c)
      [] type = "NO_DEAD_LETTER_QUEUE" -> checkNoDeadLetterQueue(c)
      [] type = "NO_CDN_FOR_CLIENT" -> checkNoCdnForClient(c)
      [] type = "NO_OBJECT_STORAGE_FOR_MEDIA" -> checkNoObjectStorageForMedia(c)
      [] type = "UNBOUNDED_FANOUT" -> checkUnboundedFanout(c)
      [] type = "NO_CACHE_FOR_SEARCH" -> checkNoCacheForSearch(c)
      [] type = "NO_RATE_LIMITING" -> checkNoRateLimiting(c)
      [] type = "NO_MONITORING" -> checkNoMonitoring(c)
      [] type = "NO_LOGGING" -> checkNoLogging(c)

LEMMA AnalyzeByRule ==
    ASSUME NEW c, NEW w
    PROVE  w \in analyze(c) <=> \E type \in WarningType : w \in Warned(type, Rule(c, type))
BY AnalyzeCases DEF WarningType, High, Rule

\* The nodes with warnings of a type are those its rule finds.
LEMMA NodesByRule ==
    ASSUME NEW c, NEW type \in WarningType
    PROVE  {w.nodeId : w \in {w \in analyze(c) : w.type = type}} = Rule(c, type)
<1> DEFINE found == {w \in analyze(c) : w.type = type}
<1>1. ASSUME NEW w \in found PROVE w.nodeId \in Rule(c, type)
  <2>1. PICK t \in WarningType : w \in Warned(t, Rule(c, t)) BY AnalyzeByRule
  <2> QED BY <2>1, WarnedForm
<1>2. ASSUME NEW n \in Rule(c, type) PROVE \E w \in found : n = w.nodeId
  <2> DEFINE w == [nodeId |-> n, type |-> type, severity |-> Severity(type)]
  <2>1. w \in Warned(type, Rule(c, type)) BY <1>2, WarnedForm
  <2>2. w \in found BY <2>1, AnalyzeByRule
  <2> QED BY <2>2
<1> QED BY <1>1, <1>2

LEMMA WarnsByRule ==
    ASSUME AnalysisInv, NEW type \in WarningType
    PROVE  Warns(type) = Rule(canvas, type)
BY NodesByRule DEF AnalysisInv, Warns

-----------------------------------------------------------------------------
(* The rules agree.                                                        *)

\* Fewer edges are not more edges.
LEMMA CallersAmongAll ==
    ASSUME ShapeInv, NEW n, NEW T
    PROVE  /\ Cardinality(SyncFrom(canvas, n, T)) \in Nat
           /\ Cardinality(SyncInto(canvas, n)) \in Nat
           /\ Cardinality(SyncFrom(canvas, n, T)) <= Cardinality(SyncInto(canvas, n))
<1>1. SyncInto(canvas, n) \in SUBSET canvas.edges BY DEF SyncInto, SyncEdges
<1>2. SyncFrom(canvas, n, T) \in SUBSET SyncInto(canvas, n) BY DEF SyncFrom
<1>3. IsFiniteSet(SyncInto(canvas, n)) BY <1>1, FS_Subset DEF ShapeInv
<1>4. /\ IsFiniteSet(SyncFrom(canvas, n, T))
      /\ Cardinality(SyncFrom(canvas, n, T)) <= Cardinality(SyncInto(canvas, n))
  BY <1>2, <1>3, FS_Subset
<1> QED BY <1>3, <1>4, FS_CardinalityType

LEMMA DatabaseIsSPOF ==
    ASSUME ShapeInv
    PROVE  checkDatabaseNoReadReplica(canvas) \subseteq checkSPOF(canvas)
<1> SUFFICES ASSUME NEW db \in checkDatabaseNoReadReplica(canvas)
             PROVE  db \in checkSPOF(canvas)
  OBVIOUS
<1>1. /\ db \in Ids(canvas) /\ canvas.type[db] = "database"
      /\ Connected(canvas, {"database"}) \ {db} = {}
      /\ Cardinality(SyncFrom(canvas, db, CALLER_TYPES)) >= 3
  BY DEF checkDatabaseNoReadReplica, OfType
<1>2. db \notin OfType(canvas, INFRASTRUCTURE_TYPES)
  BY <1>1 DEF OfType, INFRASTRUCTURE_TYPES
<1>3. Cardinality(SyncInto(canvas, db)) >= 3 BY <1>1, CallersAmongAll
<1> QED BY <1>1, <1>2, <1>3 DEF checkSPOF

LEMMA UnbalancedIsSPOF ==
    ASSUME ShapeInv, NEW s \in checkNoLoadBalancer(canvas)
    PROVE  s \in checkSPOF(canvas) \/ Connected(canvas, {canvas.type[s]}) \ {s} # {}
<1>1. /\ s \in Ids(canvas) /\ canvas.type[s] \in {"service", "worker"}
      /\ Cardinality(SyncFrom(canvas, s, CALLER_TYPES)) >= 3
  BY DEF checkNoLoadBalancer, OfType, ConsumerTypes
<1>2. s \notin OfType(canvas, INFRASTRUCTURE_TYPES)
  BY <1>1 DEF OfType, INFRASTRUCTURE_TYPES
<1>3. Cardinality(SyncInto(canvas, s)) >= 3 BY <1>1, CallersAmongAll
<1> QED BY <1>1, <1>2, <1>3 DEF checkSPOF

LEMMA UnlimitedHasNoFirewall ==
    checkNoRateLimiting(canvas) \cap OfType(canvas, ClientTypes) \subseteq checkNoFirewall(canvas)
<1> SUFFICES ASSUME NEW n \in checkNoRateLimiting(canvas), n \in OfType(canvas, ClientTypes)
             PROVE  n \in checkNoFirewall(canvas)
  OBVIOUS
<1>1. OfType(canvas, {"firewall"}) = {} BY DEF checkNoRateLimiting
<1>2. Connected(canvas, {"firewall"}) = {} BY <1>1 DEF Connected
<1> QED BY <1>2 DEF checkNoFirewall

LEMMA AnalyzedAgrees == AnalysisInv => RulesAgree
<1> SUFFICES ASSUME AnalysisInv PROVE RulesAgree
  OBVIOUS
<1>1. /\ Warns("SPOF") = checkSPOF(canvas)
      /\ Warns("DATABASE_NO_READ_REPLICA") = checkDatabaseNoReadReplica(canvas)
      /\ Warns("NO_LOAD_BALANCER") = checkNoLoadBalancer(canvas)
      /\ Warns("NO_RATE_LIMITING") = checkNoRateLimiting(canvas)
      /\ Warns("NO_FIREWALL") = checkNoFirewall(canvas)
  BY WarnsByRule DEF WarningType, High, Rule
<1>2. ShapeInv BY DEF AnalysisInv
<1> QED BY <1>1, <1>2, DatabaseIsSPOF, UnbalancedIsSPOF, UnlimitedHasNoFirewall DEF RulesAgree

\* In every canvas that edits can reach, a database without a replica and a
\* service without a load balancer are single points of failure (the latter
\* unless it has a sibling), and no limit means no firewall.
THEOREM RulesAgreeHolds == Spec => []RulesAgree
BY Analyzed, AnalyzedAgrees, PTL

-----------------------------------------------------------------------------
(* Edges that decouple.                                                    *)

\* d has the nodes of c, the edges of c, and decoupling edges besides.
Decouples(c, d) ==
    /\ d.type = c.type
    /\ c.edges \subseteq d.edges
    /\ \A e \in d.edges \ c.edges : e.edgeType \in Decoupling

LEMMA SameSyncEdges ==
    ASSUME NEW c, NEW d, Decouples(c, d)
    PROVE  /\ Ids(d) = Ids(c)
           /\ SyncEdges(d) = SyncEdges(c)
           /\ \A n : SyncInto(d, n) = SyncInto(c, n)
           /\ \A T : OfType(d, T) = OfType(c, T)
           /\ \A n, T : Has(d, n, T) <=> Has(c, n, T)
<1>1. Ids(d) = Ids(c) BY DEF Decouples, Ids
<1>2. \A e \in d.edges \ c.edges : ~isSynchronous(e)
  BY DEF Decouples, Decoupling, isSynchronous, SYNCHRONOUS_TYPES
<1>3. SyncEdges(d) = SyncEdges(c) BY <1>2 DEF Decouples, SyncEdges
<1>4. \A n : SyncInto(d, n) = SyncInto(c, n) BY <1>3 DEF SyncInto
<1>5. \A T : OfType(d, T) = OfType(c, T) BY <1>1 DEF Decouples, OfType
<1>6. \A n, T : Has(d, n, T) <=> Has(c, n, T) BY <1>1 DEF Decouples, Has
<1> QED BY <1>1, <1>3, <1>4, <1>5, <1>6

LEMMA MoreConnected ==
    ASSUME NEW c, NEW d, Decouples(c, d)
    PROVE  /\ \A T : Connected(c, T) \subseteq Connected(d, T)
           /\ \A m, n : Joined(c, m, n) => Joined(d, m, n)
           /\ \A callers, n : CacheBetween(c, callers, n) => CacheBetween(d, callers, n)
<1>1. \A n : isConnectedNode(c, n) => isConnectedNode(d, n) BY DEF Decouples, isConnectedNode
<1>2. \A T : Connected(c, T) \subseteq Connected(d, T) BY <1>1, SameSyncEdges DEF Connected
<1>3. \A m, n : Joined(c, m, n) => Joined(d, m, n) BY DEF Decouples, Joined
<1>4. ASSUME NEW callers, NEW n, CacheBetween(c, callers, n)
      PROVE  CacheBetween(d, callers, n)
  <2>1. OfType(d, {"cache"}) = OfType(c, {"cache"}) BY SameSyncEdges
  <2> QED BY <1>3, <1>4, <2>1 DEF CacheBetween
<1> QED BY <1>2, <1>3, <1>4

\* The chains depend on nothing but the synchronous edges.
LEMMA SameCascades ==
    ASSUME NEW c, NEW d, Decouples(c, d)
    PROVE  checkCascadingFailure(d) = checkCascadingFailure(c)
<1>1. /\ SyncEdges(d) = SyncEdges(c)
      /\ Ids(d) \ OfType(d, INFRASTRUCTURE_TYPES) = Ids(c) \ OfType(c, INFRASTRUCTURE_TYPES)
  BY SameSyncEdges
<1> QED BY <1>1 DEF checkCascadingFailure

LEMMA NoMoreSPOF ==
    ASSUME NEW c, NEW d, Decouples(c, d)
    PROVE  checkSPOF(d) \subseteq checkSPOF(c)
<1> SUFFICES ASSUME NEW n \in checkSPOF(d) PROVE n \in checkSPOF(c)
  OBVIOUS
<1>1. n \in Ids(c) \ OfType(c, INFRASTRUCTURE_TYPES) BY SameSyncEdges DEF checkSPOF
<1>2. Cardinality(SyncInto(c, n)) >= 3 BY SameSyncEdges DEF checkSPOF
<1>3. Connected(d, {c.type[n]}) \ {n} = {} BY DEF checkSPOF, Decouples
<1>4. Connected(c, {c.type[n]}) \ {n} = {} BY <1>3, MoreConnected
<1> QED BY <1>1, <1>2, <1>4 DEF checkSPOF

LEMMA NoMoreReplicas ==
    ASSUME NEW c, NEW d, Decouples(c, d)
    PROVE  checkDatabaseNoReadReplica(d) \subseteq checkDatabaseNoReadReplica(c)
<1>1. \A n, T : SyncFrom(d, n, T) = SyncFrom(c, n, T) BY SameSyncEdges DEF SyncFrom
<1>2. OfType(d, {"database"}) = OfType(c, {"database"}) BY SameSyncEdges
<1>3. Connected(c, {"database"}) \subseteq Connected(d, {"database"}) BY MoreConnected
<1> QED BY <1>1, <1>2, <1>3 DEF checkDatabaseNoReadReplica

LEMMA NoMoreLoadBalancers ==
    ASSUME NEW c, NEW d, Decouples(c, d)
    PROVE  checkNoLoadBalancer(d) = checkNoLoadBalancer(c)
<1>1. \A n, T : SyncFrom(d, n, T) = SyncFrom(c, n, T) BY SameSyncEdges DEF SyncFrom
<1>2. OfType(d, ConsumerTypes) = OfType(c, ConsumerTypes) BY SameSyncEdges
<1> QED BY <1>1, <1>2 DEF checkNoLoadBalancer

LEMMA NoMoreCaches ==
    ASSUME NEW c, NEW d, Decouples(c, d)
    PROVE  checkMissingCache(d) \subseteq checkMissingCache(c)
<1>1. \A db : DirectSync(d, db) = DirectSync(c, db) BY SameSyncEdges DEF DirectSync
<1>2. OfType(d, {"database"}) = OfType(c, {"database"}) BY SameSyncEdges
<1> QED BY <1>1, <1>2, MoreConnected DEF checkMissingCache

LEMMA NoMoreFanOut ==
    ASSUME NEW c, NEW d, Decouples(c, d)
    PROVE  checkUnboundedFanout(d) = checkUnboundedFanout(c)
<1>1. OfType(d, {"service"}) = OfType(c, {"service"}) BY SameSyncEdges
<1>2. ASSUME NEW s
      PROVE  {e \in SyncEdges(d) : /\ e.source = s /\ e.target # s
                                   /\ Has(d, e.target, TARGET_PEER_TYPES)}
             = {e \in SyncEdges(c) : /\ e.source = s /\ e.target # s
                                     /\ Has(c, e.target, TARGET_PEER_TYPES)}
  BY SameSyncEdges
<1> QED BY <1>1, <1>2 DEF checkUnboundedFanout

LEMMA NoMoreSearchCaches ==
    ASSUME NEW c, NEW d, Decouples(c, d)
    PROVE  checkNoCacheForSearch(d) \subseteq checkNoCacheForSearch(c)
<1> DEFINE Calls(x, n) == {e \in SyncEdges(x) :
        Touches(e, n) /\ Has(x, IF e.target = n THEN e.source ELSE e.target, {"service"})}
<1>1. OfType(d, {"searchEngine"}) = OfType(c, {"searchEngine"}) BY SameSyncEdges
<1>2. \A n : Calls(d, n) = Calls(c, n) BY SameSyncEdges
<1>3. \A x : checkNoCacheForSearch(x) =
        {n \in OfType(x, {"searchEngine"}) :
            /\ Cardinality(Calls(x, n)) >= 3
            /\ ~CacheBetween(x, {IF e.target = n THEN e.source ELSE e.target : e \in Calls(x, n)}, n)}
  BY DEF checkNoCacheForSearch
<1> HIDE DEF Calls
<1> QED BY <1>1, <1>2, <1>3, MoreConnected

LEMMA NoRuleGains ==
    ASSUME NEW c, NEW d, Decouples(c, d), NEW type \in Coupling
    PROVE  Rule(d, type) \subseteq Rule(c, type)
BY SameCascades, NoMoreSPOF, NoMoreReplicas, NoMoreLoadBalancers, NoMoreCaches,
   NoMoreFanOut, NoMoreSearchCaches DEF Coupling, Rule

LEMMA DecouplingStep ==
    ASSUME AnalysisInv, AnalysisInv', Decouples(canvas, canvas')
    PROVE  /\ \A w \in warnings' \ warnings : w.type \notin Coupling
           /\ Warns("CASCADING_FAILURE")' = Warns("CASCADING_FAILURE")
<1>1. ASSUME NEW w \in warnings', w.type \in Coupling PROVE w \in warnings
  <2>1. PICK t \in WarningType : w \in Warned(t, Rule(canvas', t))
    BY AnalyzeByRule DEF AnalysisInv
  <2>2. t = w.type /\ w.nodeId \in Rule(canvas', t)
        /\ w = [nodeId |-> w.nodeId, type |-> t, severity |-> Severity(t)]
    BY <2>1, WarnedForm
  <2>3. w.nodeId \in Rule(canvas, t) BY <1>1, <2>2, NoRuleGains
  <2>4. w \in Warned(t, Rule(canvas, t)) BY <2>2, <2>3, WarnedForm
  <2> QED BY <2>4, AnalyzeByRule DEF AnalysisInv
<1>2. Warns("CASCADING_FAILURE") = checkCascadingFailure(canvas)
  BY WarnsByRule DEF WarningType, High, Rule
<1>3. Warns("CASCADING_FAILURE")' = checkCascadingFailure(canvas')
  <2>1. Warns("CASCADING_FAILURE")' = Rule(canvas', "CASCADING_FAILURE")
    BY NodesByRule DEF AnalysisInv, Warns, WarningType, High
  <2> QED BY <2>1 DEF Rule
<1> QED BY <1>1, <1>2, <1>3, SameCascades

\* Drawing edges that decouple never adds a warning about coupling and leaves
\* the chains of failures alone, in a canvas of any size.
THEOREM AsyncEdgeAddsNoCouplingHolds == Spec => AsyncEdgeAddsNoCoupling
<1>1. AnalysisInv /\ AnalysisInv' /\ [Next]_vars =>
        [/\ canvas'.type = canvas.type
         /\ canvas.edges \subseteq canvas'.edges
         /\ \A e \in canvas'.edges \ canvas.edges : e.edgeType \in Decoupling
         =>
            /\ \A w \in warnings' \ warnings : w.type \notin Coupling
            /\ Warns("CASCADING_FAILURE")' = Warns("CASCADING_FAILURE")]_vars
  BY DecouplingStep DEF Decouples
<1> QED BY <1>1, Analyzed, PTL DEF AsyncEdgeAddsNoCoupling, Spec

-----------------------------------------------------------------------------
(* Nodes without edges.                                                    *)

\* Every edge of c has its ends, and d is c with further nodes.
Extends(c, d) ==
    /\ \A e \in c.edges : e.source \in Ids(c) /\ e.target \in Ids(c)
    /\ Ids(c) \subseteq Ids(d) /\ IsFiniteSet(Ids(d))
    /\ \A n \in Ids(c) : d.type[n] = c.type[n]
    /\ d.edges = c.edges

\* The old nodes are what they were, and only old nodes touch an edge.
LEMMA OldNodes ==
    ASSUME NEW c, NEW d, Extends(c, d)
    PROVE  /\ \A T : OfType(c, T) = OfType(d, T) \cap Ids(c)
           /\ \A T : \A n \in Ids(c) : Has(d, n, T) <=> Has(c, n, T)
           /\ \A n : isConnectedNode(d, n) <=> isConnectedNode(c, n)
           /\ \A n : isConnectedNode(c, n) => n \in Ids(c)
           /\ \A T : Connected(d, T) = Connected(c, T)
           /\ SyncEdges(d) = SyncEdges(c)
           /\ \A n : SyncInto(d, n) = SyncInto(c, n)
           /\ \A n, T : SyncFrom(d, n, T) = SyncFrom(c, n, T)
<1>1. \A T : OfType(c, T) = OfType(d, T) \cap Ids(c) BY DEF Extends, OfType
<1>2. \A T : \A n \in Ids(c) : Has(d, n, T) <=> Has(c, n, T) BY DEF Extends, Has
<1>3. \A n : isConnectedNode(d, n) <=> isConnectedNode(c, n) BY DEF Extends, isConnectedNode
<1>4. \A n : isConnectedNode(c, n) => n \in Ids(c) BY DEF Extends, isConnectedNode, Touches
<1>5. \A T : Connected(d, T) = Connected(c, T) BY <1>1, <1>3, <1>4 DEF Connected
<1>6. SyncEdges(d) = SyncEdges(c) BY DEF Extends, SyncEdges
<1>7. \A n : SyncInto(d, n) = SyncInto(c, n) BY <1>6 DEF SyncInto
<1>8. ASSUME NEW n, NEW T PROVE SyncFrom(d, n, T) = SyncFrom(c, n, T)
  <2>1. \A e \in SyncInto(c, n) : e.source \in Ids(c) BY DEF Extends, SyncInto, SyncEdges
  <2> QED BY <1>2, <1>7, <2>1 DEF SyncFrom
<1> QED BY <1>1, <1>2, <1>3, <1>4, <1>5, <1>6, <1>7, <1>8

\* Nor does anything about the neighbours change.
LEMMA OldNeighbours ==
    ASSUME NEW c, NEW d, Extends(c, d)
    PROVE  /\ \A m, n : Joined(d, m, n) <=> Joined(c, m, n)
           /\ \A m, n : Joined(c, m, n) => m \in Ids(c) /\ n \in Ids(c)
           /\ \A n, T : JoinedTo(d, n, T) <=> JoinedTo(c, n, T)
           /\ \A n, T : JoinedTo(c, n, T) => n \in Ids(c)
           /\ \A n : isDlqNode(d, n) <=> isDlqNode(c, n)
           /\ \A n, T : Deliveries(d, n, T) = Deliveries(c, n, T)
           /\ \A callers, n : CacheBetween(d, callers, n) <=> CacheBetween(c, callers, n)
<1>1. d.edges = c.edges BY DEF Extends
<1>2. \A e \in c.edges : e.source \in Ids(c) /\ e.target \in Ids(c) BY DEF Extends
<1>3. \A T : \A n \in Ids(c) : Has(d, n, T) <=> Has(c, n, T) BY OldNodes
<1>4. \A m, n : Joined(d, m, n) <=> Joined(c, m, n) BY <1>1 DEF Joined
<1>5. \A m, n : Joined(c, m, n) => m \in Ids(c) /\ n \in Ids(c) BY <1>2 DEF Joined
<1>6. \A n, T : JoinedTo(d, n, T) <=> JoinedTo(c, n, T)
  BY <1>1, <1>2, <1>3 DEF JoinedTo, Touches, getOtherNodeId
<1>7. \A n, T : JoinedTo(c, n, T) => n \in Ids(c) BY <1>2 DEF JoinedTo, Touches
<1>8. \A n : isDlqNode(d, n) <=> isDlqNode(c, n) BY <1>1, <1>2, <1>3 DEF isDlqNode
<1>9. \A n, T : Deliveries(d, n, T) = Deliveries(c, n, T) BY <1>1, <1>2, <1>3 DEF Deliveries
<1>10. ASSUME NEW callers, NEW n
       PROVE  CacheBetween(d, callers, n) <=> CacheBetween(c, callers, n)
  <2>1. \A k : Joined(c, k, n) => (k \in OfType(d, {"cache"}) <=> k \in OfType(c, {"cache"}))
    BY <1>5, OldNodes
  <2> QED BY <1>4, <2>1 DEF CacheBetween
<1> QED BY <1>4, <1>5, <1>6, <1>7, <1>8, <1>9, <1>10

\* The rules that count calls between application nodes.
LEMMA CountsStand ==
    ASSUME NEW c, NEW d, Extends(c, d)
    PROVE  /\ checkSPOF(c) \subseteq checkSPOF(d)
           /\ checkNoLoadBalancer(c) \subseteq checkNoLoadBalancer(d)
           /\ checkDatabaseNoReadReplica(c) \subseteq checkDatabaseNoReadReplica(d)
           /\ checkCascadingFailure(c) \subseteq checkCascadingFailure(d)
           /\ checkUnboundedFanout(c) \subseteq checkUnboundedFanout(d)
<1>1. ASSUME NEW n \in checkSPOF(c) PROVE n \in checkSPOF(d)
  <2>1. n \in Ids(c) \ OfType(c, INFRASTRUCTURE_TYPES) BY <1>1 DEF checkSPOF
  <2>2. n \in Ids(d) \ OfType(d, INFRASTRUCTURE_TYPES) /\ d.type[n] = c.type[n]
    BY <2>1, OldNodes DEF Extends
  <2> QED BY <1>1, <2>2, OldNodes DEF checkSPOF
<1>2. checkNoLoadBalancer(c) \subseteq checkNoLoadBalancer(d)
  BY OldNodes DEF checkNoLoadBalancer
<1>3. checkDatabaseNoReadReplica(c) \subseteq checkDatabaseNoReadReplica(d)
  BY OldNodes DEF checkDatabaseNoReadReplica
<1>4. checkCascadingFailure(c) \subseteq checkCascadingFailure(d)
  <2>1. Ids(c) \ OfType(c, INFRASTRUCTURE_TYPES) \subseteq Ids(d) \ OfType(d, INFRASTRUCTURE_TYPES)
    BY OldNodes DEF Extends
  <2>2. SyncEdges(d) = SyncEdges(c) BY OldNodes
  <2> QED BY <2>1, <2>2 DEF checkCascadingFailure
<1>5. checkUnboundedFanout(c) \subseteq checkUnboundedFanout(d)
  <2>1. OfType(c, {"service"}) \subseteq OfType(d, {"service"}) BY OldNodes
  <2>2. \A e \in SyncEdges(c) : e.target \in Ids(c) BY DEF Extends, SyncEdges
  <2>3. ASSUME NEW s
        PROVE  {e \in SyncEdges(d) : /\ e.source = s /\ e.target # s
                                     /\ Has(d, e.target, TARGET_PEER_TYPES)}
               = {e \in SyncEdges(c) : /\ e.source = s /\ e.target # s
                                       /\ Has(c, e.target, TARGET_PEER_TYPES)}
    BY <2>2, OldNodes
  <2> QED BY <2>1, <2>3 DEF checkUnboundedFanout
<1> QED BY <1>1, <1>2, <1>3, <1>4, <1>5

\* The rules about caches.
LEMMA CachesStand ==
    ASSUME NEW c, NEW d, Extends(c, d)
    PROVE  /\ checkMissingCache(c) \subseteq checkMissingCache(d)
           /\ checkNoCacheForSearch(c) \subseteq checkNoCacheForSearch(d)
<1> DEFINE Other(e, n) == IF e.target = n THEN e.source ELSE e.target
<1>1. \A n : \A e \in SyncEdges(c) : Other(e, n) \in Ids(c) BY DEF Extends, SyncEdges
<1>2. SyncEdges(d) = SyncEdges(c) BY OldNodes
<1>3. checkMissingCache(c) \subseteq checkMissingCache(d)
  <2>1. \A T : \A n \in Ids(c) : n \in Ids(d) \ OfType(d, T) <=> n \in Ids(c) \ OfType(c, T)
    BY OldNodes DEF Extends
  <2>2. ASSUME NEW db PROVE DirectSync(d, db) = DirectSync(c, db)
    BY <1>1, <1>2, <2>1 DEF DirectSync
  <2>3. OfType(c, {"database"}) \subseteq OfType(d, {"database"}) BY OldNodes
  <2> QED BY <2>2, <2>3, OldNeighbours DEF checkMissingCache
<1>4. checkNoCacheForSearch(c) \subseteq checkNoCacheForSearch(d)
  <2> DEFINE Calls(x, n) == {e \in SyncEdges(x) :
          Touches(e, n) /\ Has(x, IF e.target = n THEN e.source ELSE e.target, {"service"})}
  <2>1. OfType(c, {"searchEngine"}) \subseteq OfType(d, {"searchEngine"}) BY OldNodes
  <2>2. \A n : Calls(d, n) = Calls(c, n) BY <1>1, <1>2, OldNodes
  <2>3. \A x : checkNoCacheForSearch(x) =
          {n \in OfType(x, {"searchEngine"}) :
              /\ Cardinality(Calls(x, n)) >= 3
              /\ ~CacheBetween(x, {IF e.target = n THEN e.source ELSE e.target : e \in Calls(x, n)}, n)}
    BY DEF checkNoCacheForSearch
  <2>4. ASSUME NEW n \in checkNoCacheForSearch(c) PROVE n \in checkNoCacheForSearch(d)
    <3> HIDE DEF Calls
    <3>1. /\ n \in OfType(d, {"searchEngine"})
          /\ Calls(d, n) = Calls(c, n)
          /\ Cardinality(Calls(c, n)) >= 3
          /\ ~CacheBetween(c, {IF e.target = n THEN e.source ELSE e.target : e \in Calls(c, n)}, n)
      BY <2>1, <2>2, <2>3
    <3>2. ~CacheBetween(d, {IF e.target = n THEN e.source ELSE e.target : e \in Calls(d, n)}, n)
      BY <3>1, OldNeighbours
    <3> QED BY <2>3, <3>1, <3>2
  <2> QED BY <2>4
<1> QED BY <1>3, <1>4

\* The rules about queues.
LEMMA QueuesStand ==
    ASSUME NEW c, NEW d, Extends(c, d)
    PROVE  /\ checkSingleQueueConsumer(c) \subseteq checkSingleQueueConsumer(d)
           /\ checkNoDeadLetterQueue(c) \subseteq checkNoDeadLetterQueue(d)
<1>1. OfType(c, QueueTypes) \subseteq OfType(d, QueueTypes) BY OldNodes
<1>2. checkSingleQueueConsumer(c) \subseteq checkSingleQueueConsumer(d)
  BY <1>1, OldNeighbours DEF checkSingleQueueConsumer
<1>3. checkNoDeadLetterQueue(c) \subseteq checkNoDeadLetterQueue(d)
  BY <1>1, OldNeighbours DEF checkNoDeadLetterQueue
<1> QED BY <1>2, <1>3

\* The rules about what stands before the clients.
LEMMA ClientsStand ==
    ASSUME NEW c, NEW d, Extends(c, d)
    PROVE  /\ checkNoApiGateway(c) \subseteq checkNoApiGateway(d)
           /\ checkNoFirewall(c) \subseteq checkNoFirewall(d)
           /\ checkNoCdnForClient(c) \subseteq checkNoCdnForClient(d)
           /\ checkDirectClientToDatabase(c) \subseteq checkDirectClientToDatabase(d)
           /\ checkSynchronousWriteCriticalPath(c) \subseteq checkSynchronousWriteCriticalPath(d)
<1>1. \A T : OfType(c, T) \subseteq OfType(d, T) BY OldNodes
<1>2. \A m, n : Joined(d, m, n) => m \in Ids(c) /\ n \in Ids(c) BY OldNeighbours
<1>3. checkNoApiGateway(c) \subseteq checkNoApiGateway(d) BY <1>1, OldNodes DEF checkNoApiGateway
<1>4. checkNoFirewall(c) \subseteq checkNoFirewall(d) BY <1>1, OldNodes DEF checkNoFirewall
<1>5. ASSUME NEW n \in checkNoCdnForClient(c) PROVE n \in checkNoCdnForClient(d)
  <2>1. ASSUME NEW cdn \in OfType(d, {"cdn"}), NEW m \in OfType(d, ClientTypes), Joined(d, cdn, m)
        PROVE  FALSE
    <3>1. cdn \in OfType(c, {"cdn"}) /\ m \in OfType(c, ClientTypes) BY <1>2, <2>1, OldNodes
    <3> QED BY <1>5, <2>1, <3>1, OldNeighbours DEF checkNoCdnForClient
  <2> QED BY <1>1, <1>5, <2>1 DEF checkNoCdnForClient
<1>6. ASSUME NEW db \in checkDirectClientToDatabase(c) PROVE db \in checkDirectClientToDatabase(d)
  <2>1. PICK client \in OfType(c, CLIENT_FACING_TYPES) :
           /\ Joined(c, client, db)
           /\ ~\E s \in OfType(c, ConsumerTypes) : Joined(c, client, s) /\ Joined(c, s, db)
    BY <1>6 DEF checkDirectClientToDatabase
  <2>2. ~\E s \in OfType(d, ConsumerTypes) : Joined(d, client, s) /\ Joined(d, s, db)
    BY <1>2, <2>1, OldNodes, OldNeighbours
  <2>3. db \in OfType(d, {"database"}) BY <1>1, <1>6 DEF checkDirectClientToDatabase
  <2>4. client \in OfType(d, CLIENT_FACING_TYPES) /\ Joined(d, client, db)
    BY <1>1, <2>1, OldNeighbours
  <2> QED BY <2>2, <2>3, <2>4 DEF checkDirectClientToDatabase
<1>7. checkSynchronousWriteCriticalPath(c) \subseteq checkSynchronousWriteCriticalPath(d)
  <2>1. d.edges = c.edges BY DEF Extends
  <2>2. \A e \in c.edges : e.source \in Ids(c) /\ e.target \in Ids(c) BY DEF Extends
  <2> QED BY <1>1, <2>1, <2>2, OldNodes, OldNeighbours DEF checkSynchronousWriteCriticalPath
<1> QED BY <1>3, <1>4, <1>5, <1>6, <1>7

\* The rules for canvases of five nodes or more, which do not become fewer.
LEMMA NonTrivialStands ==
    ASSUME NEW c, NEW d, Extends(c, d)
    PROVE  /\ checkNoObjectStorageForMedia(c) \subseteq checkNoObjectStorageForMedia(d)
           /\ checkNoMonitoring(c) \subseteq checkNoMonitoring(d)
           /\ checkNoLogging(c) \subseteq checkNoLogging(d)
<1>1. NonTrivial(c) => NonTrivial(d)
  <2>1. /\ IsFiniteSet(Ids(c)) /\ Cardinality(Ids(c)) <= Cardinality(Ids(d))
    BY FS_Subset DEF Extends
  <2>2. Cardinality(Ids(c)) \in Nat /\ Cardinality(Ids(d)) \in Nat
    BY <2>1, FS_CardinalityType DEF Extends
  <2> QED BY <2>1, <2>2 DEF NonTrivial
<1>2. \A T : OfType(c, T) \subseteq OfType(d, T) BY OldNodes
<1>3. checkNoObjectStorageForMedia(c) \subseteq checkNoObjectStorageForMedia(d)
  BY <1>1, <1>2, OldNodes, OldNeighbours DEF checkNoObjectStorageForMedia
<1>4. ASSUME NEW observer PROVE Unobserved(c, observer) \subseteq Unobserved(d, observer)
  <2>1. ASSUME NEW m \in OfType(d, {observer}), JoinedTo(d, m, ObservedTypes)
        PROVE  m \in OfType(c, {observer}) /\ JoinedTo(c, m, ObservedTypes)
    BY <2>1, OldNodes, OldNeighbours
  <2> QED BY <1>1, <1>2, <2>1 DEF Unobserved
<1> QED BY <1>3, <1>4 DEF checkNoMonitoring, checkNoLogging

LEMMA NoRuleLoses ==
    ASSUME NEW c, NEW d, Extends(c, d), NEW type \in WarningType \ {"NO_RATE_LIMITING"}
    PROVE  Rule(c, type) \subseteq Rule(d, type)
BY CountsStand, CachesStand, QueuesStand, ClientsStand, NonTrivialStands
   DEF Rule, WarningType, High

\* A step that keeps every node and every edge adds at most nodes without edges.
LEMMA NextExtends ==
    ASSUME ShapeInv, ShapeInv', Next,
           Ids(canvas) \subseteq Ids(canvas'), canvas'.edges = canvas.edges
    PROVE  Extends(canvas, canvas')
<1>1. \A n \in Ids(canvas) : canvas'.type[n] = canvas.type[n]
  <2>1. CASE \E type \in NodeTypes : AddNode(type)
    <3>1. PICK type \in NodeTypes : AddNode(type) BY <2>1
    <3> DEFINE new == Above(Ids(canvas))
    <3>2. canvas'.type = [n \in Ids(canvas) \cup {new} |->
                             IF n \in Ids(canvas) THEN canvas.type[n] ELSE type]
      BY <3>1 DEF ShapeInv, AddNode, Becomes
    <3> HIDE DEF new
    <3> QED BY <3>2
  <2>2. CASE \E n \in Ids(canvas) : DeleteNode(n)
    <3>1. PICK n \in Ids(canvas) : DeleteNode(n) BY <2>2
    <3>2. Ids(canvas') = Ids(canvas) \ {n} BY <3>1 DEF DeleteNode, Becomes, Ids
    <3> QED BY <3>2
  <2>3. CASE \E m, n \in Ids(canvas), type \in EdgeTypes : AddEdge(m, n, type)
    BY <2>3 DEF ShapeInv, AddEdge, Becomes
  <2>4. CASE \E e \in canvas.edges : DeleteEdge(e)
    BY <2>4 DEF ShapeInv, DeleteEdge, Becomes
  <2> QED BY <2>1, <2>2, <2>3, <2>4 DEF Next
<1> QED BY <1>1 DEF Extends, ShapeInv

LEMMA ExtendingStep ==
    ASSUME AnalysisInv, AnalysisInv', Extends(canvas, canvas')
    PROVE  {w \in warnings : w.type # "NO_RATE_LIMITING"} \subseteq warnings'
<1> SUFFICES ASSUME NEW w \in warnings, w.type # "NO_RATE_LIMITING" PROVE w \in warnings'
  OBVIOUS
<1>1. PICK t \in WarningType : w \in Warned(t, Rule(canvas, t))
  BY AnalyzeByRule DEF AnalysisInv
<1>2. /\ t = w.type /\ w.nodeId \in Rule(canvas, t)
      /\ w = [nodeId |-> w.nodeId, type |-> t, severity |-> Severity(t)]
  BY <1>1, WarnedForm
<1>3. w.nodeId \in Rule(canvas', t) BY <1>2, NoRuleLoses
<1>4. w \in Warned(t, Rule(canvas', t)) BY <1>2, <1>3, WarnedForm
<1> QED BY <1>4, AnalyzeByRule DEF AnalysisInv

\* Adding a node clears no warning of seventeen of the rules, in a canvas of any
\* size: a node that nothing is connected to satisfies none of them.
THEOREM UnconnectedNodeClearsNothingHolds == Spec => UnconnectedNodeClearsNothing
<1>1. AnalysisInv /\ AnalysisInv' /\ [Next]_vars =>
        [Ids(canvas) \subseteq Ids(canvas') /\ canvas'.edges = canvas.edges =>
            {w \in warnings : w.type # "NO_RATE_LIMITING"} \subseteq warnings']_vars
  BY NextExtends, ExtendingStep DEF AnalysisInv
<1> QED BY <1>1, Analyzed, PTL DEF UnconnectedNodeClearsNothing, Spec

-----------------------------------------------------------------------------
(* The search for the longest chain.                                       *)

LEMMA NoLeast ==
    ASSUME NEW T, T \subseteq Nat, \A n \in T : \E m \in T : m < n
    PROVE  T = {}
PROOF
<1>1. PICK R : R = OpToRel(<, Nat)
  OBVIOUS
<1>2. IsWellFoundedOn(R, Nat)
  BY <1>1, NatLessThanWellFounded
<1>3. SUFFICES ASSUME T # {} PROVE FALSE
  OBVIOUS
<1>4. PICK n \in T : \A m \in T : ~(<<m, n>> \in R)
  BY <1>2, <1>3, WFMin
<1>5. \A m, k \in Nat : <<m, k>> \in R <=> m < k
  BY <1>1 DEF OpToRel
<1> QED BY <1>4, <1>5

\* The chain from n that goes on with those of chain.
ChainFrom(chain, sync, visited, n) ==
    IF n \in visited THEN <<>>
    ELSE LET out == {e \in sync : e.source = n}
             tails == [e \in out |-> chain[visited \cup {n}][e.target]]
         IN  IF out = {} THEN <<n>> ELSE <<n>> \o tails[LongestTail(tails, out)]

Chains(chain, sync, ids, V) == chain = [visited \in V |-> [n \in ids |-> ChainFrom(chain, sync, visited, n)]]

\* All but k nodes are visited, or more.
AllBut(ids, k) == {visited \in SUBSET ids : Cardinality(ids \ visited) <= k}

EndsIn(sync, ids) == \A e \in sync : e.source \in ids /\ e.target \in ids

\* A visit leaves one node less to visit.
LEMMA VisitOne ==
    ASSUME NEW ids, IsFiniteSet(ids), NEW visited \in SUBSET ids, NEW n \in ids, n \notin visited
    PROVE  /\ visited \cup {n} \in SUBSET ids
           /\ Cardinality(ids \ visited) \in Nat
           /\ Cardinality(ids \ (visited \cup {n})) = Cardinality(ids \ visited) - 1
PROOF
<1>1. PICK rest : rest = ids \ visited
  OBVIOUS
<1>2. IsFiniteSet(rest) /\ n \in rest
  BY <1>1, FS_Subset
<1>3. ids \ (visited \cup {n}) = rest \ {n}
  BY <1>1
<1>4. Cardinality(rest \ {n}) = Cardinality(rest) - 1
  BY <1>2, FS_RemoveElement
<1>5. Cardinality(rest) \in Nat
  BY <1>2, FS_CardinalityType
<1> QED BY <1>1, <1>3, <1>4, <1>5

Alike(f, g, ids, visited) == \A m \in ids : f[visited][m] = g[visited][m]

\* A visited node has no chain, and others look at the chains behind them only.
LEMMA ChainFromSame ==
    ASSUME NEW f, NEW g, NEW sync, NEW ids, EndsIn(sync, ids), NEW visited, NEW n,
           n \notin visited => Alike(f, g, ids, visited \cup {n})
    PROVE  ChainFrom(f, sync, visited, n) = ChainFrom(g, sync, visited, n)
PROOF
<1>1. CASE n \in visited
  BY <1>1 DEF ChainFrom
<1>2. CASE n \notin visited
  <2>1. PICK out : out = {e \in sync : e.source = n}
    OBVIOUS
  <2>2. PICK next : next = visited \cup {n}
    OBVIOUS
  <2>3. \A e \in out : f[next][e.target] = g[next][e.target]
    BY <1>2, <2>1, <2>2 DEF EndsIn, Alike
  <2>4. [e \in out |-> f[next][e.target]] = [e \in out |-> g[next][e.target]]
    BY <2>3
  <2>5. PICK tails : tails = [e \in out |-> f[next][e.target]]
    OBVIOUS
  <2>6. ChainFrom(f, sync, visited, n) = IF out = {} THEN <<n>> ELSE <<n>> \o tails[LongestTail(tails, out)]
    BY <1>2, <2>1, <2>2, <2>5 DEF ChainFrom
  <2>7. ChainFrom(g, sync, visited, n) = IF out = {} THEN <<n>> ELSE <<n>> \o tails[LongestTail(tails, out)]
    <3>1. tails = [e \in out |-> g[next][e.target]]
      BY <2>4, <2>5
    <3> QED BY <1>2, <2>1, <2>2, <3>1 DEF ChainFrom
  <2> QED BY <2>6, <2>7
<1> QED BY <1>1, <1>2

\* Chains that are known when all but k nodes are visited are known one node earlier.
LEMMA ChainsGoOn ==
    ASSUME NEW sync, NEW ids, IsFiniteSet(ids), EndsIn(sync, ids), NEW k \in Nat,
           NEW f, Chains(f, sync, ids, AllBut(ids, k))
    PROVE  \E g : Chains(g, sync, ids, AllBut(ids, k + 1))
PROOF
<1>1. PICK V : V = AllBut(ids, k + 1)
  OBVIOUS
<1>2. PICK g : g = [visited \in V |-> [n \in ids |-> ChainFrom(f, sync, visited, n)]]
  OBVIOUS
<1>3. ASSUME NEW visited \in V, NEW n \in ids
      PROVE  ChainFrom(f, sync, visited, n) = ChainFrom(g, sync, visited, n)
  <2>1. visited \in SUBSET ids /\ Cardinality(ids \ visited) <= k + 1
    BY <1>1, <1>3 DEF AllBut
  <2>2. ASSUME n \notin visited PROVE \A m \in ids : f[visited \cup {n}][m] = g[visited \cup {n}][m]
    <3>1. PICK next : next = visited \cup {n}
      OBVIOUS
    <3>2. next \in SUBSET ids /\ Cardinality(ids \ next) = Cardinality(ids \ visited) - 1
          /\ Cardinality(ids \ visited) \in Nat
      BY <2>1, <2>2, <3>1, VisitOne
    <3>3. next \in AllBut(ids, k) /\ next \in V
      BY <1>1, <2>1, <3>2 DEF AllBut
    <3>4. f[next] = [m \in ids |-> ChainFrom(f, sync, next, m)]
      BY <3>3 DEF Chains
    <3>5. g[next] = [m \in ids |-> ChainFrom(f, sync, next, m)]
      BY <1>2, <3>3
    <3> QED BY <3>1, <3>4, <3>5
  <2>3. n \notin visited => Alike(f, g, ids, visited \cup {n})
    BY <2>2 DEF Alike
  <2> QED BY <2>3, ChainFromSame
<1>4. g = [visited \in V |-> [n \in ids |-> ChainFrom(g, sync, visited, n)]]
  BY <1>2, <1>3
<1> QED BY <1>1, <1>4 DEF Chains

LEMMA ChainsStart ==
    ASSUME NEW sync, NEW ids, IsFiniteSet(ids)
    PROVE  \E g : Chains(g, sync, ids, AllBut(ids, 0))
PROOF
<1>1. PICK V : V = AllBut(ids, 0)
  OBVIOUS
<1>2. PICK g : g = [visited \in V |-> [n \in ids |-> <<>>]]
  OBVIOUS
<1>3. ASSUME NEW visited \in V, NEW n \in ids PROVE ChainFrom(g, sync, visited, n) = <<>>
  <2>1. visited \in SUBSET ids /\ Cardinality(ids \ visited) <= 0
    BY <1>1, <1>3 DEF AllBut
  <2>2. n \notin visited => Cardinality(ids \ (visited \cup {n})) = Cardinality(ids \ visited) - 1
                            /\ Cardinality(ids \ visited) \in Nat
    BY <2>1, VisitOne
  <2>3. IsFiniteSet(ids \ (visited \cup {n}))
    BY FS_Subset
  <2>4. Cardinality(ids \ (visited \cup {n})) \in Nat
    BY <2>3, FS_CardinalityType
  <2>5. n \in visited
    BY <2>1, <2>2, <2>4
  <2> QED BY <2>5 DEF ChainFrom
<1>4. g = [visited \in V |-> [n \in ids |-> ChainFrom(g, sync, visited, n)]]
  BY <1>2, <1>3
<1> QED BY <1>1, <1>4 DEF Chains

LEMMA ChainsExist ==
    ASSUME NEW sync, NEW ids, IsFiniteSet(ids), EndsIn(sync, ids)
    PROVE  \E g : Chains(g, sync, ids, SUBSET ids)
PROOF
<1> DEFINE T == {k \in Nat : ~\E g : Chains(g, sync, ids, AllBut(ids, k))}
<1>1. ASSUME NEW k \in T PROVE \E j \in T : j < k
  <2>1. k # 0
    BY <1>1, ChainsStart
  <2>2. k - 1 \in Nat /\ (k - 1) + 1 = k /\ k - 1 < k
    BY <2>1
  <2>3. k - 1 \notin T => \E g : Chains(g, sync, ids, AllBut(ids, k - 1))
    BY <2>2
  <2>4. k - 1 \notin T => \E g : Chains(g, sync, ids, AllBut(ids, k))
    BY <2>2, <2>3, ChainsGoOn
  <2> QED BY <2>2, <2>4
<1>2. T = {}
  <2> HIDE DEF T
  <2>1. T \subseteq Nat
    BY DEF T
  <2> QED BY <1>1, <2>1, NoLeast
<1>3. PICK N : N = Cardinality(ids)
  OBVIOUS
<1>4. N \in Nat
  BY <1>3, FS_CardinalityType
<1>5. ASSUME NEW visited \in SUBSET ids PROVE Cardinality(ids \ visited) <= N
  BY <1>3, FS_Subset
<1>6. AllBut(ids, N) = SUBSET ids
  BY <1>5 DEF AllBut
<1>7. \E g : Chains(g, sync, ids, AllBut(ids, N))
  BY <1>2, <1>4
<1> QED BY <1>6, <1>7

LEMMA ChainIs ==
    ASSUME NEW sync, NEW n, NEW ids, ids = {n} \cup {e.source : e \in sync} \cup {e.target : e \in sync},
           IsFiniteSet(ids)
    PROVE  \E chain : Chains(chain, sync, ids, SUBSET ids) /\ findLongestSyncChain(sync, n) = chain[{}][n]
PROOF
<1>1. EndsIn(sync, ids)
  BY DEF EndsIn
<1>2. PICK chain : chain = CHOOSE f : Chains(f, sync, ids, SUBSET ids)
  OBVIOUS
<1>3. Chains(chain, sync, ids, SUBSET ids)
  BY <1>1, <1>2, ChainsExist
<1>4. findLongestSyncChain(sync, n) = chain[{}][n]
  BY <1>2 DEF findLongestSyncChain, Chains, ChainFrom
<1> QED BY <1>3, <1>4

\* An edge leads from m to n.
Leads(sync, m, n) == \E e \in sync : e.source = m /\ e.target = n

\* p leads from n through nodes that are not visited, and through none twice.
Walk(sync, ids, visited, n, p) ==
    /\ p \in Seq(ids) /\ p # <<>> /\ p[1] = n
    /\ \A i \in 1 .. Len(p) - 1 : Leads(sync, p[i], p[i + 1])
    /\ \A i, j \in 1 .. Len(p) : p[i] = p[j] => i = j
    /\ \A i \in 1 .. Len(p) : p[i] \notin visited

LEMMA WalkAlone ==
    ASSUME NEW sync, NEW ids, NEW visited, NEW n \in ids, n \notin visited
    PROVE  Walk(sync, ids, visited, n, <<n>>)
BY DEF Walk

LEMMA WalkOn ==
    ASSUME NEW sync, NEW ids, NEW visited, NEW n \in ids, n \notin visited, NEW m, Leads(sync, n, m),
           NEW q, Walk(sync, ids, visited \cup {n}, m, q)
    PROVE  Walk(sync, ids, visited, n, <<n>> \o q) /\ Len(<<n>> \o q) = Len(q) + 1
PROOF
<1>1. PICK p : p = <<n>> \o q
  OBVIOUS
<1>2. q \in Seq(ids) /\ Len(q) \in Nat /\ q # <<>> /\ q[1] = m /\ Len(q) >= 1
  BY DEF Walk
<1>3. p \in Seq(ids) /\ p # <<>> /\ Len(p) = Len(q) + 1 /\ p[1] = n
  BY <1>1, <1>2
<1>4. \A i \in 1 .. Len(q) : i + 1 \in 1 .. Len(p) /\ p[i + 1] = q[i]
  BY <1>1, <1>2, <1>3
<1>5. \A i \in 1 .. Len(p) : i = 1 \/ (i - 1 \in 1 .. Len(q) /\ p[i] = q[i - 1])
  BY <1>3, <1>4, <1>2
<1>6. \A i \in 1 .. Len(q) : q[i] \notin visited /\ q[i] # n
  BY DEF Walk
<1>7. ASSUME NEW i \in 1 .. Len(p) - 1 PROVE Leads(sync, p[i], p[i + 1])
  <2>1. CASE i = 1
    BY <1>2, <1>3, <1>4, <2>1
  <2>2. CASE i # 1
    <3>1. i - 1 \in 1 .. Len(q) - 1 /\ (i - 1) + 1 = i
      BY <1>2, <1>3, <2>2
    <3>2. p[i] = q[i - 1] /\ p[i + 1] = q[i]
      BY <1>2, <1>4, <3>1
    <3>3. Leads(sync, q[i - 1], q[(i - 1) + 1])
      BY <3>1 DEF Walk
    <3> QED BY <3>1, <3>2, <3>3
  <2> QED BY <2>1, <2>2
<1>8. ASSUME NEW i \in 1 .. Len(p), NEW j \in 1 .. Len(p), p[i] = p[j] PROVE i = j
  <2>1. i = 1 => j = 1
    BY <1>3, <1>5, <1>6, <1>8
  <2>2. j = 1 => i = 1
    BY <1>3, <1>5, <1>6, <1>8
  <2>3. ASSUME i # 1, j # 1 PROVE i = j
    <3>1. i - 1 \in 1 .. Len(q) /\ j - 1 \in 1 .. Len(q) /\ q[i - 1] = q[j - 1]
      BY <1>5, <1>8, <2>3
    <3>2. i - 1 = j - 1
      BY <3>1 DEF Walk
    <3> QED BY <3>2
  <2> QED BY <2>1, <2>2, <2>3
<1>9. \A i \in 1 .. Len(p) : p[i] \notin visited
  BY <1>3, <1>5, <1>6
<1> QED BY <1>1, <1>3, <1>7, <1>8, <1>9 DEF Walk

LEMMA WalkBehind ==
    ASSUME NEW sync, NEW ids, NEW visited, NEW n, NEW p, Walk(sync, ids, visited, n, p), Len(p) > 1
    PROVE  /\ Leads(sync, n, p[2])
           /\ Walk(sync, ids, visited \cup {n}, p[2], Tail(p))
           /\ Len(Tail(p)) = Len(p) - 1
PROOF
<1>1. PICK q : q = Tail(p)
  OBVIOUS
<1>2. p \in Seq(ids) /\ Len(p) \in Nat /\ p # <<>> /\ p[1] = n
  BY DEF Walk
<1>3. q \in Seq(ids) /\ Len(q) = Len(p) - 1 /\ q # <<>> /\ q[1] = p[2]
  BY <1>1, <1>2
<1>4. \A i \in 1 .. Len(q) : i + 1 \in 1 .. Len(p) /\ q[i] = p[i + 1]
  BY <1>1, <1>2, <1>3
<1>5. Leads(sync, p[1], p[1 + 1])
  BY <1>2 DEF Walk
<1>6. ASSUME NEW i \in 1 .. Len(q) - 1 PROVE Leads(sync, q[i], q[i + 1])
  <2>1. i + 1 \in 1 .. Len(p) - 1 /\ q[i] = p[i + 1] /\ q[i + 1] = p[(i + 1) + 1]
    BY <1>2, <1>3, <1>4
  <2>2. Leads(sync, p[i + 1], p[(i + 1) + 1])
    BY <2>1 DEF Walk
  <2> QED BY <2>1, <2>2
<1>7. ASSUME NEW i \in 1 .. Len(q), NEW j \in 1 .. Len(q), q[i] = q[j] PROVE i = j
  <2>1. i + 1 \in 1 .. Len(p) /\ j + 1 \in 1 .. Len(p) /\ p[i + 1] = p[j + 1]
    BY <1>4, <1>7
  <2>2. i + 1 = j + 1
    BY <2>1 DEF Walk
  <2> QED BY <2>2
<1>8. ASSUME NEW i \in 1 .. Len(q) PROVE q[i] \notin visited \cup {n}
  <2>1. i + 1 \in 1 .. Len(p) /\ 1 \in 1 .. Len(p) /\ q[i] = p[i + 1] /\ i + 1 # 1
    BY <1>2, <1>4
  <2>2. p[i + 1] \notin visited /\ p[i + 1] # p[1]
    BY <2>1 DEF Walk
  <2> QED BY <1>2, <2>1, <2>2
<1>9. Walk(sync, ids, visited \cup {n}, p[2], q)
  BY <1>3, <1>6, <1>7, <1>8 DEF Walk
<1> QED BY <1>1, <1>2, <1>3, <1>5, <1>9

LEMMA WalkShort ==
    ASSUME NEW sync, NEW ids, IsFiniteSet(ids), NEW visited, NEW n, NEW p, Walk(sync, ids, visited, n, p)
    PROVE  Len(p) \in Nat /\ Len(p) >= 1 /\ Len(p) <= Cardinality(ids)
PROOF
<1>1. p \in Seq(ids) /\ Len(p) \in Nat /\ Len(p) >= 1
  BY DEF Walk
<1>2. PICK k \in Nat : k = Len(p)
  BY <1>1
<1>3. p \in [1 .. k -> ids]
  BY <1>1, <1>2
<1>4. p \in Injection(1 .. k, ids)
  BY <1>2, <1>3 DEF Walk, Injection, IsInjective
<1>5. Cardinality(1 .. k) <= Cardinality(ids)
  BY <1>4, FS_Injection
<1>6. Cardinality(1 .. k) = k
  BY FS_Interval
<1> QED BY <1>1, <1>2, <1>5, <1>6

LEMMA WalkStarts ==
    ASSUME NEW sync, NEW ids, NEW visited, NEW n, NEW p, Walk(sync, ids, visited, n, p)
    PROVE  Len(p) >= 1 /\ p[1] = n /\ n \in ids /\ n \notin visited
PROOF
<1>1. p \in Seq(ids) /\ p # <<>> /\ p[1] = n
  BY DEF Walk
<1>2. 1 \in 1 .. Len(p)
  BY <1>1
<1>3. p[1] \notin visited
  BY <1>2 DEF Walk
<1> QED BY <1>1, <1>2, <1>3

Placed(sync) == \A e \in sync : e.at \in Nat

\* A set of lengths that are bounded has a greatest one.
LEMMA GreatestLength ==
    ASSUME NEW out, out # {}, NEW tails, NEW N \in Nat,
           \A e \in out : Len(tails[e]) \in Nat /\ Len(tails[e]) <= N
    PROVE  \E e \in out : \A f \in out : Len(tails[f]) <= Len(tails[e])
PROOF
<1> SUFFICES ASSUME \A e \in out : \E f \in out : ~(Len(tails[f]) <= Len(tails[e]))
             PROVE FALSE
  OBVIOUS
<1>1. PICK T : T = {k \in Nat : \E e \in out : N - Len(tails[e]) = k}
  OBVIOUS
<1>2. ASSUME NEW k \in T PROVE \E j \in T : j < k
  <2>1. PICK e \in out : N - Len(tails[e]) = k
    BY <1>1, <1>2
  <2>2. PICK f \in out : ~(Len(tails[f]) <= Len(tails[e]))
    OBVIOUS
  <2>3. Len(tails[e]) \in Nat /\ Len(tails[f]) \in Nat /\ Len(tails[f]) <= N
    OBVIOUS
  <2>4. N - Len(tails[f]) \in Nat /\ N - Len(tails[f]) < k
    BY <2>1, <2>2, <2>3
  <2> QED BY <1>1, <2>4
<1>3. T = {}
  <2>1. T \subseteq Nat
    BY <1>1
  <2> QED BY <1>2, <2>1, NoLeast
<1>4. PICK e \in out : TRUE
  OBVIOUS
<1>5. N - Len(tails[e]) \in Nat
  OBVIOUS
<1> QED BY <1>1, <1>3, <1>5

\* The first of the edges with such a length.
LEMMA FirstPlace ==
    ASSUME NEW S, S # {}, \A e \in S : e.at \in Nat
    PROVE  \E e \in S : \A f \in S : e.at <= f.at
PROOF
<1> SUFFICES ASSUME \A e \in S : \E f \in S : ~(e.at <= f.at) PROVE FALSE
  OBVIOUS
<1>1. PICK T : T = {e.at : e \in S}
  OBVIOUS
<1>2. ASSUME NEW k \in T PROVE \E j \in T : j < k
  <2>1. PICK e \in S : e.at = k
    BY <1>1, <1>2
  <2>2. PICK f \in S : ~(e.at <= f.at)
    OBVIOUS
  <2>3. e.at \in Nat /\ f.at \in Nat
    OBVIOUS
  <2>4. f.at \in T
    BY <1>1
  <2>5. f.at < k
    BY <2>1, <2>2, <2>3
  <2> QED BY <2>4, <2>5
<1>3. T = {}
  <2>1. T \subseteq Nat
    BY <1>1
  <2> QED BY <1>2, <2>1, NoLeast
<1> QED BY <1>1, <1>3

LEMMA LongestTailIs ==
    ASSUME NEW out, out # {}, NEW tails, NEW N \in Nat, \A e \in out : e.at \in Nat,
           \A e \in out : Len(tails[e]) \in Nat /\ Len(tails[e]) <= N
    PROVE  /\ LongestTail(tails, out) \in out
           /\ \A f \in out : Len(tails[f]) <= Len(tails[LongestTail(tails, out)])
PROOF
<1>1. PICK best \in out : \A f \in out : Len(tails[f]) <= Len(tails[best])
  BY GreatestLength
<1>2. PICK S : S = {e \in out : Len(tails[e]) = Len(tails[best])}
  OBVIOUS
<1>3. S # {} /\ \A e \in S : e.at \in Nat
  BY <1>2
<1>4. PICK e \in S : \A f \in S : e.at <= f.at
  BY <1>3, FirstPlace
<1>5. /\ e \in out
      /\ \A f \in out : \/ Len(tails[f]) < Len(tails[e])
                        \/ Len(tails[f]) = Len(tails[e]) /\ e.at <= f.at
  <2>1. e \in out /\ Len(tails[e]) = Len(tails[best])
    BY <1>2, <1>4
  <2>2. ASSUME NEW f \in out PROVE \/ Len(tails[f]) < Len(tails[e])
                                   \/ Len(tails[f]) = Len(tails[e]) /\ e.at <= f.at
    <3>1. Len(tails[f]) <= Len(tails[e]) /\ Len(tails[f]) \in Nat /\ Len(tails[e]) \in Nat
      BY <1>1, <2>1, <2>2
    <3>2. Len(tails[f]) = Len(tails[e]) => f \in S
      BY <1>2, <2>1, <2>2
    <3> QED BY <1>4, <3>1, <3>2
  <2> QED BY <2>1, <2>2
<1>6. PICK t : t = LongestTail(tails, out)
  OBVIOUS
<1>7. /\ t \in out
      /\ \A f \in out : \/ Len(tails[f]) < Len(tails[t])
                        \/ Len(tails[f]) = Len(tails[t]) /\ t.at <= f.at
  BY <1>5, <1>6 DEF LongestTail
<1> QED BY <1>6, <1>7

\* The chain from n is a walk, and no walk is longer.
Longest(chain, sync, ids, visited, n) ==
    IF n \in visited THEN chain[visited][n] = <<>>
    ELSE /\ Walk(sync, ids, visited, n, chain[visited][n])
         /\ \A p : Walk(sync, ids, visited, n, p) => Len(p) <= Len(chain[visited][n])

LEMMA LongestGoesOn ==
    ASSUME NEW sync, NEW ids, IsFiniteSet(ids), EndsIn(sync, ids), Placed(sync),
           NEW chain, Chains(chain, sync, ids, SUBSET ids), NEW visited \in SUBSET ids, NEW n \in ids,
           n \notin visited => \A m \in ids : Longest(chain, sync, ids, visited \cup {n}, m)
    PROVE  Longest(chain, sync, ids, visited, n)
PROOF
<1>1. chain[visited][n] = ChainFrom(chain, sync, visited, n)
  BY DEF Chains
<1>2. CASE n \in visited
  BY <1>1, <1>2 DEF ChainFrom, Longest
<1>3. CASE n \notin visited
  <2>1. PICK out : out = {e \in sync : e.source = n}
    OBVIOUS
  <2>2. PICK next : next = visited \cup {n}
    OBVIOUS
  <2>3. PICK tails : tails = [e \in out |-> chain[next][e.target]]
    OBVIOUS
  <2>4. chain[visited][n] = IF out = {} THEN <<n>> ELSE <<n>> \o tails[LongestTail(tails, out)]
    BY <1>1, <1>3, <2>1, <2>2, <2>3 DEF ChainFrom
  <2>5. PICK N : N = Cardinality(ids)
    OBVIOUS
  <2>6. N \in Nat
    BY <2>5, FS_CardinalityType
  <2>7. ASSUME NEW p, Walk(sync, ids, visited, n, p), Len(p) > 1
        PROVE  \E e \in out : /\ Walk(sync, ids, next, e.target, tails[e])
                              /\ Len(p) - 1 <= Len(tails[e])
    <3>1. Leads(sync, n, p[2]) /\ Walk(sync, ids, next, p[2], Tail(p)) /\ Len(Tail(p)) = Len(p) - 1
      BY <2>2, <2>7, WalkBehind
    <3>2. PICK e \in out : e.target = p[2]
      BY <2>1, <3>1 DEF Leads
    <3>3. e.target \in ids /\ Longest(chain, sync, ids, next, e.target)
      BY <1>3, <2>1, <2>2, <3>2 DEF EndsIn
    <3>4. p[2] \notin next
      BY <3>1, WalkStarts
    <3>5. Walk(sync, ids, next, e.target, chain[next][e.target])
          /\ Len(Tail(p)) <= Len(chain[next][e.target])
      BY <3>1, <3>2, <3>3, <3>4 DEF Longest
    <3> QED BY <2>3, <3>1, <3>2, <3>5
  <2>8. ASSUME NEW p, Walk(sync, ids, visited, n, p) PROVE Len(p) \in Nat /\ Len(p) >= 1
    BY <2>8, WalkShort
  <2>9. CASE out = {}
    <3>1. Walk(sync, ids, visited, n, <<n>>) /\ chain[visited][n] = <<n>>
      BY <1>3, <2>4, <2>9, WalkAlone
    <3>2. ASSUME NEW p, Walk(sync, ids, visited, n, p) PROVE Len(p) <= Len(<<n>>)
      BY <2>7, <2>8, <2>9, <3>2
    <3> QED BY <1>3, <3>1, <3>2 DEF Longest
  <2>10. CASE out # {}
    <3>1. ASSUME NEW e \in out
          PROVE  /\ e.at \in Nat /\ e.target \in ids /\ Leads(sync, n, e.target)
                 /\ Longest(chain, sync, ids, next, e.target) /\ tails[e] = chain[next][e.target]
      BY <1>3, <2>1, <2>2, <2>3, <3>1 DEF EndsIn, Placed, Leads
    <3>2. ASSUME NEW e \in out
          PROVE  /\ \/ tails[e] = <<>> /\ Len(tails[e]) = 0
                    \/ Walk(sync, ids, next, e.target, tails[e])
                 /\ Len(tails[e]) \in Nat /\ Len(tails[e]) <= N
      <4>1. CASE e.target \in next
        <5>1. tails[e] = <<>>
          BY <3>1, <4>1 DEF Longest
        <5> QED BY <2>6, <5>1
      <4>2. CASE e.target \notin next
        <5>1. Walk(sync, ids, next, e.target, tails[e])
          BY <3>1, <4>2 DEF Longest
        <5> QED BY <2>5, <5>1, WalkShort
      <4> QED BY <4>1, <4>2
    <3>3. PICK t : t = LongestTail(tails, out)
      OBVIOUS
    <3>4. t \in out /\ \A e \in out : Len(tails[e]) <= Len(tails[t])
      BY <2>6, <2>10, <3>1, <3>2, <3>3, LongestTailIs
    <3>5. PICK c : c = <<n>> \o tails[t]
      OBVIOUS
    <3>6. chain[visited][n] = c
      BY <2>4, <2>10, <3>3, <3>5
    <3>7. Walk(sync, ids, visited, n, c) /\ Len(c) = Len(tails[t]) + 1
      <4>1. CASE tails[t] = <<>>
        <5>1. c = <<n>>
          BY <3>5, <4>1
        <5> QED BY <1>3, <4>1, <5>1, WalkAlone
      <4>2. CASE Walk(sync, ids, next, t.target, tails[t])
        BY <1>3, <2>2, <3>1, <3>4, <3>5, <4>2, WalkOn
      <4> QED BY <3>2, <3>4, <4>1, <4>2
    <3>8. ASSUME NEW p, Walk(sync, ids, visited, n, p) PROVE Len(p) <= Len(c)
      <4>1. Len(p) \in Nat /\ Len(p) >= 1 /\ Len(tails[t]) \in Nat
        BY <2>8, <3>2, <3>4, <3>8
      <4>2. CASE Len(p) > 1
        <5>1. PICK e \in out : Len(p) - 1 <= Len(tails[e])
          BY <2>7, <3>8, <4>2
        <5>2. Len(tails[e]) <= Len(tails[t]) /\ Len(tails[e]) \in Nat
          BY <3>2, <3>4
        <5> QED BY <3>7, <4>1, <5>1, <5>2
      <4>3. CASE ~(Len(p) > 1)
        BY <3>7, <4>1, <4>3
      <4> QED BY <4>2, <4>3
    <3> QED BY <1>3, <3>6, <3>7, <3>8 DEF Longest
  <2> QED BY <2>9, <2>10
<1> QED BY <1>2, <1>3

LEMMA ChainsAreLongest ==
    ASSUME NEW sync, NEW ids, IsFiniteSet(ids), EndsIn(sync, ids), Placed(sync),
           NEW chain, Chains(chain, sync, ids, SUBSET ids), NEW visited \in SUBSET ids, NEW n \in ids
    PROVE  Longest(chain, sync, ids, visited, n)
PROOF
<1> DEFINE Wrong(v) == \E m \in ids : ~Longest(chain, sync, ids, v, m)
           T == {k \in Nat : \E v \in SUBSET ids : Cardinality(ids \ v) = k /\ Wrong(v)}
<1>1. ASSUME NEW k \in T PROVE \E j \in T : j < k
  <2>1. PICK v \in SUBSET ids : Cardinality(ids \ v) = k /\ Wrong(v)
    BY <1>1
  <2>2. PICK m \in ids : ~Longest(chain, sync, ids, v, m)
    BY <2>1
  <2>3. m \notin v /\ ~\A l \in ids : Longest(chain, sync, ids, v \cup {m}, l)
    BY <2>2, LongestGoesOn
  <2>4. PICK next : next = v \cup {m}
    OBVIOUS
  <2>5. next \in SUBSET ids /\ Wrong(next) /\ Cardinality(ids \ next) = k - 1
    <3>1. Wrong(next)
      BY <2>3, <2>4
    <3>2. next \in SUBSET ids /\ Cardinality(ids \ next) = Cardinality(ids \ v) - 1
      BY <2>3, <2>4, VisitOne
    <3> QED BY <2>1, <3>1, <3>2
  <2>6. IsFiniteSet(ids \ next)
    BY FS_Subset
  <2>7. k - 1 \in Nat /\ k - 1 < k
    BY <2>5, <2>6, FS_CardinalityType
  <2> QED BY <2>5, <2>7
<1>2. T = {}
  <2> HIDE DEF T
  <2>1. T \subseteq Nat
    BY DEF T
  <2> QED BY <1>1, <2>1, NoLeast
<1>3. IsFiniteSet(ids \ visited)
  BY FS_Subset
<1>4. PICK k : k = Cardinality(ids \ visited)
  OBVIOUS
<1>5. k \in Nat
  BY <1>3, <1>4, FS_CardinalityType
<1>6. ~Wrong(visited)
  BY <1>2, <1>4, <1>5
<1> QED BY <1>6

LEMMA WalkLonger ==
    ASSUME NEW sync, NEW ids, NEW n, NEW p, Walk(sync, ids, {}, n, p), NEW m \in ids,
           Leads(sync, p[Len(p)], m), \A i \in 1 .. Len(p) : p[i] # m
    PROVE  Walk(sync, ids, {}, n, Append(p, m)) /\ Len(Append(p, m)) = Len(p) + 1 /\ Append(p, m)[1] = n
PROOF
<1>1. PICK q : q = Append(p, m)
  OBVIOUS
<1>2. p \in Seq(ids) /\ p # <<>> /\ p[1] = n /\ Len(p) \in Nat /\ Len(p) >= 1
  BY DEF Walk
<1>3. q \in Seq(ids) /\ q # <<>> /\ Len(q) = Len(p) + 1 /\ q[Len(p) + 1] = m
  BY <1>1, <1>2
<1>4. \A i \in 1 .. Len(p) : q[i] = p[i]
  BY <1>1, <1>2
<1>5. q[1] = n
  BY <1>2, <1>4
<1>6. ASSUME NEW i \in 1 .. Len(q) - 1 PROVE Leads(sync, q[i], q[i + 1])
  <2>1. CASE i = Len(p)
    BY <1>2, <1>3, <1>4, <2>1
  <2>2. CASE i # Len(p)
    <3>1. i \in 1 .. Len(p) - 1 /\ i \in 1 .. Len(p) /\ i + 1 \in 1 .. Len(p)
      BY <1>2, <1>3, <2>2
    <3>2. Leads(sync, p[i], p[i + 1])
      BY <3>1 DEF Walk
    <3> QED BY <1>4, <3>1, <3>2
  <2> QED BY <2>1, <2>2
<1>7. ASSUME NEW i \in 1 .. Len(q), NEW j \in 1 .. Len(q), q[i] = q[j] PROVE i = j
  <2>1. i \in 1 .. Len(p) \/ i = Len(p) + 1
    BY <1>2, <1>3
  <2>2. j \in 1 .. Len(p) \/ j = Len(p) + 1
    BY <1>2, <1>3
  <2>3. i \in 1 .. Len(p) /\ j \in 1 .. Len(p) => i = j
    BY <1>4, <1>7 DEF Walk
  <2>4. i \in 1 .. Len(p) => j # Len(p) + 1
    BY <1>3, <1>4, <1>7
  <2>5. j \in 1 .. Len(p) => i # Len(p) + 1
    BY <1>3, <1>4, <1>7
  <2> QED BY <2>1, <2>2, <2>3, <2>4, <2>5
<1>8. Walk(sync, ids, {}, n, q)
  BY <1>3, <1>5, <1>6, <1>7 DEF Walk
<1> QED BY <1>1, <1>3, <1>5, <1>8

LEMMA WalkShorter ==
    ASSUME NEW sync, NEW ids, NEW n, NEW p, Walk(sync, ids, {}, n, p), Len(p) > 1
    PROVE  \E q : \E e \in sync : /\ Walk(sync, ids, {}, n, q) /\ Len(q) = Len(p) - 1 /\ q[1] = n
                                  /\ e.source = q[Len(q)] /\ \A i \in 1 .. Len(q) : q[i] # e.target
                                  /\ p = Append(q, e.target)
PROOF
<1>1. PICK q : q = [i \in 1 .. Len(p) - 1 |-> p[i]]
  OBVIOUS
<1>2. p \in Seq(ids) /\ p[1] = n /\ Len(p) \in Nat /\ Len(p) >= 2
  BY DEF Walk
<1>3. q \in Seq(ids) /\ q # <<>> /\ Len(q) = Len(p) - 1 /\ \A i \in 1 .. Len(q) : q[i] = p[i]
  <2>1. PICK k \in Nat : k = Len(p) - 1 /\ k >= 1
    BY <1>2
  <2>2. q = [i \in 1 .. k |-> p[i]] /\ \A i \in 1 .. k : p[i] \in ids
    BY <1>1, <1>2, <2>1
  <2>3. q \in Seq(ids) /\ Len(q) = k /\ \A i \in 1 .. k : q[i] = p[i]
    BY <2>1, <2>2
  <2> QED BY <2>1, <2>3
<1>4. Len(q) \in Nat /\ Len(q) >= 1 /\ Len(q) + 1 = Len(p) /\ q[1] = n /\ q[Len(q)] = p[Len(q)]
  BY <1>2, <1>3
<1>5. PICK k \in Nat : k = Len(q)
  BY <1>4
<1>6. Leads(sync, p[k], p[k + 1])
  BY <1>3, <1>4, <1>5 DEF Walk
<1>7. PICK e \in sync : e.source = q[k] /\ e.target = p[k + 1]
  BY <1>4, <1>5, <1>6 DEF Leads
<1>8. p = Append(q, e.target)
  <2>1. Append(q, e.target) \in Seq(ids \cup {e.target}) /\ p \in Seq(ids \cup {e.target})
    BY <1>2, <1>3
  <2>2. Len(Append(q, e.target)) = Len(p)
    BY <1>3, <1>4
  <2>3. \A i \in 1 .. Len(p) : Append(q, e.target)[i] = p[i]
    BY <1>3, <1>4, <1>5, <1>7
  <2> QED BY <2>1, <2>2, <2>3
<1>9. ASSUME NEW i \in 1 .. Len(q) PROVE q[i] # e.target
  <2>1. i \in 1 .. Len(p) /\ k + 1 \in 1 .. Len(p) /\ i # k + 1
    BY <1>4, <1>5
  <2>2. p[i] # p[k + 1]
    BY <2>1 DEF Walk
  <2> QED BY <1>3, <1>7, <2>2
<1>10. Walk(sync, ids, {}, n, q)
  <2>1. ASSUME NEW i \in 1 .. Len(q) - 1 PROVE Leads(sync, q[i], q[i + 1])
    <3>1. i \in 1 .. Len(p) - 1 /\ i \in 1 .. Len(q) /\ i + 1 \in 1 .. Len(q)
      BY <1>4
    <3>2. Leads(sync, p[i], p[i + 1])
      BY <3>1 DEF Walk
    <3> QED BY <1>3, <3>1, <3>2
  <2>2. ASSUME NEW i \in 1 .. Len(q), NEW j \in 1 .. Len(q), q[i] = q[j] PROVE i = j
    <3>1. i \in 1 .. Len(p) /\ j \in 1 .. Len(p) /\ p[i] = p[j]
      BY <1>3, <1>4, <2>2
    <3> QED BY <3>1 DEF Walk
  <2> QED BY <1>3, <1>4, <2>1, <2>2 DEF Walk
<1> QED BY <1>3, <1>4, <1>5, <1>7, <1>8, <1>9, <1>10

\* The nodes of a walk are its first one and the ends of edges.
LEMMA WalkWithin ==
    ASSUME NEW sync, NEW ids, NEW some, NEW n, some = {n} \cup {e.source : e \in sync} \cup {e.target : e \in sync},
           some \subseteq ids, NEW p
    PROVE  Walk(sync, some, {}, n, p) <=> Walk(sync, ids, {}, n, p)
PROOF
<1>1. Walk(sync, some, {}, n, p) => Walk(sync, ids, {}, n, p)
  <2>1. p \in Seq(some) => p \in Seq(ids)
    OBVIOUS
  <2> QED BY <2>1 DEF Walk
<1>2. ASSUME Walk(sync, ids, {}, n, p) PROVE Walk(sync, some, {}, n, p)
  <2>1. p \in Seq(ids) /\ p[1] = n /\ Len(p) \in Nat
    BY <1>2 DEF Walk
  <2>2. ASSUME NEW i \in 1 .. Len(p) PROVE p[i] \in some
    <3>1. CASE i = 1
      BY <2>1, <3>1
    <3>2. CASE i # 1
      <4>1. i - 1 \in 1 .. Len(p) - 1 /\ (i - 1) + 1 = i
        BY <2>1, <3>2
      <4>2. Leads(sync, p[i - 1], p[(i - 1) + 1])
        BY <1>2, <4>1 DEF Walk
      <4> QED BY <4>1, <4>2 DEF Leads
    <3> QED BY <3>1, <3>2
  <2>3. p \in Seq(some)
    BY <2>1, <2>2
  <2> QED BY <1>2, <2>3 DEF Walk
<1> QED BY <1>1, <1>2

\* The search finds a walk, and none is longer.
LEMMA LongestFound ==
    ASSUME NEW sync, NEW ids, IsFiniteSet(ids), EndsIn(sync, ids), Placed(sync), NEW n \in ids,
           NEW s, s = findLongestSyncChain(sync, n)
    PROVE  Walk(sync, ids, {}, n, s) /\ \A p : Walk(sync, ids, {}, n, p) => Len(p) <= Len(s)
PROOF
<1>1. PICK some : some = {n} \cup {e.source : e \in sync} \cup {e.target : e \in sync}
  OBVIOUS
<1>2. some \subseteq ids
  BY <1>1 DEF EndsIn
<1>3. IsFiniteSet(some) /\ n \in some /\ EndsIn(sync, some)
  BY <1>1, <1>2, FS_Subset DEF EndsIn
<1>4. PICK chain : Chains(chain, sync, some, SUBSET some) /\ s = chain[{}][n]
  BY <1>1, <1>3, ChainIs
<1>5. {} \in SUBSET some
  OBVIOUS
<1>6. Longest(chain, sync, some, {}, n)
  BY <1>3, <1>4, <1>5, ChainsAreLongest
<1>7. Walk(sync, some, {}, n, s) /\ \A p : Walk(sync, some, {}, n, p) => Len(p) <= Len(s)
  BY <1>4, <1>6 DEF Longest
<1> QED BY <1>1, <1>2, <1>7, WalkWithin

-----------------------------------------------------------------------------
(* The paths.                                                              *)

Application(c) == Ids(c) \ OfType(c, INFRASTRUCTURE_TYPES)

\* The edges along which the path p goes on.
OnwardFrom(c, p) == {e \in SyncEdges(c) : e.source = Last(p) /\ ~Contains(p, e.target)}

PathsFrom(paths, c, k) ==
    IF k = 1 THEN {<<n>> : n \in Application(c)}
    ELSE UNION {{Append(p, e.target) : e \in OnwardFrom(c, p)} : p \in paths[k - 1]}

PathsUpTo(paths, c, n) == paths = [k \in 1 .. n |-> PathsFrom(paths, c, k)]

LEMMA PathsGoOn ==
    ASSUME NEW c, NEW j \in Nat, NEW f, PathsUpTo(f, c, j)
    PROVE  \E g : PathsUpTo(g, c, j + 1)
PROOF
<1>1. PICK g : g = [k \in 1 .. j + 1 |-> PathsFrom(f, c, k)]
  OBVIOUS
<1>2. ASSUME NEW k \in 1 .. j + 1 PROVE PathsFrom(f, c, k) = PathsFrom(g, c, k)
  <2>1. CASE k = 1
    BY <2>1 DEF PathsFrom
  <2>2. CASE k # 1
    <3>1. k - 1 \in 1 .. j /\ k - 1 \in 1 .. j + 1
      BY <2>2
    <3>2. f[k - 1] = PathsFrom(f, c, k - 1)
      BY <3>1 DEF PathsUpTo
    <3>3. g[k - 1] = PathsFrom(f, c, k - 1)
      BY <1>1, <3>1
    <3>4. f[k - 1] = g[k - 1]
      BY <3>2, <3>3
    <3> QED BY <2>2, <3>4 DEF PathsFrom
  <2> QED BY <2>1, <2>2
<1>3. g = [k \in 1 .. j + 1 |-> PathsFrom(g, c, k)]
  BY <1>1, <1>2
<1> QED BY <1>3 DEF PathsUpTo

LEMMA PathsExist ==
    ASSUME NEW c, NEW n \in Nat
    PROVE  \E f : PathsUpTo(f, c, n)
PROOF
<1> DEFINE T == {j \in Nat : ~\E f : PathsUpTo(f, c, j)}
<1>1. ASSUME NEW j \in T PROVE \E i \in T : i < j
  <2>1. CASE j = 0
    <3>1. PICK f : f = [k \in 1 .. 0 |-> {}]
      OBVIOUS
    <3>2. PathsUpTo(f, c, 0)
      BY <3>1 DEF PathsUpTo
    <3> QED BY <2>1, <3>2
  <2>2. CASE j # 0
    <3>1. j - 1 \in Nat /\ (j - 1) + 1 = j /\ j - 1 < j
      BY <2>2
    <3>2. j - 1 \notin T => \E f : PathsUpTo(f, c, j - 1)
      BY <3>1
    <3>3. j - 1 \notin T => \E f : PathsUpTo(f, c, (j - 1) + 1)
      BY <3>1, <3>2, PathsGoOn
    <3> QED BY <3>1, <3>3
  <2> QED BY <2>1, <2>2
<1>2. T = {}
  <2> HIDE DEF T
  <2>1. T \subseteq Nat
    BY DEF T
  <2> QED BY <1>1, <2>1, NoLeast
<1> QED BY <1>2

LEMMA PathsIs ==
    ASSUME IsFiniteSet(Ids(canvas))
    PROVE  Paths = [k \in 1 .. Cardinality(Ids(canvas)) |-> PathsFrom(Paths, canvas, k)]
PROOF
<1>1. PICK N : N = Cardinality(Ids(canvas))
  OBVIOUS
<1>2. N \in Nat
  BY <1>1, FS_CardinalityType
<1>3. Paths = CHOOSE f : f = [k \in 1 .. N |-> PathsFrom(f, canvas, k)]
  BY <1>1 DEF Paths, PathsFrom, Application, OnwardFrom
<1>4. \E f : f = [k \in 1 .. N |-> PathsFrom(f, canvas, k)]
  BY <1>2, PathsExist DEF PathsUpTo
<1> QED BY <1>1, <1>3, <1>4

\* A walk of k nodes from an application node.
IsPath(c, k, p) ==
    Walk(SyncEdges(c), Ids(c), {}, p[1], p) /\ Len(p) = k /\ p[1] \in Application(c)

PathsRight(paths, c, k) == \A p : p \in paths[k] <=> IsPath(c, k, p)

LEMMA PathsStart ==
    ASSUME NEW c, NEW paths, paths[1] = PathsFrom(paths, c, 1)
    PROVE  PathsRight(paths, c, 1)
PROOF
<1>1. \A p : p \in paths[1] <=> \E n \in Application(c) : p = <<n>>
  BY DEF PathsFrom
<1>2. ASSUME NEW n \in Application(c) PROVE IsPath(c, 1, <<n>>)
  <2>1. n \in Ids(c) /\ <<n>>[1] = n /\ Len(<<n>>) = 1
    BY DEF Application
  <2>2. Walk(SyncEdges(c), Ids(c), {}, n, <<n>>)
    BY <2>1, WalkAlone
  <2> QED BY <2>1, <2>2 DEF IsPath
<1>3. ASSUME NEW p, IsPath(c, 1, p) PROVE p = <<p[1]>> /\ p[1] \in Application(c)
  BY <1>3 DEF IsPath, Walk
<1>4. ASSUME NEW p PROVE p \in paths[1] <=> IsPath(c, 1, p)
  BY <1>1, <1>2, <1>3
<1> QED BY <1>4 DEF PathsRight

LEMMA PathsNext ==
    ASSUME NEW c, EndsIn(SyncEdges(c), Ids(c)), NEW k \in Nat, k > 1, NEW paths,
           paths[k] = PathsFrom(paths, c, k), PathsRight(paths, c, k - 1)
    PROVE  PathsRight(paths, c, k)
PROOF
<1>1. \A p : p \in paths[k] <=> \E q \in paths[k - 1] : \E e \in OnwardFrom(c, q) : p = Append(q, e.target)
  BY DEF PathsFrom
<1>2. ASSUME NEW q \in paths[k - 1], NEW e \in OnwardFrom(c, q) PROVE IsPath(c, k, Append(q, e.target))
  <2>1. IsPath(c, k - 1, q)
    BY DEF PathsRight
  <2>2. PICK n : n = q[1]
    OBVIOUS
  <2>3. Walk(SyncEdges(c), Ids(c), {}, n, q) /\ Len(q) = k - 1 /\ n \in Application(c)
    BY <2>1, <2>2 DEF IsPath
  <2>4. e \in SyncEdges(c) /\ e.source = q[Len(q)] /\ \A i \in 1 .. Len(q) : q[i] # e.target
    BY DEF OnwardFrom, Last, Contains
  <2>5. e.target \in Ids(c) /\ Leads(SyncEdges(c), q[Len(q)], e.target)
    BY <2>4 DEF EndsIn, Leads
  <2>6. PICK p : p = Append(q, e.target)
    OBVIOUS
  <2>7. Walk(SyncEdges(c), Ids(c), {}, n, p) /\ Len(p) = Len(q) + 1 /\ p[1] = n
    BY <2>3, <2>4, <2>5, <2>6, WalkLonger
  <2> QED BY <2>3, <2>6, <2>7 DEF IsPath
<1>3. ASSUME NEW p, IsPath(c, k, p)
      PROVE  \E q \in paths[k - 1] : \E e \in OnwardFrom(c, q) : p = Append(q, e.target)
  <2>1. PICK n : n = p[1]
    OBVIOUS
  <2>2. Walk(SyncEdges(c), Ids(c), {}, n, p) /\ Len(p) = k /\ Len(p) > 1 /\ n \in Application(c)
    BY <1>3, <2>1 DEF IsPath
  <2>3. PICK q : \E e \in SyncEdges(c) :
                    /\ Walk(SyncEdges(c), Ids(c), {}, n, q) /\ Len(q) = Len(p) - 1 /\ q[1] = n
                    /\ e.source = q[Len(q)] /\ \A i \in 1 .. Len(q) : q[i] # e.target
                    /\ p = Append(q, e.target)
    BY <2>2, WalkShorter
  <2>4. PICK e \in SyncEdges(c) :
                    /\ Walk(SyncEdges(c), Ids(c), {}, n, q) /\ Len(q) = Len(p) - 1 /\ q[1] = n
                    /\ e.source = q[Len(q)] /\ \A i \in 1 .. Len(q) : q[i] # e.target
                    /\ p = Append(q, e.target)
    BY <2>3
  <2>5. IsPath(c, k - 1, q)
    BY <2>2, <2>4 DEF IsPath
  <2>6. q \in paths[k - 1]
    BY <2>5 DEF PathsRight
  <2>7. e \in OnwardFrom(c, q)
    BY <2>4 DEF OnwardFrom, Last, Contains
  <2> QED BY <2>4, <2>6, <2>7
<1>4. ASSUME NEW p, p \in paths[k] PROVE IsPath(c, k, p)
  <2>1. PICK q \in paths[k - 1] : \E e \in OnwardFrom(c, q) : p = Append(q, e.target)
    BY <1>1, <1>4
  <2>2. PICK e \in OnwardFrom(c, q) : p = Append(q, e.target)
    BY <2>1
  <2>3. IsPath(c, k, Append(q, e.target))
    BY <1>2
  <2> QED BY <2>2, <2>3
<1>5. ASSUME NEW p, IsPath(c, k, p) PROVE p \in paths[k]
  BY <1>1, <1>3, <1>5
<1> QED BY <1>4, <1>5 DEF PathsRight

LEMMA PathsAre ==
    ASSUME IsFiniteSet(Ids(canvas)), EndsIn(SyncEdges(canvas), Ids(canvas)),
           NEW k \in 1 .. Cardinality(Ids(canvas))
    PROVE  \A p : p \in Paths[k] <=> IsPath(canvas, k, p)
PROOF
<1>1. PICK N : N = Cardinality(Ids(canvas))
  OBVIOUS
<1>2. N \in Nat
  BY <1>1, FS_CardinalityType
<1>3. \A j \in 1 .. N : Paths[j] = PathsFrom(Paths, canvas, j)
  BY <1>1, PathsIs
<1> DEFINE T == {j \in 1 .. N : ~PathsRight(Paths, canvas, j)}
<1>4. ASSUME NEW j \in T PROVE \E i \in T : i < j
  <2>1. j \in 1 .. N /\ j \in Nat /\ ~PathsRight(Paths, canvas, j)
    BY <1>2
  <2>2. j # 1
    BY <1>3, <2>1, PathsStart
  <2>3. j > 1 /\ j - 1 \in 1 .. N /\ j - 1 < j
    BY <1>2, <2>1, <2>2
  <2>4. ~PathsRight(Paths, canvas, j - 1)
    BY <1>3, <2>1, <2>3, PathsNext
  <2> QED BY <2>3, <2>4
<1>5. T = {}
  <2> HIDE DEF T
  <2>1. T \subseteq Nat
    BY <1>2 DEF T
  <2> QED BY <1>4, <2>1, NoLeast
<1>6. PathsRight(Paths, canvas, k)
  BY <1>1, <1>5
<1> QED BY <1>6 DEF PathsRight

-----------------------------------------------------------------------------
(* The places of the edges, and what rule 3 reports.                       *)

PlacesInv == \A e \in canvas.edges : e.at \in Nat

LEMMA FiniteIsBounded ==
    ASSUME NEW S, IsFiniteSet(S), \A e \in S : e.at \in Nat
    PROVE  \E b \in Nat : \A e \in S : e.at <= b
PROOF
<1>1. PICK n \in Nat : n = Cardinality(S)
  BY FS_CardinalityType
<1>2. PICK f \in [1 .. n -> S] : \A e \in S : \E i \in 1 .. n : f[i] = e
  <2>1. PICK g \in Bijection(1 .. n, S) : TRUE
    BY <1>1, FS_CardinalityType DEF ExistsBijection
  <2>2. g \in [1 .. n -> S] /\ \A e \in S : \E i \in 1 .. n : g[i] = e
    BY <2>1 DEF Bijection, Surjection, Injection
  <2> QED BY <2>2
<1> DEFINE T == {j \in 0 .. n : ~\E b \in Nat : \A i \in 1 .. j : f[i].at <= b}
<1>3. ASSUME NEW j \in T PROVE \E i \in T : i < j
  <2>1. CASE j = 0
    <3>1. \A i \in 1 .. 0 : f[i].at <= 0
      OBVIOUS
    <3> QED BY <2>1, <3>1
  <2>2. CASE j # 0
    <3>1. j - 1 \in 0 .. n /\ j - 1 < j /\ j \in 1 .. n
      BY <2>2
    <3>2. ASSUME NEW b \in Nat, \A i \in 1 .. j - 1 : f[i].at <= b
          PROVE  \E d \in Nat : \A i \in 1 .. j : f[i].at <= d
      <4>1. f[j].at \in Nat
        BY <3>1
      <4>2. \A i \in 1 .. j : f[i].at \in Nat /\ (i \in 1 .. j - 1 \/ i = j)
        BY <3>1
      <4>3. \A i \in 1 .. j : f[i].at <= b + f[j].at
        BY <3>2, <4>1, <4>2
      <4>4. b + f[j].at \in Nat
        BY <4>1
      <4> QED BY <4>3, <4>4
    <3>3. j - 1 \in T
      BY <3>1, <3>2
    <3> QED BY <3>1, <3>3
  <2> QED BY <2>1, <2>2
<1>4. T = {}
  <2> HIDE DEF T
  <2>1. T \subseteq Nat
    BY DEF T
  <2> QED BY <1>3, <2>1, NoLeast
<1>5. n \in 0 .. n /\ n \notin T
  <2>1. n \in 0 .. n
    OBVIOUS
  <2> HIDE DEF T
  <2> QED BY <1>4, <2>1
<1>6. PICK b \in Nat : \A i \in 1 .. n : f[i].at <= b
  BY <1>5
<1> QED BY <1>2, <1>6

LEMMA AboveIs ==
    ASSUME NEW S, IsFiniteSet(S), \A e \in S : e.at \in Nat
    PROVE  Above({e.at : e \in S}) \in Nat
PROOF
<1>1. PICK M : M = {e.at : e \in S} \cup {0}
  OBVIOUS
<1>2. PICK b \in Nat : \A e \in S : e.at <= b
  BY FiniteIsBounded
<1>3. M \subseteq Nat /\ M # {} /\ \A m \in M : m <= b
  BY <1>1, <1>2
<1>4. PICK T : T = {k \in Nat : \E m \in M : b - m = k}
  OBVIOUS
<1>5. ASSUME \A m \in M : \E l \in M : ~(m >= l) PROVE FALSE
  <2>1. ASSUME NEW k \in T PROVE \E j \in T : j < k
    <3>1. PICK m \in M : b - m = k
      BY <1>4, <2>1
    <3>2. PICK l \in M : ~(m >= l)
      BY <1>5
    <3>3. m \in Nat /\ l \in Nat /\ l <= b
      BY <1>3
    <3>4. b - l \in Nat /\ b - l < k
      BY <3>1, <3>2, <3>3
    <3> QED BY <1>4, <3>4
  <2>2. T \subseteq Nat
    BY <1>4
  <2>3. T = {}
    BY <2>1, <2>2, NoLeast
  <2>4. 0 \in M /\ b - 0 \in Nat
    BY <1>1
  <2> QED BY <1>4, <2>3, <2>4
<1>6. PICK top \in M : \A m \in M : top >= m
  BY <1>5
<1>7. Max(M) \in M
  BY <1>6 DEF Max
<1>8. Max(M) \in Nat
  BY <1>3, <1>7
<1> QED BY <1>1, <1>8 DEF Above

LEMMA InitPlaced == Init => PlacesInv
BY StartsAssumption DEF Init, PlacesInv, Canvas

LEMMA NextPlaced == AnalysisInv /\ PlacesInv /\ [Next]_vars => PlacesInv'
PROOF
<1> SUFFICES ASSUME AnalysisInv, PlacesInv, [Next]_vars PROVE PlacesInv'
  OBVIOUS
<1>1. canvas = [type |-> canvas.type, edges |-> canvas.edges] /\ IsFiniteSet(canvas.edges)
  BY DEF AnalysisInv, ShapeInv
<1>2. CASE UNCHANGED vars
  BY <1>2 DEF vars, PlacesInv
<1>3. ASSUME NEW type \in NodeTypes, AddNode(type) PROVE PlacesInv'
  <2>1. canvas'.edges = canvas.edges
    BY <1>1, <1>3 DEF AddNode, Becomes
  <2> QED BY <2>1 DEF PlacesInv
<1>4. ASSUME NEW n \in Ids(canvas), DeleteNode(n) PROVE PlacesInv'
  <2>1. canvas'.edges \subseteq canvas.edges
    BY <1>4 DEF DeleteNode, Becomes
  <2> QED BY <2>1 DEF PlacesInv
<1>5. ASSUME NEW m \in Ids(canvas), NEW n \in Ids(canvas), NEW type \in EdgeTypes, AddEdge(m, n, type)
      PROVE  PlacesInv'
  <2>1. PICK at : at = Above({e.at : e \in canvas.edges})
    OBVIOUS
  <2>2. at \in Nat
    BY <1>1, <2>1, AboveIs DEF PlacesInv
  <2>3. canvas'.edges = canvas.edges \cup {Edge(at, m, n, type)}
    BY <1>1, <1>5, <2>1 DEF AddEdge, Becomes
  <2>4. Edge(at, m, n, type).at = at
    BY DEF Edge
  <2> QED BY <2>2, <2>3, <2>4 DEF PlacesInv
<1>6. ASSUME NEW e \in canvas.edges, DeleteEdge(e) PROVE PlacesInv'
  <2>1. canvas'.edges \subseteq canvas.edges
    BY <1>1, <1>6 DEF DeleteEdge, Becomes
  <2> QED BY <2>1 DEF PlacesInv
<1> QED BY <1>2, <1>3, <1>4, <1>5, <1>6 DEF Next

\* What rule 3 finds in a canvas whose paths are long.
LEMMA CascadesFound ==
    ASSUME NEW c, IsFiniteSet(Ids(c)), EndsIn(SyncEdges(c), Ids(c)), Placed(SyncEdges(c))
    PROVE  /\ \A k \in Nat : \A p : k >= 4 /\ IsPath(c, k, p) => p[1] \in checkCascadingFailure(c)
           /\ \A n \in checkCascadingFailure(c) :
                \E k \in 4 .. Cardinality(Ids(c)) : \E p : IsPath(c, k, p) /\ \E i \in DOMAIN p : p[i] = n
PROOF
<1>1. PICK sync : sync = SyncEdges(c)
  OBVIOUS
<1>2. \A m : m \in checkCascadingFailure(c) <=>
        \E n \in Application(c) : /\ Len(findLongestSyncChain(sync, n)) >= 4
                                  /\ \E i \in DOMAIN findLongestSyncChain(sync, n) :
                                         findLongestSyncChain(sync, n)[i] = m
  BY <1>1 DEF checkCascadingFailure, Application
<1>3. ASSUME NEW n \in Application(c), NEW s, s = findLongestSyncChain(sync, n)
      PROVE  Walk(sync, Ids(c), {}, n, s) /\ \A p : Walk(sync, Ids(c), {}, n, p) => Len(p) <= Len(s)
  <2>1. n \in Ids(c)
    BY DEF Application
  <2> QED BY <1>1, <1>3, <2>1, LongestFound
<1>4. ASSUME NEW k \in Nat, NEW p, k >= 4, IsPath(c, k, p) PROVE p[1] \in checkCascadingFailure(c)
  <2>1. PICK n : n = p[1]
    OBVIOUS
  <2>2. Walk(sync, Ids(c), {}, n, p) /\ Len(p) = k /\ n \in Application(c)
    BY <1>1, <1>4, <2>1 DEF IsPath
  <2>3. PICK s : s = findLongestSyncChain(sync, n)
    OBVIOUS
  <2>4. Walk(sync, Ids(c), {}, n, s) /\ k <= Len(s)
    BY <1>3, <2>2, <2>3
  <2>5. s \in Seq(Ids(c)) /\ s[1] = n /\ Len(s) \in Nat
    BY <2>4 DEF Walk
  <2>6. Len(s) >= 4 /\ 1 \in DOMAIN s
    BY <1>4, <2>4, <2>5
  <2> QED BY <1>2, <2>1, <2>2, <2>3, <2>5, <2>6
<1>5. ASSUME NEW m \in checkCascadingFailure(c)
      PROVE  \E k \in 4 .. Cardinality(Ids(c)) : \E p : IsPath(c, k, p) /\ \E i \in DOMAIN p : p[i] = m
  <2>1. PICK n \in Application(c) : /\ Len(findLongestSyncChain(sync, n)) >= 4
                                    /\ \E i \in DOMAIN findLongestSyncChain(sync, n) :
                                           findLongestSyncChain(sync, n)[i] = m
    BY <1>2
  <2>2. PICK s : s = findLongestSyncChain(sync, n)
    OBVIOUS
  <2>3. Walk(sync, Ids(c), {}, n, s) /\ Len(s) >= 4 /\ \E i \in DOMAIN s : s[i] = m
    BY <1>3, <2>1, <2>2
  <2>4. s[1] = n
    BY <2>3 DEF Walk
  <2>5. Len(s) \in Nat /\ Len(s) <= Cardinality(Ids(c)) /\ Cardinality(Ids(c)) \in Nat
    BY <2>3, WalkShort, FS_CardinalityType
  <2>6. IsPath(c, Len(s), s) /\ Len(s) \in 4 .. Cardinality(Ids(c))
    BY <1>1, <2>3, <2>4, <2>5 DEF IsPath
  <2> QED BY <2>3, <2>6
<1> QED BY <1>4, <1>5

LEMMA CascadesRight == AnalysisInv /\ PlacesInv => CascadesAreChains
PROOF
<1> SUFFICES ASSUME AnalysisInv, PlacesInv PROVE CascadesAreChains
  OBVIOUS
<1>1. IsFiniteSet(Ids(canvas)) /\ EndsIn(SyncEdges(canvas), Ids(canvas)) /\ Placed(SyncEdges(canvas))
  BY DEF AnalysisInv, ShapeInv, PlacesInv, EndsIn, Placed, SyncEdges
<1>2. PICK N : N = Cardinality(Ids(canvas))
  OBVIOUS
<1>3. N \in Nat
  BY <1>1, <1>2, FS_CardinalityType
<1>4. ASSUME NEW k \in 4 .. N, NEW p PROVE p \in Paths[k] <=> IsPath(canvas, k, p)
  <2>1. k \in 1 .. Cardinality(Ids(canvas))
    BY <1>2, <1>3
  <2> QED BY <1>1, <2>1, PathsAre
<1>5. "CASCADING_FAILURE" \in WarningType
  BY DEF WarningType, High
<1>6. Rule(canvas, "CASCADING_FAILURE") = checkCascadingFailure(canvas)
  BY DEF Rule
<1>7. PICK warned : warned = Warns("CASCADING_FAILURE")
  OBVIOUS
<1>8. warned = checkCascadingFailure(canvas)
  BY <1>5, <1>6, <1>7, WarnsByRule
<1>9. PICK long : long = UNION {Paths[k] : k \in 4 .. N}
  OBVIOUS
<1>10. \A p : p \in long <=> \E k \in 4 .. N : IsPath(canvas, k, p)
  BY <1>4, <1>9
<1>11. ASSUME NEW p \in long PROVE p[1] \in warned
  <2>1. PICK k \in 4 .. N : IsPath(canvas, k, p)
    BY <1>10
  <2>2. k \in Nat /\ k >= 4
    BY <1>3
  <2> QED BY <1>1, <1>8, <2>1, <2>2, CascadesFound
<1>12. ASSUME NEW n \in warned PROVE \E p \in long : \E i \in DOMAIN p : p[i] = n
  <2>1. \E k \in 4 .. N : \E p : IsPath(canvas, k, p) /\ \E i \in DOMAIN p : p[i] = n
    BY <1>1, <1>2, <1>8, CascadesFound
  <2> QED BY <1>10, <2>1
<1>13. {p[1] : p \in long} \subseteq warned
  BY <1>11
<1>14. warned \subseteq UNION {{p[i] : i \in DOMAIN p} : p \in long}
  BY <1>12
<1> QED BY <1>2, <1>7, <1>9, <1>13, <1>14 DEF CascadesAreChains

\* Rule 3 (warning-engine.service.ts:204) starts its search (:244) at every application
\* node and follows the edges in the order of the array, with what it has visited on the
\* way: it finds every node that begins a synchronous chain of four or more, although
\* each branch remembers its own visits and the longest tail alone is kept, and warns
\* about no node that is not on such a chain.
THEOREM CascadesAreChainsHolds == Spec => []CascadesAreChains
PROOF
<1>1. Spec => []PlacesInv
  BY Analyzed, InitPlaced, NextPlaced, PTL DEF Spec
<1> QED BY <1>1, Analyzed, CascadesRight, PTL
=============================================================================
