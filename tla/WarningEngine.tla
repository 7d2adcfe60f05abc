--------------------------- MODULE WarningEngine ---------------------------
(***************************************************************************)
(* The architectural warnings: warning-engine.service.ts.  A canvas is     *)
(* what the rules look at: the type of each node, and the edges in the     *)
(* order of the array (at), which decides between chains of equal length.  *)
(* Messages and the warnings' own ids are left out, and with them the one  *)
(* case in which two warnings differ in nothing else: rule 5 repeats its   *)
(* warning on a database for each client.                                  *)
(***************************************************************************)
EXTENDS Naturals, Sequences, FiniteSets

AnyEdgeType == {"http", "grpc", "tcp", "dbProtocol", "internal", "webhook", "undefined",
                "async", "pubsub", "eventStream", "websocket"}
SYNCHRONOUS_TYPES == {"http", "grpc", "tcp", "dbProtocol", "internal", "webhook", "undefined"}
INFRASTRUCTURE_TYPES == {"dns", "cdn", "firewall", "loadBalancer", "reverseProxy",
                         "apiGateway", "client", "mobileClient"}
CALLER_TYPES == {"service", "worker", "apiGateway", "client", "mobileClient",
                 "thirdParty", "reverseProxy"}
TARGET_PEER_TYPES == {"service", "worker", "serverless", "containerOrchestrator"}
CLIENT_FACING_TYPES == {"client", "mobileClient", "apiGateway", "thirdParty"}
ClientTypes == {"client", "mobileClient"}
QueueTypes == {"queue", "eventBus"}
ConsumerTypes == {"service", "worker"}
ObservedTypes == {"service", "worker", "database", "cache"}

High == {"SPOF", "CASCADING_FAILURE", "UNBOUNDED_FANOUT"}
WarningType == High \cup
    {"MISSING_CACHE", "NO_LOAD_BALANCER", "DIRECT_CLIENT_TO_DATABASE",
     "NO_API_GATEWAY", "NO_FIREWALL", "DATABASE_NO_READ_REPLICA",
     "SINGLE_QUEUE_CONSUMER", "SYNCHRONOUS_WRITE_CRITICAL_PATH",
     "NO_DEAD_LETTER_QUEUE", "NO_CDN_FOR_CLIENT", "NO_OBJECT_STORAGE_FOR_MEDIA",
     "NO_CACHE_FOR_SEARCH", "NO_RATE_LIMITING", "NO_MONITORING", "NO_LOGGING"}

-----------------------------------------------------------------------------
(* Nodes and edges.  c.type maps the id of each node to its type.          *)

Ids(c) == DOMAIN c.type
OfType(c, T) == {n \in Ids(c) : c.type[n] \in T}
Has(c, n, T) == n \in Ids(c) /\ c.type[n] \in T

isSynchronous(e) == e.edgeType \in SYNCHRONOUS_TYPES
Queued(e) == e.edgeType \in {"async", "pubsub"}

SyncEdges(c) == {e \in c.edges : isSynchronous(e)}
SyncInto(c, n) == {e \in SyncEdges(c) : e.target = n}
SyncFrom(c, n, T) == {e \in SyncInto(c, n) : Has(c, e.source, T)}

Touches(e, n) == e.source = n \/ e.target = n
getOtherNodeId(e, n) == IF e.source = n THEN e.target ELSE e.source
Joined(c, m, n) == \E e \in c.edges : {e.source, e.target} = {m, n}
JoinedTo(c, n, T) ==
    \E e \in c.edges : Touches(e, n) /\ Has(c, getOtherNodeId(e, n), T)

AnyNode(c, n) == n = n
isConnectedNode(c, n) == \E e \in c.edges : Touches(e, n)
Connected(c, T) == {n \in OfType(c, T) : isConnectedNode(c, n)}

\* A queue that another queue feeds is a dead letter queue.
isDlqNode(c, n) ==
    \E e \in c.edges : e.target = n /\ Queued(e) /\ Has(c, e.source, QueueTypes)

\* The edges along which queue q delivers to nodes of types T.
Deliveries(c, q, T) ==
    {e \in c.edges : e.source = q /\ Queued(e) /\ Has(c, e.target, T)}

\* A cache that is joined both to the target and to one of its callers.
CacheBetween(c, callers, target) ==
    \E k \in OfType(c, {"cache"}) :
        Joined(c, k, target) /\ \E n \in callers : Joined(c, n, k)

-----------------------------------------------------------------------------
(* The rules: each is the set of nodes it warns about.                     *)

checkSPOF(c) ==
    {n \in Ids(c) \ OfType(c, INFRASTRUCTURE_TYPES) :
        /\ Cardinality(SyncInto(c, n)) >= 3
        /\ Connected(c, {c.type[n]}) \ {n} = {}}

DirectSync(c, db) ==
    {e \in SyncEdges(c) :
        /\ Touches(e, db)
        /\ LET n == IF e.target = db THEN e.source ELSE e.target
           IN  n \in Ids(c) \ OfType(c, INFRASTRUCTURE_TYPES \cup {"cache"})}

checkMissingCache(c) ==
    {db \in OfType(c, {"database"}) :
        /\ Cardinality(DirectSync(c, db)) >= 3
        /\ ~CacheBetween(c, {IF e.target = db THEN e.source ELSE e.target
                                : e \in DirectSync(c, db)}, db)}

ShortestTail(tails, out) == CHOOSE e \in out : \A f \in out : Len(tails[e]) <= Len(tails[f])

\* Among the edges out of a node, the first with the longest chain behind it.
LongestTail(tails, out) ==
    CHOOSE e \in out : \A f \in out :
        \/ Len(tails[f]) < Len(tails[e])
        \/ Len(tails[f]) = Len(tails[e]) /\ e.at <= f.at

\* The longest chain of synchronous edges from a node that avoids the visited.
findLongestSyncChain(sync, nodeId) ==
    LET ids == {nodeId} \cup {e.source : e \in sync} \cup {e.target : e \in sync}
        chain[visited \in SUBSET ids] == [n \in ids |->
            IF n \in visited THEN <<>>
            ELSE LET out == {e \in sync : e.source = n}
                     tails == [e \in out |-> chain[visited \cup {n}][e.target]]
                 IN  IF out = {} THEN <<n>>
                     ELSE <<n>> \o tails[LongestTail(tails, out)]]
    IN  chain[{}][nodeId]

checkCascadingFailure(c) ==
    LET chains == {findLongestSyncChain(SyncEdges(c), n) :
                      n \in Ids(c) \ OfType(c, INFRASTRUCTURE_TYPES)}
    IN  UNION {{s[i] : i \in DOMAIN s} : s \in {s \in chains : Len(s) >= 4}}

checkNoLoadBalancer(c) ==
    {s \in OfType(c, ConsumerTypes) :
        /\ Cardinality(SyncFrom(c, s, CALLER_TYPES)) >= 3
        /\ SyncFrom(c, s, {"loadBalancer"}) = {}}

checkDirectClientToDatabase(c) ==
    {db \in OfType(c, {"database"}) :
        \E client \in OfType(c, CLIENT_FACING_TYPES) :
            /\ Joined(c, client, db)
            /\ ~\E s \in OfType(c, ConsumerTypes) :
                   Joined(c, client, s) /\ Joined(c, s, db)}

checkNoApiGateway(c) ==
    {n \in OfType(c, ClientTypes) : Connected(c, {"apiGateway"}) = {}}

checkNoFirewall(c) ==
    {n \in OfType(c, ClientTypes) : Connected(c, {"firewall"}) = {}}

ReplicaThresholdTwo(c) ==
    {db \in OfType(c, {"database"}) :
        /\ Connected(c, {"database"}) \ {db} = {}
        /\ Cardinality(SyncFrom(c, db, CALLER_TYPES)) >= 2}

checkDatabaseNoReadReplica(c) ==
    {db \in OfType(c, {"database"}) :
        /\ Connected(c, {"database"}) \ {db} = {}
        /\ Cardinality(SyncFrom(c, db, CALLER_TYPES)) >= 3}

checkSingleQueueConsumer(c) ==
    {q \in OfType(c, QueueTypes) :
        ~isDlqNode(c, q) /\ Cardinality(Deliveries(c, q, ConsumerTypes)) = 1}

checkSynchronousWriteCriticalPath(c) ==
    {s \in OfType(c, {"service"}) :
        /\ \E e \in c.edges :
              /\ e.edgeType \in {"http", "grpc"}
              /\ \/ e.source = s /\ Has(c, e.target, {"database"})
                 \/ e.target = s /\ Has(c, e.source, {"database"})
        /\ JoinedTo(c, s, ClientTypes \cup {"apiGateway"})}

checkNoDeadLetterQueue(c) ==
    {q \in OfType(c, QueueTypes) :
        /\ ~isDlqNode(c, q)
        /\ Deliveries(c, q, ConsumerTypes) # {}
        /\ Deliveries(c, q, QueueTypes) = {}}

checkNoCdnForClient(c) ==
    {n \in OfType(c, ClientTypes) :
        ~\E cdn \in OfType(c, {"cdn"}), m \in OfType(c, ClientTypes) : Joined(c, cdn, m)}

NonTrivial(c) == Cardinality(Ids(c)) >= 5

checkNoObjectStorageForMedia(c) ==
    {s \in OfType(c, {"service"}) :
        /\ NonTrivial(c)
        /\ Connected(c, {"objectStorage"}) = {}
        /\ \E db \in OfType(c, {"database"}) : Joined(c, s, db)}

checkUnboundedFanout(c) ==
    {s \in OfType(c, {"service"}) :
        Cardinality({e \in SyncEdges(c) :
                        /\ e.source = s /\ e.target # s
                        /\ Has(c, e.target, TARGET_PEER_TYPES)}) >= 5}

\* The comment says 2+ services, the code 3, and what it counts is edges.
checkNoCacheForSearch(c) ==
    {n \in OfType(c, {"searchEngine"}) :
        LET edges == {e \in SyncEdges(c) :
                         Touches(e, n) /\ Has(c, IF e.target = n THEN e.source ELSE e.target,
                                              {"service"})}
        IN  /\ Cardinality(edges) >= 3
            /\ ~CacheBetween(c, {IF e.target = n THEN e.source ELSE e.target : e \in edges},
                             n)}

\* A firewall counts here even when nothing is connected to it.
checkNoRateLimiting(c) ==
    {n \in OfType(c, ClientTypes \cup {"thirdParty"}) :
        /\ OfType(c, {"firewall"}) = {}
        /\ JoinedTo(c, n, {"apiGateway", "service"})}

Unobserved(c, observer) ==
    {n \in OfType(c, TARGET_PEER_TYPES) :
        /\ NonTrivial(c)
        /\ ~\E m \in OfType(c, {observer}) : JoinedTo(c, m, ObservedTypes)}

checkNoMonitoring(c) == Unobserved(c, "monitoring")
checkNoLogging(c) == Unobserved(c, "logging")

-----------------------------------------------------------------------------
Severity(type) == IF type \in High THEN "high" ELSE "medium"

Warned(type, nodes) ==
    {[nodeId |-> n, type |-> type, severity |-> Severity(type)] : n \in nodes}

analyze(c) ==
    UNION {Warned("SPOF", checkSPOF(c)),
           Warned("MISSING_CACHE", checkMissingCache(c)),
           Warned("CASCADING_FAILURE", checkCascadingFailure(c)),
           Warned("NO_LOAD_BALANCER", checkNoLoadBalancer(c)),
           Warned("DIRECT_CLIENT_TO_DATABASE", checkDirectClientToDatabase(c)),
           Warned("NO_API_GATEWAY", checkNoApiGateway(c)),
           Warned("NO_FIREWALL", checkNoFirewall(c)),
           Warned("DATABASE_NO_READ_REPLICA", checkDatabaseNoReadReplica(c)),
           Warned("SINGLE_QUEUE_CONSUMER", checkSingleQueueConsumer(c)),
           Warned("SYNCHRONOUS_WRITE_CRITICAL_PATH", checkSynchronousWriteCriticalPath(c)),
           Warned("NO_DEAD_LETTER_QUEUE", checkNoDeadLetterQueue(c)),
           Warned("NO_CDN_FOR_CLIENT", checkNoCdnForClient(c)),
           Warned("NO_OBJECT_STORAGE_FOR_MEDIA", checkNoObjectStorageForMedia(c)),
           Warned("UNBOUNDED_FANOUT", checkUnboundedFanout(c)),
           Warned("NO_CACHE_FOR_SEARCH", checkNoCacheForSearch(c)),
           Warned("NO_RATE_LIMITING", checkNoRateLimiting(c)),
           Warned("NO_MONITORING", checkNoMonitoring(c)),
           Warned("NO_LOGGING", checkNoLogging(c))}
=============================================================================
