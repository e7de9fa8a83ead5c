----------------------------- MODULE ClusterSync ----------------------------
(***************************************************************************)
(* The nodes of a cluster and the events they send each other: syncIPEvent, *)
(* syncGeoPolicyEvent and syncRoutingEvent of src/control_plane/main.go.   *)
(*                                                                         *)
(* A node that changes a rule for an operator, or whose engine blocks or   *)
(* expires an address, starts a goroutine per peer.  Each sends one HTTPS  *)
(* request with sync=true and forgets it: events may be lost (refused      *)
(* connection, timeout, an answer of 4xx or 5xx) and arrive in any order;  *)
(* none is sent twice.  The peer runs the same handler and, because of     *)
(* sync=true, tells nobody.                                                *)
(*                                                                         *)
(* Handlers are atomic here: RuleStore has their steps on one node.  A     *)
(* target stands for one key of the trie.                                  *)
(***************************************************************************)
EXTENDS Routing, FiniteSets

CONSTANTS
    Nodes,
    clusterNodes,   \* node |-> the nodes its conf/nodes.json names
    Addrs,          \* targets of the blacklist,
    Allowed,        \* and of the whitelist
    RouteRequests,  \* what operators ask for: <<vip, vport, proto, backend>>
    EarlierFiles,   \* rules_state.json as the cluster may start with
    MaxChanges,     \* bound: changes that start events
    MaxFaults       \* bound: lost events and restarts of nodes

\* PRODUCTION_CHECKLIST.md: nodes.json holds the addresses of all nodes.
ASSUME ClusterAssumption ==
    /\ \A n \in Nodes : clusterNodes[n] \cup {n} = Nodes
    /\ EarlierFiles \subseteq
        [policy : {0, 1}, black : SUBSET Addrs, white : SUBSET Allowed]
    /\ \A r \in RouteRequests :
        r[1] \in Vips /\ r[2] \in Ports \cup {0} /\ r[4] \in Backends
    /\ MaxChanges \in Nat /\ MaxFaults \in Nat

VARIABLES
    black,          \* node |-> address |-> "absent", "fresh" or "old" (TTL passed)
    policy,         \* node |-> config_map[2]
    BlacklistTargets,
    WhitelistTargets, \* node |-> what it lists; its whitelist trie holds the same
    table,          \* node |-> backend_map
    dnat,           \* node |-> VIP |-> backend |-> DNAT rules in the kernel
    file,           \* node |-> rules_state.json
    ipEvents,       \* requests on their way to /api/blacklist and /api/whitelist,
    policyEvents,   \* to /api/rules/policy
    routingEvents,  \* and to /api/routing
    changes,        \* history: changes so far, the number of the next event
    faults,         \* history: lost events and restarts so far
    racedAddrs,     \* history: addresses, whether the filter, VIPs of which an event
    racedFilter,    \*          was lost, or that were changed while an event that
    racedVips,      \*          conflicts was on its way
    lockedOut       \* history: an operator chose default drop with nothing whitelisted

rules == <<policy, WhitelistTargets>>
blocks == <<black, BlacklistTargets>>
routes == <<table, dnat>>
events == <<ipEvents, policyEvents, routingEvents>>
history == <<changes, faults, racedAddrs, racedFilter, racedVips, lockedOut>>
vars == <<rules, blocks, routes, file, events, history>>

\* isLocalAddress skips the node itself.
Remote(n) == clusterNodes[n] \ {n}

Content(n) ==
    [policy |-> policy[n], black |-> BlacklistTargets[n], white |-> WhitelistTargets[n]]

\* saveRulesState, after the change of this step.
Save(n) == file' = [file EXCEPT ![n] = Content(n)']

BlockedBy(targets) == [a \in Addrs |-> IF a \in targets THEN "fresh" ELSE "absent"]

\* A cluster that comes up with the same state file everywhere.
Init ==
    \E f \in EarlierFiles :
        /\ black = [n \in Nodes |-> BlockedBy(f.black)]
        /\ policy = [n \in Nodes |-> f.policy]
        /\ BlacklistTargets = [n \in Nodes |-> f.black]
        /\ WhitelistTargets = [n \in Nodes |-> f.white]
        /\ table = [n \in Nodes |-> NoRoutes]
        /\ dnat = [n \in Nodes |-> [vip \in Vips |-> [b \in Backends |-> 0]]]
        /\ file = [n \in Nodes |-> f]
        /\ ipEvents = {} /\ policyEvents = {} /\ routingEvents = {}
        /\ changes = 0 /\ faults = 0
        /\ racedAddrs = {} /\ racedFilter = FALSE /\ racedVips = {}
        /\ lockedOut = (f.policy = 1 /\ f.white = {})

Change ==
    /\ changes < MaxChanges
    /\ changes' = changes + 1
    /\ UNCHANGED faults

-----------------------------------------------------------------------------
(* The blacklist: handleBlacklist and the engine *)

IpEvents(n, endpoint, method, t) ==
    [to : Remote(n), seq : {changes}, endpoint : {endpoint}, method : {method}, target : {t}]

\* Events about a that would not leave it as a change with this method does.
Against(method, a) ==
    {m \in ipEvents : m.endpoint = "blacklist" /\ m.target = a /\ m.method # method}

\* What handleBlacklist does at n, for an operator or for an event.
HandleBlacklist(n, method, a) ==
    /\ black' = [black EXCEPT ![n][a] = IF method = "POST" THEN "fresh" ELSE "absent"]
    /\ BlacklistTargets' = [BlacklistTargets EXCEPT ![n] =
            IF method = "POST" THEN @ \cup {a} ELSE @ \ {a}]
    /\ UNCHANGED <<rules, routes>>
    /\ Save(n)

\* Every peer is told of the change of a at n.
TellBlacklist(n, method, a) ==
    /\ Change
    /\ ipEvents' = ipEvents \cup IpEvents(n, "blacklist", method, a)
    /\ racedAddrs' = IF Against(method, a) = {} THEN racedAddrs ELSE racedAddrs \cup {a}
    /\ UNCHANGED <<policyEvents, routingEvents, racedFilter, racedVips, lockedOut>>

BlacklistRequest(n, method, a) ==
    /\ HandleBlacklist(n, method, a)
    /\ TellBlacklist(n, method, a)

\* ScanAndMitigate: the origin neither lists nor saves what its peers will.
EngineBlock(n, a) ==
    /\ black' = [black EXCEPT ![n][a] = "fresh"]
    /\ TellBlacklist(n, "POST", a)
    /\ UNCHANGED <<rules, BlacklistTargets, routes, file>>

\* The TTL, of 300 seconds or more, passes.
Age(n, a) ==
    /\ black[n][a] = "fresh"
    /\ black' = [black EXCEPT ![n][a] = "old"]
    /\ UNCHANGED <<rules, BlacklistTargets, routes, file, events, history>>

\* Mutant: peers are not told.
Expire_Silent(n, a) ==
    /\ black[n][a] = "old"
    /\ HandleBlacklist(n, "DELETE", a)
    /\ Change
    /\ UNCHANGED <<events, racedAddrs, racedFilter, racedVips, lockedOut>>

\* CleanExpiredBlacklist and what startAutoMitigation does with its answer.
Expire(n, a) ==
    /\ black[n][a] = "old"
    /\ HandleBlacklist(n, "DELETE", a)
    /\ TellBlacklist(n, "DELETE", a)

\* Mutant: the peer passes the event on.
DeliverBlacklist_Forward(m) ==
    /\ m.endpoint = "blacklist"
    /\ HandleBlacklist(m.to, m.method, m.target)
    /\ ipEvents' = (ipEvents \ {m}) \cup {[m EXCEPT !.to = p] : p \in Remote(m.to)}
    /\ UNCHANGED <<policyEvents, routingEvents, history>>

\* With sync=true nothing is sent.
DeliverBlacklist(m) ==
    /\ m.endpoint = "blacklist"
    /\ HandleBlacklist(m.to, m.method, m.target)
    /\ ipEvents' = ipEvents \ {m}
    /\ UNCHANGED <<policyEvents, routingEvents, history>>

-----------------------------------------------------------------------------
(* The filter: handleWhitelist and handleRulesPolicy *)

\* What handleWhitelist does at n: an empty whitelist falls back to default pass.
HandleWhitelist(n, method, t) ==
    /\ WhitelistTargets' = [WhitelistTargets EXCEPT ![n] =
            IF method = "POST" THEN @ \cup {t} ELSE @ \ {t}]
    /\ policy' = IF method = "DELETE" /\ WhitelistTargets'[n] = {}
                 THEN [policy EXCEPT ![n] = 0] ELSE policy
    /\ UNCHANGED <<blocks, routes>>
    /\ Save(n)

HandlePolicy(n, value) ==
    /\ policy' = [policy EXCEPT ![n] = value]
    /\ UNCHANGED <<WhitelistTargets, blocks, routes>>
    /\ Save(n)

PolicyEvents(n, value) == [to : Remote(n), seq : {changes}, value : {value}]

\* Mutant: every DELETE resets the policy of the peers.
FallbackEvents_Always(n, method) == IF method = "DELETE" THEN PolicyEvents(n, 0) ELSE {}

\* syncGeoPolicyEvent after a DELETE that emptied the whitelist.
FallbackEvents(n, method) ==
    IF method = "DELETE" /\ WhitelistTargets'[n] = {} THEN PolicyEvents(n, 0) ELSE {}

WhitelistRequest(n, method, t) ==
    /\ HandleWhitelist(n, method, t)
    /\ Change
    /\ ipEvents' = ipEvents \cup IpEvents(n, "whitelist", method, t)
    /\ policyEvents' = policyEvents \cup FallbackEvents(n, method)
    /\ racedFilter' =
        \/ racedFilter
        \/ \E m \in ipEvents : m.endpoint = "whitelist" /\ m.method # method
        \/ method = "DELETE" /\ \E m \in policyEvents : m.value = 1
    /\ UNCHANGED <<routingEvents, racedAddrs, racedVips, lockedOut>>

PolicyRequest(n, value) ==
    /\ HandlePolicy(n, value)
    /\ Change
    /\ policyEvents' = policyEvents \cup PolicyEvents(n, value)
    /\ racedFilter' =
        \/ racedFilter
        \/ \E m \in policyEvents : m.value # value
        \/ value = 1 /\ \E m \in ipEvents : m.endpoint = "whitelist" /\ m.method = "DELETE"
    /\ lockedOut' = (lockedOut \/ (value = 1 /\ WhitelistTargets[n] = {}))
    /\ UNCHANGED <<ipEvents, routingEvents, racedAddrs, racedVips>>

\* Mutant: only the operator's own DELETE looks at what is left.
DeliverWhitelist_NoFallback(m) ==
    /\ m.endpoint = "whitelist"
    /\ WhitelistTargets' = [WhitelistTargets EXCEPT ![m.to] =
            IF m.method = "POST" THEN @ \cup {m.target} ELSE @ \ {m.target}]
    /\ ipEvents' = ipEvents \ {m}
    /\ UNCHANGED <<policy, blocks, routes, policyEvents, routingEvents, history>>
    /\ Save(m.to)

DeliverWhitelist(m) ==
    /\ m.endpoint = "whitelist"
    /\ HandleWhitelist(m.to, m.method, m.target)
    /\ ipEvents' = ipEvents \ {m}
    /\ UNCHANGED <<policyEvents, routingEvents, history>>

DeliverPolicy(m) ==
    /\ HandlePolicy(m.to, m.value)
    /\ policyEvents' = policyEvents \ {m}
    /\ UNCHANGED <<ipEvents, routingEvents, history>>

-----------------------------------------------------------------------------
(* The routing table: handleRouting *)

\* What AddBackendVIP and RemoveBackendVIP do at n.
HandleRouting(n, method, k, b) ==
    /\ \/ /\ method = "POST"
          /\ table' = [table EXCEPT ![n] = RoutesAfterAdd(@, k, b)]
          /\ dnat' = [dnat EXCEPT ![n] = DnatAfterAdd(@, k.vip, b)]
       \/ /\ method = "DELETE"
          /\ table' = [table EXCEPT ![n] = RoutesAfterRemove(@, k)]
          /\ dnat' = [dnat EXCEPT ![n] = DnatAfterRemove(@, k.vip, b)]
    /\ UNCHANGED <<rules, blocks, file>>

\* A DELETE names the backend the node's table shows, where it shows one.
RoutingRequest(n, method, vip, vport, proto, b) ==
    LET k == RequestKey(vip, vport, proto)
    IN  /\ method = "DELETE" /\ table[n][k] # NoBackend => b = table[n][k]
        /\ HandleRouting(n, method, k, b)
        /\ Change
        /\ routingEvents' = routingEvents \cup
            [to : Remote(n), seq : {changes}, method : {method}, key : {k}, backend : {b}]
        /\ racedVips' = IF \E m \in routingEvents : m.key.vip = vip
                        THEN racedVips \cup {vip} ELSE racedVips
        /\ UNCHANGED <<ipEvents, policyEvents, racedAddrs, racedFilter, lockedOut>>

\* Mutant: the port is not read from the event.
DeliverRouting_NoPort(m) ==
    /\ HandleRouting(m.to, m.method, RequestKey(m.key.vip, 0, "any"), m.backend)
    /\ routingEvents' = routingEvents \ {m}
    /\ UNCHANGED <<ipEvents, policyEvents, history>>

DeliverRouting(m) ==
    /\ HandleRouting(m.to, m.method, KeyAtPeer(m.key), m.backend)
    /\ routingEvents' = routingEvents \ {m}
    /\ UNCHANGED <<ipEvents, policyEvents, history>>

-----------------------------------------------------------------------------
(* Lost events and restarts *)

Fault ==
    /\ faults < MaxFaults
    /\ faults' = faults + 1

LoseIp(m) ==
    /\ Fault
    /\ ipEvents' = ipEvents \ {m}
    /\ racedAddrs' = IF m.endpoint = "blacklist" THEN racedAddrs \cup {m.target} ELSE racedAddrs
    /\ racedFilter' = (racedFilter \/ m.endpoint = "whitelist")
    /\ UNCHANGED <<rules, blocks, routes, file, policyEvents, routingEvents,
                   changes, racedVips, lockedOut>>

LosePolicy(m) ==
    /\ Fault
    /\ policyEvents' = policyEvents \ {m}
    /\ racedFilter' = TRUE
    /\ UNCHANGED <<rules, blocks, routes, file, ipEvents, routingEvents,
                   changes, racedAddrs, racedVips, lockedOut>>

LoseRouting(m) ==
    /\ Fault
    /\ routingEvents' = routingEvents \ {m}
    /\ racedVips' = racedVips \cup {m.key.vip}
    /\ UNCHANGED <<rules, blocks, routes, file, ipEvents, policyEvents,
                   changes, racedAddrs, racedFilter, lockedOut>>

\* A node restarts from its file.  backend_map starts empty and nobody fills it
\* again; the kernel keeps the DNAT rules.
Restart(n) ==
    /\ Fault
    /\ policy' = [policy EXCEPT ![n] = file[n].policy]
    /\ black' = [black EXCEPT ![n] = BlockedBy(file[n].black)]
    /\ BlacklistTargets' = [BlacklistTargets EXCEPT ![n] = file[n].black]
    /\ WhitelistTargets' = [WhitelistTargets EXCEPT ![n] = file[n].white]
    /\ table' = [table EXCEPT ![n] = NoRoutes]
    /\ racedAddrs' = racedAddrs \cup
        {a \in Addrs : (black[n][a] = "absent") # (black'[n][a] = "absent")}
    /\ racedVips' = racedVips \cup {k.vip : k \in {x \in Keys : table[n][x] # NoBackend}}
    /\ UNCHANGED <<dnat, file, events, changes, racedFilter, lockedOut>>

-----------------------------------------------------------------------------
Methods == {"POST", "DELETE"}

\* The goroutine of the event ends: the peer has answered, or not.
Answer ==
    \/ \E m \in ipEvents : DeliverBlacklist(m) \/ DeliverWhitelist(m) \/ LoseIp(m)
    \/ \E m \in policyEvents : DeliverPolicy(m) \/ LosePolicy(m)
    \/ \E m \in routingEvents : DeliverRouting(m) \/ LoseRouting(m)

Next ==
    \/ \E n \in Nodes :
        \/ \E method \in Methods, a \in Addrs : BlacklistRequest(n, method, a)
        \/ \E method \in Methods, t \in Allowed : WhitelistRequest(n, method, t)
        \/ \E value \in {0, 1} : PolicyRequest(n, value)
        \/ \E method \in Methods, r \in RouteRequests :
                RoutingRequest(n, method, r[1], r[2], r[3], r[4])
        \/ \E a \in Addrs : EngineBlock(n, a) \/ Age(n, a) \/ Expire(n, a)
        \/ Restart(n)
    \/ Answer

Spec == Init /\ [][Next]_vars

\* http.Client has a timeout of 2, 3 or 5 seconds: every goroutine ends.
FairSpec == Spec /\ WF_vars(Answer)

-----------------------------------------------------------------------------
TypeOK ==
    /\ black \in [Nodes -> [Addrs -> {"absent", "fresh", "old"}]]
    /\ policy \in [Nodes -> {0, 1}]
    /\ BlacklistTargets \in [Nodes -> SUBSET Addrs]
    /\ WhitelistTargets \in [Nodes -> SUBSET Allowed]
    /\ table \in [Nodes -> Tables]
    /\ dnat \in [Nodes -> [Vips -> [Backends -> Nat]]]
    /\ file \in [Nodes -> [policy : {0, 1}, black : SUBSET Addrs, white : SUBSET Allowed]]
    /\ \A m \in ipEvents :
        /\ m.to \in Nodes /\ m.method \in Methods
        /\ m.endpoint = "blacklist" => m.target \in Addrs
        /\ m.endpoint = "whitelist" => m.target \in Allowed
    /\ \A m \in policyEvents : m.to \in Nodes /\ m.value \in {0, 1}
    /\ \A m \in routingEvents :
        m.to \in Nodes /\ m.method \in Methods /\ m.key \in Keys /\ m.backend \in Backends
    /\ changes \in 0 .. MaxChanges /\ faults \in 0 .. MaxFaults
    /\ racedAddrs \subseteq Addrs /\ racedVips \subseteq Vips
    /\ racedFilter \in BOOLEAN /\ lockedOut \in BOOLEAN

Blocks(n, a) == black[n][a] # "absent"

\* README: the cluster shares the blocked addresses.  Blocks by operators and by
\* any engine, expiries at any node and events in any order leave the nodes agreed
\* on an address, unless an event was lost, a restart forgot an engine's block, or a
\* block and a removal of it crossed.
BlocksAgree ==
    \A a \in Addrs \ racedAddrs :
        (\A m \in ipEvents : m.endpoint = "blacklist" => m.target # a) =>
            \A n, p \in Nodes : Blocks(n, a) = Blocks(p, a)

FilterQuiet == policyEvents = {} /\ \A m \in ipEvents : m.endpoint # "whitelist"

\* Whitelists and policy agree as well: the fallback of a DELETE, which every node
\* decides from its own list, comes out the same everywhere.
FiltersAgree ==
    (FilterQuiet /\ ~racedFilter) =>
        \A n, p \in Nodes :
            WhitelistTargets[n] = WhitelistTargets[p] /\ policy[n] = policy[p]

\* Removing the last whitelist targets at different nodes at once leaves no node
\* dropping everything, unless an operator asked for that.
NoNodeLockedOut ==
    (FilterQuiet /\ ~racedFilter /\ ~lockedOut) =>
        \A n \in Nodes : policy[n] = 1 => WhitelistTargets[n] # {}

\* tunnel_setup_guide.md: one call routes on all nodes.  The tables agree on a VIP,
\* the removals that take a whole VIP along included.
RoutesAgree ==
    \A vip \in Vips \ racedVips :
        (\A m \in routingEvents : m.key.vip # vip) =>
            \A n, p \in Nodes, k \in KeysOf(vip) : table[n][k] = table[p][k]

\* A route to a WireGuard backend has its DNAT rule, however often it was added and
\* whatever other routes of the VIP were removed.
DnatBacksRoutes ==
    \A n \in Nodes, k \in Keys :
        (k.vip \notin racedVips /\ table[n][k] \in WireGuard) =>
            dnat[n][k.vip][table[n][k]] > 0

\* No event causes another: once operators and engines rest, the network falls silent.
EventsDrain == <>[](ipEvents = {} /\ policyEvents = {} /\ routingEvents = {})
=============================================================================
