-------------------------- MODULE ClusterSync_proofs --------------------------
(***************************************************************************)
(* Proofs about ClusterSync for any nodes, addresses, routes and bounds.   *)
(* The agreement properties have one argument.  As long as nothing has     *)
(* raced there is one outcome that every node has or will have: the events *)
(* on their way to a node carry it there, and none carries another.  The   *)
(* DNAT rules follow the table, one for each route at least.               *)
(***************************************************************************)
EXTENDS ClusterSync, FiniteSetTheorems, TLAPS

LEMMA RemoteIsRest ==
    ASSUME NEW n \in Nodes
    PROVE  Remote(n) = Nodes \ {n}
  BY ClusterAssumption DEF Remote

\* The key of a request, written into an event and read back, is the same key: a port
\* without a protocol has become TCP, and no port at all stays the whole VIP.
THEOREM KeySurvivesSync ==
    ASSUME NEW vip \in Vips, NEW vport \in Ports \cup {0}, NEW proto
    PROVE  /\ RequestKey(vip, vport, proto) \in Keys
           /\ KeyAtPeer(RequestKey(vip, vport, proto)) = RequestKey(vip, vport, proto)
  <1>1. ProtocolOf(vport, proto) \in {0, Tcp, Udp} /\ (ProtocolOf(vport, proto) = 0 => vport = 0)
    BY DEF ProtocolOf, Tcp, Udp
  <1>2. ASSUME NEW p \in {0, Tcp, Udp}, p = 0 => vport = 0
        PROVE  ProtocolOf(vport, EventProtocol(p)) = p
    BY <1>2 DEF ProtocolOf, EventProtocol, Tcp, Udp
  <1>3. QED
    BY <1>1, <1>2 DEF RequestKey, KeyAtPeer, Keys

-----------------------------------------------------------------------------
(* The blacklist *)

BlockTypes ==
    /\ DOMAIN black = Nodes
    /\ \A n \in Nodes : black[n] \in [Addrs -> {"absent", "fresh", "old"}]
    /\ \A m \in ipEvents :
        m.to \in Nodes /\ m.method \in Methods /\ (m.endpoint = "blacklist" => m.target \in Addrs)

About(a) == {m \in ipEvents : m.endpoint = "blacklist" /\ m.target = a}

\* Every node has the outcome for a, or an event on its way that brings it.
Outcome(a, method) ==
    /\ \A m \in About(a) : m.method = method
    /\ \A n \in Nodes : (Blocks(n, a) <=> method = "POST") \/ \E m \in About(a) : m.to = n

BlocksInv ==
    /\ BlockTypes
    /\ \A a \in Addrs \ racedAddrs : \E method \in Methods : Outcome(a, method)

LEMMA BlocksInit == Init => BlocksInv
  <1> SUFFICES ASSUME NEW f \in EarlierFiles,
                      black = [n \in Nodes |-> BlockedBy(f.black)], ipEvents = {}
               PROVE  BlocksInv
    BY DEF Init
  <1>1. BlockTypes
    BY DEF BlockTypes, BlockedBy
  <1>2. ASSUME NEW a \in Addrs
        PROVE  \E method \in Methods : Outcome(a, method)
    <2>1. CASE a \in f.black
      <3>1. Outcome(a, "POST")
        BY <2>1 DEF Outcome, About, Blocks, BlockedBy
      <3>2. QED
        BY <3>1 DEF Methods
    <2>2. CASE a \notin f.black
      <3>1. Outcome(a, "DELETE")
        BY <2>2 DEF Outcome, About, Blocks, BlockedBy
      <3>2. QED
        BY <3>1 DEF Methods
    <2>3. QED
      BY <2>1, <2>2
  <1>3. QED
    BY <1>1, <1>2 DEF BlocksInv

\* A change of a at n of which every peer is told.
LEMMA TellKeepsBlocks ==
    ASSUME BlocksInv, NEW n \in Nodes, NEW method \in Methods, NEW a \in Addrs,
           NEW v \in {"absent", "fresh"}, v = "fresh" <=> method = "POST",
           black' = [black EXCEPT ![n][a] = v], TellBlacklist(n, method, a)
    PROVE  BlocksInv'
  <1>1. ipEvents' = ipEvents \cup IpEvents(n, "blacklist", method, a)
    BY DEF TellBlacklist
  <1>2. \A m \in IpEvents(n, "blacklist", method, a) :
            m.to \in Nodes /\ m.endpoint = "blacklist" /\ m.method = method /\ m.target = a
    BY RemoteIsRest DEF IpEvents
  <1>3. \A p \in Nodes \ {n} : \E m \in IpEvents(n, "blacklist", method, a) : m.to = p
    <2> SUFFICES ASSUME NEW p \in Nodes \ {n}
                 PROVE  \E m \in IpEvents(n, "blacklist", method, a) : m.to = p
      OBVIOUS
    <2> DEFINE e == [to |-> p, seq |-> changes, endpoint |-> "blacklist", method |-> method, target |-> a]
    <2>1. e \in IpEvents(n, "blacklist", method, a) /\ e.to = p
      BY RemoteIsRest DEF IpEvents
    <2>2. QED
      BY <2>1
  <1>4. BlockTypes'
    BY <1>1, <1>2 DEF BlocksInv, BlockTypes
  <1>5. ASSUME NEW x \in Addrs \ racedAddrs'
        PROVE  \E meth \in Methods : Outcome(x, meth)'
    <2>1. CASE x = a
      <3>1. \A m \in About(a) : m.method = method
        BY <1>5, <2>1 DEF TellBlacklist, Against, About
      <3>2. \A m \in About(a)' : m.method = method
        BY <1>1, <1>2, <3>1 DEF About
      <3>3. Blocks(n, a)' <=> method = "POST"
        BY DEF Blocks, BlocksInv, BlockTypes
      <3>4. \A p \in Nodes \ {n} : \E m \in About(a)' : m.to = p
        BY <1>1, <1>2, <1>3 DEF About
      <3>5. QED
        BY <2>1, <3>2, <3>3, <3>4 DEF Outcome
    <2>2. CASE x # a
      <3>1. x \in Addrs \ racedAddrs
        BY <1>5 DEF TellBlacklist
      <3>2. About(x)' = About(x)
        BY <1>1, <1>2, <2>2 DEF About
      <3>3. \A p \in Nodes : Blocks(p, x)' <=> Blocks(p, x)
        BY <2>2 DEF Blocks, BlocksInv, BlockTypes
      <3>4. QED
        BY <3>1, <3>2, <3>3 DEF BlocksInv, Outcome
    <2>3. QED
      BY <2>1, <2>2
  <1>6. QED
    BY <1>4, <1>5 DEF BlocksInv

\* The event arrives at its node.
LEMMA DeliveryKeepsBlocks ==
    ASSUME BlocksInv, NEW m \in ipEvents, DeliverBlacklist(m)
    PROVE  BlocksInv'
  <1>1. /\ m.endpoint = "blacklist" /\ m.to \in Nodes /\ m.target \in Addrs /\ m.method \in Methods
        /\ black' = [black EXCEPT ![m.to][m.target] = IF m.method = "POST" THEN "fresh" ELSE "absent"]
        /\ ipEvents' = ipEvents \ {m} /\ UNCHANGED racedAddrs
    BY DEF BlocksInv, BlockTypes, DeliverBlacklist, HandleBlacklist, history
  <1>2. BlockTypes'
    BY <1>1 DEF BlocksInv, BlockTypes
  <1>3. ASSUME NEW x \in Addrs \ racedAddrs, NEW method \in Methods, Outcome(x, method)
        PROVE  Outcome(x, method)'
    <2>1. About(x)' = About(x) \ {m}
      BY <1>1 DEF About
    <2>2. \A p \in Nodes : Blocks(p, x)' <=> IF p = m.to /\ x = m.target THEN m.method = "POST"
                                              ELSE Blocks(p, x)
      BY <1>1 DEF Blocks, BlocksInv, BlockTypes
    <2>3. x = m.target => m.method = method
      BY <1>1, <1>3 DEF Outcome, About
    <2>4. ASSUME NEW p \in Nodes, NEW e \in About(x), e.to = p, ~(p = m.to /\ x = m.target)
          PROVE  e \in About(x)'
      BY <2>1, <2>4 DEF About
    <2>5. QED
      BY <1>3, <2>1, <2>2, <2>3, <2>4 DEF Outcome
  <1>4. QED
    BY <1>1, <1>2, <1>3 DEF BlocksInv

\* Steps that leave an address as it is at every node, and the events about it.
LEMMA OthersKeepBlocks ==
    ASSUME BlocksInv, BlockTypes', racedAddrs \subseteq racedAddrs',
           \A a \in Addrs \ racedAddrs' :
               About(a)' = About(a) /\ \A n \in Nodes : Blocks(n, a)' <=> Blocks(n, a)
    PROVE  BlocksInv'
  <1>1. ASSUME NEW a \in Addrs \ racedAddrs', NEW method \in Methods, Outcome(a, method)
        PROVE  Outcome(a, method)'
    BY <1>1 DEF Outcome
  <1>2. QED
    BY <1>1 DEF BlocksInv

LEMMA BlocksNext == BlocksInv /\ [Next]_vars => BlocksInv'
  <1> SUFFICES ASSUME BlocksInv, [Next]_vars PROVE BlocksInv'
    OBVIOUS
  <1>1. ASSUME UNCHANGED <<black, racedAddrs>>, BlockTypes', \A a \in Addrs : About(a)' = About(a)
        PROVE  BlocksInv'
    BY <1>1, OthersKeepBlocks DEF Blocks
  <1>2. ASSUME NEW n \in Nodes, NEW method \in Methods, NEW a \in Addrs, BlacklistRequest(n, method, a)
        PROVE  BlocksInv'
    <2> DEFINE v == IF method = "POST" THEN "fresh" ELSE "absent"
    <2>1. black' = [black EXCEPT ![n][a] = v] /\ TellBlacklist(n, method, a)
      BY <1>2 DEF BlacklistRequest, HandleBlacklist
    <2>2. QED
      BY <2>1, TellKeepsBlocks DEF Methods
  <1>3. ASSUME NEW n \in Nodes, NEW a \in Addrs, EngineBlock(n, a)
        PROVE  BlocksInv'
    BY <1>3, TellKeepsBlocks DEF EngineBlock, Methods
  <1>4. ASSUME NEW n \in Nodes, NEW a \in Addrs, Expire(n, a)
        PROVE  BlocksInv'
    BY <1>4, TellKeepsBlocks DEF Expire, HandleBlacklist, Methods
  <1>5. ASSUME NEW n \in Nodes, NEW a \in Addrs, Age(n, a)
        PROVE  BlocksInv'
    <2>1. BlockTypes' /\ ipEvents' = ipEvents /\ racedAddrs' = racedAddrs
      BY <1>5 DEF Age, BlocksInv, BlockTypes, events, history
    <2>2. \A x \in Addrs : About(x)' = About(x) /\ \A p \in Nodes : Blocks(p, x)' <=> Blocks(p, x)
      BY <1>5, <2>1 DEF Age, Blocks, About, BlocksInv, BlockTypes
    <2>3. QED
      BY <2>1, <2>2, OthersKeepBlocks
  <1>6. ASSUME NEW m \in ipEvents, DeliverBlacklist(m)
        PROVE  BlocksInv'
    BY <1>6, DeliveryKeepsBlocks
  <1>7. ASSUME NEW n \in Nodes, NEW method \in Methods, NEW t \in Allowed, WhitelistRequest(n, method, t)
        PROVE  BlocksInv'
    <2>1. /\ ipEvents' = ipEvents \cup IpEvents(n, "whitelist", method, t)
          /\ UNCHANGED <<black, racedAddrs>>
      BY <1>7 DEF WhitelistRequest, HandleWhitelist, blocks
    <2>2. \A m \in IpEvents(n, "whitelist", method, t) :
              m.to \in Nodes /\ m.endpoint = "whitelist" /\ m.method \in Methods
      BY RemoteIsRest DEF IpEvents
    <2>3. BlockTypes' /\ \A a \in Addrs : About(a)' = About(a)
      BY <2>1, <2>2 DEF BlocksInv, BlockTypes, About
    <2>4. QED
      BY <2>1, <2>3, <1>1
  <1>8. ASSUME NEW m \in ipEvents, DeliverWhitelist(m)
        PROVE  BlocksInv'
    <2>1. m.endpoint = "whitelist" /\ ipEvents' = ipEvents \ {m} /\ UNCHANGED <<black, racedAddrs>>
      BY <1>8 DEF DeliverWhitelist, HandleWhitelist, blocks, history
    <2>2. BlockTypes' /\ \A a \in Addrs : About(a)' = About(a)
      BY <2>1 DEF BlocksInv, BlockTypes, About
    <2>3. QED
      BY <2>1, <2>2, <1>1
  <1>9. ASSUME NEW m \in ipEvents, LoseIp(m)
        PROVE  BlocksInv'
    <2>1. /\ ipEvents' = ipEvents \ {m} /\ UNCHANGED black
          /\ racedAddrs' = IF m.endpoint = "blacklist" THEN racedAddrs \cup {m.target} ELSE racedAddrs
      BY <1>9 DEF LoseIp, blocks
    <2>2. BlockTypes'
      BY <2>1 DEF BlocksInv, BlockTypes
    <2>3. \A a \in Addrs \ racedAddrs' :
            About(a)' = About(a) /\ \A n \in Nodes : Blocks(n, a)' <=> Blocks(n, a)
      BY <2>1 DEF About, Blocks
    <2>4. QED
      BY <2>1, <2>2, <2>3, OthersKeepBlocks
  <1>10. ASSUME NEW n \in Nodes, Restart(n)
         PROVE  BlocksInv'
    <2>1. /\ black' = [black EXCEPT ![n] = BlockedBy(file[n].black)] /\ UNCHANGED ipEvents
          /\ racedAddrs' = racedAddrs \cup
                {a \in Addrs : (black[n][a] = "absent") # (black'[n][a] = "absent")}
      BY <1>10 DEF Restart, events
    <2>2. BlockTypes'
      BY <2>1 DEF BlocksInv, BlockTypes, BlockedBy
    <2>3. ASSUME NEW a \in Addrs \ racedAddrs', NEW p \in Nodes
          PROVE  Blocks(p, a)' <=> Blocks(p, a)
      <3>1. CASE p = n
        BY <2>1, <2>3, <3>1, Zenon DEF Blocks
      <3>2. CASE p # n
        BY <2>1, <3>2 DEF Blocks, BlocksInv, BlockTypes
      <3>3. QED
        BY <3>1, <3>2
    <2>4. QED
      BY <2>1, <2>2, <2>3, OthersKeepBlocks DEF About
  <1>11. CASE UNCHANGED <<blocks, ipEvents, racedAddrs>>
    BY <1>1, <1>11 DEF blocks, BlocksInv, BlockTypes, About
  <1>12. QED
    <2>1. ASSUME NEW n \in Nodes, NEW value \in {0, 1}, PolicyRequest(n, value)
          PROVE  BlocksInv'
      BY <2>1, <1>11 DEF PolicyRequest, HandlePolicy, blocks
    <2>2. ASSUME NEW n \in Nodes, NEW method \in Methods, NEW r \in RouteRequests,
                 RoutingRequest(n, method, r[1], r[2], r[3], r[4])
          PROVE  BlocksInv'
      BY <2>2, <1>11 DEF RoutingRequest, HandleRouting, blocks
    <2>3. ASSUME NEW m \in policyEvents, DeliverPolicy(m) \/ LosePolicy(m)
          PROVE  BlocksInv'
      BY <2>3, <1>11 DEF DeliverPolicy, LosePolicy, HandlePolicy, blocks, history
    <2>4. ASSUME NEW m \in routingEvents, DeliverRouting(m) \/ LoseRouting(m)
          PROVE  BlocksInv'
      BY <2>4, <1>11 DEF DeliverRouting, LoseRouting, HandleRouting, blocks, history
    <2>5. CASE UNCHANGED vars
      BY <2>5, <1>11 DEF vars, blocks, events, history
    <2>6. QED
      BY <1>2, <1>3, <1>4, <1>5, <1>6, <1>7, <1>8, <1>9, <1>10, <2>1, <2>2, <2>3, <2>4, <2>5
      DEF Next, Answer

\* In a cluster of any size, whatever operators, engines and the TTL do and however late
\* and in whatever order the events arrive, the nodes agree on every address of which no
\* event was lost and no opposite change crossed.
THEOREM BlocksDoAgree == Spec => []BlocksAgree
  <1>1. BlocksInv => BlocksAgree
    <2> SUFFICES ASSUME BlocksInv, NEW a \in Addrs \ racedAddrs,
                        \A m \in ipEvents : m.endpoint = "blacklist" => m.target # a,
                        NEW n \in Nodes, NEW p \in Nodes
                 PROVE  Blocks(n, a) = Blocks(p, a)
      BY DEF BlocksAgree
    <2>1. PICK method \in Methods : Outcome(a, method)
      BY DEF BlocksInv
    <2>2. About(a) = {}
      BY DEF About
    <2>3. Blocks(n, a) <=> Blocks(p, a)
      BY <2>1, <2>2 DEF Outcome
    <2>4. QED
      BY <2>3 DEF Blocks
  <1>2. QED
    BY <1>1, BlocksInit, BlocksNext, PTL DEF Spec
-----------------------------------------------------------------------------
(* Types *)

RuleTypes ==
    /\ black \in [Nodes -> [Addrs -> {"absent", "fresh", "old"}]]
    /\ policy \in [Nodes -> {0, 1}]
    /\ BlacklistTargets \in [Nodes -> SUBSET Addrs]
    /\ WhitelistTargets \in [Nodes -> SUBSET Allowed]
    /\ file \in [Nodes -> [policy : {0, 1}, black : SUBSET Addrs, white : SUBSET Allowed]]

RouteTypes ==
    /\ table \in [Nodes -> Tables]
    /\ dnat \in [Nodes -> [Vips -> [Backends -> Nat]]]

IpTypes ==
    \A m \in ipEvents :
        /\ m.to \in Nodes /\ m.method \in Methods
        /\ m.endpoint = "blacklist" => m.target \in Addrs
        /\ m.endpoint = "whitelist" => m.target \in Allowed

PolicyTypes == \A m \in policyEvents : m.to \in Nodes /\ m.value \in {0, 1}

RoutingTypes ==
    \A m \in routingEvents :
        /\ m.to \in Nodes /\ m.method \in Methods /\ m.key \in Keys /\ m.backend \in Backends
        /\ KeyAtPeer(m.key) = m.key

HistoryTypes ==
    /\ changes \in 0 .. MaxChanges /\ faults \in 0 .. MaxFaults
    /\ racedAddrs \subseteq Addrs /\ racedVips \subseteq Vips
    /\ racedFilter \in BOOLEAN /\ lockedOut \in BOOLEAN

TypeInv == RuleTypes /\ RouteTypes /\ IpTypes /\ PolicyTypes /\ RoutingTypes /\ HistoryTypes

LEMMA BoundsAreNumbers == MaxChanges \in Nat /\ MaxFaults \in Nat
  BY ClusterAssumption, Zenon DEF ClusterAssumption

LEMMA TypeInit == Init => TypeInv
  <1> SUFFICES ASSUME Init PROVE TypeInv
    OBVIOUS
  <1>1. PICK f \in EarlierFiles :
            /\ black = [n \in Nodes |-> BlockedBy(f.black)]
            /\ policy = [n \in Nodes |-> f.policy]
            /\ BlacklistTargets = [n \in Nodes |-> f.black]
            /\ WhitelistTargets = [n \in Nodes |-> f.white]
            /\ file = [n \in Nodes |-> f]
            /\ lockedOut = (f.policy = 1 /\ f.white = {})
    BY DEF Init
  <1>2. f \in [policy : {0, 1}, black : SUBSET Addrs, white : SUBSET Allowed]
    BY ClusterAssumption
  <1>3. RuleTypes
    BY <1>1, <1>2 DEF RuleTypes, BlockedBy
  <1>4. RouteTypes
    BY DEF Init, RouteTypes, Tables, NoRoutes
  <1>5. IpTypes /\ PolicyTypes /\ RoutingTypes
    BY DEF Init, IpTypes, PolicyTypes, RoutingTypes
  <1>6. HistoryTypes
    <2>1. lockedOut \in BOOLEAN
      BY <1>1, Zenon
    <2>2. changes = 0 /\ faults = 0 /\ racedAddrs = {} /\ racedFilter = FALSE /\ racedVips = {}
      BY DEF Init
    <2>3. changes \in 0 .. MaxChanges /\ faults \in 0 .. MaxFaults
      BY <2>2, BoundsAreNumbers
    <2>4. QED
      BY <2>1, <2>2, <2>3 DEF HistoryTypes
  <1>7. QED
    BY <1>3, <1>4, <1>5, <1>6 DEF TypeInv

\* What a handler does to the rules of its node keeps their types.
LEMMA BlacklistTypes ==
    ASSUME TypeInv, NEW n \in Nodes, NEW method \in Methods, NEW a \in Addrs,
           HandleBlacklist(n, method, a)
    PROVE  RuleTypes' /\ RouteTypes'
  <1>1. UNCHANGED <<policy, WhitelistTargets, table, dnat>>
    BY DEF HandleBlacklist, rules, routes
  <1>2. /\ black' \in [Nodes -> [Addrs -> {"absent", "fresh", "old"}]]
        /\ BlacklistTargets' \in [Nodes -> SUBSET Addrs]
    BY DEF HandleBlacklist, TypeInv, RuleTypes
  <1>3. Content(n)' \in [policy : {0, 1}, black : SUBSET Addrs, white : SUBSET Allowed]
    BY <1>1, <1>2 DEF Content, TypeInv, RuleTypes
  <1>4. file' \in [Nodes -> [policy : {0, 1}, black : SUBSET Addrs, white : SUBSET Allowed]]
    BY <1>3 DEF HandleBlacklist, Save, TypeInv, RuleTypes
  <1>5. QED
    BY <1>1, <1>2, <1>4 DEF TypeInv, RuleTypes, RouteTypes

LEMMA WhitelistTypes ==
    ASSUME TypeInv, NEW n \in Nodes, NEW method \in Methods, NEW t \in Allowed,
           HandleWhitelist(n, method, t)
    PROVE  RuleTypes' /\ RouteTypes'
  <1>1. UNCHANGED <<black, BlacklistTargets, table, dnat>>
    BY DEF HandleWhitelist, blocks, routes
  <1>2. WhitelistTargets' \in [Nodes -> SUBSET Allowed] /\ policy' \in [Nodes -> {0, 1}]
    BY DEF HandleWhitelist, TypeInv, RuleTypes
  <1>3. Content(n)' \in [policy : {0, 1}, black : SUBSET Addrs, white : SUBSET Allowed]
    BY <1>1, <1>2 DEF Content, TypeInv, RuleTypes
  <1>4. file' \in [Nodes -> [policy : {0, 1}, black : SUBSET Addrs, white : SUBSET Allowed]]
    BY <1>3 DEF HandleWhitelist, Save, TypeInv, RuleTypes
  <1>5. QED
    BY <1>1, <1>2, <1>4 DEF TypeInv, RuleTypes, RouteTypes

LEMMA PolicyKeepsTypes ==
    ASSUME TypeInv, NEW n \in Nodes, NEW value \in {0, 1}, HandlePolicy(n, value)
    PROVE  RuleTypes' /\ RouteTypes'
  <1>1. UNCHANGED <<black, BlacklistTargets, WhitelistTargets, table, dnat>>
    BY DEF HandlePolicy, blocks, routes
  <1>2. policy' \in [Nodes -> {0, 1}]
    BY DEF HandlePolicy, TypeInv, RuleTypes
  <1>3. Content(n)' \in [policy : {0, 1}, black : SUBSET Addrs, white : SUBSET Allowed]
    BY <1>1, <1>2 DEF Content, TypeInv, RuleTypes
  <1>4. file' \in [Nodes -> [policy : {0, 1}, black : SUBSET Addrs, white : SUBSET Allowed]]
    BY <1>3 DEF HandlePolicy, Save, TypeInv, RuleTypes
  <1>5. QED
    BY <1>1, <1>2, <1>4 DEF TypeInv, RuleTypes, RouteTypes

LEMMA RoutingKeepsTypes ==
    ASSUME TypeInv, NEW n \in Nodes, NEW method \in Methods, NEW k \in Keys, NEW b \in Backends,
           HandleRouting(n, method, k, b)
    PROVE  RuleTypes' /\ RouteTypes'
  <1>1. k.vip \in Vips
    BY DEF Keys
  <1>2. UNCHANGED <<black, BlacklistTargets, policy, WhitelistTargets, file>>
    BY DEF HandleRouting, rules, blocks
  <1>3. table' \in [Nodes -> Tables]
    <2>1. \A t \in Tables : RoutesAfterAdd(t, k, b) \in Tables /\ RoutesAfterRemove(t, k) \in Tables
      BY DEF Tables, RoutesAfterAdd, RoutesAfterRemove
    <2>2. QED
      BY <2>1 DEF HandleRouting, TypeInv, RouteTypes
  <1>4. dnat' \in [Nodes -> [Vips -> [Backends -> Nat]]]
    <2>1. ASSUME NEW d \in [Vips -> [Backends -> Nat]]
          PROVE  /\ DnatAfterAdd(d, k.vip, b) \in [Vips -> [Backends -> Nat]]
                 /\ DnatAfterRemove(d, k.vip, b) \in [Vips -> [Backends -> Nat]]
      BY <1>1 DEF DnatAfterAdd, DnatAfterRemove
    <2>2. QED
      BY <2>1 DEF HandleRouting, TypeInv, RouteTypes
  <1>5. QED
    BY <1>2, <1>3, <1>4 DEF TypeInv, RuleTypes, RouteTypes

\* Changes and faults are counted to their bounds.
LEMMA CountersKeepTypes ==
    ASSUME TypeInv, Change \/ (Fault /\ UNCHANGED changes) \/ UNCHANGED <<changes, faults>>
    PROVE  changes' \in 0 .. MaxChanges /\ faults' \in 0 .. MaxFaults
  <1>1. changes \in 0 .. MaxChanges /\ faults \in 0 .. MaxFaults
    BY DEF TypeInv, HistoryTypes
  <1>2. CASE Change
    BY <1>1, <1>2, BoundsAreNumbers DEF Change
  <1>3. CASE Fault /\ UNCHANGED changes
    BY <1>1, <1>3, BoundsAreNumbers DEF Fault
  <1>4. CASE UNCHANGED <<changes, faults>>
    BY <1>1, <1>4
  <1>5. QED
    BY <1>2, <1>3, <1>4

\* The events of a change at n about the blacklist.
LEMMA TellKeepsTypes ==
    ASSUME TypeInv, NEW n \in Nodes, NEW method \in Methods, NEW a \in Addrs,
           TellBlacklist(n, method, a)
    PROVE  IpTypes' /\ PolicyTypes' /\ RoutingTypes' /\ HistoryTypes'
  <1>1. IpTypes'
    BY RemoteIsRest DEF TellBlacklist, IpEvents, TypeInv, IpTypes
  <1>2. PolicyTypes' /\ RoutingTypes'
    BY DEF TellBlacklist, TypeInv, PolicyTypes, RoutingTypes
  <1>3. HistoryTypes'
    BY CountersKeepTypes DEF TellBlacklist, TypeInv, HistoryTypes
  <1>4. QED
    BY <1>1, <1>2, <1>3

LEMMA OperatorKeepsTypes ==
    ASSUME TypeInv, NEW n \in Nodes, NEW method \in Methods
    PROVE  /\ \A a \in Addrs : BlacklistRequest(n, method, a) => TypeInv'
           /\ \A t \in Allowed : WhitelistRequest(n, method, t) => TypeInv'
           /\ \A value \in {0, 1} : PolicyRequest(n, value) => TypeInv'
  <1>1. ASSUME NEW a \in Addrs, BlacklistRequest(n, method, a)
        PROVE  TypeInv'
    BY <1>1, BlacklistTypes, TellKeepsTypes DEF BlacklistRequest, TypeInv
  <1>2. ASSUME NEW t \in Allowed, WhitelistRequest(n, method, t)
        PROVE  TypeInv'
    <2>1. RuleTypes' /\ RouteTypes'
      BY <1>2, WhitelistTypes DEF WhitelistRequest
    <2>2. IpTypes'
      BY <1>2, RemoteIsRest DEF WhitelistRequest, IpEvents, TypeInv, IpTypes
    <2>3. PolicyTypes'
      BY <1>2, RemoteIsRest
      DEF WhitelistRequest, FallbackEvents, PolicyEvents, TypeInv, PolicyTypes
    <2>4. RoutingTypes'
      BY <1>2 DEF WhitelistRequest, TypeInv, RoutingTypes
    <2>5. racedFilter' \in BOOLEAN
      BY <1>2, Zenon DEF WhitelistRequest
    <2>6. HistoryTypes'
      BY <1>2, <2>5, CountersKeepTypes DEF WhitelistRequest, TypeInv, HistoryTypes
    <2>7. QED
      BY <2>1, <2>2, <2>3, <2>4, <2>6 DEF TypeInv
  <1>3. ASSUME NEW value \in {0, 1}, PolicyRequest(n, value)
        PROVE  TypeInv'
    <2>1. RuleTypes' /\ RouteTypes'
      BY <1>3, PolicyKeepsTypes DEF PolicyRequest
    <2>2. IpTypes' /\ RoutingTypes'
      BY <1>3 DEF PolicyRequest, TypeInv, IpTypes, RoutingTypes
    <2>3. PolicyTypes'
      BY <1>3, RemoteIsRest DEF PolicyRequest, PolicyEvents, TypeInv, PolicyTypes
    <2>4. racedFilter' \in BOOLEAN /\ lockedOut' \in BOOLEAN
      BY <1>3, Zenon DEF PolicyRequest
    <2>5. HistoryTypes'
      BY <1>3, <2>4, CountersKeepTypes DEF PolicyRequest, TypeInv, HistoryTypes
    <2>6. QED
      BY <2>1, <2>2, <2>3, <2>5 DEF TypeInv
  <1>4. QED
    BY <1>1, <1>2, <1>3

LEMMA RouteRequestKeepsTypes ==
    ASSUME TypeInv, NEW n \in Nodes, NEW method \in Methods, NEW vip \in Vips,
           NEW vport \in Ports \cup {0}, NEW proto, NEW b \in Backends,
           RoutingRequest(n, method, vip, vport, proto, b)
    PROVE  TypeInv'
  <1> DEFINE k == RequestKey(vip, vport, proto)
  <1>1. k \in Keys /\ KeyAtPeer(k) = k
    BY KeySurvivesSync
  <1>2. HandleRouting(n, method, k, b) /\ Change
    BY DEF RoutingRequest
  <1>3. RuleTypes' /\ RouteTypes'
    BY <1>1, <1>2, RoutingKeepsTypes
  <1>4. IpTypes' /\ PolicyTypes'
    BY DEF RoutingRequest, TypeInv, IpTypes, PolicyTypes
  <1>5. routingEvents' = routingEvents \cup
            [to : Remote(n), seq : {changes}, method : {method}, key : {k}, backend : {b}]
    BY DEF RoutingRequest
  <1>6. RoutingTypes'
    <2> HIDE DEF k
    <2>1. QED
      BY <1>1, <1>5, RemoteIsRest DEF TypeInv, RoutingTypes
  <1>7. HistoryTypes'
    BY CountersKeepTypes DEF RoutingRequest, TypeInv, HistoryTypes
  <1>8. QED
    BY <1>3, <1>4, <1>6, <1>7 DEF TypeInv

\* Engine, TTL and restarts.
LEMMA NodeKeepsTypes ==
    ASSUME TypeInv, NEW n \in Nodes
    PROVE  /\ \A a \in Addrs : (EngineBlock(n, a) \/ Age(n, a) \/ Expire(n, a)) => TypeInv'
           /\ Restart(n) => TypeInv'
  <1>1. ASSUME NEW a \in Addrs, EngineBlock(n, a)
        PROVE  TypeInv'
    <2>1. RuleTypes' /\ RouteTypes'
      BY <1>1 DEF EngineBlock, rules, routes, TypeInv, RuleTypes, RouteTypes
    <2>2. QED
      BY <1>1, <2>1, TellKeepsTypes DEF EngineBlock, Methods, TypeInv
  <1>2. ASSUME NEW a \in Addrs, Age(n, a)
        PROVE  TypeInv'
    <2>1. RuleTypes' /\ RouteTypes'
      BY <1>2 DEF Age, rules, routes, TypeInv, RuleTypes, RouteTypes
    <2>2. IpTypes' /\ PolicyTypes' /\ RoutingTypes'
      BY <1>2 DEF Age, events, TypeInv, IpTypes, PolicyTypes, RoutingTypes
    <2>3. HistoryTypes'
      BY <1>2 DEF Age, history, TypeInv, HistoryTypes
    <2>4. QED
      BY <2>1, <2>2, <2>3 DEF TypeInv
  <1>3. ASSUME NEW a \in Addrs, Expire(n, a)
        PROVE  TypeInv'
    BY <1>3, BlacklistTypes, TellKeepsTypes DEF Expire, Methods, TypeInv
  <1>4. ASSUME Restart(n)
        PROVE  TypeInv'
    <2>1. file[n] \in [policy : {0, 1}, black : SUBSET Addrs, white : SUBSET Allowed]
      BY DEF TypeInv, RuleTypes
    <2>2. BlockedBy(file[n].black) \in [Addrs -> {"absent", "fresh", "old"}]
      BY DEF BlockedBy
    <2>3. RuleTypes'
      BY <1>4, <2>1, <2>2 DEF Restart, TypeInv, RuleTypes
    <2>4. NoRoutes \in Tables
      BY DEF NoRoutes, Tables
    <2>5. RouteTypes'
      BY <1>4, <2>4 DEF Restart, TypeInv, RouteTypes
    <2>6. IpTypes' /\ PolicyTypes' /\ RoutingTypes'
      BY <1>4 DEF Restart, events, TypeInv, IpTypes, PolicyTypes, RoutingTypes
    <2>7. racedAddrs' \subseteq Addrs /\ racedVips' \subseteq Vips
      BY <1>4 DEF Restart, Keys, TypeInv, HistoryTypes
    <2>8. HistoryTypes'
      BY <1>4, <2>7, CountersKeepTypes DEF Restart, TypeInv, HistoryTypes
    <2>9. QED
      BY <2>3, <2>5, <2>6, <2>8 DEF TypeInv
  <1>5. QED
    BY <1>1, <1>2, <1>3, <1>4

LEMMA AnswerKeepsTypes == TypeInv /\ Answer => TypeInv'
  <1> SUFFICES ASSUME TypeInv, Answer PROVE TypeInv'
    OBVIOUS
  <1>1. ASSUME UNCHANGED history PROVE HistoryTypes'
    BY <1>1 DEF history, TypeInv, HistoryTypes
  <1>2. ASSUME NEW m \in ipEvents, DeliverBlacklist(m)
        PROVE  TypeInv'
    <2>1. RuleTypes' /\ RouteTypes'
      BY <1>2, BlacklistTypes DEF DeliverBlacklist, TypeInv, IpTypes
    <2>2. IpTypes' /\ PolicyTypes' /\ RoutingTypes'
      BY <1>2 DEF DeliverBlacklist, TypeInv, IpTypes, PolicyTypes, RoutingTypes
    <2>3. QED
      BY <1>1, <1>2, <2>1, <2>2 DEF DeliverBlacklist, TypeInv
  <1>3. ASSUME NEW m \in ipEvents, DeliverWhitelist(m)
        PROVE  TypeInv'
    <2>1. RuleTypes' /\ RouteTypes'
      BY <1>3, WhitelistTypes DEF DeliverWhitelist, TypeInv, IpTypes
    <2>2. IpTypes' /\ PolicyTypes' /\ RoutingTypes'
      BY <1>3 DEF DeliverWhitelist, TypeInv, IpTypes, PolicyTypes, RoutingTypes
    <2>3. QED
      BY <1>1, <1>3, <2>1, <2>2 DEF DeliverWhitelist, TypeInv
  <1>4. ASSUME NEW m \in policyEvents, DeliverPolicy(m)
        PROVE  TypeInv'
    <2>1. RuleTypes' /\ RouteTypes'
      BY <1>4, PolicyKeepsTypes DEF DeliverPolicy, TypeInv, PolicyTypes
    <2>2. IpTypes' /\ PolicyTypes' /\ RoutingTypes'
      BY <1>4 DEF DeliverPolicy, TypeInv, IpTypes, PolicyTypes, RoutingTypes
    <2>3. QED
      BY <1>1, <1>4, <2>1, <2>2 DEF DeliverPolicy, TypeInv
  <1>5. ASSUME NEW m \in routingEvents, DeliverRouting(m)
        PROVE  TypeInv'
    <2>1. m.to \in Nodes /\ m.method \in Methods /\ KeyAtPeer(m.key) \in Keys /\ m.backend \in Backends
      BY DEF TypeInv, RoutingTypes
    <2>2. RuleTypes' /\ RouteTypes'
      BY <1>5, <2>1, RoutingKeepsTypes DEF DeliverRouting
    <2>3. IpTypes' /\ PolicyTypes' /\ RoutingTypes'
      BY <1>5 DEF DeliverRouting, TypeInv, IpTypes, PolicyTypes, RoutingTypes
    <2>4. QED
      BY <1>1, <1>5, <2>2, <2>3 DEF DeliverRouting, TypeInv
  <1>6. ASSUME UNCHANGED <<rules, blocks, routes, file>>
        PROVE  RuleTypes' /\ RouteTypes'
    BY <1>6 DEF rules, blocks, routes, TypeInv, RuleTypes, RouteTypes
  <1>7. ASSUME NEW m \in ipEvents, LoseIp(m)
        PROVE  TypeInv'
    <2>1. IpTypes' /\ PolicyTypes' /\ RoutingTypes'
      BY <1>7 DEF LoseIp, TypeInv, IpTypes, PolicyTypes, RoutingTypes
    <2>2. racedFilter' \in BOOLEAN
      BY <1>7, Zenon DEF LoseIp
    <2>3. racedAddrs' \subseteq Addrs
      BY <1>7 DEF LoseIp, TypeInv, IpTypes, HistoryTypes
    <2>4. HistoryTypes'
      BY <1>7, <2>2, <2>3, CountersKeepTypes DEF LoseIp, TypeInv, HistoryTypes
    <2>5. QED
      BY <1>6, <1>7, <2>1, <2>4 DEF LoseIp, TypeInv
  <1>8. ASSUME NEW m \in policyEvents, LosePolicy(m)
        PROVE  TypeInv'
    <2>1. IpTypes' /\ PolicyTypes' /\ RoutingTypes'
      BY <1>8 DEF LosePolicy, TypeInv, IpTypes, PolicyTypes, RoutingTypes
    <2>2. HistoryTypes'
      BY <1>8, CountersKeepTypes DEF LosePolicy, TypeInv, HistoryTypes
    <2>3. QED
      BY <1>6, <1>8, <2>1, <2>2 DEF LosePolicy, TypeInv
  <1>9. ASSUME NEW m \in routingEvents, LoseRouting(m)
        PROVE  TypeInv'
    <2>1. IpTypes' /\ PolicyTypes' /\ RoutingTypes'
      BY <1>9 DEF LoseRouting, TypeInv, IpTypes, PolicyTypes, RoutingTypes
    <2>2. racedVips' \subseteq Vips
      BY <1>9 DEF LoseRouting, Keys, TypeInv, RoutingTypes, HistoryTypes
    <2>3. HistoryTypes'
      BY <1>9, <2>2, CountersKeepTypes DEF LoseRouting, TypeInv, HistoryTypes
    <2>4. QED
      BY <1>6, <1>9, <2>1, <2>3 DEF LoseRouting, TypeInv
  <1>10. QED
    BY <1>2, <1>3, <1>4, <1>5, <1>7, <1>8, <1>9 DEF Answer

LEMMA TypeNext == TypeInv /\ [Next]_vars => TypeInv'
  <1> SUFFICES ASSUME TypeInv, [Next]_vars PROVE TypeInv'
    OBVIOUS
  <1>1. ASSUME NEW n \in Nodes, NEW method \in Methods, NEW r \in RouteRequests,
               RoutingRequest(n, method, r[1], r[2], r[3], r[4])
        PROVE  TypeInv'
    <2>1. r[1] \in Vips /\ r[2] \in Ports \cup {0} /\ r[4] \in Backends
      BY ClusterAssumption, Zenon DEF ClusterAssumption
    <2>2. QED
      BY <1>1, <2>1, RouteRequestKeepsTypes, Zenon
  <1>2. CASE UNCHANGED vars
    <2>1. RuleTypes' /\ RouteTypes' /\ HistoryTypes'
      BY <1>2 DEF vars, rules, blocks, routes, history, TypeInv, RuleTypes, RouteTypes, HistoryTypes
    <2>2. IpTypes' /\ PolicyTypes' /\ RoutingTypes'
      BY <1>2 DEF vars, events, TypeInv, IpTypes, PolicyTypes, RoutingTypes
    <2>3. QED
      BY <2>1, <2>2 DEF TypeInv
  <1>3. ASSUME NEW n \in Nodes, NEW value \in {0, 1}, PolicyRequest(n, value)
        PROVE  TypeInv'
    BY <1>3, OperatorKeepsTypes DEF Methods
  <1>4. QED
    BY <1>1, <1>2, <1>3, OperatorKeepsTypes, NodeKeepsTypes, AnswerKeepsTypes DEF Next

\* Every variable keeps its type: an event names a node, and a key that its peer reads
\* back as it was written.
THEOREM TypeCorrect == Spec => []TypeOK
  <1>1. TypeInv => TypeOK
    BY DEF TypeInv, TypeOK, RuleTypes, RouteTypes, IpTypes, PolicyTypes, RoutingTypes, HistoryTypes
  <1>2. QED
    BY <1>1, TypeInit, TypeNext, PTL DEF Spec

-----------------------------------------------------------------------------
(* The routing table *)

Effect(t, method, k, b) ==
    IF method = "POST" THEN RoutesAfterAdd(t, k, b) ELSE RoutesAfterRemove(t, k)

SameOn(vip, t, u) == \A k \in KeysOf(vip) : t[k] = u[k]

\* The rows of a VIP after a change of it depend on its rows before alone.
LEMMA EffectIsLocal ==
    ASSUME NEW t \in Tables, NEW u \in Tables, NEW method, NEW k \in Keys, NEW b,
           SameOn(k.vip, t, u)
    PROVE  SameOn(k.vip, Effect(t, method, k, b), Effect(u, method, k, b))
  <1>1. t[k] = u[k]
    BY DEF SameOn, KeysOf
  <1>2. \A x \in KeysOf(k.vip) : x \in Keys /\ x.vip = k.vip /\ t[x] = u[x]
    BY DEF SameOn, KeysOf
  <1>3. ASSUME NEW x \in KeysOf(k.vip)
        PROVE  Effect(t, method, k, b)[x] = Effect(u, method, k, b)[x]
    BY <1>1, <1>2 DEF Effect, RoutesAfterAdd, RoutesAfterRemove, Tables
  <1>4. QED
    BY <1>3 DEF SameOn

\* The rows of other VIPs stay, removals of a whole VIP included.
LEMMA EffectSparesOthers ==
    ASSUME NEW t \in Tables, NEW method, NEW k \in Keys, NEW b, NEW vip, vip # k.vip
    PROVE  SameOn(vip, Effect(t, method, k, b), t)
  <1>1. ASSUME NEW x \in Keys, x.vip # k.vip
        PROVE  Effect(t, method, k, b)[x] = t[x]
    BY <1>1 DEF Effect, RoutesAfterAdd, RoutesAfterRemove, Tables
  <1>2. QED
    BY <1>1 DEF SameOn, KeysOf

EventsTo(n, vip) == {m \in routingEvents : m.to = n /\ m.key.vip = vip}

\* Node n has the rows t for the VIP, or one event on its way that makes them.
Reaches(n, vip, t) ==
    \/ EventsTo(n, vip) = {} /\ SameOn(vip, table[n], t)
    \/ \E m \in routingEvents :
        /\ EventsTo(n, vip) = {m}
        /\ SameOn(vip, Effect(table[n], m.method, m.key, m.backend), t)

RoutesInv ==
    /\ TypeInv
    /\ \A vip \in Vips \ racedVips : \E t \in Tables : \A n \in Nodes : Reaches(n, vip, t)

LEMMA RoutesInit == Init => RoutesInv
  <1> SUFFICES ASSUME Init PROVE RoutesInv
    OBVIOUS
  <1>1. table = [n \in Nodes |-> NoRoutes] /\ routingEvents = {}
    BY DEF Init
  <1>2. NoRoutes \in Tables
    BY DEF NoRoutes, Tables
  <1>3. \A vip \in Vips, n \in Nodes : Reaches(n, vip, NoRoutes)
    BY <1>1 DEF Reaches, EventsTo, SameOn
  <1>4. QED
    BY <1>2, <1>3, TypeInit DEF RoutesInv

\* A step that leaves the rows of a VIP at n, and the events about them, as they are.
LEMMA KeptReaches ==
    ASSUME TypeInv, TypeInv', NEW n \in Nodes, NEW vip \in Vips, NEW t \in Tables,
           Reaches(n, vip, t), EventsTo(n, vip)' = EventsTo(n, vip),
           SameOn(vip, table'[n], table[n])
    PROVE  Reaches(n, vip, t)'
  <1>1. table[n] \in Tables /\ table'[n] \in Tables
    BY DEF TypeInv, RouteTypes
  <1>2. CASE EventsTo(n, vip) = {} /\ SameOn(vip, table[n], t)
    BY <1>2 DEF Reaches, SameOn
  <1>3. ASSUME NEW m \in routingEvents, EventsTo(n, vip) = {m},
               SameOn(vip, Effect(table[n], m.method, m.key, m.backend), t)
        PROVE  Reaches(n, vip, t)'
    <2>1. m.key \in Keys /\ m.key.vip = vip /\ m \in routingEvents'
      BY <1>3 DEF EventsTo, TypeInv, RoutingTypes
    <2>2. SameOn(vip, Effect(table'[n], m.method, m.key, m.backend),
                      Effect(table[n], m.method, m.key, m.backend))
      BY <1>1, <2>1, EffectIsLocal
    <2>3. SameOn(vip, Effect(table'[n], m.method, m.key, m.backend), t)
      BY <1>3, <2>2 DEF SameOn
    <2>4. QED
      BY <1>3, <2>1, <2>3 DEF Reaches
  <1>4. QED
    BY <1>2, <1>3 DEF Reaches

LEMMA KeptRoutes ==
    ASSUME RoutesInv, TypeInv', racedVips \subseteq racedVips',
           \A vip \in Vips \ racedVips', n \in Nodes :
               EventsTo(n, vip)' = EventsTo(n, vip) /\ SameOn(vip, table'[n], table[n])
    PROVE  RoutesInv'
  <1>1. ASSUME NEW vip \in Vips \ racedVips'
        PROVE  \E t \in Tables : \A n \in Nodes : Reaches(n, vip, t)'
    <2>1. PICK t \in Tables : \A n \in Nodes : Reaches(n, vip, t)
      BY <1>1 DEF RoutesInv
    <2>2. \A n \in Nodes : Reaches(n, vip, t)'
      BY <2>1, KeptReaches DEF RoutesInv
    <2>3. QED
      BY <2>2
  <1>2. QED
    BY <1>1 DEF RoutesInv

\* What HandleRouting does to the tables.
LEMMA HandleRoutingTable ==
    ASSUME TypeInv, NEW n \in Nodes, NEW method \in Methods, NEW k \in Keys, NEW b,
           HandleRouting(n, method, k, b)
    PROVE  /\ table'[n] = Effect(table[n], method, k, b)
           /\ \A p \in Nodes \ {n} : table'[p] = table[p]
  BY DEF HandleRouting, Effect, Methods, TypeInv, RouteTypes

\* A change at n of which every peer is told.
LEMMA RequestKeepsRoutes ==
    ASSUME RoutesInv, TypeInv', NEW n \in Nodes, NEW method \in Methods, NEW k \in Keys,
           NEW b, HandleRouting(n, method, k, b),
           routingEvents' = routingEvents \cup
                [to : Remote(n), seq : {changes}, method : {method}, key : {k}, backend : {b}],
           racedVips' = IF \E m \in routingEvents : m.key.vip = k.vip
                        THEN racedVips \cup {k.vip} ELSE racedVips
    PROVE  RoutesInv'
  <1> DEFINE new == [to : Remote(n), seq : {changes}, method : {method}, key : {k}, backend : {b}]
             event(p) == [to |-> p, seq |-> changes, method |-> method, key |-> k, backend |-> b]
  <1>1. \A m \in new : m.key = k /\ m.method = method /\ m.backend = b /\ m.to # n
    BY RemoteIsRest
  <1>2. \A p \in Nodes \ {n} : {m \in new : m.to = p} = {event(p)}
    BY RemoteIsRest
  <1>3. \A p \in Nodes : table[p] \in Tables
    BY DEF RoutesInv, TypeInv, RouteTypes
  <1>4. table'[n] = Effect(table[n], method, k, b) /\ \A p \in Nodes \ {n} : table'[p] = table[p]
    BY HandleRoutingTable DEF RoutesInv
  <1>5. routingEvents' = routingEvents \cup new
    OBVIOUS
  <1>6. ASSUME NEW vip \in Vips \ racedVips', vip # k.vip
        PROVE  \E t \in Tables : \A p \in Nodes : Reaches(p, vip, t)'
    <2>1. PICK t \in Tables : \A p \in Nodes : Reaches(p, vip, t)
      BY <1>6 DEF RoutesInv
    <2> HIDE DEF new
    <2>2. \A p \in Nodes : EventsTo(p, vip)' = EventsTo(p, vip)
      BY <1>1, <1>5, <1>6 DEF EventsTo
    <2>3. \A p \in Nodes : SameOn(vip, table'[p], table[p])
      BY <1>3, <1>4, <1>6, EffectSparesOthers DEF SameOn
    <2>4. \A p \in Nodes : Reaches(p, vip, t)'
      BY <1>6, <2>1, <2>2, <2>3, KeptReaches DEF RoutesInv
    <2>5. QED
      BY <2>4
  <1>7. ASSUME NEW vip \in Vips \ racedVips', vip = k.vip
        PROVE  \E t \in Tables : \A p \in Nodes : Reaches(p, vip, t)'
    <2>1. \A m \in routingEvents : m.key.vip # vip
      BY <1>7
    <2>2. PICK t \in Tables : \A p \in Nodes : Reaches(p, vip, t)
      BY <1>7 DEF RoutesInv
    <2>3. \A p \in Nodes : EventsTo(p, vip) = {}
      BY <2>1 DEF EventsTo
    <2>4. \A p \in Nodes : SameOn(vip, table[p], t)
      BY <2>2, <2>3 DEF Reaches
    <2>5. \A p \in Nodes : SameOn(vip, table[p], table[n])
      BY <2>4 DEF SameOn
    <2>6. PICK u \in Tables : u = table'[n]
      BY DEF TypeInv, RouteTypes
    <2>7. Reaches(n, vip, u)'
      <3>1. EventsTo(n, vip)' = {}
        <4> HIDE DEF new
        <4>1. QED
          BY <1>1, <1>5, <2>1 DEF EventsTo
      <3>2. QED
        BY <2>6, <3>1 DEF Reaches, SameOn
    <2>8. ASSUME NEW p \in Nodes \ {n}
          PROVE  Reaches(p, vip, u)'
      <3>1. event(p) \in new /\ event(p).method = method /\ event(p).key = k /\ event(p).backend = b
        BY RemoteIsRest
      <3>2. EventsTo(p, vip)' = {event(p)}
        <4> HIDE DEF new, event
        <4>1. EventsTo(p, vip)' = {m \in new : m.to = p}
          BY <1>1, <1>5, <1>7, <2>1 DEF EventsTo
        <4>2. QED
          BY <1>2, <4>1
      <3>3. SameOn(vip, Effect(table[p], method, k, b), Effect(table[n], method, k, b))
        BY <1>3, <1>7, <2>5, EffectIsLocal
      <3>4. SameOn(vip, Effect(table'[p], method, k, b), u)
        BY <1>4, <2>6, <3>3
      <3> HIDE DEF new, event
      <3>5. QED
        BY <1>5, <3>1, <3>2, <3>4 DEF Reaches
    <2>9. QED
      BY <2>7, <2>8
  <1>8. QED
    BY <1>6, <1>7 DEF RoutesInv

\* The event arrives at its node.
LEMMA DeliveryKeepsRoutes ==
    ASSUME RoutesInv, TypeInv', NEW m \in routingEvents, DeliverRouting(m)
    PROVE  RoutesInv'
  <1>1. /\ m.to \in Nodes /\ m.method \in Methods /\ m.key \in Keys /\ m.backend \in Backends
        /\ HandleRouting(m.to, m.method, m.key, m.backend)
        /\ routingEvents' = routingEvents \ {m} /\ UNCHANGED racedVips
    BY DEF RoutesInv, TypeInv, RoutingTypes, DeliverRouting, history
  <1>2. /\ table'[m.to] = Effect(table[m.to], m.method, m.key, m.backend)
        /\ \A p \in Nodes \ {m.to} : table'[p] = table[p]
    BY <1>1, HandleRoutingTable DEF RoutesInv
  <1>3. ASSUME NEW vip \in Vips \ racedVips, NEW t \in Tables, NEW n \in Nodes, Reaches(n, vip, t)
        PROVE  Reaches(n, vip, t)'
    <2>1. CASE n = m.to /\ vip = m.key.vip
      <3>1. m \in EventsTo(n, vip)
        BY <2>1 DEF EventsTo
      <3>2. EventsTo(n, vip) = {m} /\ SameOn(vip, table'[n], t)
        BY <1>2, <1>3, <2>1, <3>1 DEF Reaches
      <3>3. EventsTo(n, vip)' = {}
        BY <1>1, <3>2 DEF EventsTo
      <3>4. QED
        BY <3>2, <3>3 DEF Reaches
    <2>2. CASE ~(n = m.to /\ vip = m.key.vip)
      <3>1. EventsTo(n, vip)' = EventsTo(n, vip)
        BY <1>1, <2>2 DEF EventsTo
      <3>2. table[n] \in Tables
        BY DEF RoutesInv, TypeInv, RouteTypes
      <3>3. SameOn(vip, table'[n], table[n])
        <4>1. CASE n = m.to
          BY <1>1, <1>2, <2>2, <3>2, <4>1, EffectSparesOthers
        <4>2. CASE n # m.to
          BY <1>2, <4>2 DEF SameOn
        <4>3. QED
          BY <4>1, <4>2
      <3>4. QED
        BY <1>3, <3>1, <3>3, KeptReaches DEF RoutesInv
    <2>3. QED
      BY <2>1, <2>2
  <1>4. QED
    BY <1>1, <1>3 DEF RoutesInv

\* A restart empties the table of a node, and races every VIP that had routes in it.
LEMMA RestartKeepsRows ==
    ASSUME TypeInv, NEW n \in Nodes, Restart(n), NEW vip \in Vips \ racedVips', NEW p \in Nodes
    PROVE  SameOn(vip, table'[p], table[p])
  <1>1. /\ table' = [table EXCEPT ![n] = NoRoutes]
        /\ racedVips' = racedVips \cup {k.vip : k \in {x \in Keys : table[n][x] # NoBackend}}
    BY DEF Restart
  <1>2. CASE p = n
    <2>1. table'[p] = NoRoutes
      BY <1>1, <1>2 DEF TypeInv, RouteTypes
    <2>2. \A x \in KeysOf(vip) : x \in Keys /\ table[n][x] = NoBackend
      BY <1>1 DEF KeysOf
    <2>3. QED
      BY <1>2, <2>1, <2>2 DEF SameOn, NoRoutes
  <1>3. CASE p # n
    BY <1>1, <1>3 DEF SameOn, TypeInv, RouteTypes
  <1>4. QED
    BY <1>2, <1>3

LEMMA RoutesNext == RoutesInv /\ [Next]_vars => RoutesInv'
  <1> SUFFICES ASSUME RoutesInv, [Next]_vars PROVE RoutesInv'
    OBVIOUS
  <1>1. TypeInv'
    BY TypeNext DEF RoutesInv
  <1>2. ASSUME UNCHANGED <<table, routingEvents, racedVips>>
        PROVE  RoutesInv'
    BY <1>1, <1>2, KeptRoutes DEF EventsTo, SameOn
  <1>3. ASSUME NEW n \in Nodes, NEW method \in Methods, NEW r \in RouteRequests,
               RoutingRequest(n, method, r[1], r[2], r[3], r[4])
        PROVE  RoutesInv'
    <2> DEFINE k == RequestKey(r[1], r[2], r[3])
    <2>1. r[1] \in Vips /\ r[2] \in Ports \cup {0}
      BY ClusterAssumption, Zenon DEF ClusterAssumption
    <2>2. k \in Keys
      BY <2>1, KeySurvivesSync, Zenon
    <2>3. k.vip = r[1]
      BY DEF RequestKey
    <2>4. /\ HandleRouting(n, method, k, r[4])
          /\ routingEvents' = routingEvents \cup
                [to : Remote(n), seq : {changes}, method : {method}, key : {k}, backend : {r[4]}]
          /\ racedVips' = IF \E m \in routingEvents : m.key.vip = r[1]
                          THEN racedVips \cup {r[1]} ELSE racedVips
      BY <1>3, Zenon DEF RoutingRequest
    <2> HIDE DEF k
    <2>5. QED
      BY <1>1, <2>2, <2>3, <2>4, RequestKeepsRoutes
  <1>4. ASSUME NEW m \in routingEvents, DeliverRouting(m)
        PROVE  RoutesInv'
    BY <1>1, <1>4, DeliveryKeepsRoutes
  <1>5. ASSUME NEW m \in routingEvents, LoseRouting(m)
        PROVE  RoutesInv'
    <2>1. /\ routingEvents' = routingEvents \ {m} /\ UNCHANGED table
          /\ racedVips' = racedVips \cup {m.key.vip}
      BY <1>5 DEF LoseRouting, routes
    <2>2. \A vip \in Vips \ racedVips', n \in Nodes :
              EventsTo(n, vip)' = EventsTo(n, vip) /\ SameOn(vip, table'[n], table[n])
      BY <2>1 DEF EventsTo, SameOn
    <2>3. QED
      BY <1>1, <2>1, <2>2, KeptRoutes
  <1>6. ASSUME NEW n \in Nodes, Restart(n)
        PROVE  RoutesInv'
    <2>1. /\ table' = [table EXCEPT ![n] = NoRoutes] /\ UNCHANGED routingEvents
          /\ racedVips' = racedVips \cup {k.vip : k \in {x \in Keys : table[n][x] # NoBackend}}
      BY <1>6 DEF Restart, events
    <2>2. ASSUME NEW vip \in Vips \ racedVips', NEW p \in Nodes
          PROVE  SameOn(vip, table'[p], table[p])
      BY <1>6, <2>2, RestartKeepsRows DEF RoutesInv
    <2>3. QED
      BY <1>1, <2>1, <2>2, KeptRoutes DEF EventsTo
  <1>7. QED
    <2>1. ASSUME UNCHANGED <<routes, routingEvents, racedVips>>
          PROVE  RoutesInv'
      BY <1>2, <2>1 DEF routes
    <2>2. ASSUME NEW n \in Nodes, NEW method \in Methods, NEW a \in Addrs,
                 \/ BlacklistRequest(n, method, a)
                 \/ EngineBlock(n, a) \/ Age(n, a) \/ Expire(n, a)
          PROVE  RoutesInv'
      BY <2>1, <2>2 DEF BlacklistRequest, EngineBlock, Age, Expire, HandleBlacklist, TellBlacklist,
                        events, history
    <2>3. ASSUME NEW n \in Nodes, NEW method \in Methods, NEW t \in Allowed,
                 WhitelistRequest(n, method, t)
          PROVE  RoutesInv'
      BY <2>1, <2>3 DEF WhitelistRequest, HandleWhitelist
    <2>4. ASSUME NEW n \in Nodes, NEW value \in {0, 1}, PolicyRequest(n, value)
          PROVE  RoutesInv'
      BY <2>1, <2>4 DEF PolicyRequest, HandlePolicy
    <2>5. ASSUME NEW m \in ipEvents, DeliverBlacklist(m) \/ DeliverWhitelist(m) \/ LoseIp(m)
          PROVE  RoutesInv'
      BY <2>1, <2>5 DEF DeliverBlacklist, DeliverWhitelist, LoseIp, HandleBlacklist,
                        HandleWhitelist, history
    <2>6. ASSUME NEW m \in policyEvents, DeliverPolicy(m) \/ LosePolicy(m)
          PROVE  RoutesInv'
      BY <2>1, <2>6 DEF DeliverPolicy, LosePolicy, HandlePolicy, history
    <2>7. CASE UNCHANGED vars
      BY <2>1, <2>7 DEF vars, events, history
    <2>8. QED
      BY <1>3, <1>4, <1>5, <1>6, <2>2, <2>3, <2>4, <2>5, <2>6, <2>7 DEF Next, Answer, Methods

\* In a cluster of any size the nodes route a VIP alike once the events about it have
\* arrived, whichever keys and whole VIPs were removed, unless an event was lost, a
\* restart emptied a table with routes, or two changes of the VIP crossed.
THEOREM RoutesDoAgree == Spec => []RoutesAgree
  <1>1. RoutesInv => RoutesAgree
    <2> SUFFICES ASSUME RoutesInv, NEW vip \in Vips \ racedVips,
                        \A m \in routingEvents : m.key.vip # vip,
                        NEW n \in Nodes, NEW p \in Nodes, NEW k \in KeysOf(vip)
                 PROVE  table[n][k] = table[p][k]
      BY DEF RoutesAgree
    <2>1. PICK t \in Tables : \A x \in Nodes : Reaches(x, vip, t)
      BY DEF RoutesInv
    <2>2. \A x \in Nodes : EventsTo(x, vip) = {}
      BY DEF EventsTo
    <2>3. \A x \in Nodes : SameOn(vip, table[x], t)
      BY <2>1, <2>2 DEF Reaches
    <2>4. QED
      BY <2>3 DEF SameOn
  <1>2. QED
    BY <1>1, RoutesInit, RoutesNext, PTL DEF Spec

-----------------------------------------------------------------------------
(* The DNAT rules *)

\* A rule for every route of a VIP to a WireGuard backend.
Backed(t, d, vip) ==
    \A b \in WireGuard : Cardinality({k \in KeysOf(vip) : t[k] = b}) <= d[vip][b]

\* The removals on their way name the backend their node still routes the key to.
RemovalsExact ==
    \A m \in routingEvents :
        (/\ m.key.vip \notin racedVips /\ m.method = "DELETE"
         /\ table[m.to][m.key] # NoBackend) => m.backend = table[m.to][m.key]

DnatInv ==
    /\ RoutesInv
    /\ \A n \in Nodes, vip \in Vips \ racedVips : Backed(table[n], dnat[n], vip)
    /\ RemovalsExact

LEMMA BackendFacts == WireGuard \subseteq Backends /\ NoBackend \notin Backends
  BY RoutingAssumption, Zenon DEF RoutingAssumption

LEMMA PortsAreFinite == IsFiniteSet(Ports)
  <1>1. Ports \subseteq 1 .. MaxPort
    BY RoutingAssumption, Zenon DEF RoutingAssumption
  <1>2. MaxPort \in Int
    BY DEF MaxPort
  <1>3. IsFiniteSet(1 .. MaxPort)
    BY <1>2, FS_Interval
  <1>4. QED
    BY <1>1, <1>3, FS_Subset, Zenon

LEMMA KeysAreFinite ==
    ASSUME NEW vip
    PROVE  IsFiniteSet(KeysOf(vip))
  <1> DEFINE P == (Ports \cup {0}) \X {0, Tcp, Udp}
             f == [k \in KeysOf(vip) |-> <<k.vport, k.protocol>>]
  <1>1. IsFiniteSet(Ports \cup {0})
    BY PortsAreFinite, FS_AddElement, Zenon
  <1>2. IsFiniteSet({0, Tcp, Udp})
    <2>1. IsFiniteSet({0} \cup {Tcp})
      BY FS_Singleton, FS_AddElement, Zenon
    <2>2. IsFiniteSet(({0} \cup {Tcp}) \cup {Udp})
      BY <2>1, FS_AddElement, Zenon
    <2>3. {0, Tcp, Udp} = ({0} \cup {Tcp}) \cup {Udp}
      BY Zenon
    <2>4. QED
      BY <2>2, <2>3, Zenon
  <1>3. IsFiniteSet(P)
    BY <1>1, <1>2, FS_Product
  <1>4. \A k \in KeysOf(vip) : k = [vip |-> vip, vport |-> k.vport, protocol |-> k.protocol]
    BY DEF KeysOf, Keys
  <1>5. f \in [KeysOf(vip) -> P]
    BY DEF KeysOf, Keys
  <1>6. ASSUME NEW k \in KeysOf(vip), NEW l \in KeysOf(vip), f[k] = f[l] PROVE k = l
    <2>1. k.vport = l.vport /\ k.protocol = l.protocol
      BY <1>6
    <2>2. QED
      BY <1>4, <2>1
  <1> HIDE DEF P, f
  <1>7. f \in Injection(KeysOf(vip), P)
    BY <1>5, <1>6 DEF Injection, IsInjective
  <1>8. QED
    BY <1>3, <1>7, FS_Injection

\* Adding a route adds its rule: a key rerouted to another backend keeps the rule of the
\* first one too.
LEMMA AddBacks ==
    ASSUME NEW t \in Tables, NEW d \in [Vips -> [Backends -> Nat]], NEW k \in Keys,
           NEW b \in Backends, Backed(t, d, k.vip)
    PROVE  Backed(RoutesAfterAdd(t, k, b), DnatAfterAdd(d, k.vip, b), k.vip)
  <1> SUFFICES ASSUME NEW c \in WireGuard
               PROVE  Cardinality({x \in KeysOf(k.vip) : RoutesAfterAdd(t, k, b)[x] = c})
                        <= DnatAfterAdd(d, k.vip, b)[k.vip][c]
    BY DEF Backed
  <1> DEFINE K == KeysOf(k.vip)
             S == {x \in K : t[x] = c}
             T == {x \in K : RoutesAfterAdd(t, k, b)[x] = c}
             e == DnatAfterAdd(d, k.vip, b)
  <1>0. k.vip \in Vips /\ k \in K /\ c \in Backends /\ \A x \in K : x \in Keys
    <2>1. c \in Backends
      BY BackendFacts
    <2>2. QED
      BY <2>1 DEF Keys, KeysOf
  <1>1. \A x \in K : RoutesAfterAdd(t, k, b)[x] = IF x = k THEN b ELSE t[x]
    BY <1>0 DEF RoutesAfterAdd, Tables
  <1>2. IsFiniteSet(S) /\ Cardinality(S) \in Nat
    BY KeysAreFinite, FS_Subset, FS_CardinalityType
  <1>3. Cardinality(S) <= d[k.vip][c] /\ d[k.vip][c] \in Nat
    BY <1>0 DEF Backed
  <1>4. e[k.vip][c] = IF c = b THEN d[k.vip][c] + 1 ELSE d[k.vip][c]
    BY <1>0 DEF DnatAfterAdd
  <1>5. T = IF c = b THEN S \cup {k} ELSE S \ {k}
    BY <1>0, <1>1
  <1> HIDE DEF K, S, T, e
  <1>6. CASE c = b
    <2>1. Cardinality(S \cup {k}) = IF k \in S THEN Cardinality(S) ELSE Cardinality(S) + 1
      BY <1>2, FS_AddElement
    <2>2. Cardinality(T) <= e[k.vip][c]
      BY <1>2, <1>3, <1>4, <1>5, <1>6, <2>1
    <2>3. QED
      BY <2>2 DEF T, e, K
  <1>7. CASE c # b
    <2>1. Cardinality(S \ {k}) = IF k \in S THEN Cardinality(S) - 1 ELSE Cardinality(S)
      BY <1>2, FS_RemoveElement
    <2>2. Cardinality(T) <= e[k.vip][c]
      BY <1>2, <1>3, <1>4, <1>5, <1>7, <2>1
    <2>3. QED
      BY <2>2 DEF T, e, K
  <1>8. QED
    BY <1>6, <1>7

\* Removing a route removes one copy of its rule; a removal that takes a whole VIP along
\* leaves no route that needs one.
LEMMA RemoveBacks ==
    ASSUME NEW t \in Tables, NEW d \in [Vips -> [Backends -> Nat]], NEW k \in Keys,
           NEW b \in Backends, Backed(t, d, k.vip), t[k] # NoBackend => b = t[k]
    PROVE  Backed(RoutesAfterRemove(t, k), DnatAfterRemove(d, k.vip, b), k.vip)
  <1> SUFFICES ASSUME NEW c \in WireGuard
               PROVE  Cardinality({x \in KeysOf(k.vip) : RoutesAfterRemove(t, k)[x] = c})
                        <= DnatAfterRemove(d, k.vip, b)[k.vip][c]
    BY DEF Backed
  <1> DEFINE K == KeysOf(k.vip)
             S == {x \in K : t[x] = c}
             T == {x \in K : RoutesAfterRemove(t, k)[x] = c}
             e == DnatAfterRemove(d, k.vip, b)
  <1>0. /\ k.vip \in Vips /\ k \in K /\ c \in Backends /\ c # NoBackend
        /\ \A x \in K : x \in Keys /\ x.vip = k.vip
    <2>1. c \in Backends /\ c # NoBackend
      BY BackendFacts
    <2>2. QED
      BY <2>1 DEF Keys, KeysOf
  <1>1. IsFiniteSet(S) /\ Cardinality(S) \in Nat
    BY KeysAreFinite, FS_Subset, FS_CardinalityType
  <1>2. Cardinality(S) <= d[k.vip][c] /\ d[k.vip][c] \in Nat
    BY <1>0 DEF Backed
  <1>3. e[k.vip][c] = IF c = b /\ d[k.vip][c] > 0 THEN d[k.vip][c] - 1 ELSE d[k.vip][c]
    BY <1>0 DEF DnatAfterRemove
  <1>4. CASE k.vport # 0 /\ t[k] # NoBackend
    <2>1. \A x \in K : RoutesAfterRemove(t, k)[x] = IF x = k THEN NoBackend ELSE t[x]
      BY <1>0, <1>4 DEF RoutesAfterRemove, Tables
    <2>2. T = S \ {k} /\ (k \in S <=> c = b)
      BY <1>0, <1>4, <2>1
    <2> HIDE DEF K, S, T, e
    <2>3. Cardinality(S \ {k}) = IF k \in S THEN Cardinality(S) - 1 ELSE Cardinality(S)
      BY <1>1, FS_RemoveElement
    <2>4. k \in S => Cardinality(S) > 0
      <3>1. k \in S => S # {}
        OBVIOUS
      <3>2. QED
        BY <1>1, <3>1, FS_EmptySet
    <2>5. Cardinality(T) <= e[k.vip][c]
      BY <1>1, <1>2, <1>3, <2>2, <2>3, <2>4
    <2>6. QED
      BY <2>5 DEF T, e, K
  <1>5. CASE ~(k.vport # 0 /\ t[k] # NoBackend)
    <2>1. \A x \in K : RoutesAfterRemove(t, k)[x] = NoBackend
      BY <1>0, <1>5 DEF RoutesAfterRemove
    <2>2. T = {}
      BY <1>0, <2>1
    <2> HIDE DEF K, S, T, e
    <2>3. Cardinality(T) <= e[k.vip][c]
      BY <1>2, <1>3, <2>2, FS_EmptySet
    <2>4. QED
      BY <2>3 DEF T, e, K
  <1>6. QED
    BY <1>4, <1>5

\* A table with the same rows and no fewer rules is still backed.
LEMMA SameIsBacked ==
    ASSUME NEW t, NEW u, NEW d, NEW e, NEW vip, SameOn(vip, u, t), e[vip] = d[vip],
           Backed(t, d, vip)
    PROVE  Backed(u, e, vip)
  <1>1. \A b : {k \in KeysOf(vip) : u[k] = b} = {k \in KeysOf(vip) : t[k] = b}
    BY DEF SameOn
  <1>2. QED
    BY <1>1 DEF Backed

LEMMA DnatInit == Init => DnatInv
  <1> SUFFICES ASSUME Init PROVE DnatInv
    OBVIOUS
  <1>1. /\ table = [n \in Nodes |-> NoRoutes] /\ routingEvents = {}
        /\ dnat = [n \in Nodes |-> [vip \in Vips |-> [b \in Backends |-> 0]]]
    BY DEF Init
  <1>2. ASSUME NEW n \in Nodes, NEW vip \in Vips, NEW b \in WireGuard
        PROVE  Cardinality({k \in KeysOf(vip) : table[n][k] = b}) <= dnat[n][vip][b]
    <2>1. b \in Backends /\ b # NoBackend
      BY BackendFacts
    <2>2. {k \in KeysOf(vip) : table[n][k] = b} = {}
      BY <1>1, <2>1 DEF NoRoutes, KeysOf
    <2>3. dnat[n][vip][b] = 0
      BY <1>1, <2>1
    <2>4. QED
      BY <2>2, <2>3, FS_EmptySet
  <1>3. QED
    BY <1>1, <1>2, RoutesInit DEF DnatInv, Backed, RemovalsExact

\* Steps that at most lose events: rows, rules and removals of a VIP stay as they are.
LEMMA KeptDnat ==
    ASSUME DnatInv, RoutesInv', racedVips \subseteq racedVips', dnat' = dnat,
           routingEvents' \subseteq routingEvents,
           \A vip \in Vips \ racedVips', n \in Nodes : SameOn(vip, table'[n], table[n])
    PROVE  DnatInv'
  <1>1. ASSUME NEW n \in Nodes, NEW vip \in Vips \ racedVips'
        PROVE  Backed(table'[n], dnat'[n], vip)
    BY <1>1, SameIsBacked DEF DnatInv
  <1>2. ASSUME NEW m \in routingEvents', m.key.vip \notin racedVips', m.method = "DELETE",
               table'[m.to][m.key] # NoBackend
        PROVE  m.backend = table'[m.to][m.key]
    <2>1. m.to \in Nodes /\ m.key \in KeysOf(m.key.vip) /\ m.key.vip \in Vips
      BY <1>2 DEF DnatInv, RoutesInv, TypeInv, RoutingTypes, KeysOf, Keys
    <2>2. table'[m.to][m.key] = table[m.to][m.key]
      BY <1>2, <2>1 DEF SameOn
    <2>3. QED
      BY <1>2, <2>2 DEF DnatInv, RemovalsExact
  <1>3. QED
    BY <1>1, <1>2 DEF DnatInv, RemovalsExact

\* Before an event about the VIP is on its way all nodes have the same rows.
LEMMA QuietRowsAgree ==
    ASSUME RoutesInv, NEW vip \in Vips \ racedVips, \A m \in routingEvents : m.key.vip # vip,
           NEW n \in Nodes, NEW p \in Nodes
    PROVE  SameOn(vip, table[n], table[p])
  <1>1. PICK t \in Tables : \A x \in Nodes : Reaches(x, vip, t)
    BY DEF RoutesInv
  <1>2. \A x \in Nodes : EventsTo(x, vip) = {}
    BY DEF EventsTo
  <1>3. \A x \in Nodes : SameOn(vip, table[x], t)
    BY <1>1, <1>2 DEF Reaches
  <1>4. QED
    BY <1>3 DEF SameOn

\* A node waits for one event about the VIP at most.
LEMMA OneEventAtATime ==
    ASSUME RoutesInv, NEW vip \in Vips \ racedVips, NEW n \in Nodes,
           NEW e \in EventsTo(n, vip), NEW m \in EventsTo(n, vip)
    PROVE  e = m
  <1>1. PICK t \in Tables : Reaches(n, vip, t)
    BY DEF RoutesInv
  <1>2. QED
    BY <1>1 DEF Reaches

\* What HandleRouting does to the routes and the rules of all nodes.
LEMMA HandleRoutingBacks ==
    ASSUME DnatInv, NEW n \in Nodes, NEW method \in Methods, NEW k \in Keys, NEW b \in Backends,
           HandleRouting(n, method, k, b),
           (k.vip \notin racedVips /\ method = "DELETE" /\ table[n][k] # NoBackend)
                => b = table[n][k]
    PROVE  \A p \in Nodes, vip \in Vips \ racedVips : Backed(table'[p], dnat'[p], vip)
  <1>1. /\ \A p \in Nodes : table[p] \in Tables /\ dnat[p] \in [Vips -> [Backends -> Nat]]
        /\ DOMAIN table = Nodes /\ DOMAIN dnat = Nodes /\ k.vip \in Vips
    BY DEF DnatInv, RoutesInv, TypeInv, RouteTypes, Keys
  <1>2. ASSUME NEW p \in Nodes \ {n}, NEW vip \in Vips \ racedVips
        PROVE  Backed(table'[p], dnat'[p], vip)
    <2>1. table'[p] = table[p] /\ dnat'[p] = dnat[p]
      BY <1>1, <1>2 DEF HandleRouting
    <2>2. QED
      BY <1>2, <2>1 DEF DnatInv
  <1>3. ASSUME NEW vip \in Vips \ racedVips, vip # k.vip
        PROVE  Backed(table'[n], dnat'[n], vip)
    <2>1. SameOn(vip, table'[n], table[n])
      <3>1. table'[n] = Effect(table[n], method, k, b)
        BY HandleRoutingTable DEF DnatInv, RoutesInv
      <3>2. QED
        BY <1>1, <1>3, <3>1, EffectSparesOthers
    <2>2. dnat'[n][vip] = dnat[n][vip]
      BY <1>1, <1>3 DEF HandleRouting, DnatAfterAdd, DnatAfterRemove
    <2>3. Backed(table[n], dnat[n], vip)
      BY <1>3 DEF DnatInv
    <2>4. QED
      BY <2>1, <2>2, <2>3, SameIsBacked
  <1>4. ASSUME k.vip \notin racedVips
        PROVE  Backed(table'[n], dnat'[n], k.vip)
    <2>1. Backed(table[n], dnat[n], k.vip)
      BY <1>1, <1>4 DEF DnatInv
    <2>2. CASE method = "POST"
      <3>1. /\ table'[n] = RoutesAfterAdd(table[n], k, b)
            /\ dnat'[n] = DnatAfterAdd(dnat[n], k.vip, b)
        BY <1>1, <2>2 DEF HandleRouting
      <3>2. QED
        BY <1>1, <2>1, <3>1, AddBacks
    <2>3. CASE method = "DELETE"
      <3>1. /\ table'[n] = RoutesAfterRemove(table[n], k)
            /\ dnat'[n] = DnatAfterRemove(dnat[n], k.vip, b)
        BY <1>1, <2>3 DEF HandleRouting
      <3>2. table[n][k] # NoBackend => b = table[n][k]
        BY <1>4, <2>3
      <3>3. QED
        BY <1>1, <2>1, <3>1, <3>2, RemoveBacks
    <2>4. QED
      BY <2>2, <2>3 DEF Methods
  <1>5. QED
    BY <1>2, <1>3, <1>4

\* A change at n of which every peer is told: a removal names the backend of the route at
\* n, and the peers route the key to the same one.
LEMMA RequestKeepsDnat ==
    ASSUME DnatInv, RoutesInv', NEW n \in Nodes, NEW method \in Methods, NEW k \in Keys,
           NEW b \in Backends, HandleRouting(n, method, k, b),
           (method = "DELETE" /\ table[n][k] # NoBackend) => b = table[n][k],
           routingEvents' = routingEvents \cup
                [to : Remote(n), seq : {changes}, method : {method}, key : {k}, backend : {b}],
           racedVips' = IF \E m \in routingEvents : m.key.vip = k.vip
                        THEN racedVips \cup {k.vip} ELSE racedVips
    PROVE  DnatInv'
  <1> DEFINE new == [to : Remote(n), seq : {changes}, method : {method}, key : {k}, backend : {b}]
  <1>1. /\ \A m \in new : m.key = k /\ m.backend = b /\ m.to \in Nodes \ {n}
        /\ routingEvents' = routingEvents \cup new
    BY RemoteIsRest
  <1> HIDE DEF new
  <1>2. \A p \in Nodes, vip \in Vips \ racedVips' : Backed(table'[p], dnat'[p], vip)
    BY HandleRoutingBacks
  <1>3. /\ table'[n] = Effect(table[n], method, k, b)
        /\ \A p \in Nodes \ {n} : table'[p] = table[p]
        /\ table[n] \in Tables /\ k.vip \in Vips /\ k \in KeysOf(k.vip)
    BY HandleRoutingTable DEF DnatInv, RoutesInv, TypeInv, RouteTypes, Keys, KeysOf
  <1>4. ASSUME NEW m \in routingEvents', m.key.vip \notin racedVips', m.method = "DELETE",
               table'[m.to][m.key] # NoBackend
        PROVE  m.backend = table'[m.to][m.key]
    <2>1. CASE m \in routingEvents
      <3>1. m.to \in Nodes /\ m.key \in KeysOf(m.key.vip) /\ m.key.vip # k.vip
        BY <1>4, <2>1 DEF DnatInv, RoutesInv, TypeInv, RoutingTypes, KeysOf
      <3>2. SameOn(m.key.vip, Effect(table[n], method, k, b), table[n])
        BY <1>3, <3>1, EffectSparesOthers
      <3>3. table'[m.to][m.key] = table[m.to][m.key]
        BY <1>3, <3>1, <3>2 DEF SameOn
      <3>4. QED
        BY <1>4, <2>1, <3>3 DEF DnatInv, RemovalsExact
    <2>2. CASE m \in new
      <3>1. method = "DELETE" /\ m.key = k /\ m.to \in Nodes \ {n} /\ m.backend = b
        BY <1>1, <1>4, <2>2 DEF new
      <3>2. k.vip \in Vips \ racedVips /\ \A e \in routingEvents : e.key.vip # k.vip
        BY <1>3, <1>4, <3>1
      <3>3. SameOn(k.vip, table[n], table[m.to])
        BY <3>1, <3>2, QuietRowsAgree DEF DnatInv
      <3>4. table'[m.to][k] = table[n][k]
        BY <1>3, <3>1, <3>3 DEF SameOn
      <3>5. QED
        BY <1>4, <3>1, <3>4
    <2>3. QED
      BY <1>1, <1>4, <2>1, <2>2
  <1>5. QED
    BY <1>2, <1>4 DEF DnatInv, RemovalsExact

\* The event arrives at its node, where no other one waits to change the rows of the VIP.
LEMMA DeliveryKeepsDnat ==
    ASSUME DnatInv, RoutesInv', NEW m \in routingEvents, DeliverRouting(m)
    PROVE  DnatInv'
  <1>1. /\ m.to \in Nodes /\ m.method \in Methods /\ m.key \in Keys /\ m.backend \in Backends
        /\ HandleRouting(m.to, m.method, m.key, m.backend)
        /\ routingEvents' = routingEvents \ {m} /\ UNCHANGED racedVips
    BY DEF DnatInv, RoutesInv, TypeInv, RoutingTypes, DeliverRouting, history
  <1>2. \A p \in Nodes, vip \in Vips \ racedVips : Backed(table'[p], dnat'[p], vip)
    BY <1>1, HandleRoutingBacks DEF DnatInv, RemovalsExact
  <1>3. /\ table'[m.to] = Effect(table[m.to], m.method, m.key, m.backend)
        /\ \A p \in Nodes \ {m.to} : table'[p] = table[p]
        /\ table[m.to] \in Tables
    BY <1>1, HandleRoutingTable DEF DnatInv, RoutesInv, TypeInv, RouteTypes
  <1>4. ASSUME NEW e \in routingEvents', e.key.vip \notin racedVips, e.method = "DELETE",
               table'[e.to][e.key] # NoBackend
        PROVE  e.backend = table'[e.to][e.key]
    <2>1. /\ e \in routingEvents /\ e # m /\ e.to \in Nodes /\ e.key \in KeysOf(e.key.vip)
          /\ e.key.vip \in Vips
      BY <1>1, <1>4 DEF DnatInv, RoutesInv, TypeInv, RoutingTypes, KeysOf, Keys
    <2>2. table'[e.to][e.key] = table[e.to][e.key]
      <3>1. CASE e.to # m.to
        BY <1>3, <2>1, <3>1
      <3>2. CASE e.to = m.to
        <4>1. e.key.vip # m.key.vip
          <5>1. SUFFICES ASSUME e.key.vip = m.key.vip PROVE FALSE
            OBVIOUS
          <5>2. e \in EventsTo(e.to, e.key.vip) /\ m \in EventsTo(e.to, e.key.vip)
            BY <2>1, <3>2, <5>1 DEF EventsTo
          <5>3. QED
            BY <1>4, <2>1, <5>2, OneEventAtATime DEF DnatInv
        <4>2. SameOn(e.key.vip, table'[m.to], table[m.to])
          BY <1>1, <1>3, <4>1, EffectSparesOthers
        <4>3. QED
          BY <2>1, <3>2, <4>2 DEF SameOn
      <3>3. QED
        BY <3>1, <3>2
    <2>3. QED
      BY <1>4, <2>1, <2>2 DEF DnatInv, RemovalsExact
  <1>5. QED
    BY <1>1, <1>2, <1>4 DEF DnatInv, RemovalsExact

LEMMA DnatNext == DnatInv /\ [Next]_vars => DnatInv'
  <1> SUFFICES ASSUME DnatInv, [Next]_vars PROVE DnatInv'
    OBVIOUS
  <1>1. RoutesInv'
    BY RoutesNext DEF DnatInv
  <1>2. ASSUME UNCHANGED <<routes, routingEvents, racedVips>>
        PROVE  DnatInv'
    BY <1>1, <1>2, KeptDnat DEF routes, SameOn
  <1>3. ASSUME NEW n \in Nodes, NEW method \in Methods, NEW r \in RouteRequests,
               RoutingRequest(n, method, r[1], r[2], r[3], r[4])
        PROVE  DnatInv'
    <2> DEFINE k == RequestKey(r[1], r[2], r[3])
    <2>1. r[1] \in Vips /\ r[2] \in Ports \cup {0} /\ r[4] \in Backends
      BY ClusterAssumption, Zenon DEF ClusterAssumption
    <2>2. k \in Keys
      BY <2>1, KeySurvivesSync, Zenon
    <2>3. k.vip = r[1]
      BY DEF RequestKey
    <2>4. /\ HandleRouting(n, method, k, r[4])
          /\ method = "DELETE" /\ table[n][k] # NoBackend => r[4] = table[n][k]
          /\ routingEvents' = routingEvents \cup
                [to : Remote(n), seq : {changes}, method : {method}, key : {k}, backend : {r[4]}]
          /\ racedVips' = IF \E m \in routingEvents : m.key.vip = r[1]
                          THEN racedVips \cup {r[1]} ELSE racedVips
      BY <1>3, Zenon DEF RoutingRequest
    <2> HIDE DEF k
    <2>5. QED
      BY <1>1, <2>1, <2>2, <2>3, <2>4, RequestKeepsDnat
  <1>4. ASSUME NEW m \in routingEvents, DeliverRouting(m)
        PROVE  DnatInv'
    BY <1>1, <1>4, DeliveryKeepsDnat
  <1>5. ASSUME NEW m \in routingEvents, LoseRouting(m)
        PROVE  DnatInv'
    BY <1>1, <1>5, KeptDnat DEF LoseRouting, routes, SameOn
  <1>6. ASSUME NEW n \in Nodes, Restart(n)
        PROVE  DnatInv'
    <2>1. /\ table' = [table EXCEPT ![n] = NoRoutes] /\ UNCHANGED <<dnat, routingEvents>>
          /\ racedVips' = racedVips \cup {k.vip : k \in {x \in Keys : table[n][x] # NoBackend}}
      BY <1>6 DEF Restart, events
    <2>2. ASSUME NEW vip \in Vips \ racedVips', NEW p \in Nodes
          PROVE  SameOn(vip, table'[p], table[p])
      BY <1>6, <2>2, RestartKeepsRows DEF DnatInv, RoutesInv
    <2>3. QED
      BY <1>1, <2>1, <2>2, KeptDnat
  <1>7. QED
    <2>1. ASSUME NEW n \in Nodes, NEW method \in Methods, NEW a \in Addrs,
                 \/ BlacklistRequest(n, method, a)
                 \/ EngineBlock(n, a) \/ Age(n, a) \/ Expire(n, a)
          PROVE  DnatInv'
      BY <1>2, <2>1 DEF BlacklistRequest, EngineBlock, Age, Expire, HandleBlacklist, TellBlacklist,
                        events, history
    <2>2. ASSUME NEW n \in Nodes, NEW method \in Methods, NEW t \in Allowed,
                 WhitelistRequest(n, method, t)
          PROVE  DnatInv'
      BY <1>2, <2>2 DEF WhitelistRequest, HandleWhitelist
    <2>3. ASSUME NEW n \in Nodes, NEW value \in {0, 1}, PolicyRequest(n, value)
          PROVE  DnatInv'
      BY <1>2, <2>3 DEF PolicyRequest, HandlePolicy
    <2>4. ASSUME NEW m \in ipEvents, DeliverBlacklist(m) \/ DeliverWhitelist(m) \/ LoseIp(m)
          PROVE  DnatInv'
      BY <1>2, <2>4 DEF DeliverBlacklist, DeliverWhitelist, LoseIp, HandleBlacklist,
                        HandleWhitelist, history
    <2>5. ASSUME NEW m \in policyEvents, DeliverPolicy(m) \/ LosePolicy(m)
          PROVE  DnatInv'
      BY <1>2, <2>5 DEF DeliverPolicy, LosePolicy, HandlePolicy, history
    <2>6. CASE UNCHANGED vars
      BY <1>2, <2>6 DEF vars, events, history
    <2>7. QED
      BY <1>3, <1>4, <1>5, <1>6, <2>1, <2>2, <2>3, <2>4, <2>5, <2>6 DEF Next, Answer, Methods

\* In a cluster of any size, with any routes: a node that routes a key to a WireGuard
\* backend has the DNAT rule for it, however often routes were added, replaced and removed
\* and however many keys of a VIP a removal took along, unless an event was lost, a restart
\* emptied a table with routes of the VIP, or two changes of it crossed.
THEOREM RoutesAreBacked == Spec => []DnatBacksRoutes
  <1>1. DnatInv => DnatBacksRoutes
    <2> SUFFICES ASSUME DnatInv, NEW n \in Nodes, NEW k \in Keys,
                        k.vip \notin racedVips, table[n][k] \in WireGuard
                 PROVE  dnat[n][k.vip][table[n][k]] > 0
      BY DEF DnatBacksRoutes
    <2> DEFINE b == table[n][k]
               S == {x \in KeysOf(k.vip) : table[n][x] = b}
    <2>1. k.vip \in Vips /\ k \in S
      BY DEF Keys, KeysOf
    <2>2. Cardinality(S) <= dnat[n][k.vip][b]
      BY <2>1 DEF DnatInv, Backed
    <2>3. dnat[n][k.vip][b] \in Nat
      BY <2>1, BackendFacts DEF DnatInv, RoutesInv, TypeInv, RouteTypes
    <2>4. IsFiniteSet(S)
      BY KeysAreFinite, FS_Subset
    <2> HIDE DEF S
    <2>5. Cardinality(S) \in Nat /\ Cardinality(S) # 0
      BY <2>1, <2>4, FS_CardinalityType, FS_EmptySet
    <2>6. QED
      BY <2>2, <2>3, <2>5
  <1>2. QED
    BY <1>1, DnatInit, DnatNext, PTL DEF Spec

-----------------------------------------------------------------------------
(* The filter *)

WhitelistEvents == {m \in ipEvents : m.endpoint = "whitelist"}
Removals(p) == {m \in WhitelistEvents : m.to = p /\ m.method = "DELETE"}

\* Every save of a node follows the change it saves.
FilesCurrent ==
    \A n \in Nodes : file[n].policy = policy[n] /\ file[n].white = WhitelistTargets[n]

\* Every node has or will have the whitelist W: the events on their way all add or all
\* remove, and bring what is missing.
ListsReach(W) ==
    /\ \A e, m \in WhitelistEvents : e.method = m.method
    /\ \A m \in WhitelistEvents : m.target \in W <=> m.method = "POST"
    /\ \A p \in Nodes, t \in Allowed :
        (t \in WhitelistTargets[p] <=> t \in W)
            \/ \E m \in WhitelistEvents : m.to = p /\ m.target = t

\* Every node has or will have the policy V: it has it, is told of it, or falls back to it
\* when the last of its targets goes.
PoliciesReach(W, V) ==
    /\ \A m \in policyEvents : m.value = V
    /\ V = 1 => \A p \in Nodes : Removals(p) # {} => policyEvents = {} /\ W # {}
    /\ \A p \in Nodes :
        \/ policy[p] = V
        \/ \E m \in policyEvents : m.to = p
        \/ V = 0 /\ W = {} /\ Removals(p) # {}

Settles(W, V) ==
    /\ ListsReach(W) /\ PoliciesReach(W, V)
    /\ ~lockedOut => (V = 1 => W # {})

Settled == ~racedFilter => \E W \in SUBSET Allowed, V \in {0, 1} : Settles(W, V)

FilterInv == TypeInv /\ FilesCurrent /\ Settled

LEMMA FilterInit == Init => FilterInv
  <1> SUFFICES ASSUME Init PROVE FilterInv
    OBVIOUS
  <1>1. PICK f \in EarlierFiles :
            /\ policy = [n \in Nodes |-> f.policy]
            /\ WhitelistTargets = [n \in Nodes |-> f.white]
            /\ file = [n \in Nodes |-> f]
            /\ lockedOut = (f.policy = 1 /\ f.white = {})
    BY DEF Init
  <1>2. f \in [policy : {0, 1}, black : SUBSET Addrs, white : SUBSET Allowed]
    BY ClusterAssumption, Zenon DEF ClusterAssumption
  <1>3. ipEvents = {} /\ policyEvents = {}
    BY DEF Init
  <1>4. FilesCurrent
    BY <1>1 DEF FilesCurrent
  <1>5. ListsReach(f.white)
    BY <1>1, <1>3 DEF ListsReach, WhitelistEvents
  <1>6. PoliciesReach(f.white, f.policy)
    BY <1>1, <1>3 DEF PoliciesReach, Removals, WhitelistEvents
  <1>7. ~lockedOut => (f.policy = 1 => f.white # {})
    BY <1>1
  <1>8. f.white \in SUBSET Allowed /\ f.policy \in {0, 1}
    BY <1>2
  <1>9. Settled
    BY <1>5, <1>6, <1>7, <1>8 DEF Settled, Settles
  <1>10. QED
    BY <1>4, <1>9, TypeInit DEF FilterInv

-----------------------------------------------------------------------------
\* The files of the nodes follow their rules.

LEMMA SaveKeepsFiles ==
    ASSUME TypeInv, FilesCurrent, NEW n \in Nodes, Save(n),
           \A p \in Nodes \ {n} :
               policy'[p] = policy[p] /\ WhitelistTargets'[p] = WhitelistTargets[p]
    PROVE  FilesCurrent'
  <1>1. file'[n] = Content(n)' /\ \A p \in Nodes \ {n} : file'[p] = file[p]
    BY DEF Save, TypeInv, RuleTypes
  <1>2. Content(n)'.policy = policy'[n] /\ Content(n)'.white = WhitelistTargets'[n]
    BY DEF Content
  <1>3. QED
    BY <1>1, <1>2 DEF FilesCurrent

LEMMA FilesNext ==
    ASSUME TypeInv, FilesCurrent, [Next]_vars
    PROVE  FilesCurrent'
  <1>1. ASSUME NEW n \in Nodes, NEW method, NEW a, HandleBlacklist(n, method, a)
        PROVE  FilesCurrent'
    BY <1>1, SaveKeepsFiles DEF HandleBlacklist, rules
  <1>2. ASSUME NEW n \in Nodes, NEW method, NEW t, HandleWhitelist(n, method, t)
        PROVE  FilesCurrent'
    BY <1>2, SaveKeepsFiles DEF HandleWhitelist, TypeInv, RuleTypes
  <1>3. ASSUME NEW n \in Nodes, NEW value, HandlePolicy(n, value)
        PROVE  FilesCurrent'
    BY <1>3, SaveKeepsFiles DEF HandlePolicy, TypeInv, RuleTypes
  <1>4. ASSUME UNCHANGED <<rules, file>>
        PROVE  FilesCurrent'
    BY <1>4 DEF FilesCurrent, rules
  <1>5. ASSUME NEW n \in Nodes, Restart(n)
        PROVE  FilesCurrent'
    BY <1>5 DEF Restart, FilesCurrent, TypeInv, RuleTypes
  <1>6. ASSUME NEW n \in Nodes, NEW a \in Addrs, EngineBlock(n, a) \/ Age(n, a) \/ Expire(n, a)
        PROVE  FilesCurrent'
    BY <1>1, <1>4, <1>6 DEF EngineBlock, Age, Expire
  <1>7. ASSUME NEW n \in Nodes, NEW method \in Methods, NEW r \in RouteRequests,
               RoutingRequest(n, method, r[1], r[2], r[3], r[4])
        PROVE  FilesCurrent'
    BY <1>4, <1>7 DEF RoutingRequest, HandleRouting
  <1>8. CASE Answer
    <2>1. ASSUME NEW m \in ipEvents, DeliverBlacklist(m) \/ DeliverWhitelist(m) \/ LoseIp(m)
          PROVE  FilesCurrent'
      BY <1>1, <1>2, <1>4, <2>1 DEF DeliverBlacklist, DeliverWhitelist, LoseIp, TypeInv, IpTypes
    <2>2. ASSUME NEW m \in policyEvents, DeliverPolicy(m) \/ LosePolicy(m)
          PROVE  FilesCurrent'
      BY <1>3, <1>4, <2>2 DEF DeliverPolicy, LosePolicy, TypeInv, PolicyTypes
    <2>3. ASSUME NEW m \in routingEvents, DeliverRouting(m) \/ LoseRouting(m)
          PROVE  FilesCurrent'
      BY <1>4, <2>3 DEF DeliverRouting, HandleRouting, LoseRouting
    <2>4. QED
      BY <1>8, <2>1, <2>2, <2>3 DEF Answer
  <1>9. CASE UNCHANGED vars
    BY <1>4, <1>9 DEF vars
  <1>10. QED
    BY <1>1, <1>2, <1>3, <1>5, <1>6, <1>7, <1>8, <1>9
    DEF Next, BlacklistRequest, WhitelistRequest, PolicyRequest

-----------------------------------------------------------------------------
\* The outcome of the filter, step by step.

LEMMA WhitelistEventTypes ==
    ASSUME TypeInv, NEW m \in WhitelistEvents
    PROVE  m.to \in Nodes /\ m.method \in {"POST", "DELETE"} /\ m.target \in Allowed
  BY DEF WhitelistEvents, TypeInv, IpTypes, Methods

\* Of one event that removes, all remove.
LEMMA OneKindOfChange ==
    ASSUME TypeInv, NEW W, ListsReach(W), NEW m \in WhitelistEvents, m.method = "DELETE"
    PROVE  \A e \in WhitelistEvents : e.method = "DELETE" /\ e.target \notin W
  BY WhitelistEventTypes DEF ListsReach

\* While targets are removed every node still lists what will stay.
LEMMA RemovalsKeepRest ==
    ASSUME TypeInv, NEW W \in SUBSET Allowed, ListsReach(W), NEW n \in Nodes,
           \A e \in WhitelistEvents : e.method = "DELETE"
    PROVE  W \subseteq WhitelistTargets[n]
  <1>1. \A e \in WhitelistEvents : e.target \notin W
    BY DEF ListsReach
  <1>2. QED
    BY <1>1 DEF ListsReach

LEMMA ToldOfWhitelist ==
    ASSUME NEW n \in Nodes, NEW method \in Methods, NEW t \in Allowed,
           WhitelistRequest(n, method, t)
    PROVE  \E new :
            /\ WhitelistEvents' = WhitelistEvents \cup new
            /\ \A m \in new : m.to \in Nodes \ {n} /\ m.method = method /\ m.target = t
            /\ \A p \in Nodes \ {n} : \E m \in new : m.to = p
  <1> DEFINE new == IpEvents(n, "whitelist", method, t)
  <1>1. \A m \in new : /\ m.to \in Nodes \ {n} /\ m.method = method /\ m.target = t
                       /\ m.endpoint = "whitelist"
    BY RemoteIsRest DEF IpEvents
  <1>2. ASSUME NEW p \in Nodes \ {n}
        PROVE  \E m \in new : m.to = p
    <2> DEFINE e == [to |-> p, seq |-> changes, endpoint |-> "whitelist", method |-> method, target |-> t]
    <2>1. e \in new /\ e.to = p
      BY RemoteIsRest DEF IpEvents
    <2>2. QED
      BY <2>1
  <1> HIDE DEF new
  <1>3. ipEvents' = ipEvents \cup new
    BY DEF WhitelistRequest, new
  <1>4. WhitelistEvents' = WhitelistEvents \cup new
    BY <1>1, <1>3 DEF WhitelistEvents
  <1>5. QED
    BY <1>1, <1>2, <1>4

LEMMA ToldOfPolicy ==
    ASSUME NEW n \in Nodes, NEW value
    PROVE  /\ \A m \in PolicyEvents(n, value) : m.value = value
           /\ \A p \in Nodes \ {n} : \E m \in PolicyEvents(n, value) : m.to = p
  <1>1. ASSUME NEW p \in Nodes \ {n}
        PROVE  \E m \in PolicyEvents(n, value) : m.to = p
    <2> DEFINE e == [to |-> p, seq |-> changes, value |-> value]
    <2>1. e \in PolicyEvents(n, value) /\ e.to = p
      BY RemoteIsRest DEF PolicyEvents
    <2>2. QED
      BY <2>1
  <1>2. QED
    BY <1>1 DEF PolicyEvents

\* A target that is added joins the outcome.
LEMMA AddSettles ==
    ASSUME FilterInv, NEW n \in Nodes, NEW t \in Allowed, WhitelistRequest(n, "POST", t)
    PROVE  Settled'
  <1> SUFFICES ASSUME ~racedFilter'
               PROVE  \E X \in SUBSET Allowed, V \in {0, 1} : Settles(X, V)'
    BY DEF Settled
  <1>1. /\ ~racedFilter
        /\ \A m \in WhitelistEvents : m.method = "POST"
        /\ UNCHANGED <<policy, lockedOut>> /\ policyEvents' = policyEvents
    BY DEF WhitelistRequest, HandleWhitelist, WhitelistEvents, FallbackEvents
  <1>2. PICK W \in SUBSET Allowed, V \in {0, 1} : Settles(W, V)
    BY <1>1 DEF FilterInv, Settled
  <1>3. PICK new :
            /\ WhitelistEvents' = WhitelistEvents \cup new
            /\ \A m \in new : m.to \in Nodes \ {n} /\ m.method = "POST" /\ m.target = t
            /\ \A p \in Nodes \ {n} : \E m \in new : m.to = p
    BY ToldOfWhitelist DEF Methods
  <1>4. \A p \in Nodes : WhitelistTargets'[p] =
            IF p = n THEN WhitelistTargets[p] \cup {t} ELSE WhitelistTargets[p]
    BY DEF WhitelistRequest, HandleWhitelist, FilterInv, TypeInv, RuleTypes
  <1>5. ListsReach(W \cup {t})'
    <2>1. \A m \in WhitelistEvents' : m.method = "POST"
      BY <1>1, <1>3
    <2>2. \A m \in WhitelistEvents' : m.target \in W \cup {t}
      BY <1>1, <1>2, <1>3 DEF Settles, ListsReach
    <2>3. ASSUME NEW p \in Nodes, NEW u \in Allowed
          PROVE  \/ u \in WhitelistTargets'[p] <=> u \in W \cup {t}
                 \/ \E m \in WhitelistEvents' : m.to = p /\ m.target = u
      <3>1. CASE u # t
        <4>1. u \in WhitelistTargets'[p] <=> u \in WhitelistTargets[p]
          BY <1>4, <3>1
        <4>2. \/ u \in WhitelistTargets[p] <=> u \in W
              \/ \E m \in WhitelistEvents : m.to = p /\ m.target = u
          BY <1>2 DEF Settles, ListsReach
        <4>3. (\E m \in WhitelistEvents : m.to = p /\ m.target = u) =>
                \E m \in WhitelistEvents' : m.to = p /\ m.target = u
          BY <1>3
        <4>4. QED
          BY <3>1, <4>1, <4>2, <4>3
      <3>2. CASE u = t /\ p = n
        BY <1>4, <3>2
      <3>3. CASE u = t /\ p # n
        BY <1>3, <3>3
      <3>4. QED
        BY <3>1, <3>2, <3>3
    <2>4. QED
      BY <2>1, <2>2, <2>3 DEF ListsReach
  <1>6. \A p : Removals(p) = {} /\ Removals(p)' = {}
    BY <1>1, <1>3 DEF Removals
  <1>7. PoliciesReach(W \cup {t}, V)'
    BY <1>1, <1>2, <1>6 DEF Settles, PoliciesReach
  <1>8. W \cup {t} \in SUBSET Allowed /\ W \cup {t} # {}
    OBVIOUS
  <1>9. QED
    BY <1>5, <1>7, <1>8 DEF Settles

\* A target that is removed leaves the outcome, and with the last one the policy falls
\* back: at the node that asks, or at the peers as the last removal reaches them.
LEMMA RemoveSettles ==
    ASSUME FilterInv, NEW n \in Nodes, NEW t \in Allowed, WhitelistRequest(n, "DELETE", t)
    PROVE  Settled'
  <1> SUFFICES ASSUME ~racedFilter'
               PROVE  \E X \in SUBSET Allowed, V \in {0, 1} : Settles(X, V)'
    BY DEF Settled
  <1>1. /\ ~racedFilter /\ UNCHANGED lockedOut
        /\ \A m \in WhitelistEvents : m.method = "DELETE"
        /\ \A m \in policyEvents : m.value # 1
    BY DEF WhitelistRequest, WhitelistEvents
  <1>2. PICK W \in SUBSET Allowed, V \in {0, 1} : Settles(W, V)
    BY <1>1 DEF FilterInv, Settled
  <1>3. PICK new :
            /\ WhitelistEvents' = WhitelistEvents \cup new
            /\ \A m \in new : m.to \in Nodes \ {n} /\ m.method = "DELETE" /\ m.target = t
            /\ \A p \in Nodes \ {n} : \E m \in new : m.to = p
    BY ToldOfWhitelist DEF Methods
  <1>4. \A p \in Nodes : WhitelistTargets'[p] =
            IF p = n THEN WhitelistTargets[p] \ {t} ELSE WhitelistTargets[p]
    BY DEF WhitelistRequest, HandleWhitelist, FilterInv, TypeInv, RuleTypes
  <1> DEFINE X == W \ {t}
  <1>5. \A m \in WhitelistEvents' : m.method = "DELETE" /\ m.target \notin X
    BY <1>1, <1>2, <1>3 DEF Settles, ListsReach
  <1>6. ListsReach(X)'
    <2>1. ASSUME NEW p \in Nodes, NEW u \in Allowed
          PROVE  \/ u \in WhitelistTargets'[p] <=> u \in X
                 \/ \E m \in WhitelistEvents' : m.to = p /\ m.target = u
      <3>1. CASE u # t
        <4>1. u \in WhitelistTargets'[p] <=> u \in WhitelistTargets[p]
          BY <1>4, <3>1
        <4>2. \/ u \in WhitelistTargets[p] <=> u \in W
              \/ \E m \in WhitelistEvents : m.to = p /\ m.target = u
          BY <1>2 DEF Settles, ListsReach
        <4>3. (\E m \in WhitelistEvents : m.to = p /\ m.target = u) =>
                \E m \in WhitelistEvents' : m.to = p /\ m.target = u
          BY <1>3
        <4>4. QED
          BY <3>1, <4>1, <4>2, <4>3
      <3>2. CASE u = t /\ p = n
        BY <1>4, <3>2
      <3>3. CASE u = t /\ p # n
        BY <1>3, <3>3
      <3>4. QED
        BY <3>1, <3>2, <3>3
    <2>2. QED
      BY <1>5, <2>1 DEF ListsReach
  <1>7. W \subseteq WhitelistTargets[n] /\ X \in SUBSET Allowed
    BY <1>1, <1>2, RemovalsKeepRest DEF FilterInv, Settles
  <1>8. \A m \in policyEvents : m.value = 0
    BY <1>1 DEF FilterInv, TypeInv, PolicyTypes
  <1>9. CASE WhitelistTargets'[n] = {}
    <2>1. X = {}
      BY <1>4, <1>7, <1>9
    <2>2. /\ policy' = [policy EXCEPT ![n] = 0]
          /\ policyEvents' = policyEvents \cup PolicyEvents(n, 0)
      BY <1>9 DEF WhitelistRequest, HandleWhitelist, FallbackEvents
    <2>3. policy'[n] = 0
      BY <2>2 DEF FilterInv, TypeInv, RuleTypes
    <2>4. PoliciesReach(X, 0)'
      BY <1>8, <2>2, <2>3, ToldOfPolicy DEF PoliciesReach
    <2> HIDE DEF X
    <2>5. QED
      BY <1>6, <1>7, <2>4 DEF Settles
  <1>10. CASE WhitelistTargets'[n] # {} /\ X = {}
    <2>1. policy' = policy /\ policyEvents' = policyEvents
      BY <1>10 DEF WhitelistRequest, HandleWhitelist, FallbackEvents
    <2>2. ASSUME NEW p \in Nodes
          PROVE  Removals(p)' # {}
      <3>1. CASE p # n
        BY <1>3, <3>1 DEF Removals
      <3>2. CASE p = n
        <4>1. PICK u : u \in WhitelistTargets'[n]
          BY <1>10
        <4>2. u \in Allowed /\ u \notin X
          BY <1>4, <1>10, <4>1 DEF FilterInv, TypeInv, RuleTypes
        <4>3. PICK m \in WhitelistEvents' : m.to = n /\ m.target = u
          BY <1>6, <4>1, <4>2 DEF ListsReach
        <4>4. m \in Removals(n)'
          BY <1>5, <4>3 DEF Removals
        <4>5. QED
          BY <3>2, <4>4
      <3>3. QED
        BY <3>1, <3>2
    <2>3. PoliciesReach(X, 0)'
      BY <1>8, <1>10, <2>1, <2>2 DEF PoliciesReach
    <2> HIDE DEF X
    <2>4. QED
      BY <1>6, <1>7, <2>3 DEF Settles
  <1>11. CASE WhitelistTargets'[n] # {} /\ X # {}
    <2>1. policy' = policy /\ policyEvents' = policyEvents
      BY <1>11 DEF WhitelistRequest, HandleWhitelist, FallbackEvents
    <2>2. V = 1 => policyEvents = {}
      BY <1>1, <1>2 DEF Settles, PoliciesReach
    <2>3. W # {}
      BY <1>11
    <2>4. PoliciesReach(X, V)'
      BY <1>2, <1>11, <2>1, <2>2, <2>3 DEF Settles, PoliciesReach
    <2> HIDE DEF X
    <2>5. QED
      BY <1>6, <1>7, <1>11, <2>4 DEF Settles
  <1>12. QED
    BY <1>9, <1>10, <1>11

\* The policy an operator chooses is the outcome: default drop has not crossed a removal,
\* so the targets of this node stay.
LEMMA PolicySettles ==
    ASSUME FilterInv, NEW n \in Nodes, NEW value \in {0, 1}, PolicyRequest(n, value)
    PROVE  Settled'
  <1> SUFFICES ASSUME ~racedFilter'
               PROVE  \E X \in SUBSET Allowed, V \in {0, 1} : Settles(X, V)'
    BY DEF Settled
  <1>1. /\ ~racedFilter
        /\ \A m \in policyEvents : m.value = value
        /\ value = 1 => \A m \in WhitelistEvents : m.method # "DELETE"
        /\ policy' = [policy EXCEPT ![n] = value]
        /\ policyEvents' = policyEvents \cup PolicyEvents(n, value)
        /\ UNCHANGED <<WhitelistTargets, ipEvents>>
    BY DEF PolicyRequest, HandlePolicy, WhitelistEvents
  <1>2. PICK W \in SUBSET Allowed, V \in {0, 1} : Settles(W, V)
    BY <1>1 DEF FilterInv, Settled
  <1>3. WhitelistEvents' = WhitelistEvents /\ \A p : Removals(p)' = Removals(p)
    BY <1>1 DEF WhitelistEvents, Removals
  <1>4. ListsReach(W)'
    BY <1>1, <1>2, <1>3 DEF Settles, ListsReach
  <1>5. policy'[n] = value
    BY <1>1 DEF FilterInv, TypeInv, RuleTypes
  <1>6. value = 1 => \A p : Removals(p) = {}
    BY <1>1 DEF Removals
  <1>7. PoliciesReach(W, value)'
    <2>1. \A m \in policyEvents' : m.value = value
      BY <1>1, ToldOfPolicy
    <2>2. \A p \in Nodes : policy'[p] = value \/ \E m \in policyEvents' : m.to = p
      BY <1>1, <1>5, ToldOfPolicy
    <2>3. QED
      BY <1>3, <1>6, <2>1, <2>2 DEF PoliciesReach
  <1>8. ASSUME ~lockedOut', value = 1
        PROVE  W # {}
    <2>1. PICK t : t \in WhitelistTargets[n]
      BY <1>8 DEF PolicyRequest
    <2>2. t \in Allowed
      BY <2>1 DEF FilterInv, TypeInv, RuleTypes
    <2>3. CASE t \in W
      BY <2>3
    <2>4. CASE t \notin W
      <3>1. PICK m \in WhitelistEvents : m.to = n /\ m.target = t
        BY <1>2, <2>1, <2>2, <2>4 DEF Settles, ListsReach
      <3>2. m.method = "POST"
        BY <1>1, <1>8, <3>1, WhitelistEventTypes DEF FilterInv
      <3>3. QED
        BY <1>2, <3>1, <3>2 DEF Settles, ListsReach
    <2>5. QED
      BY <2>3, <2>4
  <1>9. QED
    BY <1>4, <1>7, <1>8 DEF Settles

\* A change of the whitelist arrives.  The last removal makes its node fall back, just when
\* the outcome is the empty list.
LEMMA WhitelistDeliverySettles ==
    ASSUME FilterInv, NEW m \in ipEvents, DeliverWhitelist(m)
    PROVE  Settled'
  <1> SUFFICES ASSUME ~racedFilter'
               PROVE  \E X \in SUBSET Allowed, V \in {0, 1} : Settles(X, V)'
    BY DEF Settled
  <1>1. /\ ~racedFilter /\ m \in WhitelistEvents
        /\ ipEvents' = ipEvents \ {m} /\ UNCHANGED <<policyEvents, lockedOut>>
    BY DEF DeliverWhitelist, WhitelistEvents, history
  <1>2. PICK W \in SUBSET Allowed, V \in {0, 1} : Settles(W, V)
    BY <1>1 DEF FilterInv, Settled
  <1> DEFINE n == m.to
             t == m.target
  <1>3. n \in Nodes /\ m.method \in {"POST", "DELETE"} /\ t \in Allowed
    BY <1>1, WhitelistEventTypes DEF FilterInv
  <1>4. WhitelistEvents' = WhitelistEvents \ {m}
    BY <1>1 DEF WhitelistEvents
  <1>5. /\ \A p \in Nodes : WhitelistTargets'[p] =
              IF p # n THEN WhitelistTargets[p]
              ELSE IF m.method = "POST" THEN WhitelistTargets[p] \cup {t}
                                        ELSE WhitelistTargets[p] \ {t}
        /\ \A p \in Nodes : policy'[p] =
              IF p = n /\ m.method = "DELETE" /\ WhitelistTargets'[n] = {} THEN 0 ELSE policy[p]
    BY <1>3 DEF DeliverWhitelist, HandleWhitelist, FilterInv, TypeInv, RuleTypes
  <1>6. t \in W <=> m.method = "POST"
    BY <1>1, <1>2 DEF Settles, ListsReach
  <1>7. ASSUME NEW p \in Nodes, NEW u \in Allowed
        PROVE  \/ u \in WhitelistTargets'[p] <=> u \in W
               \/ \E e \in WhitelistEvents' : e.to = p /\ e.target = u
    <2>1. CASE p = n /\ u = t
      BY <1>3, <1>5, <1>6, <2>1
    <2>2. CASE ~(p = n /\ u = t)
      <3>1. u \in WhitelistTargets'[p] <=> u \in WhitelistTargets[p]
        BY <1>3, <1>5, <2>2
      <3>2. \/ u \in WhitelistTargets[p] <=> u \in W
            \/ \E e \in WhitelistEvents : e.to = p /\ e.target = u
        BY <1>2 DEF Settles, ListsReach
      <3>3. \A e \in WhitelistEvents : e.to = p /\ e.target = u => e \in WhitelistEvents'
        BY <1>4, <2>2
      <3>4. QED
        BY <3>1, <3>2, <3>3
    <2>3. QED
      BY <2>1, <2>2
  <1>8. ListsReach(W)'
    BY <1>2, <1>4, <1>7 DEF Settles, ListsReach
  <1>9. ASSUME m.method = "DELETE"
        PROVE  \A e \in WhitelistEvents : e.method = "DELETE" /\ e.target \notin W
    BY <1>1, <1>2, <1>9, OneKindOfChange DEF FilterInv, Settles
  <1>10. W = {} \/ m.method # "DELETE" \/ WhitelistTargets'[n] # {}
    BY <1>3, <1>4, <1>7, <1>9
  <1>11. ASSUME NEW p \in Nodes
         PROVE  \/ policy'[p] = V
                \/ \E e \in policyEvents : e.to = p
                \/ V = 0 /\ W = {} /\ Removals(p)' # {}
    <2>1. \/ policy[p] = V
          \/ \E e \in policyEvents : e.to = p
          \/ V = 0 /\ W = {} /\ Removals(p) # {}
      BY <1>2 DEF Settles, PoliciesReach
    <2>2. CASE p # n \/ m.method = "POST"
      <3>1. policy'[p] = policy[p]
        BY <1>5, <2>2
      <3>2. Removals(p)' = Removals(p)
        BY <1>4, <2>2 DEF Removals
      <3>3. QED
        BY <2>1, <3>1, <3>2
    <2>3. CASE p = n /\ m.method = "DELETE" /\ WhitelistTargets'[n] = {}
      <3>1. policy'[p] = 0
        BY <1>5, <2>3
      <3>2. V = 0
        <4>1. m \in Removals(n)
          BY <1>1, <2>3 DEF Removals
        <4>2. V = 1 => W # {}
          BY <1>2, <1>3, <4>1 DEF Settles, PoliciesReach
        <4>3. QED
          BY <1>10, <2>3, <4>2
      <3>3. QED
        BY <3>1, <3>2
    <2>4. CASE p = n /\ m.method = "DELETE" /\ WhitelistTargets'[n] # {}
      <3>1. policy'[p] = policy[p]
        BY <1>5, <2>4
      <3>2. W = {} => Removals(p)' # {}
        <4> SUFFICES ASSUME W = {} PROVE Removals(p)' # {}
          OBVIOUS
        <4>1. PICK u : u \in WhitelistTargets'[n]
          BY <2>4
        <4>2. u \in Allowed
          <5>1. u \in WhitelistTargets[n]
            BY <1>3, <1>5, <2>4, <4>1
          <5>2. WhitelistTargets[n] \subseteq Allowed
            BY <1>3 DEF FilterInv, TypeInv, RuleTypes
          <5>3. QED
            BY <5>1, <5>2
        <4>3. PICK e \in WhitelistEvents' : e.to = n /\ e.target = u
          BY <1>3, <1>7, <4>1, <4>2
        <4>4. e \in Removals(p)'
          BY <1>4, <1>9, <2>4, <4>3 DEF Removals
        <4>5. QED
          BY <4>4
      <3>3. QED
        BY <2>1, <3>1, <3>2
    <2>5. QED
      BY <1>3, <2>2, <2>3, <2>4
  <1>12. \A p \in Nodes : Removals(p)' \subseteq Removals(p)
    BY <1>4 DEF Removals
  <1>13. PoliciesReach(W, V)'
    BY <1>1, <1>2, <1>11, <1>12 DEF Settles, PoliciesReach
  <1>14. QED
    BY <1>1, <1>2, <1>8, <1>13 DEF Settles

\* A policy arrives.
LEMMA PolicyDeliverySettles ==
    ASSUME FilterInv, NEW m \in policyEvents, DeliverPolicy(m)
    PROVE  Settled'
  <1> SUFFICES ASSUME ~racedFilter'
               PROVE  \E X \in SUBSET Allowed, V \in {0, 1} : Settles(X, V)'
    BY DEF Settled
  <1>1. /\ ~racedFilter /\ policy' = [policy EXCEPT ![m.to] = m.value]
        /\ policyEvents' = policyEvents \ {m}
        /\ UNCHANGED <<WhitelistTargets, ipEvents, lockedOut>>
    BY DEF DeliverPolicy, HandlePolicy, history
  <1>2. PICK W \in SUBSET Allowed, V \in {0, 1} : Settles(W, V)
    BY <1>1 DEF FilterInv, Settled
  <1>3. WhitelistEvents' = WhitelistEvents /\ \A p : Removals(p)' = Removals(p)
    BY <1>1 DEF WhitelistEvents, Removals
  <1>4. ListsReach(W)'
    BY <1>1, <1>2, <1>3 DEF Settles, ListsReach
  <1>5. /\ m.value = V
        /\ \A p \in Nodes : policy'[p] = IF p = m.to THEN V ELSE policy[p]
    BY <1>1, <1>2 DEF Settles, PoliciesReach, FilterInv, TypeInv, RuleTypes, PolicyTypes
  <1>6. ASSUME NEW p \in Nodes
        PROVE  \/ policy'[p] = V
               \/ \E e \in policyEvents' : e.to = p
               \/ V = 0 /\ W = {} /\ Removals(p)' # {}
    <2>1. CASE p = m.to
      BY <1>5, <2>1
    <2>2. CASE p # m.to
      <3>1. \/ policy[p] = V
            \/ \E e \in policyEvents : e.to = p
            \/ V = 0 /\ W = {} /\ Removals(p) # {}
        BY <1>2 DEF Settles, PoliciesReach
      <3>2. QED
        BY <1>1, <1>3, <1>5, <2>2, <3>1
    <2>3. QED
      BY <2>1, <2>2
  <1>7. PoliciesReach(W, V)'
    BY <1>1, <1>2, <1>3, <1>6 DEF Settles, PoliciesReach
  <1>8. QED
    BY <1>1, <1>2, <1>4, <1>7 DEF Settles

\* Steps that leave lists, policies and the events about them alone.
LEMMA OthersSettle ==
    ASSUME FilterInv, WhitelistTargets' = WhitelistTargets, policy' = policy,
           policyEvents' = policyEvents, WhitelistEvents' = WhitelistEvents,
           racedFilter' = racedFilter, lockedOut' = lockedOut
    PROVE  Settled'
  <1> SUFFICES ASSUME ~racedFilter
               PROVE  \E X \in SUBSET Allowed, V \in {0, 1} : Settles(X, V)'
    BY DEF Settled
  <1>1. PICK W \in SUBSET Allowed, V \in {0, 1} : Settles(W, V)
    BY DEF FilterInv, Settled
  <1>2. \A p : Removals(p)' = Removals(p)
    BY DEF Removals
  <1>3. ListsReach(W)'
    BY <1>1 DEF Settles, ListsReach
  <1>4. PoliciesReach(W, V)'
    BY <1>1, <1>2 DEF Settles, PoliciesReach
  <1>5. QED
    BY <1>1, <1>3, <1>4 DEF Settles

LEMMA FilterNext == FilterInv /\ [Next]_vars => FilterInv'
  <1> SUFFICES ASSUME FilterInv, [Next]_vars PROVE FilterInv'
    OBVIOUS
  <1>1. TypeInv' /\ FilesCurrent'
    BY TypeNext, FilesNext DEF FilterInv
  <1>2. ASSUME racedFilter' PROVE Settled'
    BY <1>2 DEF Settled
  <1>3. ASSUME UNCHANGED <<rules, policyEvents, ipEvents, racedFilter, lockedOut>>
        PROVE  Settled'
    BY <1>3, OthersSettle DEF rules, WhitelistEvents
  <1>4. ASSUME NEW n \in Nodes, NEW method \in Methods, NEW a \in Addrs, TellBlacklist(n, method, a),
               UNCHANGED rules
        PROVE  Settled'
    <2>1. WhitelistEvents' = WhitelistEvents
      BY <1>4 DEF TellBlacklist, IpEvents, WhitelistEvents
    <2>2. QED
      BY <1>4, <2>1, OthersSettle DEF TellBlacklist, rules
  <1>5. ASSUME NEW n \in Nodes, NEW method \in Methods, NEW a \in Addrs,
               BlacklistRequest(n, method, a) \/ EngineBlock(n, a) \/ Age(n, a) \/ Expire(n, a)
        PROVE  Settled'
    BY <1>3, <1>4, <1>5 DEF BlacklistRequest, EngineBlock, Age, Expire, HandleBlacklist, Methods,
                            events, history
  <1>6. ASSUME NEW n \in Nodes, NEW method \in Methods, NEW t \in Allowed,
               WhitelistRequest(n, method, t)
        PROVE  Settled'
    BY <1>6, AddSettles, RemoveSettles DEF Methods
  <1>7. ASSUME NEW n \in Nodes, NEW method \in Methods, NEW r \in RouteRequests,
               RoutingRequest(n, method, r[1], r[2], r[3], r[4])
        PROVE  Settled'
    BY <1>3, <1>7 DEF RoutingRequest, HandleRouting
  <1>8. ASSUME NEW n \in Nodes, Restart(n)
        PROVE  Settled'
    <2>1. policy' = policy /\ WhitelistTargets' = WhitelistTargets
      BY <1>8 DEF Restart, FilterInv, FilesCurrent, TypeInv, RuleTypes
    <2>2. QED
      BY <1>3, <1>8, <2>1 DEF Restart, rules, events
  <1>9. ASSUME NEW m \in ipEvents, DeliverBlacklist(m)
        PROVE  Settled'
    <2>1. WhitelistEvents' = WhitelistEvents
      BY <1>9 DEF DeliverBlacklist, WhitelistEvents
    <2>2. QED
      BY <1>9, <2>1, OthersSettle DEF DeliverBlacklist, HandleBlacklist, rules, history
  <1>10. ASSUME NEW m \in ipEvents, LoseIp(m)
         PROVE  Settled'
    <2>1. CASE m.endpoint = "whitelist"
      BY <1>2, <1>10, <2>1 DEF LoseIp
    <2>2. CASE m.endpoint # "whitelist"
      <3>1. WhitelistEvents' = WhitelistEvents
        BY <1>10, <2>2 DEF LoseIp, WhitelistEvents
      <3>2. racedFilter' = racedFilter
        BY <1>10, <2>2, Zenon DEF LoseIp, FilterInv, TypeInv, HistoryTypes
      <3>3. QED
        BY <1>10, <3>1, <3>2, OthersSettle DEF LoseIp, rules
    <2>3. QED
      BY <2>1, <2>2
  <1>11. ASSUME NEW m \in policyEvents, LosePolicy(m)
         PROVE  Settled'
    BY <1>2, <1>11 DEF LosePolicy
  <1>12. ASSUME NEW m \in routingEvents, DeliverRouting(m) \/ LoseRouting(m)
         PROVE  Settled'
    BY <1>3, <1>12 DEF DeliverRouting, HandleRouting, LoseRouting, history
  <1>13. ASSUME UNCHANGED vars
         PROVE  Settled'
    BY <1>3, <1>13 DEF vars, events, history
  <1>14. Settled'
    BY <1>5, <1>6, <1>7, <1>8, <1>9, <1>10, <1>11, <1>12, <1>13, PolicySettles,
       WhitelistDeliverySettles, PolicyDeliverySettles
    DEF Next, Answer, Methods
  <1>15. QED
    BY <1>1, <1>14 DEF FilterInv

\* When no event about the filter is on its way the nodes have the outcome.
LEMMA QuietFilterSettled ==
    ASSUME FilterInv, FilterQuiet, ~racedFilter
    PROVE  \E W \in SUBSET Allowed, V \in {0, 1} :
              /\ \A n \in Nodes : WhitelistTargets[n] = W /\ policy[n] = V
              /\ ~lockedOut => (V = 1 => W # {})
  <1>1. PICK W \in SUBSET Allowed, V \in {0, 1} : Settles(W, V)
    BY DEF FilterInv, Settled
  <1>2. WhitelistEvents = {} /\ policyEvents = {} /\ \A p : Removals(p) = {}
    BY DEF FilterQuiet, WhitelistEvents, Removals
  <1>3. ASSUME NEW n \in Nodes
        PROVE  WhitelistTargets[n] = W /\ policy[n] = V
    <2>1. WhitelistTargets[n] \subseteq Allowed
      BY DEF FilterInv, TypeInv, RuleTypes
    <2>2. \A t \in Allowed : t \in WhitelistTargets[n] <=> t \in W
      BY <1>1, <1>2 DEF Settles, ListsReach
    <2>3. WhitelistTargets[n] = W
      BY <2>1, <2>2
    <2>4. policy[n] = V
      BY <1>1, <1>2 DEF Settles, PoliciesReach
    <2>5. QED
      BY <2>3, <2>4
  <1>4. QED
    BY <1>1, <1>3 DEF Settles

THEOREM FilterInvariant == Spec => []FilterInv
  BY FilterInit, FilterNext, PTL DEF Spec

\* In a cluster of any size, with any whitelist, the nodes end with one list and one policy:
\* every node decides the fallback of a removal from its own list, and all decide alike,
\* unless an event was lost or changes that conflict crossed.
THEOREM FiltersDoAgree == Spec => []FiltersAgree
  <1>1. FilterInv => FiltersAgree
    BY QuietFilterSettled, Zenon DEF FiltersAgree
  <1>2. QED
    BY <1>1, FilterInvariant, PTL

\* The fallback is never missed: removals at different nodes at once, each of which leaves
\* its own node a target, leave no node with default drop and an empty whitelist once they
\* have arrived, unless an operator chose that.
THEOREM NobodyIsLockedOut == Spec => []NoNodeLockedOut
  <1>1. FilterInv => NoNodeLockedOut
    BY QuietFilterSettled DEF NoNodeLockedOut
  <1>2. QED
    BY <1>1, FilterInvariant, PTL
==============================================================================
