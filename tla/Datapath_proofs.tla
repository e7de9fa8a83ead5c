--------------------------- MODULE Datapath_proofs ---------------------------
(***************************************************************************)
(* Proofs about Datapath for any CPUs, packets, limits and bounds: its     *)
(* types and bounds, the blacklist, the counters and the rate limit.  Each *)
(* has an invariant of its own over the types.                             *)
(***************************************************************************)
EXTENDS Datapath, FiniteSetTheorems, TLAPS

Pcs == {"done", "black", "policy", "white", "limit", "cache", "stale", "decap", "redirect",
        "route", "count", "add", "create"}
Counting == {"count", "add", "create"}
Verdicts == LetThrough \cup {"none", "DROP", "ABORTED"}
Entries == [Cpus -> [pps : Nat, bps : Nat, next_update : 0 .. MaxTime + Second]]

ConfigTypes ==
    /\ black \subseteq Sources /\ white \subseteq Sources /\ policy \in {0, 1}
    /\ limits \in [pps : 1 .. MaxPps, bps : 1 .. MaxBps]

CacheTypes ==
    /\ a2s_info \in [Vips -> Nat \cup {NoAnswer}]
    /\ challenge_set \subseteq {v \in Vips : a2s_info[v] # NoAnswer}
    /\ xsk \in BOOLEAN

RateTypes ==
    /\ DOMAIN ip_stats \subseteq Sources
    /\ \A s \in DOMAIN ip_stats : ip_stats[s] \in Entries
    /\ admitted \in [Cpus -> [Sources -> Seq(Nat)]]
    /\ forgotten \subseteq Sources

BillTypes ==
    /\ vip_stats \in [Addresses -> [passed : Nat, dropped : Nat] \cup {NoEntry}]
    /\ judged \in [Addresses -> [passed : Nat, dropped : Nat]]
    /\ overwritten \subseteq Addresses

CpuTypes ==
    /\ cpu \in [Cpus -> [pc : Pcs, pkt : Packets \cup {NoPacket}, verdict : Verdicts,
                         key : Addresses \cup {NoPacket}, barred : BOOLEAN]]
    /\ \A c \in Cpus :
        /\ cpu[c].pc # "done" => cpu[c].pkt \in Packets
        /\ cpu[c].pc \in Counting => cpu[c].key \in Addresses

BoundTypes ==
    /\ now \in 1 .. MaxTime /\ arrived \in 0 .. MaxPackets /\ changes \in 0 .. MaxChanges

TypeInv ==
    /\ ConfigTypes /\ CacheTypes /\ RateTypes /\ BillTypes /\ CpuTypes /\ BoundTypes
    /\ stats_map \in [Cpus -> [pass : Nat, drop : Nat]]

LEMMA NumbersAreNumbers ==
    /\ Second \in Nat \ {0} /\ Lifetime \in Nat /\ Tracked \in Nat \ {0}
    /\ MaxPps \in Nat \ {0} /\ MaxBps \in Nat \ {0}
    /\ MaxTime \in Nat \ {0} /\ MaxPackets \in Nat /\ MaxChanges \in Nat
  BY DatapathAssumption, Zenon DEF DatapathAssumption

LEMMA PacketTypes ==
    ASSUME NEW p \in Packets
    PROVE  /\ p.src \in Sources /\ p.dst \in Vips /\ p.form \in Forms /\ p.len \in Nat \ {0}
           /\ p.src \in Addresses /\ p.dst \in Addresses
           /\ p # NoPacket
  BY DatapathAssumption DEF Addresses

LEMMA TypeInit == Init => TypeInv
  <1> SUFFICES ASSUME Init PROVE TypeInv
    OBVIOUS
  <1>1. ConfigTypes
    BY DatapathAssumption, NumbersAreNumbers DEF Init, ConfigTypes
  <1>2. CacheTypes
    BY DEF Init, CacheTypes, NoAnswer
  <1>3. RateTypes
    BY DatapathAssumption, NumbersAreNumbers DEF Init, RateTypes, Entries, Zeroed
  <1>4. BillTypes
    BY DEF Init, BillTypes
  <1>5. CpuTypes
    BY DEF Init, CpuTypes, Waiting, Pcs, Verdicts, Counting
  <1>6. BoundTypes
    BY NumbersAreNumbers DEF Init, BoundTypes
  <1>7. QED
    BY <1>1, <1>2, <1>3, <1>4, <1>5, <1>6 DEF Init, TypeInv

-----------------------------------------------------------------------------
(* What the program's steps do to its CPU *)

LEMMA GoesTypes ==
    ASSUME CpuTypes, NEW c \in Cpus, NEW pc \in Pcs, cpu[c].pc # "done", Goes(c, pc),
           pc \notin Counting \/ cpu[c].pc \in Counting
    PROVE  CpuTypes'
  BY DEF Goes, CpuTypes

LEMMA ReturnsTypes ==
    ASSUME CpuTypes, NEW c \in Cpus, NEW verdict \in Verdicts, Returns(c, verdict)
    PROVE  CpuTypes'
  BY DEF Returns, CpuTypes, Pcs, Counting

LEMMA JudgesTypes ==
    ASSUME TypeInv, NEW c \in Cpus, NEW verdict \in Verdicts, NEW key \in Addresses,
           cpu[c].pc # "done", Judges(c, verdict, key)
    PROVE  CpuTypes' /\ BillTypes'
  <1>1. CpuTypes'
    <2>1. cpu' = [cpu EXCEPT ![c].pc = "count", ![c].verdict = verdict, ![c].key = key]
      BY DEF Judges
    <2>2. CpuTypes /\ "count" \in Pcs
      BY DEF TypeInv, Pcs
    <2>3. QED
      BY <2>1, <2>2 DEF CpuTypes
  <1>2. BillTypes'
    BY DEF Judges, Billed, TypeInv, BillTypes
  <1>3. QED
    BY <1>1, <1>2

LEMMA FilteredTypes ==
    ASSUME TypeInv, NEW c \in Cpus, cpu[c].pc # "done", Filtered(c)
    PROVE  CpuTypes' /\ BillTypes' /\ (stats_map \in [Cpus -> [pass : Nat, drop : Nat]])'
  <1>1. Pkt(c).dst \in Addresses
    BY PacketTypes DEF TypeInv, CpuTypes, Pkt
  <1>2. QED
    BY <1>1, JudgesTypes DEF Filtered, Verdicts, TypeInv

\* The filters.
LEMMA FiltersKeepTypes ==
    ASSUME TypeInv, NEW c \in Cpus,
           CheckBlacklist(c) \/ CheckPolicy(c) \/ CheckWhitelist(c)
    PROVE  TypeInv'
  <1>1. ConfigTypes' /\ CacheTypes' /\ RateTypes' /\ BoundTypes'
    <2>1. UNCHANGED <<config, caches, rates, bounds>>
      BY DEF CheckBlacklist, CheckPolicy, CheckWhitelist
    <2>2. ConfigTypes' /\ CacheTypes'
      BY <2>1 DEF config, caches, TypeInv, ConfigTypes, CacheTypes
    <2>3. RateTypes' /\ BoundTypes'
      BY <2>1 DEF rates, bounds, TypeInv, RateTypes, BoundTypes
    <2>4. QED
      BY <2>2, <2>3
  <1>2. cpu[c].pc # "done" /\ CpuTypes
    BY DEF CheckBlacklist, CheckPolicy, CheckWhitelist, At, TypeInv
  <1>3. CASE Filtered(c)
    BY <1>1, <1>2, <1>3, FilteredTypes DEF TypeInv
  <1>4. ASSUME UNCHANGED <<stats_map, billing>>, CpuTypes'
        PROVE  TypeInv'
    BY <1>1, <1>4 DEF billing, TypeInv, BillTypes
  <1>5. ASSUME NEW pc \in Pcs \ Counting, Goes(c, pc), UNCHANGED <<stats_map, billing>>
        PROVE  TypeInv'
    BY <1>2, <1>4, <1>5, GoesTypes
  <1>6. CASE Admits(c)
    <2>1. NextStage(Pkt(c)) \in Pcs \ Counting
      BY DEF NextStage, Pcs, Counting
    <2>2. UNCHANGED <<stats_map, billing>>
      BY <1>6 DEF Admits
    <2>3. \/ Returns(c, "PASS") \/ Returns(c, "DROP") \/ Goes(c, NextStage(Pkt(c)))
      BY <1>6, Zenon DEF Admits
    <2>4. CASE Returns(c, "PASS") \/ Returns(c, "DROP")
      BY <1>2, <1>4, <2>2, <2>4, ReturnsTypes DEF Verdicts, LetThrough
    <2>5. QED
      BY <1>5, <2>1, <2>2, <2>3, <2>4
  <1>7. "policy" \in Pcs \ Counting /\ "white" \in Pcs \ Counting
    BY DEF Pcs, Counting
  <1>8. QED
    BY <1>3, <1>5, <1>6, <1>7 DEF CheckBlacklist, CheckPolicy, CheckWhitelist

\* The limiter.
LEMMA CountedTypes ==
    ASSUME TypeInv, NEW s \in DOMAIN ip_stats, NEW c \in Cpus, NEW len \in Nat
    PROVE  Counted(ip_stats[s][c], len) \in
              [pps : Nat, bps : Nat, next_update : 0 .. MaxTime + Second]
  <1>1. ip_stats[s][c] \in [pps : Nat, bps : Nat, next_update : 0 .. MaxTime + Second]
    BY DEF TypeInv, RateTypes, Entries
  <1>2. now + Second \in 0 .. MaxTime + Second
    BY NumbersAreNumbers DEF TypeInv, BoundTypes
  <1>3. ASSUME NEW r \in [pps : Nat, bps : Nat, next_update : 0 .. MaxTime + Second]
        PROVE  Counted(r, len) \in [pps : Nat, bps : Nat, next_update : 0 .. MaxTime + Second]
    <2>1. CASE now > r.next_update
      BY <1>2, <2>1 DEF Counted
    <2>2. CASE ~ (now > r.next_update)
      <3>1. Counted(r, len) = [pps |-> r.pps + 1, bps |-> r.bps + len, next_update |-> r.next_update]
        BY <2>2 DEF Counted
      <3>2. QED
        BY <3>1
    <2>3. QED
      BY <2>1, <2>2
  <1>4. QED
    BY <1>1, <1>3

LEMMA InsertTypes ==
    ASSUME TypeInv, NEW s \in Sources, NEW c \in Cpus, NEW len \in Nat, Insert(s, c, len)
    PROVE  /\ DOMAIN ip_stats' \subseteq Sources
           /\ \A t \in DOMAIN ip_stats' : ip_stats'[t] \in Entries
           /\ forgotten' \subseteq Sources
  <1>1. PICK victims \in SUBSET DOMAIN ip_stats :
            /\ ip_stats' = [t \in (DOMAIN ip_stats \ victims) \cup {s} |->
                  IF t = s THEN [[d \in Cpus |-> Zeroed] EXCEPT ![c] =
                            [pps |-> 1, bps |-> len, next_update |-> now + Second]]
                           ELSE ip_stats[t]]
            /\ forgotten' = forgotten \cup victims
    BY DEF Insert
  <1>2. [[d \in Cpus |-> Zeroed] EXCEPT ![c] =
            [pps |-> 1, bps |-> len, next_update |-> now + Second]] \in Entries
    BY NumbersAreNumbers DEF Entries, Zeroed, TypeInv, BoundTypes
  <1>3. QED
    BY <1>1, <1>2 DEF TypeInv, RateTypes

LEMMA LimiterKeepsTypes ==
    ASSUME TypeInv, NEW c \in Cpus, CheckRateLimit(c)
    PROVE  TypeInv'
  <1> DEFINE s == Pkt(c).src
             len == Pkt(c).len
  <1>1. cpu[c].pc # "done" /\ CpuTypes /\ s \in Sources /\ len \in Nat
    BY PacketTypes DEF CheckRateLimit, At, Pkt, TypeInv, CpuTypes
  <1>2. ConfigTypes' /\ CacheTypes' /\ BoundTypes'
    BY DEF CheckRateLimit, config, caches, bounds, TypeInv, ConfigTypes, CacheTypes, BoundTypes
  <1>3. CASE s \notin DOMAIN ip_stats /\ Insert(s, c, len) /\ Proceeds(c)
    <2>1. CpuTypes'
      BY <1>1, <1>3, GoesTypes DEF Proceeds, Pcs, Counting
    <2>2. admitted' \in [Cpus -> [Sources -> Seq(Nat)]]
      BY <1>1, <1>3 DEF Proceeds, TypeInv, RateTypes, BoundTypes
    <2>3. RateTypes'
      BY <1>1, <1>3, <2>2, InsertTypes DEF RateTypes
    <2>4. QED
      BY <1>2, <1>3, <2>1, <2>3 DEF Proceeds, billing, TypeInv, BillTypes
  <1>4. ASSUME s \in DOMAIN ip_stats, UNCHANGED forgotten,
               ip_stats' = [ip_stats EXCEPT ![s][c] = Counted(ip_stats[s][c], len)],
               admitted' \in [Cpus -> [Sources -> Seq(Nat)]]
        PROVE  RateTypes'
    <2>1. Counted(ip_stats[s][c], len) \in
              [pps : Nat, bps : Nat, next_update : 0 .. MaxTime + Second]
      BY <1>1, <1>4, CountedTypes
    <2>2. QED
      BY <1>4, <2>1 DEF TypeInv, RateTypes, Entries
  <1>5. CASE /\ s \in DOMAIN ip_stats /\ UNCHANGED <<forgotten, admitted>> /\ Filtered(c)
             /\ ip_stats' = [ip_stats EXCEPT ![s][c] = Counted(ip_stats[s][c], len)]
    BY <1>1, <1>2, <1>4, <1>5, FilteredTypes DEF TypeInv, RateTypes
  <1>6. CASE /\ s \in DOMAIN ip_stats /\ UNCHANGED forgotten /\ Proceeds(c)
             /\ ip_stats' = [ip_stats EXCEPT ![s][c] = Counted(ip_stats[s][c], len)]
    <2>1. CpuTypes'
      BY <1>1, <1>6, GoesTypes DEF Proceeds, Pcs, Counting
    <2>2. admitted' \in [Cpus -> [Sources -> Seq(Nat)]]
      BY <1>1, <1>6 DEF Proceeds, TypeInv, RateTypes, BoundTypes
    <2>3. QED
      BY <1>2, <1>4, <1>6, <2>1, <2>2 DEF Proceeds, billing, TypeInv, BillTypes
  <1>7. QED
    BY <1>3, <1>5, <1>6 DEF CheckRateLimit

\* The cache and the forwarding decision.
LEMMA AnswersKeepTypes ==
    ASSUME TypeInv, NEW c \in Cpus, LookupAnswer(c) \/ StaleAnswer(c)
    PROVE  TypeInv'
  <1>1. cpu[c].pc # "done" /\ CpuTypes
    BY DEF LookupAnswer, StaleAnswer, At, TypeInv
  <1>2. UNCHANGED <<config, caches, rates, stats_map, bounds>>
    BY DEF LookupAnswer, StaleAnswer
  <1>3. ConfigTypes' /\ CacheTypes'
    BY <1>2 DEF config, caches, TypeInv, ConfigTypes, CacheTypes
  <1>4. RateTypes' /\ BoundTypes'
    BY <1>2 DEF rates, bounds, TypeInv, RateTypes, BoundTypes
  <1>5. Pkt(c).src \in Addresses
    BY <1>1, PacketTypes DEF CpuTypes, Pkt
  <1>6. CASE Judges(c, "TX", Pkt(c).src)
    BY <1>1, <1>2, <1>3, <1>4, <1>5, <1>6, JudgesTypes DEF Verdicts, LetThrough, TypeInv
  <1>7. ASSUME CpuTypes', UNCHANGED billing
        PROVE  TypeInv'
    BY <1>2, <1>3, <1>4, <1>7 DEF billing, TypeInv, BillTypes
  <1>8. CASE Returns(c, "DROP") /\ UNCHANGED billing
    BY <1>1, <1>7, <1>8, ReturnsTypes DEF Verdicts
  <1>9. ASSUME NEW pc \in Pcs \ Counting, Goes(c, pc), UNCHANGED billing
        PROVE  TypeInv'
    BY <1>1, <1>7, <1>9, GoesTypes
  <1>10. "route" \in Pcs \ Counting /\ "stale" \in Pcs \ Counting /\ "redirect" \in Pcs \ Counting
    BY DEF Pcs, Counting
  <1>11. QED
    BY <1>6, <1>8, <1>9, <1>10 DEF LookupAnswer, StaleAnswer

LEMMA ForwardKeepsTypes ==
    ASSUME TypeInv, NEW c \in Cpus, Decapsulate(c) \/ Redirect(c) \/ Route(c)
    PROVE  TypeInv'
  <1>1. cpu[c].pc # "done" /\ CpuTypes
    BY DEF Decapsulate, Redirect, Route, At, TypeInv
  <1>2. UNCHANGED <<config, rates, bounds, a2s_info, xsk>>
    BY DEF Decapsulate, Redirect, Route, caches
  <1>3. Pkt(c).dst \in Addresses /\ Pkt(c).dst \in Vips
    BY <1>1, PacketTypes DEF CpuTypes, Pkt
  <1>4. ConfigTypes' /\ RateTypes' /\ BoundTypes'
    <2>1. ConfigTypes'
      BY <1>2 DEF config, TypeInv, ConfigTypes
    <2>2. RateTypes' /\ BoundTypes'
      BY <1>2 DEF rates, bounds, TypeInv, RateTypes, BoundTypes
    <2>3. QED
      BY <2>1, <2>2
  <1>5. CacheTypes'
    <2>1. CASE Decapsulate(c)
      BY <1>2, <1>3, <2>1 DEF Decapsulate, TypeInv, CacheTypes
    <2>2. CASE Redirect(c) \/ Route(c)
      BY <2>2 DEF Redirect, Route, caches, TypeInv, CacheTypes
    <2>3. QED
      BY <2>1, <2>2
  <1>6. CASE Decapsulate(c) \/ Redirect(c)
    <2>1. UNCHANGED <<billing, stats_map>>
      BY <1>6 DEF Decapsulate, Redirect
    <2>2. \/ Goes(c, "redirect")
          \/ \E verdict \in {"DROP", "TX", "PASS", "REDIRECT", "ABORTED"} : Returns(c, verdict)
      BY <1>6, Zenon DEF Decapsulate, Redirect
    <2>3. CpuTypes'
      BY <1>1, <2>2, GoesTypes, ReturnsTypes DEF Pcs, Counting, Verdicts, LetThrough
    <2>4. QED
      BY <1>4, <1>5, <2>1, <2>3 DEF billing, TypeInv, BillTypes
  <1>7. CASE Route(c)
    <2>1. \E verdict \in {"DROP", "TX", "PASS"} : Judges(c, verdict, Pkt(c).dst)
      BY <1>7, Zenon DEF Route
    <2>2. CpuTypes' /\ BillTypes'
      BY <1>1, <1>3, <2>1, JudgesTypes DEF Verdicts, LetThrough
    <2>3. (stats_map \in [Cpus -> [pass : Nat, drop : Nat]])'
      BY <1>7 DEF Route, TypeInv
    <2>4. QED
      BY <1>4, <1>5, <2>2, <2>3 DEF TypeInv
  <1>8. QED
    BY <1>6, <1>7

\* update_vip_stats.
LEMMA CountersKeepTypes ==
    ASSUME TypeInv, NEW c \in Cpus, LookupCounters(c) \/ AddCounter(c) \/ CreateCounters(c),
           cpu[c].pc = "add" => vip_stats[cpu[c].key] # NoEntry
    PROVE  TypeInv'
  <1>1. cpu[c].pc \in Counting /\ CpuTypes /\ cpu[c].key \in Addresses
    BY DEF LookupCounters, AddCounter, CreateCounters, At, Counting, TypeInv, CpuTypes
  <1>2. UNCHANGED <<config, caches, rates, stats_map, bounds, judged>>
    BY DEF LookupCounters, AddCounter, CreateCounters, billing
  <1>3. ConfigTypes' /\ CacheTypes'
    BY <1>2 DEF config, caches, TypeInv, ConfigTypes, CacheTypes
  <1>4. RateTypes' /\ BoundTypes'
    BY <1>2 DEF rates, bounds, TypeInv, RateTypes, BoundTypes
  <1>5. CpuTypes'
    <2>1. \E pc \in {"create", "add", "done"} : Goes(c, pc)
      BY Zenon DEF LookupCounters, AddCounter, CreateCounters
    <2>2. QED
      BY <1>1, <2>1, GoesTypes DEF Pcs, Counting
  <1>6. BillTypes'
    <2>1. CASE LookupCounters(c)
      BY <2>1 DEF LookupCounters, billing, TypeInv, BillTypes
    <2>2. CASE AddCounter(c)
      <3>1. vip_stats[cpu[c].key] \in [passed : Nat, dropped : Nat]
        BY <1>1, <2>2 DEF AddCounter, At, TypeInv, BillTypes
      <3>2. QED
        BY <1>1, <2>2, <3>1 DEF AddCounter, Billed, TypeInv, BillTypes
    <2>3. CASE CreateCounters(c)
      BY <1>1, <2>3 DEF CreateCounters, Billed, TypeInv, BillTypes
    <2>4. QED
      BY <2>1, <2>2, <2>3
  <1>7. QED
    BY <1>2, <1>3, <1>4, <1>5, <1>6 DEF TypeInv

-----------------------------------------------------------------------------
(* The counters of an address: whoever adds to an entry has found one. *)

BillsInv ==
    /\ TypeInv
    /\ \A c \in Cpus : cpu[c].pc = "add" => vip_stats[cpu[c].key] # NoEntry

LEMMA ReceiveKeepsTypes ==
    ASSUME TypeInv, NEW c \in Cpus, Receive(c)
    PROVE  TypeInv'
  <1>1. PICK p \in Packets :
            cpu' = [cpu EXCEPT ![c] =
                [pc |-> IF p.form \in {"foreign", "broken"} THEN "done" ELSE "black",
                 pkt |-> p,
                 verdict |-> CASE p.form = "foreign" -> "PASS" [] p.form = "broken" -> "DROP"
                               [] OTHER -> "none",
                 key |-> NoPacket, barred |-> p.src \in black]]
    BY Zenon DEF Receive
  <1>2. PICK barred \in BOOLEAN : barred <=> p.src \in black
    OBVIOUS
  <1> DEFINE pc == IF p.form \in {"foreign", "broken"} THEN "done" ELSE "black"
             verdict == CASE p.form = "foreign" -> "PASS" [] p.form = "broken" -> "DROP"
                          [] OTHER -> "none"
  <1>3. /\ pc \in {"done", "black"} /\ verdict \in {"PASS", "DROP", "none"}
        /\ cpu' = [cpu EXCEPT ![c] =
            [pc |-> pc, pkt |-> p, verdict |-> verdict, key |-> NoPacket, barred |-> barred]]
    <2>1. pc \in {"done", "black"} /\ verdict \in {"PASS", "DROP", "none"}
      OBVIOUS
    <2>2. barred = (p.src \in black)
      BY <1>2
    <2>3. QED
      BY <1>1, <2>1, <2>2, Zenon
  <1>4. CpuTypes'
    <2> HIDE DEF pc, verdict
    <2>1. QED
      BY <1>3 DEF TypeInv, CpuTypes, Pcs, Verdicts, LetThrough, Counting
  <1>5. UNCHANGED <<config, caches, rates, billing, stats_map, now, changes>>
    BY DEF Receive
  <1>6. ConfigTypes' /\ CacheTypes' /\ RateTypes' /\ BillTypes'
    BY <1>5 DEF config, caches, rates, billing,
                TypeInv, ConfigTypes, CacheTypes, RateTypes, BillTypes
  <1>7. BoundTypes'
    BY <1>5, NumbersAreNumbers DEF Receive, TypeInv, BoundTypes
  <1>8. QED
    BY <1>4, <1>5, <1>6, <1>7 DEF TypeInv

\* The control plane, the fastpath and the clock.
LEMMA OutsideKeepsTypes ==
    ASSUME TypeInv, Control \/ Fastpath \/ Tick
    PROVE  TypeInv'
  <1>1. CASE Tick
    <2>1. ConfigTypes' /\ CacheTypes' /\ RateTypes' /\ BillTypes' /\ CpuTypes'
      BY <1>1 DEF Tick, config, caches, rates, billing,
                  TypeInv, ConfigTypes, CacheTypes, RateTypes, BillTypes, CpuTypes
    <2>2. BoundTypes'
      BY <1>1, NumbersAreNumbers DEF Tick, TypeInv, BoundTypes
    <2>3. QED
      BY <1>1, <2>1, <2>2 DEF Tick, TypeInv
  <1>2. ASSUME Changes, ConfigTypes', CacheTypes', CpuTypes'
        PROVE  TypeInv'
    <2>1. RateTypes' /\ BillTypes'
      BY <1>2 DEF Changes, rates, billing, TypeInv, RateTypes, BillTypes
    <2>2. BoundTypes'
      BY <1>2, NumbersAreNumbers DEF Changes, TypeInv, BoundTypes
    <2>3. QED
      BY <1>2, <2>1, <2>2 DEF Changes, TypeInv
  <1>3. ASSUME Changes, UNCHANGED <<caches, cpu>>, ConfigTypes'
        PROVE  TypeInv'
    BY <1>2, <1>3 DEF caches, TypeInv, CacheTypes, CpuTypes
  <1>4. ASSUME NEW s \in Sources, Block(s) \/ Allow(s)
        PROVE  TypeInv'
    BY <1>3, <1>4 DEF Block, Allow, TypeInv, ConfigTypes
  <1>5. ASSUME NEW s \in Sources, Unblock(s)
        PROVE  TypeInv'
    <2>1. ConfigTypes' /\ CacheTypes'
      BY <1>5 DEF Unblock, caches, TypeInv, ConfigTypes, CacheTypes
    <2>2. cpu' = [c \in Cpus |-> IF cpu[c].pkt # NoPacket /\ cpu[c].pkt.src = s
                                 THEN [cpu[c] EXCEPT !.barred = FALSE] ELSE cpu[c]]
      BY <1>5 DEF Unblock
    <2>3. CpuTypes'
      BY <2>2 DEF TypeInv, CpuTypes
    <2>4. QED
      BY <1>2, <1>5, <2>1, <2>3 DEF Unblock
  <1>6. ASSUME SetPolicy
        PROVE  TypeInv'
    BY <1>3, <1>6 DEF SetPolicy, TypeInv, ConfigTypes
  <1>7. ASSUME NEW n \in 1 .. MaxPps, PutPps(n)
        PROVE  TypeInv'
    BY <1>3, <1>7 DEF PutPps, TypeInv, ConfigTypes
  <1>8. ASSUME NEW n \in 1 .. MaxBps, PutBps(n)
        PROVE  TypeInv'
    BY <1>3, <1>8 DEF PutBps, TypeInv, ConfigTypes
  <1>9. ASSUME UNCHANGED <<config, cpu>>, Changes, CacheTypes'
        PROVE  TypeInv'
    BY <1>2, <1>9 DEF config, TypeInv, ConfigTypes, CpuTypes
  <1>10. ASSUME SwitchSocket
         PROVE  TypeInv'
    BY <1>9, <1>10 DEF SwitchSocket, TypeInv, CacheTypes
  <1>11. ASSUME NEW v \in Vips, StoreAnswer(v)
         PROVE  TypeInv'
    <2>1. now + Lifetime \in Nat
      BY NumbersAreNumbers DEF TypeInv, BoundTypes
    <2>2. CacheTypes'
      BY <1>11, <2>1 DEF StoreAnswer, TypeInv, CacheTypes, NoAnswer
    <2>3. QED
      BY <1>9, <1>11, <2>2 DEF StoreAnswer
  <1>12. QED
    BY <1>1, <1>4, <1>5, <1>6, <1>7, <1>8, <1>10, <1>11 DEF Control, Fastpath

\* A step of the program on one CPU leaves the others alone.
LEMMA OneCpu ==
    ASSUME TypeInv, NEW d \in Cpus, Program(d), NEW c \in Cpus, c # d
    PROVE  cpu'[c] = cpu[c]
  <1>1. cpu \in [Cpus -> [pc : Pcs, pkt : Packets \cup {NoPacket}, verdict : Verdicts,
                          key : Addresses \cup {NoPacket}, barred : BOOLEAN]]
    BY DEF TypeInv, CpuTypes
  <1>2. ASSUME NEW pc, Goes(d, pc) PROVE cpu'[c] = cpu[c]
    BY <1>1, <1>2 DEF Goes
  <1>3. ASSUME NEW verdict, Returns(d, verdict) PROVE cpu'[c] = cpu[c]
    BY <1>1, <1>3 DEF Returns
  <1>4. ASSUME NEW verdict, NEW key, Judges(d, verdict, key) PROVE cpu'[c] = cpu[c]
    BY <1>1, <1>4 DEF Judges
  <1>5. CASE Receive(d)
    BY <1>1, <1>5 DEF Receive
  <1>6. CASE CheckBlacklist(d) \/ CheckPolicy(d) \/ CheckWhitelist(d)
    BY <1>2, <1>3, <1>4, <1>6, Zenon
    DEF CheckBlacklist, CheckPolicy, CheckWhitelist, Filtered, Admits
  <1>7. CASE CheckRateLimit(d)
    BY <1>2, <1>4, <1>7, Zenon DEF CheckRateLimit, Filtered, Proceeds
  <1>8. CASE LookupAnswer(d) \/ StaleAnswer(d) \/ Decapsulate(d) \/ Redirect(d) \/ Route(d)
    BY <1>2, <1>3, <1>4, <1>8, Zenon DEF LookupAnswer, StaleAnswer, Decapsulate, Redirect, Route
  <1>9. CASE LookupCounters(d) \/ AddCounter(d) \/ CreateCounters(d)
    BY <1>2, <1>9, Zenon DEF LookupCounters, AddCounter, CreateCounters
  <1>10. QED
    BY <1>5, <1>6, <1>7, <1>8, <1>9 DEF Program

\* The other steps leave all CPUs as they are, but for who has been unblocked.
LEMMA OutsideCpus ==
    ASSUME TypeInv, Control \/ Fastpath \/ Tick \/ UNCHANGED vars
    PROVE  /\ \A c \in Cpus : /\ cpu'[c].pc = cpu[c].pc /\ cpu'[c].pkt = cpu[c].pkt
                              /\ cpu'[c].verdict = cpu[c].verdict /\ cpu'[c].key = cpu[c].key
           /\ UNCHANGED <<rates, billing, stats_map, arrived>>
  <1>1. CASE Tick \/ UNCHANGED vars
    BY <1>1 DEF Tick, vars, bounds
  <1>2. ASSUME NEW s, Unblock(s)
        PROVE  \A c \in Cpus : /\ cpu'[c].pc = cpu[c].pc /\ cpu'[c].pkt = cpu[c].pkt
                               /\ cpu'[c].verdict = cpu[c].verdict /\ cpu'[c].key = cpu[c].key
    BY <1>2 DEF Unblock, TypeInv, CpuTypes
  <1>3. CASE (Control \/ Fastpath) /\ \A s \in Sources : ~ Unblock(s)
    <2>1. Changes /\ UNCHANGED cpu
      BY <1>3 DEF Control, Fastpath, Block, Allow, SetPolicy, PutPps, PutBps, StoreAnswer, SwitchSocket
    <2>2. QED
      BY <2>1 DEF Changes
  <1>4. QED
    BY <1>1, <1>2, <1>3 DEF Unblock, Changes

\* No entry is ever removed from vip_stats_map.
LEMMA EntriesStay ==
    ASSUME TypeInv, TypeInv', [Next]_vars, NEW a \in Addresses, vip_stats[a] # NoEntry
    PROVE  vip_stats'[a] # NoEntry
  <1>1. CASE UNCHANGED vip_stats
    BY <1>1
  <1>2. ASSUME NEW c \in Cpus, AddCounter(c)
        PROVE  vip_stats'[a] # NoEntry
    <2>1. vip_stats[a] \in [passed : Nat, dropped : Nat]
      BY DEF TypeInv, BillTypes
    <2>2. vip_stats' = [vip_stats EXCEPT ![cpu[c].key][Billed(cpu[c].verdict)] = @ + 1]
      BY <1>2 DEF AddCounter
    <2>3. vip_stats'[a] = vip_stats[a]
            \/ vip_stats'[a] = [vip_stats[a] EXCEPT ![Billed(cpu[c].verdict)] = @ + 1]
      BY <2>2 DEF TypeInv, BillTypes
    <2>4. [vip_stats[a] EXCEPT ![Billed(cpu[c].verdict)] = @ + 1] \in [passed : Nat, dropped : Nat]
      BY <2>1 DEF Billed
    <2>5. NoEntry \notin [passed : Nat, dropped : Nat]
      BY DEF NoEntry
    <2>6. QED
      BY <2>3, <2>4, <2>5
  <1>3. ASSUME NEW c \in Cpus, CreateCounters(c)
        PROVE  vip_stats'[a] # NoEntry
    <2>1. [[passed |-> 0, dropped |-> 0] EXCEPT ![Billed(cpu[c].verdict)] = 1] # NoEntry
      BY DEF Billed, NoEntry
    <2>2. QED
      BY <1>3, <2>1 DEF CreateCounters, TypeInv, BillTypes
  <1>4. ASSUME NEW c \in Cpus, Program(c), ~ AddCounter(c), ~ CreateCounters(c)
        PROVE  UNCHANGED vip_stats
    BY <1>4 DEF Program, Receive, CheckBlacklist, CheckPolicy, CheckWhitelist, Filtered, Judges,
                Admits, CheckRateLimit, Proceeds, LookupAnswer, StaleAnswer, Decapsulate,
                Redirect, Route, LookupCounters, billing
  <1>5. QED
    BY <1>1, <1>2, <1>3, <1>4, OutsideCpus DEF Next, billing

LEMMA BillsInit == Init => BillsInv
  BY TypeInit DEF Init, Waiting, BillsInv

LEMMA BillsNext == BillsInv /\ [Next]_vars => BillsInv'
  <1> SUFFICES ASSUME BillsInv, [Next]_vars PROVE BillsInv'
    OBVIOUS
  <1>1. TypeInv'
    <2>1. ASSUME NEW c \in Cpus, Program(c)
          PROVE  TypeInv'
      BY <2>1, ReceiveKeepsTypes, FiltersKeepTypes, LimiterKeepsTypes, AnswersKeepTypes,
         ForwardKeepsTypes, CountersKeepTypes DEF Program, BillsInv
    <2>2. CASE UNCHANGED vars
      <3>1. ConfigTypes' /\ CacheTypes' /\ RateTypes' /\ BillTypes'
        BY <2>2 DEF vars, config, caches, rates, billing,
                    BillsInv, TypeInv, ConfigTypes, CacheTypes, RateTypes, BillTypes
      <3>2. CpuTypes' /\ BoundTypes'
        BY <2>2 DEF vars, bounds, BillsInv, TypeInv, CpuTypes, BoundTypes
      <3>3. QED
        BY <2>2, <3>1, <3>2 DEF vars, BillsInv, TypeInv
    <2>3. QED
      BY <2>1, <2>2, OutsideKeepsTypes DEF Next, BillsInv
  <1>2. ASSUME NEW c \in Cpus, cpu'[c].pc = "add"
        PROVE  vip_stats'[cpu'[c].key] # NoEntry
    <2>1. TypeInv /\ CpuTypes
      BY DEF BillsInv, TypeInv
    <2>2. CASE cpu[c].pc = "add" /\ cpu'[c].key = cpu[c].key
      <3>1. cpu[c].key \in Addresses /\ vip_stats[cpu[c].key] # NoEntry
        BY <2>1, <2>2 DEF BillsInv, CpuTypes, Counting
      <3>2. QED
        BY <1>1, <2>1, <2>2, <3>1, EntriesStay
    <2>3. ASSUME Program(c)
          PROVE  vip_stats'[cpu'[c].key] # NoEntry
      <3>1. CASE LookupCounters(c)
        BY <1>2, <2>1, <3>1 DEF LookupCounters, Goes, billing, CpuTypes
      <3>2. ASSUME NEW pc, Goes(c, pc), pc # "add" PROVE FALSE
        BY <1>2, <2>1, <3>2 DEF Goes, CpuTypes
      <3>3. ASSUME NEW verdict, Returns(c, verdict) PROVE FALSE
        BY <1>2, <2>1, <3>3 DEF Returns, CpuTypes
      <3>4. ASSUME NEW verdict, NEW key, Judges(c, verdict, key) PROVE FALSE
        BY <1>2, <2>1, <3>4 DEF Judges, CpuTypes
      <3>5. ~ Receive(c)
        BY <1>2, <2>1 DEF Receive, CpuTypes
      <3>6. ~ (CheckBlacklist(c) \/ CheckPolicy(c) \/ CheckWhitelist(c))
        BY <3>2, <3>3, <3>4
        DEF CheckBlacklist, CheckPolicy, CheckWhitelist, Filtered, Admits, NextStage
      <3>7. ~ CheckRateLimit(c)
        BY <3>2, <3>4 DEF CheckRateLimit, Filtered, Proceeds
      <3>8. ~ (LookupAnswer(c) \/ StaleAnswer(c) \/ Decapsulate(c) \/ Redirect(c) \/ Route(c))
        BY <3>2, <3>3, <3>4 DEF LookupAnswer, StaleAnswer, Decapsulate, Redirect, Route
      <3>9. ~ (AddCounter(c) \/ CreateCounters(c))
        BY <3>2 DEF AddCounter, CreateCounters
      <3>10. QED
        BY <2>3, <3>1, <3>5, <3>6, <3>7, <3>8, <3>9 DEF Program
    <2>4. QED
      BY <1>2, <2>1, <2>2, <2>3, OneCpu, OutsideCpus DEF Next
  <1>3. QED
    BY <1>1, <1>2 DEF BillsInv

-----------------------------------------------------------------------------
(* No counter passes the number of packets. *)

Early == {"black", "policy", "white", "limit"}
Undecided == Early \cup {"cache", "stale", "route"}
Busy == {c \in Cpus : cpu[c].pc # "done"}

\* A packet yet to be limited is in no window of its CPU, one yet to be judged in no total.
WindowsBounded ==
    \A c \in Cpus, s \in DOMAIN ip_stats :
        /\ ip_stats[s][c].pps <= arrived
        /\ cpu[c].pc \in Early => ip_stats[s][c].pps < arrived

TotalsBounded ==
    \A c \in Cpus :
        /\ stats_map[c].drop <= arrived /\ stats_map[c].pass <= arrived
        /\ cpu[c].pc \in Early => stats_map[c].drop < arrived
        /\ cpu[c].pc \in Undecided => stats_map[c].pass < arrived

\* A packet in progress is not in the counters of an address.
BillsBounded ==
    /\ Cardinality(Busy) <= arrived
    /\ \A a \in Addresses : vip_stats[a] # NoEntry =>
        /\ vip_stats[a].passed + Cardinality(Busy) <= arrived
        /\ vip_stats[a].dropped + Cardinality(Busy) <= arrived

BoundsInv ==
    /\ BillsInv
    /\ WindowsBounded /\ TotalsBounded /\ BillsBounded
    /\ Cardinality(DOMAIN ip_stats) <= Tracked

LEMMA BusyIsFinite ==
    /\ IsFiniteSet(Busy) /\ Cardinality(Busy) \in Nat
    /\ \A c \in Busy : Cardinality(Busy \ {c}) = Cardinality(Busy) - 1
    /\ \A c \in Busy : Cardinality(Busy) >= 1
  <1>1. IsFiniteSet(Cpus)
    BY DatapathAssumption, Zenon DEF DatapathAssumption
  <1>2. IsFiniteSet(Busy)
    BY <1>1, FS_Subset DEF Busy
  <1>3. Cardinality(Busy) \in Nat
    BY <1>2, FS_CardinalityType
  <1>4. ASSUME NEW c \in Busy PROVE Cardinality(Busy \ {c}) = Cardinality(Busy) - 1
    BY <1>2, <1>4, FS_RemoveElement
  <1>5. ASSUME NEW c \in Busy PROVE Cardinality(Busy) >= 1
    BY <1>2, <1>3, <1>5, FS_EmptySet
  <1>6. QED
    BY <1>2, <1>3, <1>4, <1>5

\* Where a step leads.
LEMMA LateSteps ==
    ASSUME TypeInv, NEW c \in Cpus,
           \/ LookupAnswer(c) \/ StaleAnswer(c) \/ Decapsulate(c) \/ Redirect(c) \/ Route(c)
           \/ LookupCounters(c) \/ AddCounter(c) \/ CreateCounters(c)
    PROVE  /\ cpu[c].pc \notin Early /\ cpu'[c].pc \notin Early /\ cpu[c].pc # "done"
           /\ cpu'[c].pc \in Undecided => cpu[c].pc \in Undecided
           /\ UNCHANGED <<ip_stats, arrived>>
           /\ ~ Route(c) => UNCHANGED stats_map
           /\ Route(c) => /\ cpu[c].pc \in Undecided /\ cpu'[c].pc \notin Undecided
                          /\ \/ UNCHANGED stats_map
                             \/ stats_map' = [stats_map EXCEPT ![c].pass = @ + 1]
  <1>1. CpuTypes
    BY DEF TypeInv
  <1>2. ASSUME NEW pc, Goes(c, pc) PROVE cpu'[c].pc = pc
    BY <1>1, <1>2 DEF Goes, CpuTypes
  <1>3. ASSUME NEW verdict, Returns(c, verdict) PROVE cpu'[c].pc = "done"
    BY <1>1, <1>3 DEF Returns, CpuTypes
  <1>4. ASSUME NEW verdict, NEW key, Judges(c, verdict, key) PROVE cpu'[c].pc = "count"
    BY <1>1, <1>4 DEF Judges, CpuTypes
  <1>5. UNCHANGED <<ip_stats, arrived>>
    BY DEF LookupAnswer, StaleAnswer, Decapsulate, Redirect, Route, LookupCounters, AddCounter,
           CreateCounters, rates, bounds
  <1>6. CASE Decapsulate(c) \/ Redirect(c)
    <2>1. cpu'[c].pc \in {"done", "redirect"}
      BY <1>2, <1>3, <1>6, Zenon DEF Decapsulate, Redirect
    <2>2. QED
      BY <1>5, <1>6, <2>1 DEF Decapsulate, Redirect, Route, At, Early, Undecided
  <1>7. CASE LookupAnswer(c) \/ StaleAnswer(c)
    <2>1. cpu[c].pc \in {"cache", "stale"} /\ cpu'[c].pc \in {"route", "done", "count", "stale", "redirect"}
      BY <1>2, <1>3, <1>4, <1>7 DEF LookupAnswer, StaleAnswer, At
    <2>2. QED
      BY <1>5, <1>7, <2>1 DEF LookupAnswer, StaleAnswer, Route, At, Early, Undecided
  <1>8. CASE Route(c)
    <2>1. cpu[c].pc = "route" /\ cpu'[c].pc = "count"
      BY <1>4, <1>8 DEF Route, At
    <2>2. UNCHANGED stats_map \/ stats_map' = [stats_map EXCEPT ![c].pass = @ + 1]
      BY <1>8, Zenon DEF Route
    <2>3. QED
      BY <1>5, <1>8, <2>1, <2>2 DEF Early, Undecided
  <1>9. CASE LookupCounters(c) \/ AddCounter(c) \/ CreateCounters(c)
    <2>1. cpu[c].pc \in Counting /\ cpu'[c].pc \in {"create", "add", "done"}
      BY <1>2, <1>9 DEF LookupCounters, AddCounter, CreateCounters, At, Counting
    <2>2. QED
      BY <1>5, <1>9, <2>1
      DEF LookupCounters, AddCounter, CreateCounters, Route, At, Early, Undecided, Counting
  <1>10. QED
    BY <1>6, <1>7, <1>8, <1>9

LEMMA FilterSteps ==
    ASSUME TypeInv, NEW c \in Cpus,
           CheckBlacklist(c) \/ CheckPolicy(c) \/ CheckWhitelist(c)
    PROVE  /\ cpu[c].pc \in Early /\ UNCHANGED <<ip_stats, arrived>>
           /\ \/ UNCHANGED stats_map
              \/ /\ stats_map' = [stats_map EXCEPT ![c].drop = @ + 1]
                 /\ cpu'[c].pc = "count"
  <1>1. cpu[c].pc \in Early /\ UNCHANGED <<ip_stats, arrived>>
    BY DEF CheckBlacklist, CheckPolicy, CheckWhitelist, At, Early, rates, bounds
  <1>2. CASE Filtered(c)
    BY <1>1, <1>2 DEF Filtered, Judges, TypeInv, CpuTypes
  <1>3. CASE UNCHANGED stats_map
    BY <1>1, <1>3
  <1>4. QED
    BY <1>2, <1>3, Zenon DEF CheckBlacklist, CheckPolicy, CheckWhitelist, Admits

LEMMA LimiterStep ==
    ASSUME TypeInv, NEW c \in Cpus, CheckRateLimit(c)
    PROVE  /\ cpu[c].pc = "limit" /\ cpu'[c].pc \in {"count", "cache", "route"} /\ UNCHANGED arrived
           /\ \/ UNCHANGED stats_map
              \/ /\ stats_map' = [stats_map EXCEPT ![c].drop = @ + 1]
                 /\ cpu'[c].pc = "count"
  <1>1. cpu[c].pc = "limit" /\ UNCHANGED arrived
    BY DEF CheckRateLimit, At, bounds
  <1>2. CASE Filtered(c)
    BY <1>1, <1>2 DEF Filtered, Judges, TypeInv, CpuTypes
  <1>3. CASE Proceeds(c)
    BY <1>1, <1>3 DEF Proceeds, Goes, TypeInv, CpuTypes
  <1>4. QED
    BY <1>2, <1>3, Zenon DEF CheckRateLimit

LEMMA ReceiveStep ==
    ASSUME TypeInv, NEW c \in Cpus, Receive(c)
    PROVE  /\ cpu[c].pc = "done" /\ arrived' = arrived + 1
           /\ UNCHANGED <<ip_stats, stats_map, vip_stats>>
  BY DEF Receive, At, rates, billing

\* Steps that leave the windows as they are.
LEMMA KeptWindows ==
    ASSUME BoundsInv, TypeInv', UNCHANGED ip_stats,
           \/ arrived' = arrived + 1
           \/ UNCHANGED arrived /\ \A c \in Cpus : cpu'[c].pc \in Early => cpu[c].pc \in Early
    PROVE  WindowsBounded'
  <1>1. arrived \in Nat
    BY DEF BoundsInv, BillsInv, TypeInv, BoundTypes
  <1>2. \A s \in DOMAIN ip_stats, c \in Cpus : ip_stats[s][c].pps \in Nat
    BY DEF BoundsInv, BillsInv, TypeInv, RateTypes, Entries
  <1>3. QED
    BY <1>1, <1>2 DEF BoundsInv, WindowsBounded

LEMMA LimiterKeepsWindows ==
    ASSUME BoundsInv, TypeInv', NEW c \in Cpus, CheckRateLimit(c)
    PROVE  WindowsBounded' /\ Cardinality(DOMAIN ip_stats') <= Tracked
  <1> DEFINE s == Pkt(c).src
             len == Pkt(c).len
  <1>1. TypeInv /\ arrived \in Nat /\ arrived' = arrived
    BY LimiterStep DEF BoundsInv, BillsInv, TypeInv, BoundTypes
  <1>2. \A t \in DOMAIN ip_stats, d \in Cpus : ip_stats[t][d].pps \in Nat
    BY <1>1 DEF TypeInv, RateTypes, Entries
  <1>3. cpu[c].pc = "limit" /\ cpu'[c].pc \notin Early /\ \A d \in Cpus \ {c} : cpu'[d] = cpu[d]
    BY <1>1, LimiterStep, OneCpu DEF Program, Early
  <1>4. \A d \in Cpus : cpu[d].pc \in Early => arrived >= 1
    <2>1. ASSUME NEW d \in Cpus, cpu[d].pc \in Early PROVE d \in Busy
      BY <2>1 DEF Busy, Early
    <2>2. QED
      BY <1>1, <2>1, BusyIsFinite DEF BoundsInv, BillsBounded
  <1>5. CASE s \notin DOMAIN ip_stats /\ Insert(s, c, len)
    <2>1. PICK victims \in IF Cardinality(DOMAIN ip_stats) < Tracked THEN {{}}
                           ELSE {{v} : v \in DOMAIN ip_stats} :
              ip_stats' = [t \in (DOMAIN ip_stats \ victims) \cup {s} |->
                  IF t = s THEN [[d \in Cpus |-> Zeroed] EXCEPT ![c] =
                            [pps |-> 1, bps |-> len, next_update |-> now + Second]]
                           ELSE ip_stats[t]]
      BY <1>5 DEF Insert
    <2>2. IsFiniteSet(DOMAIN ip_stats) /\ Cardinality(DOMAIN ip_stats) \in Nat
      <3>1. IsFiniteSet(Sources)
        BY DatapathAssumption, Zenon DEF DatapathAssumption
      <3>2. IsFiniteSet(DOMAIN ip_stats)
        BY <1>1, <3>1, FS_Subset DEF TypeInv, RateTypes
      <3>3. QED
        BY <3>2, FS_CardinalityType
    <2>3. DOMAIN ip_stats' = (DOMAIN ip_stats \ victims) \cup {s}
      BY <2>1
    <2>4. Cardinality(DOMAIN ip_stats') <= Tracked
      <3>1. CASE victims = {} /\ Cardinality(DOMAIN ip_stats) < Tracked
        <4>1. DOMAIN ip_stats' = DOMAIN ip_stats \cup {s}
          BY <2>3, <3>1
        <4>2. Cardinality(DOMAIN ip_stats') = Cardinality(DOMAIN ip_stats) + 1
          BY <1>5, <2>2, <4>1, FS_AddElement
        <4>3. QED
          BY <2>2, <3>1, <4>2, NumbersAreNumbers
      <3>2. ASSUME NEW v \in DOMAIN ip_stats, victims = {v}
            PROVE  Cardinality(DOMAIN ip_stats') <= Tracked
        <4>1. /\ IsFiniteSet(DOMAIN ip_stats \ {v})
              /\ Cardinality(DOMAIN ip_stats \ {v}) = Cardinality(DOMAIN ip_stats) - 1
          BY <2>2, FS_RemoveElement
        <4>2. Cardinality((DOMAIN ip_stats \ {v}) \cup {s}) = Cardinality(DOMAIN ip_stats \ {v}) + 1
          BY <1>5, <4>1, FS_AddElement
        <4>3. QED
          BY <2>2, <2>3, <3>2, <4>1, <4>2, NumbersAreNumbers DEF BoundsInv
      <3>3. QED
        BY <2>1, <3>1, <3>2
    <2>5. ASSUME NEW d \in Cpus, NEW t \in DOMAIN ip_stats'
          PROVE  /\ ip_stats'[t][d].pps <= arrived'
                 /\ cpu'[d].pc \in Early => ip_stats'[t][d].pps < arrived'
      <3>1. CASE t = s /\ d = c
        <4>1. ip_stats'[t][d].pps = 1
          BY <2>1, <2>3, <3>1
        <4>2. QED
          BY <1>1, <1>3, <1>4, <3>1, <4>1 DEF Early
      <3>2. CASE t = s /\ d # c
        <4>1. ip_stats'[t][d].pps = 0
          BY <2>1, <2>3, <3>2 DEF Zeroed
        <4>2. QED
          BY <1>1, <1>3, <1>4, <3>2, <4>1
      <3>3. CASE t # s
        <4>1. t \in DOMAIN ip_stats /\ ip_stats'[t] = ip_stats[t]
          BY <2>1, <2>3, <2>5, <3>3
        <4>2. QED
          BY <1>1, <1>3, <4>1 DEF BoundsInv, WindowsBounded
      <3>4. QED
        BY <3>1, <3>2, <3>3
    <2>6. QED
      BY <2>4, <2>5 DEF WindowsBounded
  <1>6. CASE /\ s \in DOMAIN ip_stats
             /\ ip_stats' = [ip_stats EXCEPT ![s][c] = Counted(ip_stats[s][c], len)]
    <2>1. DOMAIN ip_stats' = DOMAIN ip_stats
      BY <1>6
    <2>2. ASSUME NEW d \in Cpus, NEW t \in DOMAIN ip_stats'
          PROVE  /\ ip_stats'[t][d].pps <= arrived'
                 /\ cpu'[d].pc \in Early => ip_stats'[t][d].pps < arrived'
      <3>1. CASE t = s /\ d = c
        <4>1. ip_stats[s] \in Entries
          BY <1>1, <1>6 DEF TypeInv, RateTypes
        <4>2. ip_stats'[t][d] = Counted(ip_stats[s][c], len)
          BY <1>6, <3>1, <4>1 DEF Entries
        <4>3. ip_stats[s][c].pps < arrived /\ ip_stats[s][c].pps \in Nat
          BY <1>2, <1>3, <1>6 DEF BoundsInv, WindowsBounded, Early
        <4>4. Counted(ip_stats[s][c], len).pps \in {1, ip_stats[s][c].pps + 1}
          BY <4>1 DEF Counted, Entries
        <4>5. QED
          BY <1>1, <1>3, <3>1, <4>2, <4>3, <4>4
      <3>2. CASE ~ (t = s /\ d = c)
        <4>1. ip_stats'[t][d] = ip_stats[t][d]
          BY <1>1, <1>6, <3>2 DEF TypeInv, RateTypes, Entries
        <4>2. QED
          BY <1>1, <1>3, <2>1, <4>1 DEF BoundsInv, WindowsBounded
      <3>3. QED
        BY <3>1, <3>2
    <2>3. QED
      BY <2>1, <2>2 DEF WindowsBounded, BoundsInv
  <1>7. QED
    BY <1>5, <1>6 DEF CheckRateLimit

LEMMA WindowsNext ==
    ASSUME BoundsInv, TypeInv', [Next]_vars
    PROVE  WindowsBounded' /\ Cardinality(DOMAIN ip_stats') <= Tracked
  <1>1. TypeInv
    BY DEF BoundsInv, BillsInv
  <1>2. ASSUME UNCHANGED ip_stats, WindowsBounded'
        PROVE  WindowsBounded' /\ Cardinality(DOMAIN ip_stats') <= Tracked
    BY <1>2 DEF BoundsInv
  <1>3. ASSUME NEW c \in Cpus, Receive(c)
        PROVE  WindowsBounded' /\ Cardinality(DOMAIN ip_stats') <= Tracked
    BY <1>1, <1>2, <1>3, ReceiveStep, KeptWindows
  <1>4. ASSUME NEW c \in Cpus, CheckRateLimit(c)
        PROVE  WindowsBounded' /\ Cardinality(DOMAIN ip_stats') <= Tracked
    BY <1>4, LimiterKeepsWindows
  <1>5. ASSUME NEW c \in Cpus, Program(c), ~ Receive(c), ~ CheckRateLimit(c)
        PROVE  WindowsBounded' /\ Cardinality(DOMAIN ip_stats') <= Tracked
    <2>1. /\ UNCHANGED <<ip_stats, arrived>>
          /\ cpu'[c].pc \in Early => cpu[c].pc \in Early
      BY <1>1, <1>5, FilterSteps, LateSteps DEF Program
    <2>2. \A d \in Cpus : cpu'[d].pc \in Early => cpu[d].pc \in Early
      BY <1>1, <1>5, <2>1, OneCpu
    <2>3. QED
      BY <1>2, <2>1, <2>2, KeptWindows
  <1>6. CASE Control \/ Fastpath \/ Tick \/ UNCHANGED vars
    BY <1>1, <1>2, <1>6, OutsideCpus, KeptWindows DEF rates
  <1>7. QED
    BY <1>3, <1>4, <1>5, <1>6 DEF Next

LEMMA TotalsNext ==
    ASSUME BoundsInv, TypeInv', [Next]_vars
    PROVE  TotalsBounded'
  <1>1. TypeInv /\ arrived \in Nat /\ stats_map \in [Cpus -> [pass : Nat, drop : Nat]]
    BY DEF BoundsInv, BillsInv, TypeInv, BoundTypes
  <1>2. Early \subseteq Undecided
    BY DEF Undecided
  <1>3. ASSUME NEW c \in Cpus, Program(c),
               \/ arrived' = arrived + 1 /\ UNCHANGED stats_map
               \/ /\ UNCHANGED <<arrived, stats_map>>
                  /\ cpu'[c].pc \in Early => cpu[c].pc \in Early
                  /\ cpu'[c].pc \in Undecided => cpu[c].pc \in Undecided
               \/ /\ UNCHANGED arrived /\ stats_map' = [stats_map EXCEPT ![c].drop = @ + 1]
                  /\ cpu[c].pc \in Early /\ cpu'[c].pc \notin Undecided
               \/ /\ UNCHANGED arrived /\ stats_map' = [stats_map EXCEPT ![c].pass = @ + 1]
                  /\ cpu[c].pc \in Undecided /\ cpu'[c].pc \notin Undecided
        PROVE  TotalsBounded'
    <2>1. ASSUME NEW d \in Cpus \ {c}
          PROVE  cpu'[d] = cpu[d] /\ stats_map'[d] = stats_map[d]
      BY <1>1, <1>3, OneCpu
    <2>2. ASSUME NEW d \in Cpus \ {c}
          PROVE  TotalsBounded!(d)'
      BY <1>1, <1>3, <2>1 DEF BoundsInv, TotalsBounded
    <2>3. TotalsBounded!(c)'
      BY <1>1, <1>2, <1>3 DEF BoundsInv, TotalsBounded
    <2>4. QED
      BY <2>2, <2>3 DEF TotalsBounded
  <1>4. ASSUME NEW c \in Cpus, Receive(c)
        PROVE  TotalsBounded'
    BY <1>1, <1>3, <1>4, ReceiveStep DEF Program
  <1>5. ASSUME NEW c \in Cpus, CheckBlacklist(c) \/ CheckPolicy(c) \/ CheckWhitelist(c)
        PROVE  TotalsBounded'
    BY <1>1, <1>2, <1>3, <1>5, FilterSteps DEF Program, Early, Undecided
  <1>6. ASSUME NEW c \in Cpus, CheckRateLimit(c)
        PROVE  TotalsBounded'
    BY <1>1, <1>3, <1>6, LimiterStep DEF Program, Early, Undecided
  <1>7. ASSUME NEW c \in Cpus,
               \/ LookupAnswer(c) \/ StaleAnswer(c) \/ Decapsulate(c) \/ Redirect(c) \/ Route(c)
               \/ LookupCounters(c) \/ AddCounter(c) \/ CreateCounters(c)
        PROVE  TotalsBounded'
    BY <1>1, <1>3, <1>7, LateSteps DEF Program
  <1>8. CASE Control \/ Fastpath \/ Tick \/ UNCHANGED vars
    BY <1>1, <1>8, OutsideCpus DEF BoundsInv, TotalsBounded
  <1>9. QED
    BY <1>4, <1>5, <1>6, <1>7, <1>8 DEF Next, Program

\* What a step does to the counters of the addresses.
LEMMA BillSteps ==
    ASSUME TypeInv, NEW c \in Cpus, Program(c), ~ Receive(c)
    PROVE  /\ cpu[c].pc # "done" /\ UNCHANGED arrived
           /\ ~ AddCounter(c) /\ ~ CreateCounters(c) => UNCHANGED vip_stats
           /\ AddCounter(c) \/ CreateCounters(c) => cpu'[c].pc = "done"
  <1>1. cpu[c].pc # "done" /\ UNCHANGED arrived
    BY FilterSteps, LimiterStep, LateSteps DEF Program, Early
  <1>2. ~ AddCounter(c) /\ ~ CreateCounters(c) => UNCHANGED vip_stats
    BY DEF Program, CheckBlacklist, CheckPolicy, CheckWhitelist, Filtered, Judges,
           Admits, CheckRateLimit, Proceeds, LookupAnswer, StaleAnswer, Decapsulate,
           Redirect, Route, LookupCounters, billing
  <1>3. AddCounter(c) \/ CreateCounters(c) => cpu'[c].pc = "done"
    BY DEF AddCounter, CreateCounters, Goes, TypeInv, CpuTypes
  <1>4. QED
    BY <1>1, <1>2, <1>3

LEMMA BillsBoundedNext ==
    ASSUME BoundsInv, TypeInv', [Next]_vars
    PROVE  BillsBounded'
  <1>1. TypeInv /\ arrived \in Nat /\ Cardinality(Busy) \in Nat
    BY BusyIsFinite DEF BoundsInv, BillsInv, TypeInv, BoundTypes
  <1>2. \A a \in Addresses : vip_stats[a] # NoEntry => vip_stats[a] \in [passed : Nat, dropped : Nat]
    BY <1>1 DEF TypeInv, BillTypes
  <1>3. IsFiniteSet(Busy') /\ Cardinality(Busy') \in Nat
    <2>1. IsFiniteSet(Cpus)
      BY DatapathAssumption, Zenon DEF DatapathAssumption
    <2>2. QED
      BY <2>1, FS_Subset, FS_CardinalityType DEF Busy
  <1>4. ASSUME NEW c \in Cpus, Receive(c)
        PROVE  BillsBounded'
    <2>1. c \notin Busy /\ Busy' \subseteq Busy \cup {c} /\ arrived' = arrived + 1 /\ UNCHANGED vip_stats
      BY <1>1, <1>4, ReceiveStep, OneCpu DEF Busy, Program
    <2>2. Cardinality(Busy') <= Cardinality(Busy) + 1
      <3>1. IsFiniteSet(Busy \cup {c}) /\ Cardinality(Busy \cup {c}) = Cardinality(Busy) + 1
        BY <2>1, BusyIsFinite, FS_AddElement
      <3>2. QED
        BY <2>1, <3>1, FS_Subset
    <2>3. QED
      BY <1>1, <1>2, <1>3, <2>1, <2>2 DEF BoundsInv, BillsBounded
  <1>5. ASSUME NEW c \in Cpus, Program(c), ~ Receive(c), ~ AddCounter(c), ~ CreateCounters(c)
        PROVE  BillsBounded'
    <2>1. Busy' \subseteq Busy /\ UNCHANGED <<arrived, vip_stats>>
      BY <1>1, <1>5, BillSteps, OneCpu DEF Busy
    <2>2. Cardinality(Busy') <= Cardinality(Busy)
      BY <2>1, BusyIsFinite, FS_Subset
    <2>3. QED
      BY <1>1, <1>2, <1>3, <2>1, <2>2 DEF BoundsInv, BillsBounded
  <1>6. ASSUME NEW c \in Cpus, AddCounter(c) \/ CreateCounters(c)
        PROVE  BillsBounded'
    <2> DEFINE k == Billed(cpu[c].verdict)
    <2>1. c \in Busy /\ Busy' = Busy \ {c} /\ UNCHANGED arrived
      BY <1>1, <1>6, BillSteps, OneCpu DEF Busy, Program, AddCounter, CreateCounters, Receive, At
    <2>2. Cardinality(Busy') = Cardinality(Busy) - 1 /\ Cardinality(Busy) >= 1
      BY <2>1, BusyIsFinite
    <2>3. ASSUME NEW a \in Addresses, vip_stats'[a] # NoEntry
          PROVE  /\ vip_stats'[a].passed + Cardinality(Busy') <= arrived'
                 /\ vip_stats'[a].dropped + Cardinality(Busy') <= arrived'
      <3>1. cpu[c].key \in Addresses /\ k \in {"passed", "dropped"}
        BY <1>1, <1>6 DEF AddCounter, CreateCounters, At, Counting, TypeInv, CpuTypes, Billed
      <3>2. CASE a # cpu[c].key
        <4>1. vip_stats'[a] = vip_stats[a]
          BY <1>1, <1>6, <3>2 DEF AddCounter, CreateCounters, TypeInv, BillTypes
        <4>2. QED
          BY <1>1, <1>2, <1>3, <2>1, <2>2, <2>3, <4>1 DEF BoundsInv, BillsBounded
      <3>3. CASE a = cpu[c].key /\ AddCounter(c)
        <4>1. vip_stats[a] # NoEntry
          BY <3>1, <3>3 DEF BoundsInv, BillsInv, AddCounter, At
        <4>2. vip_stats'[a] = [vip_stats[a] EXCEPT ![k] = @ + 1]
          BY <1>1, <3>1, <3>3 DEF AddCounter, TypeInv, BillTypes
        <4>3. /\ vip_stats'[a].passed <= vip_stats[a].passed + 1
              /\ vip_stats'[a].dropped <= vip_stats[a].dropped + 1
              /\ vip_stats'[a] \in [passed : Nat, dropped : Nat]
          <5> HIDE DEF k
          <5>1. QED
            BY <1>2, <3>1, <4>1, <4>2
        <4>4. QED
          BY <1>1, <1>2, <1>3, <2>1, <2>2, <4>1, <4>3 DEF BoundsInv, BillsBounded
      <3>4. CASE a = cpu[c].key /\ CreateCounters(c)
        <4>1. vip_stats'[a] = [[passed |-> 0, dropped |-> 0] EXCEPT ![k] = 1]
          BY <1>1, <3>1, <3>4 DEF CreateCounters, TypeInv, BillTypes
        <4>2. vip_stats'[a].passed \in {0, 1} /\ vip_stats'[a].dropped \in {0, 1}
          <5> HIDE DEF k
          <5>1. QED
            BY <3>1, <4>1
        <4>3. QED
          BY <1>1, <2>1, <2>2, <4>2 DEF BoundsInv, BillsBounded
      <3>5. QED
        BY <1>6, <3>2, <3>3, <3>4
    <2>4. Cardinality(Busy') <= arrived'
      BY <1>1, <2>1, <2>2 DEF BoundsInv, BillsBounded
    <2>5. QED
      BY <2>3, <2>4 DEF BillsBounded
  <1>7. CASE Control \/ Fastpath \/ Tick \/ UNCHANGED vars
    <2>1. Busy' = Busy /\ UNCHANGED <<vip_stats, arrived>>
      BY <1>1, <1>7, OutsideCpus DEF Busy, billing
    <2>2. QED
      BY <2>1 DEF BoundsInv, BillsBounded
  <1>8. QED
    BY <1>4, <1>5, <1>6, <1>7 DEF Next, Program

LEMMA BoundsInit == Init => BoundsInv
  <1> SUFFICES ASSUME Init PROVE BoundsInv
    OBVIOUS
  <1>1. Busy = {} /\ arrived = 0
    BY DEF Init, Busy, Waiting
  <1>2. WindowsBounded /\ TotalsBounded
    BY DEF Init, WindowsBounded, TotalsBounded, Waiting, Zeroed, Early, Undecided
  <1>3. BillsBounded
    BY <1>1, FS_EmptySet DEF Init, BillsBounded
  <1>4. Cardinality(DOMAIN ip_stats) <= Tracked
    <2>1. DOMAIN ip_stats = Seen
      BY DEF Init
    <2>2. QED
      BY <2>1, DatapathAssumption, Zenon DEF DatapathAssumption
  <1>5. QED
    BY <1>2, <1>3, <1>4, BillsInit DEF BoundsInv

LEMMA BoundsNext == BoundsInv /\ [Next]_vars => BoundsInv'
  BY BillsNext, WindowsNext, TotalsNext, BillsBoundedNext DEF BoundsInv, BillsInv

\* Every variable keeps its type, no counter of packets passes their number, and the
\* table of sources its capacity.
THEOREM TypeCorrect == Spec => []TypeOK
  <1>1. BoundsInv => TypeOK
    <2> SUFFICES ASSUME BoundsInv PROVE TypeOK
      OBVIOUS
    <2>1. TypeInv /\ arrived \in 0 .. MaxPackets /\ MaxPackets \in Nat /\ Cardinality(Busy) \in Nat
      BY NumbersAreNumbers, BusyIsFinite DEF BoundsInv, BillsInv, TypeInv, BoundTypes
    <2>2. \A s \in DOMAIN ip_stats : ip_stats[s] \in [Cpus -> [pps : 0 .. MaxPackets,
                bps : Nat, next_update : 0 .. MaxTime + Second]]
      BY <2>1 DEF BoundsInv, WindowsBounded, TypeInv, RateTypes, Entries
    <2>3. vip_stats \in [Addresses -> [passed : 0 .. MaxPackets, dropped : 0 .. MaxPackets]
                                      \cup {NoEntry}]
      BY <2>1 DEF BoundsInv, BillsBounded, TypeInv, BillTypes
    <2>4. \A c \in Cpus : stats_map[c] \in [pass : 0 .. MaxPackets, drop : 0 .. MaxPackets]
      BY <2>1 DEF BoundsInv, TotalsBounded, TypeInv
    <2>5. \A c \in Cpus :
            /\ cpu[c].pc \in Pcs /\ cpu[c].pkt \in Packets \cup {NoPacket}
            /\ cpu[c].verdict \in Verdicts /\ cpu[c].key \in Addresses \cup {NoPacket}
            /\ cpu[c].barred \in BOOLEAN
      BY <2>1 DEF TypeInv, CpuTypes
    <2>6. ConfigTypes /\ CacheTypes /\ RateTypes /\ BillTypes /\ BoundTypes
      BY <2>1 DEF TypeInv
    <2>7. QED
      BY <2>2, <2>3, <2>4, <2>5, <2>6, NumbersAreNumbers
      DEF TypeOK, Pcs, Verdicts, ConfigTypes, CacheTypes, RateTypes, BillTypes, BoundTypes,
          BoundsInv
  <1>2. QED
    BY <1>1, BoundsInit, BoundsNext, PTL DEF Spec

-----------------------------------------------------------------------------
(* The blacklist *)

\* A packet whose source has been blacklisted since before it arrived meets the test of
\* the blacklist and no other: it is not judged yet, or dropped.
BarredPlace(c) ==
    /\ cpu[c].pkt \in Packets /\ cpu[c].pkt.src \in black
    /\ \/ cpu[c].pc = "black" /\ cpu[c].verdict = "none"
       \/ cpu[c].pc \in Counting \cup {"done"} /\ cpu[c].verdict = "DROP"
       \/ cpu[c].pc = "done" /\ cpu[c].pkt.form = "foreign"

BarredInv ==
    /\ TypeInv
    /\ \A c \in Cpus : cpu[c].barred => BarredPlace(c)

LEMMA BarredInit == Init => BarredInv
  BY TypeInit DEF Init, BarredInv, Waiting

LEMMA BarredOnItsCpu ==
    ASSUME BarredInv, NEW c \in Cpus, Program(c), cpu'[c].barred
    PROVE  BarredPlace(c)'
  <1>1. TypeInv /\ CpuTypes
    BY DEF BarredInv, TypeInv
  <1>2. UNCHANGED black
    BY DEF Program, Receive, CheckBlacklist, CheckPolicy, CheckWhitelist, CheckRateLimit,
           LookupAnswer, StaleAnswer, Decapsulate, Redirect, Route,
           LookupCounters, AddCounter, CreateCounters, config
  <1>3. CASE Receive(c)
    <2>1. PICK p \in Packets :
              cpu'[c] = [pc |-> IF p.form \in {"foreign", "broken"} THEN "done" ELSE "black",
                         pkt |-> p,
                         verdict |-> CASE p.form = "foreign" -> "PASS" [] p.form = "broken" -> "DROP"
                                       [] OTHER -> "none",
                         key |-> NoPacket, barred |-> p.src \in black]
      BY <1>1, <1>3 DEF Receive, CpuTypes
    <2>2. PICK b \in BOOLEAN : b <=> p.src \in black
      OBVIOUS
    <2>3. b = (p.src \in black)
      BY <2>2
    <2>4. cpu'[c] = [pc |-> IF p.form \in {"foreign", "broken"} THEN "done" ELSE "black",
                     pkt |-> p,
                     verdict |-> CASE p.form = "foreign" -> "PASS" [] p.form = "broken" -> "DROP"
                                   [] OTHER -> "none",
                     key |-> NoPacket, barred |-> b]
      BY <2>1, <2>3, Zenon
    <2>5. p.src \in black
      BY <2>2, <2>4
    <2>6. QED
      BY <1>2, <2>4, <2>5 DEF BarredPlace
  <1>4. ASSUME NEW pc, Goes(c, pc)
        PROVE  /\ cpu'[c].pkt = cpu[c].pkt /\ cpu'[c].verdict = cpu[c].verdict
               /\ cpu'[c].barred = cpu[c].barred /\ cpu'[c].pc = pc
    BY <1>1, <1>4 DEF Goes, CpuTypes
  <1>5. ASSUME NEW verdict, Returns(c, verdict) PROVE cpu'[c].barred = cpu[c].barred
    BY <1>1, <1>5 DEF Returns, CpuTypes
  <1>6. ASSUME NEW verdict, NEW key, Judges(c, verdict, key)
        PROVE  /\ cpu'[c].pkt = cpu[c].pkt /\ cpu'[c].verdict = verdict
               /\ cpu'[c].barred = cpu[c].barred /\ cpu'[c].pc = "count"
    BY <1>1, <1>6 DEF Judges, CpuTypes
  <1>7. CASE ~ Receive(c)
    <2>1. cpu'[c].barred = cpu[c].barred
      <3>1. CASE CheckBlacklist(c) \/ CheckPolicy(c) \/ CheckWhitelist(c) \/ CheckRateLimit(c)
        BY <1>4, <1>5, <1>6, <3>1, Zenon
        DEF CheckBlacklist, CheckPolicy, CheckWhitelist, Admits, Filtered, CheckRateLimit, Proceeds
      <3>2. CASE LookupAnswer(c) \/ StaleAnswer(c) \/ Decapsulate(c) \/ Redirect(c) \/ Route(c)
        BY <1>4, <1>5, <1>6, <3>2, Zenon DEF LookupAnswer, StaleAnswer, Decapsulate, Redirect, Route
      <3>3. CASE LookupCounters(c) \/ AddCounter(c) \/ CreateCounters(c)
        BY <1>4, <3>3, Zenon DEF LookupCounters, AddCounter, CreateCounters
      <3>4. QED
        BY <1>7, <3>1, <3>2, <3>3 DEF Program
    <2>2. cpu[c].barred /\ BarredPlace(c)
      BY <2>1 DEF BarredInv
    <2>3. CASE CheckBlacklist(c)
      <3>1. Judges(c, "DROP", Pkt(c).dst)
        BY <2>2, <2>3 DEF CheckBlacklist, Filtered, BarredPlace, Pkt
      <3>2. QED
        BY <1>2, <1>6, <2>2, <3>1 DEF BarredPlace, Counting
    <2>4. CASE LookupCounters(c) \/ AddCounter(c) \/ CreateCounters(c)
      <3>1. \E pc \in {"create", "add", "done"} : Goes(c, pc)
        BY <2>4, Zenon DEF LookupCounters, AddCounter, CreateCounters
      <3>2. cpu[c].pc \in {"count", "add", "create"}
        BY <2>4 DEF LookupCounters, AddCounter, CreateCounters, At
      <3>3. QED
        BY <1>2, <1>4, <2>2, <3>1, <3>2 DEF BarredPlace, Counting
    <2>5. cpu[c].pc \in {"black", "count", "add", "create", "done"}
      BY <2>2 DEF BarredPlace, Counting
    <2>6. QED
      BY <1>7, <2>3, <2>4, <2>5 DEF Program, CheckPolicy, CheckWhitelist, CheckRateLimit,
         LookupAnswer, StaleAnswer, Decapsulate, Redirect, Route, At
  <1>8. QED
    BY <1>3, <1>7

LEMMA BarredNext == BarredInv /\ TypeInv' /\ [Next]_vars => BarredInv'
  <1> SUFFICES ASSUME BarredInv, TypeInv', [Next]_vars, NEW c \in Cpus, cpu'[c].barred
               PROVE  BarredPlace(c)'
    BY DEF BarredInv
  <1>1. TypeInv /\ CpuTypes
    BY DEF BarredInv, TypeInv
  <1>2. CASE cpu'[c] = cpu[c] /\ black \subseteq black'
    BY <1>2 DEF BarredInv, BarredPlace
  <1>3. ASSUME NEW d \in Cpus, Program(d), d # c
        PROVE  BarredPlace(c)'
    <2>1. UNCHANGED black
      BY <1>3 DEF Program, Receive, CheckBlacklist, CheckPolicy, CheckWhitelist, CheckRateLimit,
                  LookupAnswer, StaleAnswer, Decapsulate, Redirect, Route,
                  LookupCounters, AddCounter, CreateCounters, config
    <2>2. QED
      BY <1>1, <1>2, <1>3, <2>1, OneCpu
  <1>4. ASSUME NEW s \in Sources, Unblock(s)
        PROVE  BarredPlace(c)'
    <2>1. black' = black \ {s}
      BY <1>4 DEF Unblock
    <2>2. cpu'[c] = IF cpu[c].pkt # NoPacket /\ cpu[c].pkt.src = s
                    THEN [cpu[c] EXCEPT !.barred = FALSE] ELSE cpu[c]
      BY <1>4 DEF Unblock
    <2>3. ~ (cpu[c].pkt # NoPacket /\ cpu[c].pkt.src = s)
      BY <1>1, <2>2 DEF CpuTypes
    <2>4. cpu'[c] = cpu[c]
      BY <2>2, <2>3
    <2>5. BarredPlace(c) /\ cpu[c].pkt # NoPacket
      BY <2>4, PacketTypes DEF BarredInv, BarredPlace
    <2>6. QED
      BY <2>1, <2>3, <2>4, <2>5 DEF BarredPlace
  <1>5. CASE (Control \/ Fastpath) /\ \A s \in Sources : ~ Unblock(s)
    <2>1. UNCHANGED cpu /\ black \subseteq black'
      BY <1>5 DEF Control, Fastpath, Block, Allow, SetPolicy, PutPps, PutBps, StoreAnswer,
                  SwitchSocket, config
    <2>2. QED
      BY <1>2, <2>1
  <1>6. CASE Tick \/ UNCHANGED vars
    BY <1>2, <1>6 DEF Tick, vars, config
  <1>7. QED
    BY <1>3, <1>4, <1>5, <1>6, BarredOnItsCpu DEF Next

\* Whatever the policy, the whitelist, the limits and the other CPUs do meanwhile, no IPv4
\* packet gets through whose source stayed blacklisted from its arrival on.
THEOREM BarredStaysOutside == Spec => []BarredStaysOut
  <1>1. BarredInv => BarredStaysOut
    BY DEF BarredInv, BarredPlace, BarredStaysOut, LetThrough
  <1>2. Spec => []TypeInv
    <2>1. BillsInv => TypeInv
      BY DEF BillsInv
    <2>2. QED
      BY <2>1, BillsInit, BillsNext, PTL DEF Spec
  <1>3. QED
    BY <1>1, <1>2, BarredInit, BarredNext, PTL DEF Spec

-----------------------------------------------------------------------------
(* The counters of an address are exact *)

Recorded(a, k) == IF vip_stats[a] = NoEntry THEN 0 ELSE vip_stats[a][k]
Pending(a, k) == {c \in Cpus : ToCount(c, a, k)}

ExactInv ==
    /\ BillsInv
    /\ \A a \in Addresses \ overwritten, k \in {"passed", "dropped"} :
        judged[a][k] = Recorded(a, k) + Cardinality(Pending(a, k))

LEMMA PendingIsFinite ==
    ASSUME NEW a, NEW k
    PROVE  /\ IsFiniteSet(Pending(a, k)) /\ Cardinality(Pending(a, k)) \in Nat
           /\ \A c \in Pending(a, k) : Cardinality(Pending(a, k) \ {c}) = Cardinality(Pending(a, k)) - 1
           /\ \A c : c \notin Pending(a, k) =>
                Cardinality(Pending(a, k) \cup {c}) = Cardinality(Pending(a, k)) + 1
  <1>1. IsFiniteSet(Cpus)
    BY DatapathAssumption, Zenon DEF DatapathAssumption
  <1>2. IsFiniteSet(Pending(a, k))
    BY <1>1, FS_Subset DEF Pending
  <1>3. Cardinality(Pending(a, k)) \in Nat
    BY <1>2, FS_CardinalityType
  <1>4. ASSUME NEW c \in Pending(a, k)
        PROVE  Cardinality(Pending(a, k) \ {c}) = Cardinality(Pending(a, k)) - 1
    BY <1>2, <1>4, FS_RemoveElement
  <1>5. ASSUME NEW c, c \notin Pending(a, k)
        PROVE  Cardinality(Pending(a, k) \cup {c}) = Cardinality(Pending(a, k)) + 1
    BY <1>2, <1>5, FS_AddElement
  <1>6. QED
    BY <1>2, <1>3, <1>4, <1>5

LEMMA KeptExact ==
    ASSUME ExactInv, BillsInv', UNCHANGED billing,
           \A a \in Addresses, k \in {"passed", "dropped"} : Pending(a, k)' = Pending(a, k)
    PROVE  ExactInv'
  BY DEF ExactInv, billing, Recorded

\* A verdict is given.
LEMMA JudgesKeepsExact ==
    ASSUME ExactInv, BillsInv', NEW c \in Cpus, Program(c), cpu[c].pc \notin Counting,
           NEW verdict, NEW key \in Addresses, Judges(c, verdict, key)
    PROVE  ExactInv'
  <1> DEFINE kind == Billed(verdict)
  <1>1. TypeInv /\ CpuTypes /\ BillTypes /\ kind \in {"passed", "dropped"}
    BY DEF ExactInv, BillsInv, TypeInv, Billed
  <1>2. /\ cpu'[c].pc = "count" /\ cpu'[c].key = key /\ cpu'[c].verdict = verdict
        /\ \A d \in Cpus \ {c} : cpu'[d] = cpu[d]
    BY <1>1, OneCpu DEF Judges, CpuTypes
  <1>3. UNCHANGED <<vip_stats, overwritten>> /\ judged' = [judged EXCEPT ![key][kind] = @ + 1]
    BY DEF Judges
  <1>4. ASSUME NEW a \in Addresses \ overwritten, NEW k \in {"passed", "dropped"}
        PROVE  judged'[a][k] = Recorded(a, k)' + Cardinality(Pending(a, k)')
    <2>1. c \notin Pending(a, k)
      BY DEF Pending, ToCount, Counting
    <2>2. Recorded(a, k)' = Recorded(a, k)
      BY <1>3 DEF Recorded
    <2>3. judged[a][k] = Recorded(a, k) + Cardinality(Pending(a, k))
      BY DEF ExactInv
    <2>4. Recorded(a, k) \in Nat
      BY <1>1 DEF Recorded, BillTypes
    <2>5. CASE a = key /\ k = kind
      <3>1. Pending(a, k)' = Pending(a, k) \cup {c}
        BY <1>2, <2>5 DEF Pending, ToCount, Counting
      <3>2. judged'[a][k] = judged[a][k] + 1
        <4> HIDE DEF kind
        <4>1. QED
          BY <1>1, <1>3, <2>5 DEF BillTypes
      <3>3. QED
        BY <2>1, <2>2, <2>3, <2>4, <3>1, <3>2, PendingIsFinite
    <2>6. CASE ~ (a = key /\ k = kind)
      <3>1. Pending(a, k)' = Pending(a, k)
        BY <1>2, <2>1, <2>6 DEF Pending, ToCount
      <3>2. judged'[a][k] = judged[a][k]
        <4> HIDE DEF kind
        <4>1. QED
          BY <1>1, <1>3, <2>6 DEF BillTypes
      <3>3. QED
        BY <2>2, <2>3, <3>1, <3>2
    <2>7. QED
      BY <2>5, <2>6
  <1>5. QED
    BY <1>3, <1>4 DEF ExactInv

\* A verdict is counted.
LEMMA CountKeepsExact ==
    ASSUME ExactInv, BillsInv', NEW c \in Cpus, AddCounter(c) \/ CreateCounters(c)
    PROVE  ExactInv'
  <1> DEFINE key == cpu[c].key
             kind == Billed(cpu[c].verdict)
  <1>1. TypeInv /\ CpuTypes /\ BillTypes /\ kind \in {"passed", "dropped"} /\ key \in Addresses
    BY DEF ExactInv, BillsInv, TypeInv, Billed, AddCounter, CreateCounters, At, CpuTypes, Counting
  <1>2. cpu'[c].pc = "done" /\ \A d \in Cpus \ {c} : cpu'[d] = cpu[d]
    BY <1>1, OneCpu DEF AddCounter, CreateCounters, Goes, CpuTypes, Program
  <1>3. UNCHANGED judged /\ overwritten \subseteq overwritten'
    BY DEF AddCounter, CreateCounters
  <1>4. c \in Pending(key, kind)
    BY DEF Pending, ToCount, AddCounter, CreateCounters, At
  <1>5. ASSUME NEW a \in Addresses \ overwritten', NEW k \in {"passed", "dropped"}
        PROVE  judged'[a][k] = Recorded(a, k)' + Cardinality(Pending(a, k)')
    <2>1. judged[a][k] = Recorded(a, k) + Cardinality(Pending(a, k))
      BY <1>3, <1>5 DEF ExactInv
    <2>2. Recorded(a, k) \in Nat /\ Cardinality(Pending(a, k)) \in Nat
      BY <1>1, PendingIsFinite DEF Recorded, BillTypes
    <2>3. CASE a = key /\ k = kind
      <3>1. Pending(a, k)' = Pending(a, k) \ {c}
        BY <1>2, <2>3 DEF Pending, ToCount
      <3>2. Cardinality(Pending(a, k)') = Cardinality(Pending(a, k)) - 1
        BY <1>4, <2>3, <3>1, PendingIsFinite
      <3>3. Recorded(a, k)' = Recorded(a, k) + 1
        <4>1. CASE AddCounter(c)
          <5>1. vip_stats[a] # NoEntry /\ vip_stats'[a] # NoEntry
            BY <1>1, <2>3, <4>1, EntriesStay DEF ExactInv, BillsInv, AddCounter, At, Next, Program
          <5>2. vip_stats'[a][k] = vip_stats[a][k] + 1
            <6>1. vip_stats' = [vip_stats EXCEPT ![key][kind] = @ + 1]
              BY <4>1 DEF AddCounter
            <6>2. vip_stats[a] \in [passed : Nat, dropped : Nat]
              BY <1>1, <1>5, <5>1 DEF BillTypes
            <6> HIDE DEF key, kind
            <6>3. QED
              BY <1>1, <2>3, <6>1, <6>2 DEF BillTypes
          <5>3. QED
            BY <5>1, <5>2 DEF Recorded
        <4>2. CASE CreateCounters(c)
          <5>1. vip_stats[a] = NoEntry
            BY <1>5, <2>3, <4>2 DEF CreateCounters
          <5>2. vip_stats'[a] = [[passed |-> 0, dropped |-> 0] EXCEPT ![k] = 1]
            BY <1>1, <2>3, <4>2 DEF CreateCounters, BillTypes
          <5>3. vip_stats'[a] # NoEntry /\ vip_stats'[a][k] = 1
            BY <5>2 DEF NoEntry
          <5>4. QED
            BY <5>1, <5>3 DEF Recorded
        <4>3. QED
          BY <4>1, <4>2
      <3>4. QED
        BY <1>3, <2>1, <2>2, <3>2, <3>3
    <2>4. CASE ~ (a = key /\ k = kind)
      <3>1. Pending(a, k)' = Pending(a, k)
        BY <1>2, <2>4 DEF Pending, ToCount
      <3>2. Recorded(a, k)' = Recorded(a, k)
        <4>1. CASE a # key
          <5>1. vip_stats'[a] = vip_stats[a]
            BY <1>1, <4>1 DEF AddCounter, CreateCounters, BillTypes
          <5>2. QED
            BY <5>1 DEF Recorded
        <4>2. CASE a = key /\ k # kind /\ AddCounter(c)
          <5>1. vip_stats[a] # NoEntry /\ vip_stats'[a] # NoEntry
            BY <1>1, <4>2, EntriesStay DEF ExactInv, BillsInv, AddCounter, At, Next, Program
          <5>2. vip_stats'[a][k] = vip_stats[a][k]
            <6>1. vip_stats' = [vip_stats EXCEPT ![key][kind] = @ + 1]
              BY <4>2 DEF AddCounter
            <6>2. vip_stats[a] \in [passed : Nat, dropped : Nat]
              BY <1>1, <1>5, <5>1 DEF BillTypes
            <6> HIDE DEF key, kind
            <6>3. QED
              BY <1>1, <4>2, <6>1, <6>2 DEF BillTypes
          <5>3. QED
            BY <5>1, <5>2 DEF Recorded
        <4>3. CASE a = key /\ k # kind /\ CreateCounters(c)
          <5>1. vip_stats[a] = NoEntry
            BY <1>5, <4>3 DEF CreateCounters
          <5>2. vip_stats'[a] = [[passed |-> 0, dropped |-> 0] EXCEPT ![kind] = 1]
            BY <1>1, <4>3 DEF CreateCounters, BillTypes
          <5>3. vip_stats'[a][k] = 0
            <6> HIDE DEF kind
            <6>1. QED
              BY <1>1, <4>3, <5>2
          <5>4. QED
            BY <5>1, <5>3 DEF Recorded
        <4>4. QED
          BY <2>4, <4>1, <4>2, <4>3
      <3>3. QED
        BY <1>3, <2>1, <3>1, <3>2
    <2>5. QED
      BY <2>3, <2>4
  <1>6. QED
    BY <1>5 DEF ExactInv

\* A step that neither gives a verdict to count nor counts one.
LEMMA QuietKeepsExact ==
    ASSUME ExactInv, BillsInv', NEW c \in Cpus, Program(c), UNCHANGED billing,
           cpu[c].pc \notin Counting, cpu'[c].pc \notin Counting
    PROVE  ExactInv'
  <1>1. TypeInv
    BY DEF ExactInv, BillsInv
  <1>2. \A d \in Cpus \ {c} : cpu'[d] = cpu[d]
    BY <1>1, OneCpu
  <1>3. ASSUME NEW a \in Addresses, NEW k \in {"passed", "dropped"}
        PROVE  Pending(a, k)' = Pending(a, k)
    BY <1>2 DEF Pending, ToCount, Counting
  <1>4. QED
    BY <1>3, KeptExact

LEMMA ProgramKeepsExact ==
    ASSUME ExactInv, BillsInv', NEW c \in Cpus, Program(c)
    PROVE  ExactInv'
  <1>1. TypeInv /\ CpuTypes
    BY DEF ExactInv, BillsInv, TypeInv
  <1>2. ASSUME NEW pc, Goes(c, pc)
        PROVE  /\ cpu'[c].pc = pc /\ cpu'[c].key = cpu[c].key /\ cpu'[c].verdict = cpu[c].verdict
    BY <1>1, <1>2 DEF Goes, CpuTypes
  <1>3. ASSUME NEW verdict, Returns(c, verdict) PROVE cpu'[c].pc = "done"
    BY <1>1, <1>3 DEF Returns, CpuTypes
  <1>4. cpu[c].pc # "done" =>
            Pkt(c).src \in Addresses /\ Pkt(c).dst \in Addresses
    BY <1>1, PacketTypes DEF CpuTypes, Pkt
  <1>5. CASE Receive(c)
    <2>1. UNCHANGED billing /\ cpu[c].pc = "done"
      BY <1>5 DEF Receive, At
    <2>2. cpu'[c].pc \in {"done", "black"}
      BY <1>1, <1>5 DEF Receive, CpuTypes
    <2>3. QED
      BY <2>1, <2>2, QuietKeepsExact DEF Counting
  <1>6. CASE CheckBlacklist(c) \/ CheckPolicy(c) \/ CheckWhitelist(c) \/ CheckRateLimit(c)
    <2>1. cpu[c].pc \in {"black", "policy", "white", "limit"}
      BY <1>6 DEF CheckBlacklist, CheckPolicy, CheckWhitelist, CheckRateLimit, At
    <2>2. \/ Filtered(c)
          \/ /\ UNCHANGED billing
             /\ \/ \E pc \in {"policy", "white", "decap", "limit", "cache", "route"} : Goes(c, pc)
                \/ \E verdict \in {"PASS", "DROP"} : Returns(c, verdict)
      BY <1>6, Zenon DEF CheckBlacklist, CheckPolicy, CheckWhitelist, CheckRateLimit, Admits,
                         NextStage, Proceeds
    <2>3. CASE Filtered(c)
      BY <1>4, <2>1, <2>3, JudgesKeepsExact DEF Filtered, Counting
    <2>4. CASE /\ UNCHANGED billing
               /\ \/ \E pc \in {"policy", "white", "decap", "limit", "cache", "route"} : Goes(c, pc)
                  \/ \E verdict \in {"PASS", "DROP"} : Returns(c, verdict)
      <3>1. cpu'[c].pc \notin Counting
        BY <1>2, <1>3, <2>4 DEF Counting
      <3>2. QED
        BY <2>1, <2>4, <3>1, QuietKeepsExact DEF Counting
    <2>5. QED
      BY <2>2, <2>3, <2>4
  <1>7. CASE LookupAnswer(c) \/ StaleAnswer(c) \/ Decapsulate(c) \/ Redirect(c) \/ Route(c)
    <2>1. cpu[c].pc \in {"cache", "stale", "decap", "redirect", "route"}
      BY <1>7 DEF LookupAnswer, StaleAnswer, Decapsulate, Redirect, Route, At
    <2>2. \/ \E verdict \in {"TX", "PASS", "DROP"}, key \in {Pkt(c).src, Pkt(c).dst} :
                Judges(c, verdict, key)
          \/ /\ UNCHANGED billing
             /\ \/ \E pc \in {"route", "stale", "redirect"} : Goes(c, pc)
                \/ \E verdict \in {"DROP", "TX", "PASS", "REDIRECT", "ABORTED"} : Returns(c, verdict)
      BY <1>7, Zenon DEF LookupAnswer, StaleAnswer, Decapsulate, Redirect, Route
    <2>3. ASSUME NEW verdict, NEW key \in {Pkt(c).src, Pkt(c).dst}, Judges(c, verdict, key)
          PROVE  ExactInv'
      BY <1>4, <2>1, <2>3, JudgesKeepsExact DEF Counting
    <2>4. CASE /\ UNCHANGED billing
               /\ \/ \E pc \in {"route", "stale", "redirect"} : Goes(c, pc)
                  \/ \E verdict \in {"DROP", "TX", "PASS", "REDIRECT", "ABORTED"} : Returns(c, verdict)
      <3>1. cpu'[c].pc \notin Counting
        BY <1>2, <1>3, <2>4 DEF Counting
      <3>2. QED
        BY <2>1, <2>4, <3>1, QuietKeepsExact DEF Counting
    <2>5. QED
      BY <2>2, <2>3, <2>4
  <1>8. CASE LookupCounters(c)
    <2>1. UNCHANGED billing /\ cpu[c].pc = "count"
      BY <1>8 DEF LookupCounters, At
    <2>2. \E pc \in {"create", "add"} : Goes(c, pc)
      BY <1>8, Zenon DEF LookupCounters
    <2>3. /\ cpu'[c].pc \in {"create", "add"} /\ cpu'[c].key = cpu[c].key
          /\ cpu'[c].verdict = cpu[c].verdict
      BY <1>2, <2>2
    <2>4. \A d \in Cpus \ {c} : cpu'[d] = cpu[d]
      BY <1>1, OneCpu
    <2>5. ASSUME NEW a \in Addresses, NEW k \in {"passed", "dropped"}
          PROVE  Pending(a, k)' = Pending(a, k)
      BY <2>1, <2>3, <2>4 DEF Pending, ToCount
    <2>6. QED
      BY <2>1, <2>5, KeptExact
  <1>9. QED
    BY <1>5, <1>6, <1>7, <1>8, CountKeepsExact DEF Program

LEMMA ExactInit == Init => ExactInv
  <1> SUFFICES ASSUME Init PROVE ExactInv
    OBVIOUS
  <1>1. ASSUME NEW a \in Addresses, NEW k \in {"passed", "dropped"}
        PROVE  judged[a][k] = 0 /\ Recorded(a, k) = 0 /\ Pending(a, k) = {}
    BY DEF Init, Recorded, Pending, ToCount, Waiting
  <1>2. Cardinality({}) = 0
    BY FS_EmptySet
  <1>3. QED
    BY <1>1, <1>2, BillsInit DEF ExactInv

LEMMA ExactNext == ExactInv /\ [Next]_vars => ExactInv'
  <1> SUFFICES ASSUME ExactInv, [Next]_vars PROVE ExactInv'
    OBVIOUS
  <1>1. BillsInv' /\ TypeInv
    BY BillsNext DEF ExactInv, BillsInv
  <1>2. CASE \E c \in Cpus : Program(c)
    BY <1>1, <1>2, ProgramKeepsExact
  <1>3. CASE Control \/ Fastpath \/ Tick \/ UNCHANGED vars
    <2>1. UNCHANGED billing
      BY <1>1, <1>3, OutsideCpus
    <2>2. ASSUME NEW a \in Addresses, NEW k \in {"passed", "dropped"}
          PROVE  Pending(a, k)' = Pending(a, k)
      BY <1>1, <1>3, OutsideCpus DEF Pending, ToCount
    <2>3. QED
      BY <1>1, <2>1, <2>2, KeptExact
  <1>4. QED
    BY <1>2, <1>3 DEF Next

\* In every order of the CPUs' lookups, additions and insertions, the counters of an
\* address are exact as long as no insertion replaced an entry.
THEOREM CountersAreExact == Spec => []CountersExact
  <1>1. ExactInv => CountersExact
    BY DEF ExactInv, CountersExact, Recorded, Pending
  <1>2. QED
    BY <1>1, ExactInit, ExactNext, PTL DEF Spec

-----------------------------------------------------------------------------
(* The limiter *)

\* Of the ticks in the sequence q: those from a to b, and those from a on.
Held(q, a, b) == {i \in DOMAIN q : q[i] \in a .. b}
Since(q, a) == {i \in DOMAIN q : q[i] >= a}

\* q holds the packets that one source got past one CPU, and e the CPU's cl_stats of it.
\* They were admitted in the current window, which has counted them, or before it, and the
\* second before it held no more than one window's worth either.
Windowed(q, e) ==
    LET start == e.next_update - Second
    IN  /\ \A i \in DOMAIN q : q[i] <= e.next_update
        /\ Cardinality(Since(q, start)) <= e.pps
        /\ Cardinality(Since(q, start)) <= MaxPps
        /\ Cardinality(Held(q, start - Second, start - 1)) <= MaxPps

EverySecond(q) == \A t \in 1 .. MaxTime : Cardinality(Held(q, t, t + Second)) <= 2 * MaxPps

RatePlace(c, s) ==
    /\ s \notin DOMAIN ip_stats => admitted[c][s] = <<>>
    /\ s \in DOMAIN ip_stats => /\ Windowed(admitted[c][s], ip_stats[s][c])
                                /\ ip_stats[s][c].next_update <= now + Second
    /\ EverySecond(admitted[c][s])

RateInv ==
    /\ TypeInv
    /\ \A c \in Cpus, s \in Sources \ forgotten : RatePlace(c, s)

LEMMA IndicesAreFinite ==
    ASSUME NEW q \in Seq(Nat), NEW I \in SUBSET DOMAIN q
    PROVE  IsFiniteSet(I) /\ Cardinality(I) \in Nat
  <1>1. DOMAIN q = 1 .. Len(q) /\ Len(q) \in Nat
    OBVIOUS
  <1>2. IsFiniteSet(DOMAIN q)
    BY <1>1, FS_Interval
  <1>3. QED
    BY <1>2, FS_Subset, FS_CardinalityType

LEMMA FewerIndices ==
    ASSUME NEW q \in Seq(Nat), NEW I \in SUBSET DOMAIN q, NEW J \in SUBSET I
    PROVE  Cardinality(J) <= Cardinality(I)
  BY IndicesAreFinite, FS_Subset

LEMMA SinceAppend ==
    ASSUME NEW q \in Seq(Nat), NEW n \in Nat, NEW a \in Int
    PROVE  /\ n >= a => Cardinality(Since(Append(q, n), a)) = Cardinality(Since(q, a)) + 1
           /\ n < a => Since(Append(q, n), a) = Since(q, a)
  <1>1. /\ DOMAIN q = 1 .. Len(q) /\ DOMAIN Append(q, n) = 1 .. Len(q) + 1 /\ Len(q) \in Nat
        /\ \A i \in 1 .. Len(q) : Append(q, n)[i] = q[i] /\ q[i] \in Nat
        /\ Append(q, n)[Len(q) + 1] = n
    OBVIOUS
  <1>2. CASE n >= a
    <2>1. Since(Append(q, n), a) = Since(q, a) \cup {Len(q) + 1}
      BY <1>1, <1>2 DEF Since
    <2>2. Len(q) + 1 \notin Since(q, a) /\ Since(q, a) \subseteq DOMAIN q
      BY <1>1 DEF Since
    <2>3. IsFiniteSet(Since(q, a))
      BY <2>2, IndicesAreFinite
    <2>4. Cardinality(Since(Append(q, n), a)) = Cardinality(Since(q, a)) + 1
      BY <2>1, <2>2, <2>3, FS_AddElement
    <2>5. QED
      BY <1>2, <2>4
  <1>3. CASE n < a
    BY <1>1, <1>3 DEF Since
  <1>4. QED
    BY <1>2, <1>3

LEMMA HeldAppend ==
    ASSUME NEW q \in Seq(Nat), NEW n \in Nat, NEW a \in Int, NEW b \in Int, n \notin a .. b
    PROVE  Held(Append(q, n), a, b) = Held(q, a, b)
  BY DEF Held

\* A second that ends in the current window spans it and the second before.
LEMMA TwoWindows ==
    ASSUME NEW q \in Seq(Nat), NEW start \in Int, NEW t \in Int, t >= start - Second,
           Cardinality(Since(q, start)) <= MaxPps,
           Cardinality(Held(q, start - Second, start - 1)) <= MaxPps
    PROVE  Cardinality(Held(q, t, t + Second)) <= 2 * MaxPps
  <1> DEFINE I == Since(q, start)
             J == Held(q, start - Second, start - 1)
             K == Held(q, t, t + Second)
  <1>1. K \subseteq I \cup J /\ I \cup J \in SUBSET DOMAIN q
    BY NumbersAreNumbers DEF Since, Held
  <1>2. IsFiniteSet(I) /\ IsFiniteSet(J) /\ IsFiniteSet(I \cup J)
    BY <1>1, IndicesAreFinite
  <1>3. /\ Cardinality(I) \in Nat /\ Cardinality(J) \in Nat /\ Cardinality(I \cap J) \in Nat
        /\ Cardinality(I \cup J) \in Nat /\ Cardinality(K) \in Nat
    <2>1. I \cap J \in SUBSET DOMAIN q /\ K \in SUBSET DOMAIN q
      BY <1>1
    <2>2. QED
      BY <1>1, <2>1, IndicesAreFinite
  <1>4. Cardinality(I \cup J) = Cardinality(I) + Cardinality(J) - Cardinality(I \cap J)
    BY <1>2, FS_Union
  <1>5. Cardinality(K) <= Cardinality(I \cup J)
    BY <1>1, FewerIndices
  <1>6. Cardinality(I) <= MaxPps /\ Cardinality(J) <= MaxPps
    OBVIOUS
  <1> HIDE DEF I, J, K
  <1>7. Cardinality(K) <= 2 * MaxPps
    BY <1>3, <1>4, <1>5, <1>6, NumbersAreNumbers
  <1>8. QED
    BY <1>7 DEF K

\* A packet more, let past or not, keeps a windowed history windowed.
LEMMA CountedWindowed ==
    ASSUME TypeInv, NEW q \in Seq(Nat), NEW len \in Nat,
           NEW e \in [pps : Nat, bps : Nat, next_update : 0 .. MaxTime + Second],
           Windowed(q, e), e.next_update <= now + Second
    PROVE  /\ Counted(e, len).next_update \in now .. now + Second
           /\ Windowed(q, Counted(e, len))
           /\ Counted(e, len).pps <= MaxPps =>
                Windowed(Append(q, now), Counted(e, len))
  <1> DEFINE f == Counted(e, len)
             old == e.next_update - Second
             new == f.next_update - Second
  <1>1. now \in Nat /\ e.next_update \in Nat /\ e.pps \in Nat /\ old \in Int
    BY NumbersAreNumbers DEF TypeInv, BoundTypes
  <1>2. \A i \in DOMAIN q : q[i] \in Nat /\ q[i] <= e.next_update
    BY DEF Windowed
  <1>3. /\ Cardinality(Since(q, old)) <= e.pps /\ Cardinality(Since(q, old)) <= MaxPps
        /\ Cardinality(Held(q, old - Second, old - 1)) <= MaxPps
    BY DEF Windowed
  <1>4. /\ Since(q, old) \in SUBSET DOMAIN q
        /\ Cardinality(Since(q, old)) \in Nat
    <2>1. Since(q, old) \in SUBSET DOMAIN q
      BY DEF Since
    <2>2. QED
      BY <2>1, IndicesAreFinite
  <1>5. f.next_update \in now .. now + Second /\ new \in Int
    BY <1>1, NumbersAreNumbers DEF Counted
  <1>6. /\ \A i \in DOMAIN q : q[i] <= f.next_update
        /\ Cardinality(Since(q, new)) + 1 <= f.pps
        /\ Cardinality(Since(q, new)) <= MaxPps
        /\ Cardinality(Held(q, new - Second, new - 1)) <= MaxPps
    <2>1. CASE now > e.next_update
      <3>1. f.next_update = now + Second /\ new = now /\ f.pps = 1
        BY <1>1, <2>1, NumbersAreNumbers DEF Counted
      <3>2. Since(q, new) = {}
        BY <1>1, <1>2, <2>1, <3>1 DEF Since
      <3>3. Cardinality(Since(q, new)) = 0
        BY <3>2, FS_EmptySet
      <3>4. Held(q, new - Second, new - 1) \in SUBSET Since(q, old)
        <4> SUFFICES ASSUME NEW i \in Held(q, new - Second, new - 1)
                     PROVE  i \in Since(q, old)
          OBVIOUS
        <4>1. i \in DOMAIN q /\ q[i] \in new - Second .. new - 1
          BY DEF Held
        <4>2. q[i] >= old
          BY <1>1, <1>2, <2>1, <3>1, <4>1, NumbersAreNumbers
        <4>3. QED
          BY <4>1, <4>2 DEF Since
      <3>5. Held(q, new - Second, new - 1) \in SUBSET DOMAIN q
        BY DEF Held
      <3>6. /\ Cardinality(Held(q, new - Second, new - 1)) <= Cardinality(Since(q, old))
            /\ Cardinality(Held(q, new - Second, new - 1)) \in Nat
        BY <1>4, <3>4, <3>5, FewerIndices, IndicesAreFinite
      <3>7. \A i \in DOMAIN q : q[i] <= f.next_update
        BY <1>1, <1>2, <2>1, <3>1, NumbersAreNumbers
      <3>8. Cardinality(Held(q, new - Second, new - 1)) <= MaxPps
        <4> HIDE DEF old, new
        <4>1. QED
          BY <1>3, <1>4, <3>6, NumbersAreNumbers
      <3>9. QED
        BY <3>1, <3>3, <3>7, <3>8, NumbersAreNumbers
    <2>2. CASE ~ (now > e.next_update)
      <3>1. f.next_update = e.next_update /\ f.pps = e.pps + 1
        BY <2>2 DEF Counted
      <3>2. new = old
        BY <3>1
      <3>3. Cardinality(Since(q, new)) + 1 <= f.pps
        <4> HIDE DEF f, old, new
        <4>1. QED
          BY <1>1, <1>3, <1>4, <3>1, <3>2
      <3>4. QED
        BY <1>2, <1>3, <3>1, <3>2, <3>3
    <2>3. QED
      BY <2>1, <2>2
  <1>7. Windowed(q, f)
    <2>1. f.pps \in Nat
      BY <1>1 DEF Counted
    <2>2. Cardinality(Since(q, new)) \in Nat
      <3>1. Since(q, new) \in SUBSET DOMAIN q
        BY DEF Since
      <3>2. QED
        BY <3>1, IndicesAreFinite
    <2>3. Cardinality(Since(q, new)) <= f.pps
      <3> HIDE DEF f, new
      <3>1. QED
        BY <1>6, <2>1, <2>2
    <2>4. QED
      BY <1>6, <2>3 DEF Windowed
  <1>8. ASSUME f.pps <= MaxPps
        PROVE  Windowed(Append(q, now), f)
    <2>1. Cardinality(Since(Append(q, now), new)) = Cardinality(Since(q, new)) + 1
      <3>1. now >= new
        BY <1>1, <1>5, NumbersAreNumbers
      <3>2. QED
        BY <1>1, <1>5, <3>1, SinceAppend
    <2>2. Held(Append(q, now), new - Second, new - 1) = Held(q, new - Second, new - 1)
      <3>1. now \notin new - Second .. new - 1
        BY <1>1, <1>5, NumbersAreNumbers
      <3>2. QED
        BY <1>1, <1>5, <3>1, HeldAppend, NumbersAreNumbers
    <2>3. \A i \in DOMAIN Append(q, now) : Append(q, now)[i] <= f.next_update
      <3>1. /\ DOMAIN q = 1 .. Len(q) /\ DOMAIN Append(q, now) = 1 .. Len(q) + 1 /\ Len(q) \in Nat
            /\ \A i \in 1 .. Len(q) : Append(q, now)[i] = q[i]
            /\ Append(q, now)[Len(q) + 1] = now
        BY <1>1
      <3>2. now <= f.next_update
        BY <1>1, <1>5
      <3> HIDE DEF f
      <3>3. QED
        BY <1>6, <3>1, <3>2
    <2>4. Cardinality(Since(q, new)) \in Nat
      <3>1. Since(q, new) \in SUBSET DOMAIN q
        BY DEF Since
      <3>2. QED
        BY <3>1, IndicesAreFinite
    <2>5. f.pps \in Nat
      BY <1>1 DEF Counted
    <2>6. /\ Cardinality(Since(Append(q, now), new)) <= f.pps
          /\ Cardinality(Since(Append(q, now), new)) <= MaxPps
      <3> HIDE DEF f, new
      <3>1. QED
        BY <1>6, <1>8, <2>1, <2>4, <2>5, NumbersAreNumbers
    <2>7. QED
      BY <1>6, <2>2, <2>3, <2>6 DEF Windowed
  <1>9. QED
    BY <1>5, <1>7, <1>8

\* A packet let past now keeps to two windows in every second that it falls in.
LEMMA EverySecondAppend ==
    ASSUME TypeInv, NEW q \in Seq(Nat), EverySecond(q),
           NEW e \in [pps : Nat, bps : Nat, next_update : 0 .. MaxTime + Second],
           e.next_update \in now .. now + Second, Windowed(Append(q, now), e)
    PROVE  EverySecond(Append(q, now))
  <1>1. now \in Nat /\ Append(q, now) \in Seq(Nat)
    BY DEF TypeInv, BoundTypes
  <1>2. ASSUME NEW t \in 1 .. MaxTime
        PROVE  Cardinality(Held(Append(q, now), t, t + Second)) <= 2 * MaxPps
    <2>1. t \in Int /\ t + Second \in Int
      BY NumbersAreNumbers
    <2>2. CASE now \in t .. t + Second
      <3>1. t >= (e.next_update - Second) - Second /\ e.next_update - Second \in Int
        BY <1>1, <2>1, <2>2, NumbersAreNumbers
      <3>2. QED
        BY <1>1, <2>1, <3>1, TwoWindows DEF Windowed
    <2>3. CASE now \notin t .. t + Second
      BY <1>1, <2>1, <2>3, HeldAppend DEF EverySecond
    <2>4. QED
      BY <2>2, <2>3
  <1>3. QED
    BY <1>2 DEF EverySecond

\* No packet has been let past.
LEMMA EmptyHistory ==
    ASSUME NEW q, q = <<>>
    PROVE  Windowed(q, Zeroed) /\ EverySecond(q)
  <1>1. DOMAIN q = {}
    OBVIOUS
  <1>2. (\A a \in Int : Since(q, a) = {}) /\ (\A a, b \in Int : Held(q, a, b) = {})
    BY <1>1 DEF Since, Held
  <1>3. Cardinality({}) = 0
    BY FS_EmptySet
  <1>4. EverySecond(q)
    <2>1. ASSUME NEW t \in 1 .. MaxTime PROVE Cardinality(Held(q, t, t + Second)) = 0
      <3>1. t \in Int /\ t + Second \in Int
        BY NumbersAreNumbers
      <3>2. QED
        BY <1>2, <1>3, <3>1
    <2>2. QED
      BY <2>1, NumbersAreNumbers DEF EverySecond
  <1>5. Windowed(q, Zeroed)
    <2> DEFINE start == Zeroed.next_update - Second
    <2>1. start \in Int /\ start - Second \in Int /\ start - 1 \in Int /\ Zeroed.pps = 0
      BY NumbersAreNumbers DEF Zeroed
    <2> HIDE DEF start
    <2>2. Since(q, start) = {} /\ Held(q, start - Second, start - 1) = {}
      BY <1>2, <2>1
    <2>3. /\ Cardinality(Since(q, start)) = 0
          /\ Cardinality(Held(q, start - Second, start - 1)) = 0
      BY <1>3, <2>2
    <2>4. 0 <= Zeroed.pps /\ 0 <= MaxPps
      BY <2>1, NumbersAreNumbers
    <2>5. QED
      BY <1>1, <2>3, <2>4 DEF Windowed, start
  <1>6. QED
    BY <1>4, <1>5

LEMMA RateInit == Init => RateInv
  <1> SUFFICES ASSUME Init PROVE RateInv
    OBVIOUS
  <1>1. TypeInv
    BY TypeInit
  <1>2. Windowed(<<>>, Zeroed) /\ EverySecond(<<>>)
    BY EmptyHistory
  <1>3. ASSUME NEW c \in Cpus, NEW s \in Sources PROVE RatePlace(c, s)
    BY <1>2, NumbersAreNumbers DEF Init, RatePlace, Zeroed
  <1>4. QED
    BY <1>1, <1>3 DEF RateInv

\* The first packet of a source on a CPU that had not let any past.
LEMMA FirstPacket ==
    ASSUME TypeInv, NEW len \in Nat
    PROVE  LET e == [pps |-> 1, bps |-> len, next_update |-> now + Second]
           IN  /\ Windowed(<<now>>, e) /\ EverySecond(<<now>>)
               /\ Windowed(<<>>, Zeroed) /\ EverySecond(<<>>)
  <1> DEFINE e == [pps |-> 1, bps |-> len, next_update |-> now + Second]
  <1>1. now \in 1 .. MaxTime /\ <<>> \in Seq(Nat) /\ Zeroed \in [pps : Nat, bps : Nat, next_update : 0 .. MaxTime + Second]
    BY NumbersAreNumbers DEF TypeInv, BoundTypes, Zeroed
  <1>2. Windowed(<<>>, Zeroed) /\ EverySecond(<<>>)
    BY EmptyHistory
  <1>3. Counted(Zeroed, len) = e
    BY <1>1 DEF Counted, Zeroed
  <1>4. Zeroed.next_update <= now + Second
    BY <1>1, NumbersAreNumbers DEF Zeroed
  <1>5. Windowed(Append(<<>>, now), e) /\ e.next_update \in now .. now + Second
    <2>1. Counted(Zeroed, len).pps <= MaxPps
      BY <1>3, NumbersAreNumbers
    <2>2. PICK q \in Seq(Nat) : q = <<>>
      BY <1>1, Zenon
    <2>3. Windowed(Append(q, now), Counted(Zeroed, len))
      BY <1>1, <1>2, <1>4, <2>1, <2>2, CountedWindowed
    <2>4. QED
      BY <1>1, <1>3, <2>2, <2>3, NumbersAreNumbers
  <1>6. e \in [pps : Nat, bps : Nat, next_update : 0 .. MaxTime + Second]
    BY <1>1, NumbersAreNumbers
  <1>7. EverySecond(Append(<<>>, now))
    BY <1>1, <1>2, <1>5, <1>6, EverySecondAppend
  <1>8. Append(<<>>, now) = <<now>>
    BY <1>1
  <1>9. QED
    BY <1>2, <1>5, <1>7, <1>8

\* The limiter's own step, on the CPU and the source it is about and on the others.
LEMMA LimiterKeepsRates ==
    ASSUME RateInv, NEW c \in Cpus, CheckRateLimit(c),
           NEW d \in Cpus, NEW s \in Sources \ forgotten'
    PROVE  RatePlace(d, s)'
  <1> DEFINE src == Pkt(c).src
             len == Pkt(c).len
  <1>1. /\ TypeInv /\ RateTypes /\ src \in Sources /\ len \in Nat
        /\ now \in 1 .. MaxTime /\ now' = now
    <2>1. TypeInv
      BY DEF RateInv
    <2>2. src \in Sources /\ len \in Nat
      BY <2>1, PacketTypes DEF CheckRateLimit, At, Pkt, TypeInv, CpuTypes
    <2>3. QED
      BY <2>1, <2>2 DEF TypeInv, BoundTypes, CheckRateLimit, bounds
  <1>2. s \notin forgotten
    BY DEF CheckRateLimit, Insert
  <1>3. RatePlace(d, s)
    BY <1>2 DEF RateInv
  <1>4. admitted[d][s] \in Seq(Nat)
    BY <1>1 DEF RateTypes
  <1>5. CASE src \notin DOMAIN ip_stats /\ Insert(src, c, len) /\ Proceeds(c)
    <2>1. PICK victims \in SUBSET DOMAIN ip_stats :
              /\ ip_stats' = [t \in (DOMAIN ip_stats \ victims) \cup {src} |->
                    IF t = src THEN [[x \in Cpus |-> Zeroed] EXCEPT ![c] =
                              [pps |-> 1, bps |-> len, next_update |-> now + Second]]
                             ELSE ip_stats[t]]
              /\ forgotten' = forgotten \cup victims
      BY <1>5 DEF Insert
    <2>2. admitted' = [admitted EXCEPT ![c][src] = Append(@, now)]
      BY <1>5 DEF Proceeds
    <2>3. CASE s = src
      <3>1. admitted[d][s] = <<>> /\ s \in DOMAIN ip_stats'
        BY <1>3, <1>5, <2>1, <2>3 DEF RatePlace
      <3>2. CASE d = c
        <4>1. admitted'[d][s] = <<now>>
          <5>1. admitted'[d][s] = Append(admitted[d][s], now)
            BY <1>1, <2>2, <2>3, <3>2 DEF RateTypes
          <5>2. Append(<<>>, now) = <<now>>
            BY <1>1
          <5>3. QED
            BY <3>1, <5>1, <5>2
        <4>2. ip_stats'[s][d] = [pps |-> 1, bps |-> len, next_update |-> now + Second]
          BY <2>1, <2>3, <3>2
        <4>3. Windowed(admitted'[d][s], ip_stats'[s][d]) /\ EverySecond(admitted'[d][s])
          BY <1>1, <4>1, <4>2, FirstPacket
        <4>4. ip_stats'[s][d].next_update <= now + Second
          BY <1>1, <4>2, NumbersAreNumbers
        <4>5. QED
          BY <1>1, <3>1, <4>3, <4>4 DEF RatePlace, Windowed, EverySecond
      <3>3. CASE d # c
        <4>1. admitted'[d][s] = <<>>
          BY <1>1, <2>2, <2>3, <3>1, <3>3 DEF RateTypes
        <4>2. ip_stats'[s][d] = Zeroed
          BY <2>1, <2>3, <3>3
        <4>3. Windowed(admitted'[d][s], ip_stats'[s][d]) /\ EverySecond(admitted'[d][s])
          BY <1>1, <4>1, <4>2, FirstPacket
        <4>4. ip_stats'[s][d].next_update <= now + Second
          BY <1>1, <4>2, NumbersAreNumbers DEF Zeroed
        <4>5. QED
          BY <1>1, <3>1, <4>3, <4>4 DEF RatePlace, Windowed, EverySecond
      <3>4. QED
        BY <3>2, <3>3
    <2>4. CASE s # src
      <3>1. admitted'[d][s] = admitted[d][s]
        BY <1>1, <2>2, <2>4 DEF RateTypes
      <3>2. s \notin victims
        BY <2>1
      <3>3. s \in DOMAIN ip_stats' <=> s \in DOMAIN ip_stats
        BY <2>1, <2>4, <3>2
      <3>4. s \in DOMAIN ip_stats => ip_stats'[s] = ip_stats[s]
        BY <2>1, <2>4, <3>2
      <3>5. QED
        BY <1>1, <1>3, <3>1, <3>3, <3>4 DEF RatePlace, Windowed, EverySecond
    <2>5. QED
      BY <2>3, <2>4
  <1>6. CASE /\ src \in DOMAIN ip_stats
             /\ ip_stats' = [ip_stats EXCEPT ![src][c] = Counted(ip_stats[src][c], len)]
             /\ \/ UNCHANGED admitted
                \/ /\ ~ Exceeds(Counted(ip_stats[src][c], len))
                   /\ admitted' = [admitted EXCEPT ![c][src] = Append(@, now)]
    <2>1. CASE d = c /\ s = src
      <3> DEFINE e == ip_stats[s][d]
                 f == Counted(e, len)
                 q == admitted[d][s]
      <3>1. e \in [pps : Nat, bps : Nat, next_update : 0 .. MaxTime + Second]
        BY <1>1, <1>6, <2>1 DEF RateTypes, Entries
      <3>2. Windowed(q, e) /\ e.next_update <= now + Second /\ EverySecond(q)
        BY <1>3, <1>6, <2>1 DEF RatePlace
      <3>3. /\ f.next_update \in now .. now + Second
            /\ Windowed(q, f)
            /\ f.pps <= MaxPps => Windowed(Append(q, now), f)
        BY <1>1, <1>4, <3>1, <3>2, CountedWindowed
      <3>4. f \in [pps : Nat, bps : Nat, next_update : 0 .. MaxTime + Second]
        BY <1>1, <1>6, <2>1, CountedTypes
      <3>5. s \in DOMAIN ip_stats' /\ ip_stats'[s][d] = f
        BY <1>1, <1>6, <2>1 DEF RateTypes, Entries
      <3>6. \/ admitted'[d][s] = q
            \/ f.pps <= MaxPps /\ admitted'[d][s] = Append(q, now)
        <4>1. CASE UNCHANGED admitted
          BY <4>1
        <4>2. CASE /\ ~ Exceeds(Counted(ip_stats[src][c], len))
                   /\ admitted' = [admitted EXCEPT ![c][src] = Append(@, now)]
          <5>1. ~ (f.pps > limits.pps) /\ limits.pps \in 1 .. MaxPps
            BY <1>1, <2>1, <4>2 DEF Exceeds, TypeInv, ConfigTypes
          <5>2. f.pps \in Nat
            BY <3>4
          <5>3. f.pps <= MaxPps
            <6> HIDE DEF f
            <6>1. QED
              BY <5>1, <5>2, NumbersAreNumbers
          <5>4. admitted'[d][s] = Append(q, now)
            BY <1>1, <2>1, <4>2 DEF RateTypes
          <5>5. QED
            BY <5>3, <5>4
        <4>3. QED
          BY <1>6, <4>1, <4>2
      <3>7. Windowed(admitted'[d][s], f) /\ EverySecond(admitted'[d][s])
        <4> HIDE DEF f, e, q
        <4>1. CASE admitted'[d][s] = q
          BY <3>2, <3>3, <4>1
        <4>2. CASE f.pps <= MaxPps /\ admitted'[d][s] = Append(q, now)
          <5>1. Windowed(Append(q, now), f)
            BY <3>3, <4>2
          <5>2. q \in Seq(Nat)
            BY <1>4 DEF q
          <5>3. EverySecond(Append(q, now))
            BY <1>1, <3>2, <3>3, <3>4, <5>1, <5>2, EverySecondAppend
          <5>4. QED
            BY <4>2, <5>1, <5>3
        <4>3. QED
          BY <3>6, <4>1, <4>2
      <3>8. f.next_update <= now + Second
        <4> HIDE DEF f
        <4>1. QED
          BY <1>1, <3>3, NumbersAreNumbers
      <3> HIDE DEF f, e, q
      <3>9. QED
        BY <1>1, <3>5, <3>7, <3>8 DEF RatePlace, Windowed, EverySecond
    <2>2. CASE ~ (d = c /\ s = src)
      <3>1. admitted'[d][s] = admitted[d][s]
        BY <1>1, <1>6, <2>2 DEF RateTypes
      <3>2. DOMAIN ip_stats' = DOMAIN ip_stats
        BY <1>6
      <3>3. s \in DOMAIN ip_stats => ip_stats'[s][d] = ip_stats[s][d]
        BY <1>1, <1>6, <2>2 DEF RateTypes, Entries
      <3>4. QED
        BY <1>1, <1>3, <3>1, <3>2, <3>3 DEF RatePlace, Windowed, EverySecond
    <2>3. QED
      BY <2>1, <2>2
  <1>7. QED
    BY <1>5, <1>6 DEF CheckRateLimit, Proceeds

LEMMA RateNext == RateInv /\ TypeInv' /\ [Next]_vars => RateInv'
  <1> SUFFICES ASSUME RateInv, TypeInv', [Next]_vars,
                      NEW c \in Cpus, NEW s \in Sources \ forgotten'
               PROVE  RatePlace(c, s)'
    BY DEF RateInv
  <1>1. TypeInv
    BY DEF RateInv
  <1>2. ASSUME UNCHANGED rates, now' \in {now, now + 1}
        PROVE  RatePlace(c, s)'
    <2>1. RatePlace(c, s) /\ UNCHANGED <<admitted, ip_stats>>
      BY <1>2 DEF RateInv, rates
    <2>2. now \in Nat /\ now <= now'
      BY <1>1, <1>2 DEF TypeInv, BoundTypes
    <2>3. s \in DOMAIN ip_stats => ip_stats[s][c].next_update <= now' + Second
      <3>1. s \in DOMAIN ip_stats => ip_stats[s][c].next_update \in Nat
        BY <1>1, NumbersAreNumbers DEF TypeInv, RateTypes, Entries
      <3>2. QED
        BY <1>2, <2>1, <2>2, <3>1, NumbersAreNumbers DEF RatePlace
    <2>4. QED
      BY <2>1, <2>3 DEF RatePlace, Windowed, EverySecond
  <1>3. ASSUME NEW d \in Cpus, Program(d)
        PROVE  RatePlace(c, s)'
    <2>1. CASE CheckRateLimit(d)
      BY <2>1, LimiterKeepsRates
    <2>2. CASE ~ CheckRateLimit(d)
      <3>1. UNCHANGED <<rates, now>>
        BY <1>3, <2>2 DEF Program, Receive, CheckBlacklist, CheckPolicy, CheckWhitelist,
           LookupAnswer, StaleAnswer, Decapsulate, Redirect, Route,
           LookupCounters, AddCounter, CreateCounters, bounds
      <3>2. QED
        BY <1>2, <3>1
    <2>3. QED
      BY <2>1, <2>2
  <1>4. CASE Control \/ Fastpath \/ Tick \/ UNCHANGED vars
    <2>1. UNCHANGED rates
      BY <1>1, <1>4, OutsideCpus
    <2>2. now' \in {now, now + 1}
      BY <1>4 DEF Control, Fastpath, Block, Unblock, Allow, SetPolicy, PutPps, PutBps, StoreAnswer,
         SwitchSocket, Changes, Tick, vars, bounds
    <2>3. QED
      BY <1>2, <2>1, <2>2
  <1>5. QED
    BY <1>3, <1>4 DEF Next

\* Over every second a source that keeps its entry gets at most two windows of the highest
\* limit past a CPU, however the windows fall and the limits change.
THEOREM RateIsBounded == Spec => []RateBounded
  <1>1. RateInv => RateBounded
    BY DEF RateInv, RatePlace, EverySecond, RateBounded, Held, Between
  <1>2. Spec => []TypeInv
    <2>1. BillsInv => TypeInv
      BY DEF BillsInv
    <2>2. QED
      BY <2>1, BillsInit, BillsNext, PTL DEF Spec
  <1>3. QED
    BY <1>1, <1>2, RateInit, RateNext, PTL DEF Spec
==============================================================================
