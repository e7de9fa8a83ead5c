------------------------------ MODULE Datapath ------------------------------
(***************************************************************************)
(* The XDP program, src/bpf/xdp_main.c, on several CPUs at once, against    *)
(* the control plane changing the maps it reads: the filters, the per-CPU  *)
(* rate limiter of rl.h, the A2S cache, the forwarding decision of          *)
(* routing.h and the counters of helpers.c.                                *)
(*                                                                         *)
(* A packet is its source, its destination, its length and a form:         *)
(*   foreign   not IPv4                 broken    truncated, or IP options  *)
(*   other     not TCP, UDP, ICMP, IPIP short     truncated L4 header      *)
(*   tcp, udp, icmp                     query     an A2S_INFO query        *)
(*   stray     IPIP, truncated inside   reply     IPIP, an A2S_INFO reply   *)
(*   challenge IPIP, an A2S challenge   inner     IPIP, anything else      *)
(* Each access to a shared map is a step.  Rate-limit entries are per CPU, *)
(* and a CPU runs the program on one packet at a time, so check_rate_limit *)
(* is one step.  The address, MAC and checksum rewriting is left out.      *)
(***************************************************************************)
EXTENDS Integers, FiniteSets, Sequences

CONSTANTS
    Cpus,
    Sources,        \* source addresses
    Vips,           \* destination addresses
    Packets,        \* the packets that may arrive
    NoPacket,
    Seen, Allowed,  \* sources with an entry in ip_stats_map, or whitelisted, at first
    Blocked,        \* sources that may be blacklisted at first
    Cached,         \* destinations with a cached answer, expired, at first
    Tunnel,         \* vip |-> "none", "ipip" or "wireguard": its backend
    Second,         \* ticks in NANO_TO_SEC
    Lifetime,       \* ticks an answer is cached for
    Tracked,        \* capacity of ip_stats_map
    MaxPps, MaxBps, \* the highest limits written
    MaxTime,        \* bound: ticks in a behaviour
    MaxPackets,     \* bound: packets in a behaviour
    MaxChanges      \* bound: changes by the control plane and the fastpath

Forms == {"foreign", "broken", "other", "short", "tcp", "udp", "icmp", "query",
          "stray", "reply", "challenge", "inner"}
InTunnel == {"stray", "reply", "challenge", "inner"}

ASSUME DatapathAssumption ==
    /\ Packets \subseteq [src : Sources, dst : Vips, form : Forms, len : Nat \ {0}]
    /\ Tunnel \in [Vips -> {"none", "ipip", "wireguard"}]
    /\ NoPacket \notin Packets
    /\ Sources \cap Vips = {} /\ IsFiniteSet(Sources) /\ IsFiniteSet(Cpus)
    /\ Seen \subseteq Sources /\ Allowed \subseteq Sources /\ Blocked \subseteq Sources
    /\ Cached \subseteq Vips
    /\ Cardinality(Seen) <= Tracked
    /\ Second \in Nat \ {0} /\ Lifetime \in Nat /\ Tracked \in Nat \ {0}
    /\ MaxPps \in Nat \ {0} /\ MaxBps \in Nat \ {0}
    /\ MaxTime \in Nat \ {0} /\ MaxPackets \in Nat /\ MaxChanges \in Nat

VARIABLES
    black, white,   \* sources that match cidr_blacklist_map, cidr_whitelist_map
    policy,         \* config_map[2]
    limits,         \* config_map[0] and [1]
    ip_stats,       \* ip_stats_map: source |-> CPU |-> its cl_stats
    a2s_info,       \* destination |-> when its cached answer expires, or NoAnswer
    challenge_set,  \* destinations with a challenge in the cache
    xsk,            \* xsks_map holds a socket for the queue
    vip_stats,      \* vip_stats_map: address |-> passed and dropped, or NoEntry
    stats_map,      \* CPU |-> pass and drop counts
    cpu,            \* CPU |-> program counter, packet and verdict
    now,            \* bpf_ktime_get_ns
    arrived,        \* history: packets so far
    changes,        \* history: changes to the maps so far
    admitted,       \* history: CPU |-> source |-> ticks of its packets under the limit
    forgotten,      \* history: sources evicted from ip_stats
    judged,         \* history: address |-> verdicts to be counted under it
    overwritten     \* history: addresses whose counters another CPU replaced

config == <<black, white, policy, limits>>
caches == <<a2s_info, challenge_set, xsk>>
rates == <<ip_stats, admitted, forgotten>>
billing == <<vip_stats, judged, overwritten>>
bounds == <<now, arrived, changes>>
vars == <<config, caches, rates, billing, stats_map, cpu, bounds>>

Addresses == Vips \cup Sources
NoEntry == [passed |-> -1, dropped |-> -1]
NoAnswer == -1
Waiting == [pc |-> "done", pkt |-> NoPacket, verdict |-> "none", key |-> NoPacket,
            barred |-> FALSE]

\* A cl_stats the kernel zeroed for a CPU that did not create the entry.
Zeroed == [pps |-> 0, bps |-> 0, next_update |-> 0]

\* A node that has run for a while: some sources were seen more than a second
\* ago, and some cached answers have expired.
Init ==
    /\ black \in SUBSET Blocked /\ white = Allowed /\ policy = 0
    /\ limits = [pps |-> MaxPps, bps |-> MaxBps]
    /\ ip_stats = [s \in Seen |-> [c \in Cpus |-> Zeroed]]
    /\ a2s_info = [v \in Vips |-> IF v \in Cached THEN 0 ELSE NoAnswer]
    /\ challenge_set = {} /\ xsk \in BOOLEAN
    /\ vip_stats = [a \in Addresses |-> NoEntry]
    /\ stats_map = [c \in Cpus |-> [pass |-> 0, drop |-> 0]]
    /\ cpu = [c \in Cpus |-> Waiting]
    /\ now = 1 /\ arrived = 0 /\ changes = 0
    /\ admitted = [c \in Cpus |-> [s \in Sources |-> <<>>]]
    /\ forgotten = {}
    /\ judged = [a \in Addresses |-> [passed |-> 0, dropped |-> 0]]
    /\ overwritten = {}

-----------------------------------------------------------------------------
At(c, pc) == cpu[c].pc = pc
Pkt(c) == cpu[c].pkt
Goes(c, pc) == cpu' = [cpu EXCEPT ![c].pc = pc]

\* The program returns, with nothing left to count.
Returns(c, verdict) == cpu' = [cpu EXCEPT ![c].pc = "done", ![c].verdict = verdict]

\* The verdict goes to update_vip_stats under address key first.
Billed(verdict) == IF verdict = "DROP" THEN "dropped" ELSE "passed"
Judges(c, verdict, key) ==
    /\ cpu' = [cpu EXCEPT ![c].pc = "count", ![c].verdict = verdict, ![c].key = key]
    /\ judged' = [judged EXCEPT ![key][Billed(verdict)] = @ + 1]
    /\ UNCHANGED <<vip_stats, overwritten>>

\* stats_map[1] is incremented and the packet dropped.
Filtered(c) ==
    /\ stats_map' = [stats_map EXCEPT ![c].drop = @ + 1]
    /\ Judges(c, "DROP", Pkt(c).dst)

\* Where a packet past the filters goes.
NextStage(p) == IF p.form \in InTunnel THEN "decap" ELSE "limit"

\* A packet arrives; its L2 and L3 headers are parsed.
Receive(c) ==
    /\ At(c, "done") /\ arrived < MaxPackets
    /\ arrived' = arrived + 1
    /\ \E p \in Packets :
        cpu' = [cpu EXCEPT ![c] =
            [pc |-> IF p.form \in {"foreign", "broken"} THEN "done" ELSE "black",
             pkt |-> p,
             verdict |-> CASE p.form = "foreign" -> "PASS" [] p.form = "broken" -> "DROP"
                           [] OTHER -> "none",
             key |-> NoPacket, barred |-> p.src \in black]]
    /\ UNCHANGED <<config, caches, rates, billing, stats_map, now, changes>>

\* Mutant: the whitelist is consulted first.
CheckBlacklist_AfterWhitelist(c) ==
    /\ At(c, "black")
    /\ LET blocked == Pkt(c).src \in black \ white
       IN  \/ blocked /\ Filtered(c)
           \/ ~ blocked /\ Goes(c, "policy") /\ UNCHANGED <<stats_map, billing>>
    /\ UNCHANGED <<config, caches, rates, bounds>>

CheckBlacklist(c) ==
    /\ At(c, "black")
    /\ \/ Pkt(c).src \in black /\ Filtered(c)
       \/ Pkt(c).src \notin black /\ Goes(c, "policy") /\ UNCHANGED <<stats_map, billing>>
    /\ UNCHANGED <<config, caches, rates, bounds>>

\* Past the policy and the whitelist: other protocols pass, and a truncated
\* TCP, UDP or ICMP header is dropped; neither is counted.
Admits(c) ==
    /\ CASE Pkt(c).form = "other" -> Returns(c, "PASS")
         [] Pkt(c).form = "short" -> Returns(c, "DROP")
         [] OTHER -> Goes(c, NextStage(Pkt(c)))
    /\ UNCHANGED <<stats_map, billing>>

CheckPolicy(c) ==
    /\ At(c, "policy")
    /\ \/ policy = 1 /\ Goes(c, "white") /\ UNCHANGED <<stats_map, billing>>
       \/ policy = 0 /\ Admits(c)
    /\ UNCHANGED <<config, caches, rates, bounds>>

CheckWhitelist(c) ==
    /\ At(c, "white")
    /\ \/ Pkt(c).src \notin white /\ Filtered(c)
       \/ Pkt(c).src \in white /\ Admits(c)
    /\ UNCHANGED <<config, caches, rates, bounds>>

-----------------------------------------------------------------------------
(* rl.h *)

\* Source s has no entry: one is inserted, and when the map is full another
\* source's is evicted (the kernel's choice).
Insert(s, c, len) ==
    \E victims \in IF Cardinality(DOMAIN ip_stats) < Tracked THEN {{}}
                   ELSE {{v} : v \in DOMAIN ip_stats} :
        /\ ip_stats' = [t \in (DOMAIN ip_stats \ victims) \cup {s} |->
              IF t = s THEN [[d \in Cpus |-> Zeroed] EXCEPT ![c] =
                        [pps |-> 1, bps |-> len, next_update |-> now + Second]]
                       ELSE ip_stats[t]]
        /\ forgotten' = forgotten \cup victims

\* Mutant: a new window that is not given an end.
Counted_NoWindow(stats, len) ==
    IF now > stats.next_update
    THEN [stats EXCEPT !.pps = 1, !.bps = len]
    ELSE [stats EXCEPT !.pps = @ + 1, !.bps = @ + len]

\* The counters of a known source after one more packet of length len.
Counted(stats, len) ==
    IF now > stats.next_update
    THEN [pps |-> 1, bps |-> len, next_update |-> now + Second]
    ELSE [stats EXCEPT !.pps = @ + 1, !.bps = @ + len]

Exceeds(stats) == stats.pps > limits.pps \/ stats.bps > limits.bps

\* Past the limiter: a query looks for a cached answer, the rest is routed.
Proceeds(c) ==
    /\ Goes(c, IF Pkt(c).form = "query" THEN "cache" ELSE "route")
    /\ admitted' = [admitted EXCEPT ![c][Pkt(c).src] = Append(@, now)]
    /\ UNCHANGED <<stats_map, billing>>

CheckRateLimit(c) ==
    /\ At(c, "limit")
    /\ LET s == Pkt(c).src
           len == Pkt(c).len
       IN  \/ s \notin DOMAIN ip_stats /\ Insert(s, c, len) /\ Proceeds(c)
           \/ /\ s \in DOMAIN ip_stats
              /\ LET stats == Counted(ip_stats[s][c], len)
                 IN  /\ ip_stats' = [ip_stats EXCEPT ![s][c] = stats]
                     /\ \/ Exceeds(stats) /\ Filtered(c) /\ UNCHANGED admitted
                        \/ ~ Exceeds(stats) /\ Proceeds(c)
              /\ UNCHANGED forgotten
    /\ UNCHANGED <<config, caches, bounds>>

-----------------------------------------------------------------------------
(* The A2S cache and the forwarding decision.  The answer is built in the  *)
(* query's packet with its addresses swapped, so that the daddr it is       *)
(* counted under is the client's.                                          *)

\* Room in the packet may run out (bpf_xdp_adjust_tail, adjust_head).
LookupAnswer(c) ==
    /\ At(c, "cache")
    /\ LET expires == a2s_info[Pkt(c).dst]
       IN  \/ expires = NoAnswer /\ Goes(c, "route") /\ UNCHANGED billing
           \/ expires # NoAnswer /\ Returns(c, "DROP") /\ UNCHANGED billing
           \/ expires # NoAnswer /\ now <= expires /\ Judges(c, "TX", Pkt(c).src)
           \/ expires # NoAnswer /\ now > expires /\ Goes(c, "stale") /\ UNCHANGED billing
    /\ UNCHANGED <<config, caches, rates, stats_map, bounds>>

\* An expired answer goes to the fastpath, or out when there is no socket.
StaleAnswer(c) ==
    /\ At(c, "stale")
    /\ \/ xsk /\ Goes(c, "redirect") /\ UNCHANGED billing
       \/ ~ xsk /\ Judges(c, "TX", Pkt(c).src)
    /\ UNCHANGED <<config, caches, rates, stats_map, bounds>>

\* decapsulate_ipip: a challenge is stored with the cached answer, a reply
\* goes to the fastpath, the rest out.  The inner source is the packet's dst.
Decapsulate(c) ==
    /\ At(c, "decap")
    /\ LET f == Pkt(c).form
           known == a2s_info[Pkt(c).dst] # NoAnswer
       IN  /\ challenge_set' = IF f = "challenge" /\ known THEN challenge_set \cup {Pkt(c).dst}
                                ELSE challenge_set
           /\ \/ Returns(c, "DROP")    \* stray, or no room
              \/ f \in {"challenge", "inner"} /\ Returns(c, "TX")
              \/ f = "reply" /\ xsk /\ Goes(c, "redirect")
              \/ f = "reply" /\ ~ xsk /\ Returns(c, "PASS")
    /\ UNCHANGED <<config, a2s_info, xsk, rates, billing, stats_map, bounds>>

\* bpf_redirect_map looks the socket up again.
Redirect(c) ==
    /\ At(c, "redirect")
    /\ Returns(c, IF xsk THEN "REDIRECT" ELSE "ABORTED")
    /\ UNCHANGED <<config, caches, rates, billing, stats_map, bounds>>

\* encapsulate_ipip.  Management ports are routed as if there were no backend.
Route(c) ==
    /\ At(c, "route")
    /\ LET to == Pkt(c).dst
       IN  \/ Tunnel[to] # "ipip" /\ Judges(c, "PASS", to) /\ UNCHANGED stats_map
           \/ Tunnel[to] = "ipip" /\ Judges(c, "DROP", to) /\ UNCHANGED stats_map
           \/ /\ Tunnel[to] = "ipip" /\ Judges(c, "TX", to)
              /\ stats_map' = [stats_map EXCEPT ![c].pass = @ + 1]
    /\ UNCHANGED <<config, caches, rates, bounds>>

-----------------------------------------------------------------------------
(* update_vip_stats: a lookup, then an atomic addition to the entry found, *)
(* or an insertion that replaces what is there by then (BPF_ANY).          *)

\* Mutant: the result of the lookup is not tested.
LookupCounters_NoNullTest(c) ==
    /\ At(c, "count")
    /\ Goes(c, "add")
    /\ UNCHANGED <<config, caches, rates, billing, stats_map, bounds>>

LookupCounters(c) ==
    /\ At(c, "count")
    /\ Goes(c, IF vip_stats[cpu[c].key] = NoEntry THEN "create" ELSE "add")
    /\ UNCHANGED <<config, caches, rates, billing, stats_map, bounds>>

\* Mutant: of two CPUs that read the same value, one addition is lost.
AddCounter_NotAtomic(c) ==
    /\ At(c, "add")
    /\ Goes(c, "done")
    /\ LET a == cpu[c].key
           raced == \E d \in Cpus \ {c} : At(d, "add") /\ cpu[d].key = a
       IN  vip_stats' = [vip_stats EXCEPT ![a][Billed(cpu[c].verdict)] =
                            IF raced THEN @ ELSE @ + 1]
    /\ UNCHANGED <<config, caches, rates, judged, overwritten, stats_map, bounds>>

AddCounter(c) ==
    /\ At(c, "add")
    /\ Goes(c, "done")
    /\ vip_stats' = [vip_stats EXCEPT ![cpu[c].key][Billed(cpu[c].verdict)] = @ + 1]
    /\ UNCHANGED <<config, caches, rates, judged, overwritten, stats_map, bounds>>

CreateCounters(c) ==
    /\ At(c, "create")
    /\ Goes(c, "done")
    /\ LET a == cpu[c].key
       IN  /\ vip_stats' = [vip_stats EXCEPT ![a] =
                  [[passed |-> 0, dropped |-> 0] EXCEPT ![Billed(cpu[c].verdict)] = 1]]
           /\ overwritten' = IF vip_stats[a] = NoEntry THEN overwritten ELSE overwritten \cup {a}
    /\ UNCHANGED <<config, caches, rates, judged, stats_map, bounds>>

-----------------------------------------------------------------------------
(* The control plane and the fastpath, as writers of the maps.  Their own  *)
(* modules say when they write what.                                       *)

Changes ==
    /\ changes < MaxChanges
    /\ changes' = changes + 1
    /\ UNCHANGED <<rates, billing, stats_map, now, arrived>>

Block(s) ==
    /\ Changes /\ s \notin black
    /\ black' = black \cup {s}
    /\ UNCHANGED <<white, policy, limits, caches, cpu>>

Unblock(s) ==
    /\ Changes /\ s \in black
    /\ black' = black \ {s}
    /\ cpu' = [c \in Cpus |-> IF cpu[c].pkt # NoPacket /\ cpu[c].pkt.src = s
                              THEN [cpu[c] EXCEPT !.barred = FALSE] ELSE cpu[c]]
    /\ UNCHANGED <<white, policy, limits, caches>>

Allow(s) ==
    /\ Changes /\ s \notin white
    /\ white' = white \cup {s}
    /\ UNCHANGED <<black, policy, limits, caches, cpu>>

SetPolicy ==
    /\ Changes
    /\ policy' = 1 - policy
    /\ UNCHANGED <<black, white, limits, caches, cpu>>

\* UpdateRateLimits writes one limit, then the other.
PutPps(n) ==
    /\ Changes /\ limits' = [limits EXCEPT !.pps = n]
    /\ UNCHANGED <<black, white, policy, caches, cpu>>

PutBps(n) ==
    /\ Changes /\ limits' = [limits EXCEPT !.bps = n]
    /\ UNCHANGED <<black, white, policy, caches, cpu>>

\* A reply is cached; the value written has no challenge.
StoreAnswer(v) ==
    /\ Changes
    /\ a2s_info' = [a2s_info EXCEPT ![v] = now + Lifetime]
    /\ challenge_set' = challenge_set \ {v}
    /\ UNCHANGED <<config, xsk, cpu>>

\* The fastpath registers its socket, or deletes it.
SwitchSocket ==
    /\ Changes /\ xsk' = ~ xsk
    /\ UNCHANGED <<config, a2s_info, challenge_set, cpu>>

Tick ==
    /\ now < MaxTime
    /\ now' = now + 1
    /\ UNCHANGED <<config, caches, rates, billing, stats_map, cpu, arrived, changes>>

-----------------------------------------------------------------------------
Program(c) ==
    \/ Receive(c) \/ CheckBlacklist(c) \/ CheckPolicy(c) \/ CheckWhitelist(c)
    \/ CheckRateLimit(c) \/ LookupAnswer(c) \/ StaleAnswer(c) \/ Decapsulate(c)
    \/ Redirect(c) \/ Route(c)
    \/ LookupCounters(c) \/ AddCounter(c) \/ CreateCounters(c)

Control ==
    \/ \E s \in Sources : Block(s) \/ Unblock(s) \/ Allow(s)
    \/ SetPolicy
    \/ \E n \in 1 .. MaxPps : PutPps(n)
    \/ \E n \in 1 .. MaxBps : PutBps(n)

Fastpath == SwitchSocket \/ \E v \in Vips : StoreAnswer(v)

Next == (\E c \in Cpus : Program(c)) \/ Control \/ Fastpath \/ Tick

Spec == Init /\ [][Next]_vars

-----------------------------------------------------------------------------
LetThrough == {"PASS", "TX", "REDIRECT"}

\* The state has the shape the program gives it, and no counter passes the
\* number of packets.
TypeOK ==
    /\ black \subseteq Sources /\ white \subseteq Sources
    /\ policy \in {0, 1}
    /\ limits \in [pps : 1 .. MaxPps, bps : 1 .. MaxBps]
    /\ DOMAIN ip_stats \subseteq Sources /\ Cardinality(DOMAIN ip_stats) <= Tracked
    /\ \A s \in DOMAIN ip_stats : ip_stats[s] \in [Cpus -> [pps : 0 .. MaxPackets,
            bps : Nat, next_update : 0 .. MaxTime + Second]]
    /\ a2s_info \in [Vips -> Nat \cup {NoAnswer}]
    /\ challenge_set \subseteq {v \in Vips : a2s_info[v] # NoAnswer}
    /\ xsk \in BOOLEAN
    /\ vip_stats \in [Addresses -> [passed : 0 .. MaxPackets, dropped : 0 .. MaxPackets]
                                   \cup {NoEntry}]
    /\ \A c \in Cpus : stats_map[c] \in [pass : 0 .. MaxPackets, drop : 0 .. MaxPackets]
    /\ \A c \in Cpus :
        /\ cpu[c].pc \in {"done", "black", "policy", "white", "limit", "cache", "stale",
                "decap", "redirect", "route", "count", "add", "create"}
        /\ cpu[c].pkt \in Packets \cup {NoPacket}
        /\ cpu[c].verdict \in LetThrough \cup {"none", "DROP", "ABORTED"}
        /\ cpu[c].key \in Addresses \cup {NoPacket}
        /\ cpu[c].barred \in BOOLEAN
    /\ now \in Nat /\ arrived \in 0 .. MaxPackets /\ changes \in 0 .. MaxChanges
    /\ forgotten \subseteq Sources /\ overwritten \subseteq Addresses

\* An IPv4 packet whose source is blacklisted from before it arrives until it
\* is judged is not let through, in whatever order the policy, the whitelist
\* and the limits change meanwhile (xdp_main.c:62, "highest priority").
BarredStaysOut ==
    \A c \in Cpus : cpu[c].barred /\ cpu[c].verdict \in LetThrough
                        => cpu[c].pkt.form = "foreign"

\* The packets of s that got past CPU c in the ticks from a to b, by their numbers.
Between(c, s, a, b) == {i \in DOMAIN admitted[c][s] : admitted[c][s][i] \in a .. b}

\* What the limiter promises: over any second, a source that keeps its entry
\* gets at most two windows of the highest limit past a CPU (rl.h:24-39).
RateBounded ==
    \A c \in Cpus : \A s \in Sources \ forgotten : \A t \in 1 .. MaxTime :
        Cardinality(Between(c, s, t, t + Second)) <= 2 * MaxPps

\* Verdict k under address a that CPU c has yet to count.
ToCount(c, a, k) ==
    /\ cpu[c].pc \in {"count", "add", "create"}
    /\ cpu[c].key = a /\ Billed(cpu[c].verdict) = k

\* The counters of an address whose entry no CPU replaced are exact: each
\* verdict is in them or still to be counted (helpers.c:15-32).
CountersExact ==
    \A a \in Addresses \ overwritten : \A k \in {"passed", "dropped"} :
        judged[a][k] = (IF vip_stats[a] = NoEntry THEN 0 ELSE vip_stats[a][k])
                        + Cardinality({c \in Cpus : ToCount(c, a, k)})

\* vip_stats_map is keyed by VIP (maps.h:104-105): no other address is billed.
OnlyVipsBilled == \A a \in Addresses : vip_stats[a] # NoEntry => a \in Vips
=============================================================================
