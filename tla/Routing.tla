------------------------------ MODULE Routing -------------------------------
(***************************************************************************)
(* The routing table of one node: backend_map, as AddBackendVIP and        *)
(* RemoveBackendVIP of src/control_plane/map_manager.go change it, and the *)
(* DNAT rules the two append and delete for WireGuard backends.  Operators *)
(* on the tables; ClusterSync keeps one table per node.                    *)
(*                                                                         *)
(* A key is (VIP, port, protocol), with port 0 for the whole VIP.  The     *)
(* byte order of addresses and ports is left out.                          *)
(***************************************************************************)
EXTENDS Integers

CONSTANTS
    Vips,
    Ports,      \* ports a request may name, 0 not among them
    Backends,   \* addresses with their tunnel type
    WireGuard,  \* the backends reached through WireGuard
    NoBackend   \* no such key in backend_map

MaxPort == 65535  \* vport is a uint16

ASSUME RoutingAssumption ==
    /\ Ports \subseteq 1 .. MaxPort
    /\ WireGuard \subseteq Backends
    /\ NoBackend \notin Backends

Tcp == 6
Udp == 17

Keys == [vip : Vips, vport : Ports \cup {0}, protocol : {0, Tcp, Udp}]
Tables == [Keys -> Backends \cup {NoBackend}]
NoRoutes == [k \in Keys |-> NoBackend]
KeysOf(vip) == {k \in Keys : k.vip = vip}

\* How handleRouting reads its parameters: a port without a protocol is TCP.
ProtocolOf(vport, proto) ==
    CASE proto = "tcp" -> Tcp
      [] proto = "udp" -> Udp
      [] OTHER -> IF vport # 0 THEN Tcp ELSE 0

RequestKey(vip, vport, proto) ==
    [vip |-> vip, vport |-> vport, protocol |-> ProtocolOf(vport, proto)]

\* How syncRoutingEvent writes a protocol into the URL of the peer.
EventProtocol(protocol) ==
    CASE protocol = Tcp -> "tcp"
      [] protocol = Udp -> "udp"
      [] OTHER -> "any"

\* The key handleRouting of the peer makes of the event about key k.
KeyAtPeer(k) == RequestKey(k.vip, k.vport, EventProtocol(k.protocol))

\* AddBackendVIP.
RoutesAfterAdd(table, k, b) == [table EXCEPT ![k] = b]

\* RemoveBackendVIP: an exact key is deleted alone; a key that is not there, or
\* that names no port, takes every key of its VIP along.
RoutesAfterRemove(table, k) ==
    IF k.vport # 0 /\ table[k] # NoBackend
    THEN [table EXCEPT ![k] = NoBackend]
    ELSE [x \in Keys |-> IF x.vip = k.vip THEN NoBackend ELSE table[x]]

\* iptables -A appends a rule, whether or not there is one already.
DnatAfterAdd(dnat, vip, b) ==
    IF b \in WireGuard THEN [dnat EXCEPT ![vip][b] = @ + 1] ELSE dnat

\* Mutant: every copy of the rule goes.
DnatAfterRemove_All(dnat, vip, b) ==
    IF b \in WireGuard THEN [dnat EXCEPT ![vip][b] = 0] ELSE dnat

\* Mutant: iptables -D is taken to succeed.
DnatAfterRemove_Unchecked(dnat, vip, b) ==
    IF b \in WireGuard THEN [dnat EXCEPT ![vip][b] = @ - 1] ELSE dnat

\* iptables -D deletes the first such rule, if there is one.
DnatAfterRemove(dnat, vip, b) ==
    IF b \in WireGuard /\ dnat[vip][b] > 0 THEN [dnat EXCEPT ![vip][b] = @ - 1] ELSE dnat
=============================================================================
