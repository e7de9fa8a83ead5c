--------------------------- MODULE MCClusterSync ----------------------------
(* Two nodes; the same nodes.json, which names both, on each.              *)
EXTENDS ClusterSync

CONSTANTS n1, n2, a1, t1, t2, vip1, tunnel, direct

MCNodes == {n1, n2}
MCClusterNodes == [n \in MCNodes |-> MCNodes]
MCVips == {vip1}
MCBackends == {tunnel, direct}
MCWireGuard == {tunnel}

\* A port with and without its protocol, and the whole VIP.
MCRouteRequests ==
    {<<vip1, 80, "", tunnel>>, <<vip1, 90, "udp", tunnel>>, <<vip1, 0, "", direct>>}

MCFiles == {[policy |-> 1, black |-> {a1}, white |-> {t1, t2}]}
=============================================================================
