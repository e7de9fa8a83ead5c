----------------------------- MODULE MCDatapath -----------------------------
(***************************************************************************)
(* The instances of Datapath that TLC checks: packets that take every path *)
(* of the program, to a VIP with a tunnel and to one without.              *)
(***************************************************************************)
EXTENDS Datapath, TLC

CONSTANTS cpu1, cpu2, client, backend, vip, local

CpuSymmetry == Permutations({cpu1, cpu2})

Packet(s, d, f, n) == [src |-> s, dst |-> d, form |-> f, len |-> n]

MCTunnel == (vip :> "ipip") @@ (local :> "none")

MCPackets == {Packet(client, vip, "udp", 1), Packet(client, vip, "query", 2),
              Packet(client, local, "query", 1), Packet(client, vip, "short", 1),
              Packet(backend, vip, "reply", 1), Packet(backend, vip, "challenge", 1)}
=============================================================================
