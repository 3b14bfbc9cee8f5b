----------------------------- MODULE AclObjects -----------------------------
(***************************************************************************)
(* Addresses and protocols of ACLs in pass 2 (spoc2/main.go).              *)
(*                                                                         *)
(* An address object is a pair <<ip, size>> of the first address and the   *)
(* number of host bits.  The reference of object group n is <<-n, 0>>: it  *)
(* has a name but no IP.  A protocol is a triple <<name, v1, v2>>, where   *)
(* v1 and v2 are the ports of "tcp" and "udp" or type and code of "icmp"   *)
(* (-1: any).  Protocol "tcp established" has the name "established".      *)
(***************************************************************************)
EXTENDS Integers, Sequences, FiniteSets

CONSTANTS
  AddrBits,  \* bits of an address
  Ports      \* the last port number, 65535 in the code

ASSUME AclObjectsAssumption == AddrBits \in Nat /\ Ports \in Nat \ {0}

Addr == 0 .. 2^AddrBits - 1
Network00 == <<0, AddrBits>>
Block(o) == o[1] .. o[1] + 2^o[2] - 1
Enclosing(o, s) == <<o[1] - (o[1] % 2^s), s>>

PrtIP == <<"ip", 0, 0>>
Tcp(a, b) == <<"tcp", a, b>>
Udp(a, b) == <<"udp", a, b>>
Icmp(t, c) == <<"icmp", t, c>>
IsRange(p) == p[1] \in {"tcp", "udp"}
IsNumeric(p) == p[1] \in {"50", "51"}
AnyOf(name) == IF name = "icmp" THEN Icmp(-1, -1)
               ELSE IF name \in {"tcp", "udp"} THEN <<name, 1, Ports>>
               ELSE PrtIP

\* Network n is on the way up from address object o: attribute up leads to the smallest
\* network around an object that is in use.
AddrBelow(o, n) == n[2] >= o[2] /\ Enclosing(o, n[2]) = n

\* Protocol q is on the way up from p if it is in use: a larger range, "icmp" with the
\* same type or without type, or protocol "ip".
PrtBelow(p, q) ==
  \/ q = p \/ q = PrtIP
  \/ IsRange(p) /\ q[1] = p[1] /\ q[2] <= p[2] /\ p[3] <= q[3]
  \/ p[1] = "icmp" /\ q[1] = "icmp" /\ q[3] = -1 /\ q[2] \in {-1, p[2]}
  \/ p[1] = "established" /\ q = AnyOf("tcp")

\* A range with an adjacent range of the same protocol.
HasNeighbor(p, prts) ==
  IsRange(p) /\ \E q \in prts : q[1] = p[1] /\ (p[3] + 1 = q[2] \/ q[3] + 1 = p[2])

\* The network whose attribute optNetworks is propagated down to object o: the largest
\* one on the way up that is used for secondary optimization.
OptNet(o, optNets) ==
  LET above == {n \in optNets : AddrBelow(o, n)}
  IN  IF above = {} THEN o ELSE CHOOSE n \in above : \A m \in above : m[2] <= n[2]

-----------------------------------------------------------------------------
(***************************************************************************)
(* What a device does with a packet of an existing or a new connection.    *)
(***************************************************************************)
Packet(src, dst, name, x, y, est) ==
  [src |-> src, dst |-> dst, prt |-> name, sport |-> x, dport |-> y, est |-> est]

\* Does protocol p match, with destination port or ICMP type and code.
MatchPrt(p, k) ==
  \/ p = PrtIP
  \/ IsRange(p) /\ k.prt = p[1] /\ k.dport \in p[2] .. p[3]
  \/ p[1] = "established" /\ k.prt = "tcp" /\ k.est
  \/ p[1] = "icmp" /\ k.prt = "icmp" /\ p[2] \in {-1, k.sport} /\ p[3] \in {-1, k.dport}
  \/ IsNumeric(p) /\ k.prt = p[1]

\* Ports of srcRange are compared with the source port.
MatchSrcRange(p, k) ==
  IF IsRange(p) THEN k.prt = p[1] /\ k.sport \in p[2] .. p[3] ELSE MatchPrt(p, k)
=============================================================================
