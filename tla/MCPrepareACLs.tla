--------------------------- MODULE MCPrepareACLs ---------------------------
(***************************************************************************)
(* Instances of module PrepareACLs for TLC: addresses of two bits, three   *)
(* ports, up to four rules.  Port ranges are equal, disjoint or nested,    *)
(* because pass 1 has split overlapping ranges; deny rules come first.     *)
(***************************************************************************)
EXTENDS PrepareACLs

UpTo3(U) == {{a, b, c} : a \in U, b \in U, c \in U}
UpTo2(U) == {{a, b} : a \in U, b \in U}

RECURSIVE AsSeq(_)
AsSeq(S) == IF S = {} THEN <<>> ELSE LET x == CHOOSE x \in S : TRUE IN <<x>> \o AsSeq(S \ {x})
Ordered(S) == AsSeq({r \in S : r.deny}) \o AsSeq({r \in S : ~r.deny})

Rule(deny, src, dst, prt) ==
  [deny |-> deny, src |-> src, dst |-> dst, srcRange |-> PrtIP, prt |-> prt, log |-> "",
   secondary |-> FALSE]
Permit(s, t, p) == Rule(FALSE, s, t, p)
Deny(s, t, p) == Rule(TRUE, s, t, p)
Logged(r) == [r EXCEPT !.log = "log"]
From1(r) == [r EXCEPT !.srcRange = <<r.prt[1], 1, 1>>]

Base == [model |-> "IOS", intfRules |-> <<>>, rules |-> <<>>, filterOnly |-> {},
         filterAnySrc |-> FALSE, optNetworks |-> {}, noOptAddrs |-> {}, needProtect |-> {},
         addPermit |-> FALSE, addDeny |-> TRUE, isCryptoACL |-> FALSE, doObjectgroup |-> FALSE]

L == <<0, 1>>
U == <<2, 1>>
H(a) == <<a, 0>>
Esp == <<"50", 0, 0>>
Established == <<"established", 1, Ports>>

\* Protocols: redundant and joined rules, attribute log.
FamPrt ==
  {[Base EXCEPT !.rules = Ordered(S)] :

     S \in UpTo3({Permit(L, U, p) : p \in {PrtIP, Tcp(1, 3), Tcp(1, 2), Tcp(1, 1), Tcp(2, 2),
                                           Tcp(3, 3), Established, Icmp(-1, -1), Icmp(0, -1), Esp}}
                   \cup {Logged(Permit(L, U, p)) : p \in {PrtIP, Tcp(1, 1), Tcp(2, 2), Tcp(3, 3)}}
                   \cup {Logged(Permit(H(1), U, Icmp(0, 1))), From1(Permit(L, U, Tcp(1, 2)))}
                   \cup {Deny(L, U, p) : p \in {Tcp(1, 3), Tcp(2, 2), Icmp(0, 1)}})}

\* Addresses: adjacent networks and object groups.
FamAddr ==
  {[Base EXCEPT !.rules = Ordered(S), !.doObjectgroup = g] :
     g \in BOOLEAN,
     S \in UpTo3({Permit(s, t, p) : s \in {H(0), H(1), L}, t \in {H(2), H(3), U},
                                    p \in {PrtIP, Tcp(1, 1)}})}

\* Crypto ACLs are left alone by the search for groups.
FamCrypto ==
  {[Base EXCEPT !.rules = Ordered(S), !.isCryptoACL = TRUE] :
     S \in UpTo2({Permit(s, U, p) : s \in {H(0), H(1)}, p \in {PrtIP, Tcp(1, 1)}})}

\* Secondary rules.
FamSecondary ==
  {[Base EXCEPT !.rules = Ordered(S), !.intfRules = i, !.optNetworks = o, !.noOptAddrs = n,
                !.needProtect = {H(3)}] :
     i \in {<<>>, <<[Permit(H(0), H(3), Tcp(2, 2)) EXCEPT !.secondary = TRUE]>>},
     o \in {{L}, {L, U}, {L, Network00}}, n \in {{}, {L}, {H(2)}},
     S \in UpTo2({[Permit(s, t, p) EXCEPT !.secondary = e] :
                    s \in {H(0), L}, t \in {H(2), U}, p \in {Tcp(1, 1), PrtIP}, e \in BOOLEAN}
                   \cup {Deny(L, H(2), Tcp(2, 2))})}

\* Devices that filter locally.
FamLocal ==
  {[Base EXCEPT !.rules = Ordered(S), !.filterOnly = f, !.filterAnySrc = y, !.doObjectgroup = g,
                !.addPermit = a, !.addDeny = ~a] :
     f \in {{L}, {H(0), U}}, y \in BOOLEAN, g \in BOOLEAN, a \in BOOLEAN,
     S \in UpTo2({Permit(s, t, Tcp(1, 1)) : s \in {H(0), H(1), Network00}, t \in {H(2), H(3), H(0)}})}

\* Protection of interfaces.
FamProtect ==
  {[Base EXCEPT !.intfRules = Ordered(I), !.rules = Ordered(S), !.needProtect = p,
                !.addPermit = a, !.addDeny = ~a] :
     a \in BOOLEAN, p \in {{H(3)}, {H(3), H(1)}},
     I \in SUBSET {Permit(Network00, H(3), PrtIP), Permit(H(0), H(3), Tcp(1, 1))},
     S \in UpTo2({Rule(d, s, t, q) : d \in BOOLEAN, s \in {Network00, H(0)}, t \in {Network00, U},
                                     q \in {PrtIP, Tcp(1, 1)}})}

\* Linux: protocols, addresses, and a second rule tree.
LinuxPrts == {PrtIP, Tcp(1, 3), Tcp(1, 1), Tcp(2, 2), Udp(2, 2), Icmp(-1, -1), Icmp(0, 0),
              Icmp(0, 1), Esp}
FamLinux ==
  {[Base EXCEPT !.model = "Linux", !.rules = Ordered(S)] :
     S \in UpTo3({Permit(s, U, p) : s \in {H(0), H(1)}, p \in LinuxPrts})
             \cup UpTo3({Permit(s, t, p) : s \in {H(0), L, Network00}, t \in {H(2), H(3), U},
                                           p \in {PrtIP, Tcp(1, 1)}})
             \cup {{a, b, From1(c)} : a \in {Permit(H(0), U, Udp(2, 2)), Permit(H(1), U, Icmp(0, -1))},
                                      b \in {Permit(H(0), U, Tcp(1, 2)), Permit(H(1), U, Udp(2, 2))},
                                      c \in {Permit(s, U, p) : s \in {H(0), H(1)},
                                                               p \in {Tcp(1, 2), Udp(2, 2)}}}
             \cup {A \cup B : A \in UpTo3({Deny(s, t, p) : s \in {H(0), H(1)}, t \in {Network00, H(2)},
                                                           p \in {Tcp(1, 1), Udp(2, 2)}}),
                              B \in {{Permit(L, U, PrtIP)}, {Permit(H(0), U, Tcp(1, 3)), Permit(H(1), U, Udp(2, 2))}}}}

MCLinuxAcls == FamLinux
MCAcls == FamPrt \cup FamAddr \cup FamCrypto \cup FamSecondary \cup FamLocal \cup FamProtect
            \cup FamLinux
=============================================================================
