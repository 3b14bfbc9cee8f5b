---------------------------- MODULE ConvertHosts ----------------------------
(***************************************************************************)
(* Hosts and ranges of network HostNet become subnets (convert-hosts.go).  *)
(*                                                                         *)
(* A host is a pair <<first, last>> of addresses, relative to the network; *)
(* a single address is a range of length 1.  A subnet is a pair <<ip,      *)
(* size>> of its first address and the number of its host bits.  Owner,    *)
(* NAT and ID of hosts only lead to messages or prevent subnets from being *)
(* combined; they are left out.                                            *)
(***************************************************************************)
EXTENDS PolicyObjects

CONSTANTS
  HostBits,  \* bits of an address inside of the network
  WordBits,  \* bits of the integer used to split a range: more than HostBits
             \* for IPv4, but equal for an IPv6 network of size 64
  Network    \* the network, as value of attribute up

ASSUME ConvertHostsAssumption ==
  /\ HostBits \in Nat /\ WordBits \in Nat /\ HostBits <= WordBits

HostAddr == 0 .. 2^HostBits - 1
Addresses(s) == IF s = Network THEN HostAddr ELSE Block(s)

VARIABLES
  todo,       \* hosts that are not yet converted
  host,       \* host whose range is split
  low,        \* first address of its range that is not yet covered
  subnetsOf,  \* host.subnets
  subnets,    \* subnetAref: subnets by size and address
  subnetUp,   \* subnet.up
  neighbor,   \* subnet.neighbor: the right one of two adjacent subnets
  partSize    \* size of subnets that are combined next

hostVars == <<todo, host, low, subnetsOf, subnets, subnetUp, neighbor, partSize>>

InitHosts ==
  /\ todo = policy.hosts
  /\ host = None /\ low = 0
  /\ subnetsOf = [h \in policy.hosts |-> {}]
  /\ subnets = {}
  /\ subnetUp = <<>> /\ neighbor = <<>>
  /\ partSize = 0

-----------------------------------------------------------------------------
(***************************************************************************)
(* Split ranges into subnets.                                              *)
(***************************************************************************)
NextHost ==
  /\ step = "hosts"
  /\ todo # {}
  /\ host' = CHOOSE h \in todo : TRUE
  /\ todo' = todo \ {host'}
  /\ low' = host'[1]
  /\ step' = "split range"
  /\ UNCHANGED <<subnetsOf, subnets, subnetUp, neighbor, partSize>>

\* Sizes of blocks that start at address a and end not behind address h.
Sizes(a, h) == {s \in 0 .. WordBits : a % 2^s = 0 /\ a + 2^s - 1 <= h}

\* Mutant of LargestSize: the last address of the range is not looked at.
LargestAligned(a, h) == Max({s \in 0 .. HostBits : a % 2^s = 0})

\* invMask is shifted to the right until it fits.
LargestSize(a, h) == Max(Sizes(a, h))

\* One iteration of the outer loop of splitIpRange, for a word of WordBits bits.
SplitIpRange ==
  /\ step = "split range"
  /\ low <= host[2]
  /\ \E s \in {LargestSize(low, host[2])} :
       /\ subnetsOf' = [subnetsOf EXCEPT ![host] = @ \cup {<<low, s>>}]
       /\ subnets' = subnets \cup {<<low, s>>}
       /\ low' = (low + 2^s) % 2^WordBits
  /\ UNCHANGED <<step, todo, host, subnetUp, neighbor, partSize>>

EndOfRange ==
  /\ step = "split range"
  /\ low > host[2]
  /\ step' = "hosts"
  /\ UNCHANGED <<todo, host, low, subnetsOf, subnets, subnetUp, neighbor, partSize>>

-----------------------------------------------------------------------------
(***************************************************************************)
(* Relation up and combination of adjacent subnets.                        *)
(***************************************************************************)
\* Enclosing subnets of larger size that are in use.
Larger(s) == {n \in s[2] + 1 .. HostBits : Enclosing(s, n) \in subnets}

\* Mutant of UpOf: the largest one is taken.
UpLargest(s) == IF Larger(s) = {} THEN Network ELSE Enclosing(s, Max(Larger(s)))

UpOf(s) == IF Larger(s) = {} THEN Network ELSE Enclosing(s, Min(Larger(s)))

SetUp ==
  /\ step = "hosts"
  /\ todo = {}
  /\ subnetUp' = [s \in subnets |-> UpOf(s)]
  /\ neighbor' = [s \in subnets |-> None]
  /\ step' = "combine hosts"
  /\ UNCHANGED <<todo, host, low, subnetsOf, subnets, partSize>>

\* Subnets of size n that are the left one of two adjacent subnets.
LeftPart(n) ==
  {s \in subnets : /\ s[2] = n
                   /\ s[1] % 2^(n + 1) = 0
                   /\ <<s[1] + 2^n, n>> \in subnets}

Right(s) == <<s[1] + 2^s[2], s[2]>>
Whole(s) == <<s[1], s[2] + 1>>

\* Supernets of adjacent parts; the whole network is none of the subnets.
Wholes(L) == {Whole(x) : x \in {y \in L : y[2] + 1 < HostBits}}
UpOfPart(s) == IF s[2] + 1 >= HostBits THEN Network ELSE Enclosing(s, s[2] + 1)

\* Attribute up of subnets after the parts have been combined; a supernet that is
\* created gets the value of its left part.
UpWhole(L) ==
  [s \in subnets \cup Wholes(L) |->
     IF \E x \in L : s \in {x, Right(x)} THEN UpOfPart(s)
     ELSE IF s \in subnets THEN subnetUp[s] ELSE subnetUp[<<s[1], s[2] - 1>>]]

\* The supernet of both parts is used if it exists, otherwise it is created.
CombineAdjacent ==
  /\ step = "combine hosts"
  /\ partSize < HostBits
  /\ \E L \in {LeftPart(partSize)} :
       /\ subnets' = subnets \cup Wholes(L)
       /\ neighbor' = [s \in subnets' |-> IF s \in L THEN Right(s)
                                          ELSE IF s \in subnets THEN neighbor[s] ELSE None]
       /\ subnetUp' = UpWhole(L)
  /\ partSize' = partSize + 1
  /\ UNCHANGED <<step, todo, host, low, subnetsOf>>

EndOfHosts ==
  /\ step = "combine hosts"
  /\ partSize >= HostBits
  /\ step' = "hosts in rules"
  /\ UNCHANGED <<todo, host, low, subnetsOf, subnets, subnetUp, neighbor, partSize>>

NextHosts ==
  \/ NextHost
  \/ SplitIpRange
  \/ EndOfRange
  \/ SetUp
  \/ CombineAdjacent
  \/ EndOfHosts

-----------------------------------------------------------------------------
(***************************************************************************)
(* combineSubnets: adjacent subnets in a list are replaced by attribute up *)
(* of them as long as there are any.                                       *)
(***************************************************************************)
AdjacentIn(M) == {s \in M \ {Network} : neighbor[s] # None /\ neighbor[s] \in M}

RECURSIVE CombineSubnets(_)
CombineSubnets(M) ==
  IF AdjacentIn(M) = {} THEN M
  ELSE CombineSubnets((M \ (AdjacentIn(M) \cup {neighbor[s] : s \in AdjacentIn(M)}))
                        \cup {subnetUp[s] : s \in AdjacentIn(M)})

-----------------------------------------------------------------------------
\* Subnets that enclose subnet s according to attribute up.
RECURSIVE UpChain(_)
UpChain(s) == IF s = Network THEN {} ELSE {subnetUp[s]} \cup UpChain(subnetUp[s])

\* The addresses of a set of subnets.
Covered(M) == UNION {Addresses(s) : s \in M}

\* Every subnet around another one is found on its way up: redundancy of rules and
\* containment of supernets are searched along this way only.
UpIsComplete ==
  step = "hosts in rules" =>
    \A s, t \in {x \in subnets : x[2] < HostBits} :
      s # t => (t \in UpChain(s) <=> Addresses(s) \subseteq Addresses(t))

\* The subnets of a host cover its range and nothing else, without overlap.
RangesAreCovered ==
  \A h \in policy.hosts :
    /\ Covered(subnetsOf[h]) = h[1] .. h[2]
    /\ \A s, t \in subnetsOf[h] : s # t => Addresses(s) \cap Addresses(t) = {}

\* Whatever hosts a rule has, their subnets are combined to the fewest subnets with the
\* same addresses as the hosts have.
HostsKeepAddresses ==
  step = "hosts in rules" =>
    /\ RangesAreCovered
    /\ \A H \in SUBSET policy.hosts :
         \A M \in {UNION {subnetsOf[h] : h \in H}} :
           Network \notin M /\ <<0, HostBits>> \notin M =>
             /\ Covered(CombineSubnets(M)) = Covered(M)
             /\ \A s \in CombineSubnets(M) \ {Network} :
                  ~\E t \in CombineSubnets(M) \ {Network, s} :
                     t[2] = s[2] /\ Enclosing(t, s[2] + 1) = Enclosing(s, s[2] + 1)
=============================================================================
