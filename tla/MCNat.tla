-------------------------------- MODULE MCNat --------------------------------
(***************************************************************************)
(* Instances of module Nat for TLC.                                        *)
(***************************************************************************)
EXTENDS Nat

Types == {"static", "dynamic", "hidden"}
AtMost(k, S) == UNION {kSubset(i, S) : i \in 0 .. k}
Network(z, nat) == [zone |-> z, nat |-> nat]

\* Tags of a network with the types of f.
Of(f, tags) == CHOOSE nat \in [tags -> Types] : \A t \in tags : nat[t] = f[t]

(***************************************************************************)
(* Three zones in a ring: a network with one tag or two, another with any. *)
(***************************************************************************)
RingLinks == {<<1, 1>>, <<1, 2>>, <<2, 2>>, <<2, 3>>, <<3, 1>>, <<3, 3>>}
RingTopologies ==
  [links : {RingLinks}, realIp : {{}},
   bind : [RingLinks -> AtMost(1, {1, 2})],
   networks : {<<Network(1, Of(f, {1, 2})), Network(z, Of(f, tags))>> :
                 f \in [{1, 2} -> Types], tags \in {{1}, {2}, {1, 2}}, z \in {1, 2}}]

(***************************************************************************)
(* A router with three interfaces and acl_use_real_ip, a zone behind one   *)
(* of them: networks with a real and possibly a hidden tag at the ends.    *)
(***************************************************************************)
StarLinks == {<<1, 1>>, <<1, 2>>, <<1, 3>>, <<2, 3>>, <<2, 4>>}
StarTypes == <<"static", "static", "hidden", "hidden", "static">>
StarTopologies ==
  [links : {StarLinks}, realIp : {{1}},
   bind : {(<<1, 1>> :> b1) @@ (<<1, 2>> :> b2) @@ (<<1, 3>> :> b3) @@ (<<2, 3>> :> b4)
             @@ (<<2, 4>> :> {}) :
             b1 \in SUBSET {4, 5}, b2 \in SUBSET {3, 5}, b3 \in SUBSET {1, 2, 3}, b4 \in {{}, {5}}},
   networks : {<<Network(1, Of(StarTypes, tags1)), Network(2, Of(StarTypes, tags2)),
                 Network(4, Of(StarTypes, tags4))>> :
                 tags1 \in {{1}, {1, 3}}, tags2 \in {{1}, {2}, {1, 4}, {2, 4}},
                 tags4 \in {{5}, {4, 5}}}]

(***************************************************************************)
(* A chain of zones: networks with several tags, bound one after another.  *)
(***************************************************************************)
ChainLinks == {<<1, 1>>, <<1, 2>>, <<2, 2>>, <<2, 3>>, <<3, 3>>, <<3, 4>>}
ChainTopologies ==
  [links : {ChainLinks}, realIp : {{}},
   bind : {(<<1, 2>> :> b1) @@ (<<2, 3>> :> b2) @@ (<<3, 4>> :> b3)
             @@ (<<1, 1>> :> {}) @@ (<<2, 2>> :> {}) @@ (<<3, 3>> :> {}) :
             b1 \in AtMost(2, 1 .. 3), b2 \in AtMost(2, 1 .. 3), b3 \in AtMost(1, 1 .. 3)},
   networks : {<<Network(1, Of(f, tags1)), Network(1, Of(f, tags2)), Network(z, Of(f, {2, 3}))>> :
                 f \in {f \in [1 .. 3 -> Types] : f[1] = "static" /\ f[2] # "dynamic"},
                 tags1 \in {{1, 2}, {1, 2, 3}}, tags2 \in {{1}, {1, 3}}, z \in {1, 2}}]

MCTopologies == RingTopologies \union StarTopologies \union ChainTopologies
=============================================================================
