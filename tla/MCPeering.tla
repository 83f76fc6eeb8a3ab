----------------------------- MODULE MCPeering -----------------------------
(***************************************************************************)
(* Small instances of Peering, all for one address: two servers that run   *)
(* this code, a client of s1, and a peer mal that sends anything, so also  *)
(* what another server would, or nothing ever.                             *)
(***************************************************************************)
EXTENDS Peering, TLC

CONSTANTS s1, s2, mal, x, k1, k2, k3

OfUpdates(f) == [k \in Updates |-> f[k]]

Where == OfUpdates(k1 :> s1 @@ k2 :> mal @@ k3 :> mal)
What == [k \in Updates |-> x]

\* k3 is as new as k1, so that they replace each other; the oldest one expires.
Stamps == OfUpdates(k1 :> 1 @@ k2 :> 0 @@ k3 :> 1)
Lives == OfUpdates(k1 :> Forever @@ k2 :> 1 @@ k3 :> Forever)

\* The payload of example/peering.py sets no TTL.
NoTtl == [k \in Updates |-> 0]
=============================================================================
