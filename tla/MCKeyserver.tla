---------------------------- MODULE MCKeyserver ----------------------------
(***************************************************************************)
(* A small instance of Keyserver: two clients, each connected to a worker  *)
(* of its own, update the same address.  c1 may write its URL with the     *)
(* default port, which Url::parse drops, and brings the newer entry; c2    *)
(* comes by another host name, may mistype the address, and brings an      *)
(* older entry that is past its TTL.  What peers have is newer than both   *)
(* and expires as soon as the clock goes on.                               *)
(***************************************************************************)
EXTENDS Keyserver, TLC

CONSTANTS k1, b1, e1, c1, c2, w1, w2, p1

MCRawAddress == k1 :> b1
MCAddrBody == "cashaddr" :> b1 @@ "invalid" :> Garbage

MCWorkerOf == c1 :> w1 @@ c2 :> w2
MCUrlsOf == c1 :> {"plain", "port"} @@ c2 :> {"alias", "mistyped"}

MCPathOf ==
    "plain" :> "cashaddr" @@ "port" :> "cashaddr" @@ "alias" :> "cashaddr"
    @@ "mistyped" :> "invalid"

MCNormal ==
    "plain" :> "plain" @@ "port" :> "plain" @@ "alias" :> "alias"
    @@ "mistyped" :> "mistyped"

Signed(payload) ==
    [pub_key |-> k1, serialized_payload |-> payload,
     signature |-> [key |-> k1, msg |-> payload], scheme |-> 1]

MCMetaOf ==
    c1 :> Signed([timestamp |-> 1, ttl |-> 1, entries |-> e1])
    @@ c2 :> Signed([timestamp |-> 0, ttl |-> -1, entries |-> e1])

MCAddrsOf == c1 :> {1, 2, 3} @@ c2 :> {4, 5, 6}

MCPeerInputs == {Signed([timestamp |-> 2, ttl |-> -2, entries |-> e1])}
=============================================================================
