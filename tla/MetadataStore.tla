--------------------------- MODULE MetadataStore ---------------------------
(***************************************************************************)
(* What the key database promises to a client that has it to itself: per   *)
(* address the newest authentic metadata published, until its TTL is over. *)
(* There is no lazy deletion, no compaction and no step in between.        *)
(***************************************************************************)
EXTENDS Metadata

CONSTANT Inputs    \* metadata in circulation

VARIABLES
    live,    \* per address the metadata a reader finds, or None
    time

Unexpired(store, t) ==
    [b \in Bodies |->
        IF store[b] # None /\ expired(store[b].serialized_payload, t)
        THEN None ELSE store[b]]

Init ==
    /\ live = [b \in Bodies |-> None]
    /\ time = 0

\* Metadata that has expired on arrival is never found.
Publish(b, m) ==
    /\ Authentic(b, m)
    /\ m.serialized_payload \in Payload
    /\ live[b] # None =>
          m.serialized_payload.timestamp >= live[b].serialized_payload.timestamp
    /\ live' = Unexpired([live EXCEPT ![b] = m], time)
    /\ UNCHANGED time

Pass ==
    /\ time' = time + 1
    /\ live' = Unexpired(live, time')

Next == Pass \/ \E b \in Bodies, m \in Inputs : Publish(b, m)

Spec == Init /\ [][Next]_<<live, time>>
=============================================================================
