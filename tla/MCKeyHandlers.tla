--------------------------- MODULE MCKeyHandlers ---------------------------
(***************************************************************************)
(* Small instances of KeyHandlers.  Key k1 owns the address b1, which two  *)
(* strings denote; key k2 owns b2.  Timestamps, TTLs and the clock live in *)
(* -4..3, the i64 of these instances.                                      *)
(***************************************************************************)
EXTENDS KeyHandlers, TLC

CONSTANTS k1, k2, b1, b2, e1

MCRawAddress == k1 :> b1 @@ k2 :> b2
MCAddrBody == "cashaddr" :> b1 @@ "base58" :> b1 @@ "invalid" :> Garbage

Stamped(ts, ttl) == [timestamp |-> ts, ttl |-> ttl, entries |-> e1]

SignedBy(k, payload) ==
    [pub_key |-> k, serialized_payload |-> payload,
     signature |-> [key |-> k, msg |-> payload], scheme |-> 1]

\* Two old entries, one of which expires soon, and two newer ones, likewise.
RaceInputs ==
    {SignedBy(k1, Stamped(0, 0)), SignedBy(k1, Stamped(0, 2)),
     SignedBy(k1, Stamped(1, 0)), SignedBy(k1, Stamped(1, 2))}

\* One entry each check must refuse, one that only peers may bring, and four
\* that are valid: for b1 and for b2, and two whose expiry is beyond either end
\* of i64.
AuthInputs ==
    LET good == SignedBy(k1, Stamped(1, 0)) IN
    {good,
     SignedBy(k2, Stamped(0, 1)),
     SignedBy(k1, Stamped(3, 3)),
     SignedBy(k1, Stamped(-4, -4)),
     [good EXCEPT !.pub_key = Garbage],
     [good EXCEPT !.pub_key = k2],
     [good EXCEPT !.signature = Garbage],
     [good EXCEPT !.serialized_payload = Stamped(2, 1)],
     [good EXCEPT !.scheme = 0],
     SignedBy(k1, Garbage)}
=============================================================================
