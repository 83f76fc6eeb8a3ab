---------------------------- MODULE KeyHandlers ----------------------------
(***************************************************************************)
(* One keyserver without its payment gate: the HTTP handlers get_key and   *)
(* put_key (net/mod.rs) and the part of peer_polling (net/peer.rs) that    *)
(* runs once a peer has answered, all on the shared KeyDB.                 *)
(***************************************************************************)
EXTENDS KeyDB

CONSTANTS
    AddrStrs,      \* address strings that appear in request paths
    AddrBody,      \* AddrBody[s]: body of the address s decodes to, or Garbage
    Inputs         \* metadata that clients and peers send

ASSUME HandlersAssumption ==
    /\ AddrBody \in [AddrStrs -> Bodies \cup {Garbage}]
    /\ Inputs \subseteq AddressMetadata

\* The request is refused before the database is touched.
Refuse(t, code) ==
    /\ reply' = [reply EXCEPT ![t] = Answer(code)]
    /\ UNCHANGED <<db, now, pc, req, seen>>

\* The request reaches the database, whose first call is get().
Begin(t, kind, body, m) ==
    /\ pc' = [pc EXCEPT ![t] = "read"]
    /\ req' = [req EXCEPT ![t] =
                  [kind |-> kind, body |-> body, meta |-> m, since |-> now]]
    /\ reply' = [reply EXCEPT ![t] = Answer("Pending")]
    /\ UNCHANGED <<db, now, seen>>

get_key(t, addr_str) ==
    /\ pc[t] = "idle"
    /\ IF AddrBody[addr_str] = Garbage
       THEN Refuse(t, "Address")
       ELSE Begin(t, "get_key", AddrBody[addr_str], None)

\* What put_key checks on its own, in order: its first error, or "Ok".
put_key_check(addr_str, raw) ==
    IF raw = Garbage THEN "MetadataDecode"
    ELSE IF AddrBody[addr_str] = Garbage THEN "Address"
    ELSE IF raw.scheme # 1 THEN "UnsupportedSigScheme"
    ELSE IF validate(AddrBody[addr_str], raw) # "Ok"
         THEN validate(AddrBody[addr_str], raw)
    ELSE IF raw.serialized_payload = Garbage THEN "PayloadDecode"
    ELSE "Ok"

\* The body has been received in full; everything after it runs without await.
put_key(t, addr_str, raw) ==
    /\ pc[t] = "idle"
    /\ LET result == put_key_check(addr_str, raw) IN
       IF result # "Ok"
       THEN Refuse(t, result)
       ELSE Begin(t, "put_key", AddrBody[addr_str], raw)

\* The slip of trusting what a peer serves.
peer_check_trusting(body, raw) ==
    IF raw = Garbage THEN "MetadataDecode"
    ELSE IF raw.serialized_payload = Garbage THEN "PayloadDecode"
    ELSE "Ok"

\* What peer_polling checks of a peer's answer; the scheme is not among it.
peer_check(body, raw) ==
    IF raw = Garbage THEN "MetadataDecode"
    ELSE IF validate(body, raw) # "Ok" THEN validate(body, raw)
    ELSE IF raw.serialized_payload = Garbage THEN "PayloadDecode"
    ELSE "Ok"

\* A peer has answered the GET for the announced address.
peer_polling(t, body, raw) ==
    /\ pc[t] = "idle"
    /\ LET result == peer_check(body, raw) IN
       IF result # "Ok"
       THEN Refuse(t, result)
       ELSE Begin(t, "peer_polling", body, raw)

Arrival(t) ==
    \/ /\ t \in Workers
       /\ \E s \in AddrStrs :
             \/ get_key(t, s)
             \/ \E raw \in Inputs \cup {Garbage} : put_key(t, s, raw)
    \/ /\ t \in Pollers
       /\ \E b \in Bodies, raw \in Inputs \cup {Garbage} : peer_polling(t, b, raw)

Next ==
    \/ Tick
    \/ restart
    \/ \E b \in Bodies : ttl_filter(b)
    \/ \E t \in Threads : Arrival(t) \/ DbStep(t)

Spec == Init /\ [][Next]_vars

\* A thread that has started on a request goes on with it: nothing in the
\* handlers awaits once the body is in, and RocksDB calls return.
FairSpec == Spec /\ \A t \in Threads : WF_vars(DbStep(t))

-----------------------------------------------------------------------------
\* Whoever writes, client or peer, and however the writes interleave, the
\* database holds and get_key serves only metadata signed by the key that the
\* address is the hash of.
OnlyAuthentic ==
    /\ \A b \in Bodies : db[b] # None => Authentic(b, db[b])
    /\ \A t \in Threads :
          reply[t].meta # None => Authentic(reply[t].body, reply[t].meta)

\* The unwrap() calls in get, check_timestamp and ttl_filter on stored bytes
\* ("This panics if ...", db.rs) never fail: what is stored decodes.
NoPanic == \A t \in Threads : pc[t] # "panicked"

\* An entry get_key serves was within its TTL when the request arrived, in
\* exact arithmetic: a sum above i64::MAX wraps to the past and is not served.
\* Only a sum below i64::MIN, which wraps to the future, escapes.
FreshReads ==
    \A t \in Threads :
        reply[t].meta # None =>
            LET p == reply[t].meta.serialized_payload IN
            p.timestamp + p.ttl >= MinI64 => reply[t].since <= p.timestamp + p.ttl

Live(b) == db[b] # None /\ ~expired(db[b].serialized_payload, now)

\* Entry b is replaced by one with an older timestamp while it is alive.
Regresses(b) ==
    /\ Live(b)
    /\ db'[b] # None
    /\ db'[b].serialized_payload.timestamp < db[b].serialized_payload.timestamp

\* Entry b vanishes although it is alive and stays so.
Vanishes(b) == Live(b) /\ db'[b] = None

\* check_timestamp and put are separate calls.  The only way a live entry gives
\* way to an older one is a put whose check looked at something else than the
\* entry it replaces, that is, another thread changed the entry in between.
RegressOnlyByRace ==
    [][\A b \in Bodies : Regresses(b) =>
          \E t \in Threads : pc[t] = "put" /\ req[t].body = b /\ seen[t] # db[b]]_vars

\* The delete in get and compaction never remove a live entry, except when the
\* entry was put by another thread between the read in get and its delete.
VanishOnlyByRace ==
    [][\A b \in Bodies : Vanishes(b) =>
          \E t \in Threads : pc[t] = "delete" /\ req[t].body = b /\ seen[t] # db[b]]_vars

\* The refinement mapping: a reader finds the entries that are alive.
View == [b \in Bodies |-> IF Live(b) THEN db[b] ELSE None]

Store == INSTANCE MetadataStore WITH live <- View, time <- now

\* With a single thread the three-step get, the check before the put, the lazy
\* deletion and compaction together implement the abstract store.
StoreSpec == Store!Spec

\* Every request that reaches the database is answered.
Answered == \A t \in Threads : pc[t] # "idle" ~> pc[t] = "idle"

-----------------------------------------------------------------------------
\* "refusing to pull outdated metadata" (net/peer.rs): a live entry is never
\* replaced by an older one.
NeverOutdated == [][\A b \in Bodies : ~Regresses(b)]_vars

\* "Get from database before TTL" finds the entry (db.rs, test_ttl_ok): an
\* entry stays until its TTL is over.
KeptUntilTTL == [][\A b \in Bodies : ~Vanishes(b)]_vars

-----------------------------------------------------------------------------
(***************************************************************************)
(* The inductive invariant behind the theorems of KeyHandlersProofs.       *)
(***************************************************************************)
\* m may be stored under body: it is authentic and its payload decodes.
Storable(body, m) ==
    /\ m \in AddressMetadata
    /\ Authentic(body, m)
    /\ m.serialized_payload \in Payload

StoredInv == \A b \in Bodies : db[b] # None => Storable(b, db[b])

RequestInv ==
    \A t \in Threads : pc[t] # "idle" =>
        /\ req[t].kind # "none"
        /\ req[t].body \in Bodies
        /\ req[t].since <= now
        /\ req[t].kind # "get_key" => Storable(req[t].body, req[t].meta)

StepInv ==
    \A t \in Threads :
        /\ pc[t] # "panicked"
        /\ pc[t] \in {"expiry", "delete", "check"} => Storable(req[t].body, seen[t])
        /\ pc[t] = "delete" => expired(seen[t].serialized_payload, now)
        /\ pc[t] \in {"check", "put"} => req[t].kind # "get_key"
        /\ pc[t] = "put" /\ seen[t] # None =>
              /\ Storable(req[t].body, seen[t])
              /\ req[t].meta.serialized_payload.timestamp
                    >= seen[t].serialized_payload.timestamp

ReplyInv ==
    \A t \in Threads : reply[t].meta # None =>
        /\ Storable(reply[t].body, reply[t].meta)
        /\ ~expired(reply[t].meta.serialized_payload, reply[t].since)

IInv == TypeOK /\ StoredInv /\ RequestInv /\ StepInv /\ ReplyInv

\* With a single thread only compaction can come between the read in get() and
\* what follows it, so the entry is still the one read, or gone.
SerialInv ==
    \A t \in Threads :
        /\ pc[t] # "idle" /\ req[t].kind # "get_key" => req[t].meta \in Inputs
        /\ pc[t] \in {"expiry", "delete", "check", "put"} =>
              db[req[t].body] \in {None, seen[t]}
=============================================================================
