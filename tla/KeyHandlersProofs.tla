------------------------- MODULE KeyHandlersProofs -------------------------
(***************************************************************************)
(* Proofs about KeyHandlers, for any number of workers and pollers, any    *)
(* set of addresses, keys and inputs, and any width of the time type.      *)
(***************************************************************************)
EXTENDS KeyHandlers, TLAPS

-----------------------------------------------------------------------------
(* Facts about metadata.                                                   *)

\* A wrapped sum of two i64 is an integer (expired compares it with the clock).
LEMMA WrappingAddType ==
    ASSUME NEW p \in Payload
    PROVE  WrappingAdd(p.timestamp, p.ttl) \in Int
  BY MetadataAssumption DEF WrappingAdd, Payload, I64, MinI64

\* Once expired, always expired: the clock only moves on.
LEMMA ExpiredStays ==
    ASSUME NEW p \in Payload, NEW s \in Nat, NEW t \in Nat, s <= t, expired(p, s)
    PROVE  expired(p, t)
  BY WrappingAddType DEF expired

\* What survives validate and the payload decoding may be stored.
LEMMA ValidatedIsStorable ==
    ASSUME NEW body, NEW m \in AddressMetadata,
           validate(body, m) = "Ok", m.serialized_payload # Garbage
    PROVE  Storable(body, m)
  BY DEF validate, to_raw_address, verify, Storable, Authentic, AddressMetadata

\* The checks of put_key let only storable metadata through.
LEMMA PutKeyCheckSound ==
    ASSUME NEW s \in AddrStrs, NEW raw \in Inputs \cup {Garbage},
           put_key_check(s, raw) = "Ok"
    PROVE  AddrBody[s] \in Bodies /\ Storable(AddrBody[s], raw)
  BY ValidatedIsStorable, HandlersAssumption DEF put_key_check

\* So do the checks of peer_polling, although they skip the scheme.
LEMMA PeerCheckSound ==
    ASSUME NEW b \in Bodies, NEW raw \in Inputs \cup {Garbage},
           peer_check(b, raw) = "Ok"
    PROVE  Storable(b, raw)
  BY ValidatedIsStorable, HandlersAssumption DEF peer_check

\* Each check ends in one of the answers a handler can give.
LEMMA CheckCodes ==
    ASSUME NEW raw
    PROVE  /\ \A s : put_key_check(s, raw) \in Codes
           /\ \A b : peer_check(b, raw) \in Codes
  BY DEF put_key_check, peer_check, validate, Codes, ValidationResults

-----------------------------------------------------------------------------
(* Every action preserves the inductive invariant.                         *)

\* A step leaves the database alone, or at most one entry goes or is replaced by
\* metadata that may be stored there.
SafeWrite ==
    \/ db' = db
    \/ \E b \in Bodies, m \in AddressMetadata \cup {None} :
          /\ db' = [db EXCEPT ![b] = m]
          /\ m # None => Storable(b, m)

\* A safe write keeps the database well-typed and its entries storable.
LEMMA SafeWritePreserves ==
    ASSUME IInv, SafeWrite
    PROVE  StoredInv' /\ db' \in [Bodies -> AddressMetadata \cup {None}]
<1>1. CASE db' = db
  BY <1>1 DEF IInv, TypeOK, StoredInv
<1>2. CASE db' # db
  BY <1>2 DEF SafeWrite, IInv, TypeOK, StoredInv
<1> QED
  BY <1>1, <1>2

\* A thread that answers with a well-formed answer leaves everything in order.
LEMMA ReplyPreserves ==
    ASSUME IInv, NEW t \in Threads, NEW answer \in Replies, Reply(t, answer),
           SafeWrite, now' = now,
           answer.meta # None =>
              /\ Storable(answer.body, answer.meta)
              /\ ~expired(answer.meta.serialized_payload, answer.since)
    PROVE  IInv'
<1> USE DEF IInv, Reply
<1>1. TypeOK'
  BY SafeWritePreserves DEF TypeOK, Labels, Requests, NoRequest
<1>2. StoredInv'
  BY SafeWritePreserves
<1>3. RequestInv'
  BY DEF RequestInv, TypeOK
<1>4. StepInv'
  BY DEF StepInv, TypeOK
<1>5. ReplyInv'
  BY DEF ReplyInv, TypeOK
<1> QED
  BY <1>1, <1>2, <1>3, <1>4, <1>5

\* So does one that moves on to a step whose precondition holds.
LEMMA GotoPreserves ==
    ASSUME IInv, NEW t \in Threads, pc[t] # "idle",
           NEW label \in Labels \ {"idle", "panicked"},
           NEW m \in AddressMetadata \cup {None}, Goto(t, label, m),
           SafeWrite, now' = now,
           label \in {"expiry", "delete", "check"} => Storable(req[t].body, m),
           label = "delete" => expired(m.serialized_payload, now),
           label \in {"check", "put"} => req[t].kind # "get_key",
           label = "put" /\ m # None =>
              /\ Storable(req[t].body, m)
              /\ req[t].meta.serialized_payload.timestamp
                    >= m.serialized_payload.timestamp
    PROVE  IInv'
<1> USE DEF IInv, Goto
<1>1. TypeOK'
  BY SafeWritePreserves DEF TypeOK
<1>2. StoredInv'
  BY SafeWritePreserves
<1>3. RequestInv'
  BY DEF RequestInv, TypeOK
<1>4. StepInv'
  BY DEF StepInv, TypeOK
<1>5. ReplyInv'
  BY DEF ReplyInv, TypeOK
<1> QED
  BY <1>1, <1>2, <1>3, <1>4, <1>5

\* An answer without metadata is well-formed.
LEMMA AnswerType ==
    ASSUME NEW code \in Codes
    PROVE  Answer(code) \in Replies /\ Answer(code).meta = None
  BY DEF Answer, Replies

\* get() returning to its caller, with nothing or with an unexpired entry.
LEMMA GetReturnsPreserves ==
    ASSUME IInv, NEW t \in Threads, pc[t] # "idle",
           NEW m \in AddressMetadata \cup {None}, GetReturns(t, m),
           SafeWrite, now' = now,
           m # None => /\ Storable(req[t].body, m)
                       /\ ~expired(m.serialized_payload, now)
    PROVE  IInv'
<1>1. CASE req[t].kind = "get_key" /\ m = None
  BY <1>1, ReplyPreserves, AnswerType DEF GetReturns, Codes
<1>2. CASE req[t].kind = "get_key" /\ m # None
  <2>1. Served(req[t], m) \in Replies
    BY <1>2 DEF IInv, TypeOK, Served, Replies, Requests, Codes, ValidationResults
  <2>2. ~expired(m.serialized_payload, req[t].since)
    BY <1>2, ExpiredStays DEF IInv, TypeOK, RequestInv, Requests, Storable
  <2> QED
    BY <1>2, <2>1, <2>2, ReplyPreserves DEF GetReturns, Served
<1>3. CASE req[t].kind # "get_key"
  <2>1. (IF m = None THEN "put" ELSE "check") \in Labels \ {"idle", "panicked"}
    BY DEF Labels
  <2> QED
    BY <1>3, <2>1, GotoPreserves DEF GetReturns
<1> QED
  BY <1>1, <1>2, <1>3

\* The server starts with an empty database and idle threads.
LEMMA InitIInv == Init => IInv
  BY DEF Init, IInv, TypeOK, StoredInv, RequestInv, StepInv, ReplyInv, Labels,
         NoRequest, Requests, Answer, Replies, Codes

\* The read of get(): what it finds was stored, so it may be looked into.
LEMMA ReadPreserves ==
    ASSUME IInv, NEW t \in Threads, get_read(t)
    PROVE  IInv'
<1> DEFINE m == db[req[t].body]
<1>1. pc[t] = "read" /\ SafeWrite /\ now' = now
  BY DEF get_read, SafeWrite
<1>2. m \in AddressMetadata \cup {None}
  BY <1>1 DEF IInv, TypeOK, RequestInv
<1>3. CASE m = None
  BY <1>1, <1>3, GetReturnsPreserves DEF get_read
<1>4. CASE m # None
  <2>1. Storable(req[t].body, m)
    BY <1>1, <1>4 DEF IInv, RequestInv, StoredInv
  <2>2. "expiry" \in Labels \ {"idle", "panicked"}
    BY DEF Labels
  <2>3. Goto(t, "expiry", m)
    BY <1>4 DEF get_read
  <2> QED
    BY <1>1, <1>2, <2>1, <2>2, <2>3, GotoPreserves
<1> QED
  BY <1>3, <1>4

\* The expiry test of get(): its unwrap cannot fail on a stored payload.
LEMMA ExpiryPreserves ==
    ASSUME IInv, NEW t \in Threads, get_expiry(t)
    PROVE  IInv'
<1>1. pc[t] = "expiry" /\ SafeWrite /\ now' = now
  BY DEF get_expiry, SafeWrite
<1>2. seen[t] \in AddressMetadata /\ Storable(req[t].body, seen[t])
  BY <1>1 DEF IInv, StepInv, Storable
<1>3. seen[t].serialized_payload # Garbage
  BY <1>2, GarbageAssumption DEF Storable
<1>4. CASE expired(seen[t].serialized_payload, now)
  <2>1. "delete" \in Labels \ {"idle", "panicked"}
    BY DEF Labels
  <2>2. Goto(t, "delete", seen[t])
    BY <1>3, <1>4 DEF get_expiry
  <2> QED
    BY <1>1, <1>2, <1>4, <2>1, <2>2, GotoPreserves
<1>5. CASE ~expired(seen[t].serialized_payload, now)
  BY <1>1, <1>2, <1>3, <1>5, GetReturnsPreserves DEF get_expiry
<1> QED
  BY <1>4, <1>5

\* check_timestamp: a put that passes is not older than the entry it looked at.
LEMMA CheckPreserves ==
    ASSUME IInv, NEW t \in Threads, check_timestamp(t)
    PROVE  IInv'
<1> DEFINE new == req[t].meta.serialized_payload
           old == seen[t].serialized_payload
<1>1. pc[t] = "check" /\ SafeWrite /\ now' = now
  BY DEF check_timestamp, SafeWrite
<1>2. /\ seen[t] \in AddressMetadata
      /\ Storable(req[t].body, seen[t])
      /\ req[t].kind # "get_key"
      /\ Storable(req[t].body, req[t].meta)
  BY <1>1 DEF IInv, StepInv, RequestInv, Storable
<1>3. CASE Reply(t, Answer("Outdated")) \/ Reply(t, Answer("ExpiredTTL"))
  BY <1>1, <1>3, ReplyPreserves, AnswerType DEF Codes
<1>4. CASE new.timestamp >= old.timestamp /\ Goto(t, "put", seen[t])
  <2>1. "put" \in Labels \ {"idle", "panicked"}
    BY DEF Labels
  <2> QED
    BY <1>1, <1>2, <1>4, <2>1, GotoPreserves
<1> QED
  <2>1. new.timestamp \in Int /\ old.timestamp \in Int
    BY <1>2 DEF Storable, Payload, I64
  <2> QED
    BY <1>3, <1>4, <2>1 DEF check_timestamp

\* A failing RocksDB call changes nothing but the answer.
LEMMA ErrorPreserves ==
    ASSUME IInv, NEW t \in Threads, rocks_error(t)
    PROVE  IInv'
  BY ReplyPreserves, AnswerType DEF rocks_error, SafeWrite, Codes

\* The delete of get() removes an entry and returns to the caller.
LEMMA DeletePreserves ==
    ASSUME IInv, NEW t \in Threads, get_delete(t)
    PROVE  IInv'
<1>1. pc[t] = "delete" /\ now' = now /\ GetReturns(t, None)
  BY DEF get_delete
<1>2. SafeWrite
  BY <1>1 DEF get_delete, SafeWrite, IInv, RequestInv
<1> QED
  BY <1>1, <1>2, GetReturnsPreserves

\* The put writes the metadata that the handler has checked.
LEMMA PutPreserves ==
    ASSUME IInv, NEW t \in Threads, put(t)
    PROVE  IInv'
<1>1. pc[t] = "put" /\ now' = now /\ Reply(t, Answer("Ok"))
  BY DEF put
<1>2. /\ req[t].body \in Bodies
      /\ req[t].meta \in AddressMetadata
      /\ Storable(req[t].body, req[t].meta)
  BY <1>1 DEF IInv, StepInv, RequestInv, Storable
<1>3. SafeWrite
  BY <1>2 DEF put, SafeWrite
<1> QED
  BY <1>1, <1>3, ReplyPreserves, AnswerType DEF Codes, ValidationResults

\* A refused request touches nothing but the answer.
LEMMA RefusePreserves ==
    ASSUME IInv, NEW t \in Threads, NEW code \in Codes, Refuse(t, code)
    PROVE  IInv'
<1> USE AnswerType DEF IInv, Refuse
<1>1. TypeOK'
  BY DEF TypeOK
<1>2. StoredInv'
  BY DEF StoredInv
<1>3. RequestInv'
  BY DEF RequestInv
<1>4. StepInv'
  BY DEF StepInv
<1>5. ReplyInv'
  BY DEF ReplyInv, TypeOK
<1> QED
  BY <1>1, <1>2, <1>3, <1>4, <1>5

\* A request that reaches the database carries what its checks established.
LEMMA BeginPreserves ==
    ASSUME IInv, NEW t \in Threads,
           NEW kind \in {"get_key", "put_key", "peer_polling"}, NEW body \in Bodies,
           NEW m \in AddressMetadata \cup {None}, Begin(t, kind, body, m),
           kind # "get_key" => Storable(body, m)
    PROVE  IInv'
<1> USE DEF IInv, Begin
<1>1. TypeOK'
  <2>1. Answer("Pending") \in Replies
    BY AnswerType DEF Codes
  <2>2. [kind |-> kind, body |-> body, meta |-> m, since |-> now] \in Requests
    BY DEF TypeOK, Requests
  <2> QED
    BY <2>1, <2>2 DEF TypeOK, Labels
<1>2. StoredInv'
  BY DEF StoredInv
<1>3. RequestInv'
  BY DEF RequestInv, TypeOK
<1>4. StepInv'
  BY DEF StepInv, TypeOK
<1>5. ReplyInv'
  BY DEF ReplyInv, TypeOK, Answer
<1> QED
  BY <1>1, <1>2, <1>3, <1>4, <1>5

\* Whatever arrives, at a worker or at a poller, is refused or well-formed.
LEMMA ArrivalPreserves ==
    ASSUME IInv, NEW t \in Threads, Arrival(t)
    PROVE  IInv'
<1>1. ASSUME NEW s \in AddrStrs, get_key(t, s)
      PROVE  IInv'
  <2>1. CASE AddrBody[s] = Garbage
    BY <1>1, <2>1, RefusePreserves DEF get_key, Codes
  <2>2. CASE AddrBody[s] # Garbage
    BY <1>1, <2>2, BeginPreserves, HandlersAssumption DEF get_key
  <2> QED
    BY <2>1, <2>2
<1>2. ASSUME NEW s \in AddrStrs, NEW raw \in Inputs \cup {Garbage}, put_key(t, s, raw)
      PROVE  IInv'
  <2>1. CASE put_key_check(s, raw) = "Ok"
    <3>1. AddrBody[s] \in Bodies /\ Storable(AddrBody[s], raw)
      BY <2>1, PutKeyCheckSound
    <3>2. raw \in AddressMetadata /\ Begin(t, "put_key", AddrBody[s], raw)
      BY <1>2, <2>1, <3>1 DEF put_key, Storable
    <3> QED
      BY <3>1, <3>2, BeginPreserves
  <2>2. CASE put_key_check(s, raw) # "Ok"
    BY <1>2, <2>2, CheckCodes, RefusePreserves DEF put_key
  <2> QED
    BY <2>1, <2>2
<1>3. ASSUME NEW b \in Bodies, NEW raw \in Inputs \cup {Garbage}, peer_polling(t, b, raw)
      PROVE  IInv'
  <2>1. CASE peer_check(b, raw) = "Ok"
    <3>1. raw \in AddressMetadata /\ Storable(b, raw)
      BY <2>1, PeerCheckSound DEF Storable
    <3>2. Begin(t, "peer_polling", b, raw)
      BY <1>3, <2>1 DEF peer_polling
    <3> QED
      BY <3>1, <3>2, BeginPreserves
  <2>2. CASE peer_check(b, raw) # "Ok"
    BY <1>3, <2>2, CheckCodes, RefusePreserves DEF peer_polling
  <2> QED
    BY <2>1, <2>2
<1> QED
  BY <1>1, <1>2, <1>3 DEF Arrival

\* Compaction removes an entry; a stored payload never makes it panic.
LEMMA FilterPreserves ==
    ASSUME IInv, NEW b \in Bodies, ttl_filter(b)
    PROVE  IInv'
<1>1. /\ SafeWrite
      /\ UNCHANGED <<now, pc, req, seen, reply>>
  BY GarbageAssumption DEF ttl_filter, IInv, StoredInv, Storable, SafeWrite
<1>2. TypeOK' /\ StoredInv'
  BY <1>1, SafeWritePreserves DEF IInv, TypeOK
<1>3. RequestInv' /\ StepInv' /\ ReplyInv'
  BY <1>1 DEF IInv, RequestInv, StepInv, ReplyInv
<1> QED
  BY <1>2, <1>3 DEF IInv

\* The clock moves on: what has expired stays expired.
LEMMA TickPreserves ==
    ASSUME IInv, Tick
    PROVE  IInv'
<1> USE DEF IInv, Tick
<1>1. now \in Nat /\ now' \in Nat /\ now <= now' /\ UNCHANGED <<db, pc, req, seen, reply>>
  BY DEF TypeOK
<1>2. TypeOK' /\ StoredInv' /\ ReplyInv'
  BY <1>1 DEF TypeOK, StoredInv, ReplyInv
<1>3. RequestInv'
  BY <1>1 DEF RequestInv, TypeOK, Requests
<1>4. StepInv'
  <2> SUFFICES ASSUME NEW t \in Threads, pc[t] = "delete"
               PROVE  expired(seen[t].serialized_payload, now')
    BY <1>1 DEF StepInv
  <2> QED
    BY <1>1, ExpiredStays DEF StepInv, Storable
<1> QED
  BY <1>2, <1>3, <1>4

\* A restart forgets the requests and keeps the database.
LEMMA RestartPreserves ==
    ASSUME IInv, restart
    PROVE  IInv'
<1> USE DEF IInv, restart
<1>1. TypeOK'
  BY AnswerType DEF TypeOK, Labels, Requests, NoRequest, Codes
<1>2. StoredInv'
  BY DEF StoredInv
<1>3. RequestInv' /\ StepInv'
  BY DEF RequestInv, StepInv
<1>4. ReplyInv'
  BY DEF ReplyInv, Answer
<1> QED
  BY <1>1, <1>2, <1>3, <1>4

-----------------------------------------------------------------------------
(* The theorems.                                                           *)

\* IInv is inductive: whatever happens next, it holds again.
LEMMA NextIInv ==
    ASSUME IInv, [Next]_vars
    PROVE  IInv'
<1>1. CASE Tick \/ restart
  BY <1>1, TickPreserves, RestartPreserves
<1>2. ASSUME NEW b \in Bodies, ttl_filter(b)
      PROVE  IInv'
  BY <1>2, FilterPreserves
<1>3. ASSUME NEW t \in Threads, Arrival(t)
      PROVE  IInv'
  BY <1>3, ArrivalPreserves
<1>4. ASSUME NEW t \in Threads, DbStep(t)
      PROVE  IInv'
  BY <1>4, ReadPreserves, ExpiryPreserves, DeletePreserves, CheckPreserves,
     PutPreserves, ErrorPreserves DEF DbStep
<1>5. CASE UNCHANGED vars
  BY <1>5 DEF vars, IInv, TypeOK, StoredInv, RequestInv, StepInv, ReplyInv
<1> QED
  BY <1>1, <1>2, <1>3, <1>4, <1>5 DEF Next

\* The inductive invariant holds in every reachable state.
THEOREM IInvHolds == Spec => []IInv
  BY InitIInv, NextIInv, PTL DEF Spec

\* The variables keep their types in every reachable state of the server.
THEOREM TypeCorrect == Spec => []TypeOK
<1>1. IInv => TypeOK
  BY DEF IInv
<1> QED
  BY <1>1, IInvHolds, PTL

\* The database holds, and get_key serves, only metadata that the owner of the
\* address signed, whatever clients and peers send and however they interleave.
THEOREM Authenticity == Spec => []OnlyAuthentic
<1>1. IInv => OnlyAuthentic
  BY DEF IInv, StoredInv, ReplyInv, Storable, OnlyAuthentic
<1> QED
  BY <1>1, IInvHolds, PTL

\* No unwrap() on stored bytes panics, in a handler or during compaction.
THEOREM PanicFreedom == Spec => []NoPanic
<1>1. IInv => NoPanic
  BY DEF IInv, StepInv, NoPanic
<1> QED
  BY <1>1, IInvHolds, PTL

\* What get_key serves was within its TTL when the request arrived, unless the
\* sum of timestamp and TTL falls below i64::MIN.
THEOREM Freshness == Spec => []FreshReads
<1>1. ASSUME IInv, NEW t \in Threads, reply[t].meta # None,
             reply[t].meta.serialized_payload.timestamp
                + reply[t].meta.serialized_payload.ttl >= MinI64
      PROVE  reply[t].since <= reply[t].meta.serialized_payload.timestamp
                                  + reply[t].meta.serialized_payload.ttl
  <2> DEFINE p == reply[t].meta.serialized_payload
  <2>1. p \in Payload /\ reply[t].since \in Nat /\ ~expired(p, reply[t].since)
    BY <1>1 DEF IInv, ReplyInv, Storable, TypeOK, Replies
  <2>2. p.timestamp \in Int /\ p.ttl \in Int /\ p.timestamp <= MaxI64 /\ p.ttl <= MaxI64
    BY <2>1, MetadataAssumption DEF Payload, I64, MinI64
  <2> HIDE DEF p
  <2> QED
    BY <1>1, <2>1, <2>2, MetadataAssumption DEF expired, WrappingAdd, MinI64, p
<1>2. IInv => FreshReads
  BY <1>1 DEF FreshReads
<1> QED
  BY <1>2, IInvHolds, PTL

\* A step that changes entry b is a put, a delete or compaction.
LEMMA WhoWrites ==
    ASSUME IInv, [Next]_vars, NEW b \in Bodies, db'[b] # db[b]
    PROVE  \/ \E t \in Threads : put(t) /\ req[t].body = b /\ db'[b] = req[t].meta
           \/ \E t \in Threads : get_delete(t) /\ req[t].body = b /\ db'[b] = None
           \/ ttl_filter(b) /\ db'[b] = None
<1>1. ASSUME NEW c \in Bodies, ttl_filter(c)
      PROVE  ttl_filter(b) /\ db'[b] = None
  BY <1>1 DEF ttl_filter, IInv, TypeOK
<1>2. ASSUME NEW t \in Threads, Arrival(t)
      PROVE  FALSE
  BY <1>2 DEF Arrival, get_key, put_key, peer_polling, Refuse, Begin
<1>3. ASSUME NEW t \in Threads, DbStep(t)
      PROVE  \/ put(t) /\ req[t].body = b /\ db'[b] = req[t].meta
             \/ get_delete(t) /\ req[t].body = b /\ db'[b] = None
  <2>1. CASE put(t)
    BY <2>1 DEF put, IInv, TypeOK
  <2>2. CASE get_delete(t)
    BY <2>2 DEF get_delete, IInv, TypeOK
  <2>3. CASE ~put(t) /\ ~get_delete(t)
    BY <1>3, <2>3 DEF DbStep, get_read, get_expiry, check_timestamp, rocks_error
  <2> QED
    BY <2>1, <2>2, <2>3
<1> QED
  BY <1>1, <1>2, <1>3 DEF Next, Tick, restart, vars

\* A live entry gives way to an older one only when another thread changed the
\* entry between check_timestamp and the put.
THEOREM RegressTheorem == Spec => RegressOnlyByRace
<1>1. ASSUME IInv, [Next]_vars, NEW b \in Bodies, Regresses(b)
      PROVE  \E t \in Threads : pc[t] = "put" /\ req[t].body = b /\ seen[t] # db[b]
  <2>1. db'[b] # db[b] /\ db'[b] # None /\ db[b] # None
    <3>1. db[b].serialized_payload.timestamp \in Int
      BY <1>1 DEF Regresses, Live, IInv, StoredInv, Storable, Payload, I64
    <3> QED
      BY <1>1, <3>1 DEF Regresses, Live
  <2>2. PICK t \in Threads : put(t) /\ req[t].body = b /\ db'[b] = req[t].meta
    BY <1>1, <2>1, WhoWrites
  <2>3. seen[t] # db[b]
    <3> SUFFICES ASSUME seen[t] = db[b]
                 PROVE  FALSE
      OBVIOUS
    <3>1. req[t].meta.serialized_payload.timestamp >= db[b].serialized_payload.timestamp
      BY <1>1, <2>1, <2>2 DEF IInv, StepInv, put
    <3>2. /\ Storable(b, req[t].meta)
          /\ Storable(b, db[b])
      BY <1>1, <2>1, <2>2 DEF IInv, StepInv, RequestInv, StoredInv, put
    <3>3. /\ req[t].meta.serialized_payload.timestamp \in Int
          /\ db[b].serialized_payload.timestamp \in Int
      BY <3>2 DEF Storable, Payload, I64
    <3> QED
      BY <1>1, <2>2, <3>1, <3>3 DEF Regresses
  <2> QED
    BY <2>2, <2>3 DEF put
<1>2. IInv /\ [Next]_vars => [\A b \in Bodies : Regresses(b) =>
          \E t \in Threads : pc[t] = "put" /\ req[t].body = b /\ seen[t] # db[b]]_vars
  BY <1>1
<1> QED
  BY <1>2, IInvHolds, PTL DEF Spec, RegressOnlyByRace

\* A live entry vanishes only when another thread put it there between the read
\* of a get and its delete; compaction never takes a live entry.
THEOREM VanishTheorem == Spec => VanishOnlyByRace
<1>1. ASSUME IInv, [Next]_vars, NEW b \in Bodies, Vanishes(b)
      PROVE  \E t \in Threads : pc[t] = "delete" /\ req[t].body = b /\ seen[t] # db[b]
  <2>1. db'[b] # db[b] /\ db'[b] = None /\ db[b] # None
        /\ ~expired(db[b].serialized_payload, now)
    BY <1>1 DEF Vanishes, Live
  <2>2. ~ttl_filter(b)
    BY <1>1, <2>1 DEF ttl_filter
  <2>3. ASSUME NEW t \in Threads, put(t), req[t].body = b, db'[b] = req[t].meta
        PROVE  FALSE
    BY <1>1, <2>1, <2>3, NoneAssumption DEF put, IInv, StepInv, RequestInv, Storable
  <2>4. PICK t \in Threads : get_delete(t) /\ req[t].body = b
    BY <1>1, <2>1, <2>2, <2>3, WhoWrites
  <2>5. pc[t] = "delete" /\ expired(seen[t].serialized_payload, now)
    BY <1>1, <2>4 DEF get_delete, IInv, StepInv
  <2> QED
    BY <2>1, <2>4, <2>5
<1>2. IInv /\ [Next]_vars => [\A b \in Bodies : Vanishes(b) =>
          \E t \in Threads : pc[t] = "delete" /\ req[t].body = b /\ seen[t] # db[b]]_vars
  BY <1>1
<1> QED
  BY <1>2, IInvHolds, PTL DEF Spec, VanishOnlyByRace
=============================================================================
