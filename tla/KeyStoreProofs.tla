-------------------------- MODULE KeyStoreProofs --------------------------
(***************************************************************************)
(* A server whose requests are handled by a single thread implements the   *)
(* abstract store of MetadataStore, for every set of inputs.               *)
(***************************************************************************)
EXTENDS KeyHandlersProofs

SingleThread == \A s, t \in Threads : s = t

\* The operators of the instantiated module are those of this one.
LEMMA SameOperators ==
    /\ \A p, t : Store!expired(p, t) <=> expired(p, t)
    /\ \A b, m : Store!Authentic(b, m) <=> Authentic(b, m)
    /\ Store!Payload = Payload
  BY DEF Store!expired, expired, Store!WrappingAdd, WrappingAdd, Store!MinI64, MinI64,
         Store!Authentic, Authentic, Store!Payload, Payload, Store!I64, I64

\* With a single thread nothing but compaction comes between two of its steps.
LEMMA NextSerialInv ==
    ASSUME SingleThread, IInv, SerialInv, [Next]_vars
    PROVE  SerialInv'
<1> USE DEF SerialInv
<1>1. CASE Tick \/ restart \/ UNCHANGED vars
  BY <1>1 DEF Tick, restart, vars
<1>2. ASSUME NEW b \in Bodies, ttl_filter(b)
      PROVE  SerialInv'
  <2>1. UNCHANGED <<pc, req, seen>> /\ db' = [db EXCEPT ![b] = None]
    BY <1>2, GarbageAssumption DEF ttl_filter, IInv, StoredInv, Storable
  <2>2. ASSUME NEW t \in Threads, pc[t] # "idle"
        PROVE  req[t].body \in Bodies /\ db'[req[t].body] \in {None, db[req[t].body]}
    BY <2>1, <2>2 DEF IInv, RequestInv, TypeOK
  <2> QED
    BY <2>1, <2>2
<1>3. ASSUME NEW t \in Threads, Arrival(t)
      PROVE  SerialInv'
  <2>1. CASE pc' = pc /\ UNCHANGED <<db, req, seen>>
    BY <2>1
  <2>2. CASE pc'[t] = "read" /\ (req'[t].kind # "get_key" => req'[t].meta \in Inputs)
    BY <2>2 DEF SingleThread
  <2>3. \A code : Refuse(t, code) => pc' = pc /\ UNCHANGED <<db, req, seen>>
    BY DEF Refuse
  <2>4. ASSUME NEW kind, NEW body, NEW m, Begin(t, kind, body, m),
               kind = "get_key" \/ m \in Inputs
        PROVE  pc'[t] = "read" /\ (req'[t].kind # "get_key" => req'[t].meta \in Inputs)
    BY <2>4 DEF Begin, IInv, TypeOK
  <2>5. \A s, raw : put_key_check(s, raw) = "Ok" => raw # Garbage
    BY DEF put_key_check
  <2>6. \A b, raw : peer_check(b, raw) = "Ok" => raw # Garbage
    BY DEF peer_check
  <2> QED
    BY <1>3, <2>1, <2>2, <2>3, <2>4, <2>5, <2>6 DEF Arrival, get_key, put_key, peer_polling
<1>4. ASSUME NEW t \in Threads, DbStep(t)
      PROVE  SerialInv'
  <2> USE DEF IInv, TypeOK, RequestInv
  <2>1. ASSUME pc'[t] = "idle"
        PROVE  SerialInv'
    BY <2>1 DEF SingleThread
  <2>2. \A a : Reply(t, a) => pc'[t] = "idle"
    BY DEF Reply
  <2>3. \A l, m : Goto(t, l, m) => req' = req /\ seen'[t] = m
    BY DEF Goto
  <2>4. ASSUME NEW m, GetReturns(t, m), db'[req[t].body] \in {None, m}, pc[t] # "idle"
        PROVE  SerialInv'
    BY <2>1, <2>2, <2>3, <2>4 DEF GetReturns, SingleThread
  <2>5. CASE get_read(t)
    BY <2>3, <2>4, <2>5 DEF get_read, SingleThread
  <2>6. CASE get_expiry(t)
    BY <2>3, <2>4, <2>6 DEF get_expiry, SingleThread
  <2>7. CASE get_delete(t)
    BY <2>4, <2>7 DEF get_delete
  <2>8. CASE check_timestamp(t)
    BY <2>1, <2>2, <2>3, <2>8 DEF check_timestamp, SingleThread
  <2>9. CASE put(t) \/ rocks_error(t)
    BY <2>1, <2>2, <2>9 DEF put, rocks_error
  <2> QED
    BY <1>4, <2>5, <2>6, <2>7, <2>8, <2>9 DEF DbStep
<1> QED
  BY <1>1, <1>2, <1>3, <1>4 DEF Next

\* A step that leaves the clock and every live entry alone is a stutter.
LEMMA SameView ==
    ASSUME IInv, db' \in [Bodies -> AddressMetadata \cup {None}], now' = now,
           \A b \in Bodies : db'[b] = db[b] \/ (~Live(b) /\ db'[b] = None)
    PROVE  UNCHANGED <<View, now>>
  BY DEF View, Live

\* A put is a Publish of the abstract store.
LEMMA PutPublishes ==
    ASSUME SingleThread, IInv, SerialInv, NEW t \in Threads, put(t)
    PROVE  Store!Publish(req[t].body, req[t].meta) /\ req[t].meta \in Inputs
<1> DEFINE b == req[t].body
           m == req[t].meta
<1>1. /\ b \in Bodies /\ m \in Inputs /\ Storable(b, m) /\ m # None
      /\ db' = [db EXCEPT ![b] = m] /\ now' = now /\ pc[t] = "put"
  BY NoneAssumption DEF put, IInv, StepInv, RequestInv, SerialInv, Storable
<1>2. View[b] # None => m.serialized_payload.timestamp >= View[b].serialized_payload.timestamp
  BY <1>1 DEF View, Live, SerialInv, IInv, StepInv
<1>3. View' = Store!Unexpired([View EXCEPT ![b] = m], now)
  BY <1>1, SameOperators DEF View, Live, Store!Unexpired, IInv, TypeOK
<1>4. Authentic(b, m) /\ m.serialized_payload \in Payload
  BY <1>1 DEF Storable
<1> QED
  BY <1>1, <1>2, <1>3, <1>4, SameOperators DEF Store!Publish

\* The passing of time is the Pass of the abstract store.
LEMMA TickPasses ==
    ASSUME IInv, Tick
    PROVE  Store!Pass
<1>1. now \in Nat /\ now' = now + 1 /\ db' = db
  BY DEF Tick, IInv, TypeOK
<1>2. ASSUME NEW b \in Bodies, db[b] # None, expired(db[b].serialized_payload, now)
      PROVE  expired(db[b].serialized_payload, now')
  BY <1>1, <1>2, ExpiredStays DEF IInv, StoredInv, Storable
<1>3. View' = Store!Unexpired(View, now')
  BY <1>1, <1>2, SameOperators DEF View, Live, Store!Unexpired
<1> QED
  BY <1>1, <1>3 DEF Store!Pass

\* Every step of the server is a step of the abstract store or a stutter.
LEMMA NextRefines ==
    ASSUME SingleThread, IInv, SerialInv, [Next]_vars
    PROVE  [Store!Next]_<<View, now>>
<1>0. IInv'
  BY NextIInv
<1>1. CASE Tick
  BY <1>1, TickPasses DEF Store!Next
<1>2. CASE \E t \in Threads : put(t)
  <2>1. PICK t \in Threads : put(t)
    BY <1>2
  <2>2. req[t].body \in Bodies
    BY <2>1 DEF put, IInv, RequestInv
  <2> QED
    BY <2>1, <2>2, PutPublishes DEF Store!Next
<1>3. CASE ~Tick /\ ~\E t \in Threads : put(t)
  <2>1. now' = now
    BY <1>3 DEF Next, vars, restart, ttl_filter, Arrival, get_key, put_key, peer_polling, Refuse,
       Begin, DbStep, get_read, get_expiry, get_delete, check_timestamp, rocks_error
  <2>2. ASSUME NEW b \in Bodies, db'[b] # db[b]
        PROVE  ~Live(b) /\ db'[b] = None
    <3>1. CASE ttl_filter(b) /\ db'[b] = None
      BY <3>1, GarbageAssumption DEF ttl_filter, Live, IInv, StoredInv, Storable
    <3>2. ASSUME NEW t \in Threads, get_delete(t), req[t].body = b, db'[b] = None
          PROVE  ~Live(b)
      BY <3>2 DEF get_delete, Live, IInv, StepInv, SerialInv
    <3> QED
      BY <1>3, <2>2, <3>1, <3>2, WhoWrites
  <2> QED
    BY <1>0, <2>1, <2>2, SameView DEF IInv, TypeOK
<1> QED
  BY <1>1, <1>2, <1>3

\* With a single thread the server is the store its clients expect: the newest
\* authentic metadata per address until its TTL is over, nothing else.
THEOREM StoreRefinement ==
    ASSUME SingleThread
    PROVE  Spec => StoreSpec
<1>1. Init => SerialInv
  BY DEF Init, SerialInv
<1>2. Init => Store!Init
  BY DEF Init, Store!Init, View, Live
<1>3. IInv /\ SerialInv /\ [Next]_vars => SerialInv' /\ [Store!Next]_<<View, now>>
  BY NextSerialInv, NextRefines
<1> QED
  BY <1>1, <1>2, <1>3, IInvHolds, PTL DEF Spec, StoreSpec, Store!Spec
===========================================================================
