-------------------------- MODULE KeyserverProofs --------------------------
(***************************************************************************)
(* Proofs about Keyserver, for any number of clients, workers and pollers, *)
(* any addresses, URLs, updates and answers of peers, any number of faults *)
(* and restarts.                                                           *)
(*                                                                         *)
(* A step of the server with its clients is a step of the payment gate and *)
(* a step of the handlers, or leaves them alone, so that the theorems of   *)
(* PaymentsProofs and KeyHandlersProofs hold of the whole.  The invariant  *)
(* KInv adds what ties the clients to both.                                *)
(***************************************************************************)
EXTENDS Keyserver, FiniteSetTheorems, TLAPS

GateProofs == INSTANCE PaidGateProofs WITH
    Tasks <- Clients, pc <- task_pc,
    Txs <- {TxFor(a) : a \in Addrs},
    Posts <- {PostFor(a, u) : a \in Addrs, u \in Urls}

HandlersProofs == INSTANCE KeyHandlersProofs

-----------------------------------------------------------------------------
(* The inductive invariant.                                                *)

\* c waits for the gate if and only if the gate has a task of c.
Station(c) ==
    /\ client[c].at = "asking" <=> task_pc[c] = "addr"
    /\ client[c].at = "paying" <=> task_pc[c] \in {"scan", "flush", "send", "sent"}

\* What c pays is one of the bills it was sent, and it asks for its own URL.
Billed(c) ==
    /\ client[c].bills \subseteq handed
    /\ client[c].at \in {"invoiced", "paying"} => client[c].addr \in client[c].bills
    /\ client[c].at = "paying" => payment[c] = PostFor(client[c].addr, client[c].url).raw

\* Only a client that has paid holds a token, which is for the URL it asked for
\* while it puts to the one it was redirected to.
Bearer(c) ==
    /\ client[c].at \in {"acked", "uploading", "storing", "done"} => client[c].token # None
    /\ client[c].token # None =>
          /\ client[c].at \in {"acked", "uploading", "storing", "done", "refused"}
          /\ client[c].url = Normal[client[c].token.msg]
          /\ Charges(c) # {}

\* All payments of c but the one that brings it the token left it in doubt.
Charged(c) ==
    Cardinality(Charges(c)) <=
        unsure[c] + IF client[c].token # None \/ task_pc[c] = "sent" THEN 1 ELSE 0

\* Something newer than the update of c got ahead of it, paid for or pulled.
Overtaken(c) ==
    \/ \E d \in Clients : Charges(d) # {} /\ Timestamp(d) > Timestamp(c)
    \/ \E m \in pulled : m.serialized_payload.timestamp > Timestamp(c)

\* c has a reason to give up (RefusedWithCause); what has a sum to compare with the
\* clock decodes.
Cause(c) ==
    \/ client[c].error = "Address" /\ (client[c].url \notin Decodable \/ faults > 0)
    \/ client[c].error = "MismatchedNetwork" /\ faults > 0
    \/ /\ client[c].error = "InvalidAuth"
       /\ client[c].token.msg # Normal[client[c].token.msg]
    \/ client[c].error = Handlers!put_key_check(PathOf[client[c].url], MetaOf[c])
    \/ /\ client[c].error = "ExpiredTTL"
       /\ MetaOf[c].serialized_payload \in Handlers!Payload
       /\ Handlers!expired(MetaOf[c].serialized_payload, now)
    \/ client[c].error = "Outdated" /\ Overtaken(c)

ClientInv(c) ==
    /\ Station(c)
    /\ Billed(c)
    /\ Bearer(c)
    /\ Charged(c)
    /\ client[c].at = "refused" => Cause(c)

\* An invoice goes to one client.
OwnBills == \A c, d \in Clients : c # d => client[c].bills \cap client[d].bills = {}

\* Nothing is paid to an address before the node has generated it.
PaidBills == \A a \in Addrs : TxFor(a) \in chain => a \in handed

\* A worker inside put_key serves one client.
UploadInv ==
    /\ \A c \in Clients : client[c].at = "storing" =>
          /\ pc[WorkerOf[c]] # "idle"
          /\ req[WorkerOf[c]].kind = "put_key"
          /\ req[WorkerOf[c]].meta = MetaOf[c]
    /\ \A c, d \in Clients :
          /\ client[c].at = "storing" /\ client[d].at = "storing"
          /\ WorkerOf[c] = WorkerOf[d]
          => c = d

\* m is the update of a client that has paid, or was pulled.
Sourced(m) ==
    \/ \E d \in Clients : MetaOf[d] = m /\ Charges(d) # {}
    \/ m \in pulled

\* What a thread has read from the database is no different.
SeenInv ==
    \A t \in Handlers!Threads :
        /\ seen[t] # None => Sourced(seen[t])
        /\ pc[t] = "check" => seen[t] # None

\* peer_polling has in hand what a peer has answered.
PollInv == \A p \in Pollers : pc[p] # "idle" => req[p].meta \in PeerInputs

KInv ==
    /\ TypeOK
    /\ GateProofs!PInv
    /\ HandlersProofs!IInv
    /\ \A c \in Clients : ClientInv(c)
    /\ OwnBills
    /\ PaidBills
    /\ UploadInv
    /\ SeenInv
    /\ PollInv
    /\ StoredIsPaid

-----------------------------------------------------------------------------
(* What the two instances assume of their constants.                       *)

LEMMA GateAssumed == GateProofs!PaymentsAssumption
<1>1. ASSUME NEW a \in Addrs
      PROVE  TxFor(a) \in Seq(GateProofs!Outputs)
  <2>1. [value |-> 5, addr |-> a] \in GateProofs!Outputs
    BY DEF GateProofs!Outputs
  <2> QED
    BY <2>1 DEF TxFor
<1>2. ASSUME NEW a \in Addrs, NEW u \in Urls
      PROVE  PostFor(a, u) \in [content_type : BOOLEAN, accept : BOOLEAN,
                                raw : GateProofs!Payment \cup {None, Garbage}]
  <2>1. [tx |-> TxFor(a), merchant_data |-> u] \in GateProofs!Payment
    BY DEF GateProofs!Payment
  <2> QED
    BY <2>1 DEF PostFor
<1> QED
  BY <1>1, <1>2, KeyserverAssumption, DistinctAssumption
     DEF GateProofs!PaymentsAssumption, Decodable

LEMMA SameData ==
    /\ HandlersProofs!AddressMetadata = Handlers!AddressMetadata
    /\ HandlersProofs!Payload = Handlers!Payload
    /\ HandlersProofs!Signature = Handlers!Signature
  BY DEF HandlersProofs!AddressMetadata, Handlers!AddressMetadata, HandlersProofs!Payload,
         Handlers!Payload, HandlersProofs!Signature, Handlers!Signature, HandlersProofs!I64,
         Handlers!I64, HandlersProofs!MinI64, Handlers!MinI64

LEMMA HandlersAssumed ==
    /\ HandlersProofs!MetadataAssumption
    /\ HandlersProofs!NoneAssumption
    /\ HandlersProofs!GarbageAssumption
    /\ HandlersProofs!ThreadsAssumption
    /\ HandlersProofs!HandlersAssumption
  BY SameData, KeyserverAssumption, DistinctAssumption
     DEF HandlersProofs!MetadataAssumption, HandlersProofs!NoneAssumption,
         HandlersProofs!GarbageAssumption, HandlersProofs!ThreadsAssumption,
         HandlersProofs!HandlersAssumption, Inputs

\* The instances of Keyserver and those of the proofs are the same.
LEMMA SameGate ==
    /\ Gate!Init <=> GateProofs!Init
    /\ [Gate!Next]_Gate!vars <=> [GateProofs!Next]_GateProofs!vars
<1>1. Gate!Init <=> GateProofs!Init
  BY DEF Gate!Init, GateProofs!Init, Gate!NoPayment, GateProofs!NoPayment
<1>2. UNCHANGED Gate!vars <=> UNCHANGED GateProofs!vars
  BY DEF Gate!vars, GateProofs!vars, Gate!server, GateProofs!server, Gate!node,
         GateProofs!node, Gate!history, GateProofs!history
<1>3. Gate!Next <=> GateProofs!Next
  BY DEF Gate!PRICE, Gate!server, Gate!node, Gate!history, Gate!vars, Gate!NoPayment,
         Gate!HasThread, Gate!Idle, Gate!Finish, Gate!Goto, Gate!generate_token,
         Gate!validate_token, Gate!Tokens, Gate!call, Gate!call_unpaid, Gate!get_new_addr,
         Gate!get_new_addr_failed, Gate!PaymentCheck, Gate!payment_handler, Gate!Output,
         Gate!check_p2pkh, Gate!flush, Gate!node_accept, Gate!send_tx_failed, Gate!send_tx,
         Gate!disconnect, Gate!crash, Gate!Arrival, Gate!Check, Gate!Step, Gate!Next,
         GateProofs!PRICE, GateProofs!server, GateProofs!node, GateProofs!history,
         GateProofs!vars, GateProofs!NoPayment, GateProofs!HasThread, GateProofs!Idle,
         GateProofs!Finish, GateProofs!Goto, GateProofs!generate_token,
         GateProofs!validate_token, GateProofs!Tokens, GateProofs!call, GateProofs!call_unpaid,
         GateProofs!get_new_addr, GateProofs!get_new_addr_failed, GateProofs!PaymentCheck,
         GateProofs!payment_handler, GateProofs!Output, GateProofs!check_p2pkh, GateProofs!flush,
         GateProofs!node_accept, GateProofs!send_tx_failed, GateProofs!send_tx,
         GateProofs!disconnect, GateProofs!crash, GateProofs!Arrival, GateProofs!Check,
         GateProofs!Step, GateProofs!Next
<1> QED
  BY <1>1, <1>2, <1>3

LEMMA SameHandlers ==
    /\ Handlers!Init <=> HandlersProofs!Init
    /\ [Handlers!Next]_Handlers!vars <=> [HandlersProofs!Next]_HandlersProofs!vars
<1>1. Handlers!Init <=> HandlersProofs!Init
  BY DEF Handlers!Init, HandlersProofs!Init, Handlers!Threads, HandlersProofs!Threads,
         Handlers!NoRequest, HandlersProofs!NoRequest, Handlers!Answer, HandlersProofs!Answer
<1>2. UNCHANGED Handlers!vars <=> UNCHANGED HandlersProofs!vars
  BY DEF Handlers!vars, HandlersProofs!vars
<1>3. Handlers!Next <=> HandlersProofs!Next
  BY DEF Handlers!Threads, Handlers!vars, Handlers!NoRequest, Handlers!Answer, Handlers!Served,
         Handlers!Reply, Handlers!Goto, Handlers!GetReturns, Handlers!get_read,
         Handlers!get_expiry, Handlers!get_delete, Handlers!check_timestamp, Handlers!put,
         Handlers!rocks_error, Handlers!ttl_filter, Handlers!restart, Handlers!Tick,
         Handlers!DbStep, Handlers!Refuse, Handlers!Begin, Handlers!get_key,
         Handlers!put_key_check, Handlers!put_key, Handlers!peer_check, Handlers!peer_polling,
         Handlers!Arrival, Handlers!Next, Handlers!MinI64, Handlers!WrappingAdd,
         Handlers!expired, Handlers!to_raw_address, Handlers!verify, Handlers!validate,
         HandlersProofs!Threads, HandlersProofs!vars, HandlersProofs!NoRequest,
         HandlersProofs!Answer, HandlersProofs!Served, HandlersProofs!Reply, HandlersProofs!Goto,
         HandlersProofs!GetReturns, HandlersProofs!get_read, HandlersProofs!get_expiry,
         HandlersProofs!get_delete, HandlersProofs!check_timestamp, HandlersProofs!put,
         HandlersProofs!rocks_error, HandlersProofs!ttl_filter, HandlersProofs!restart,
         HandlersProofs!Tick, HandlersProofs!DbStep, HandlersProofs!Refuse, HandlersProofs!Begin,
         HandlersProofs!get_key, HandlersProofs!put_key_check, HandlersProofs!put_key,
         HandlersProofs!peer_check, HandlersProofs!peer_polling, HandlersProofs!Arrival,
         HandlersProofs!Next, HandlersProofs!MinI64, HandlersProofs!WrappingAdd,
         HandlersProofs!expired, HandlersProofs!to_raw_address, HandlersProofs!verify,
         HandlersProofs!validate
<1> QED
  BY <1>1, <1>2, <1>3

-----------------------------------------------------------------------------
(* A step of the whole is a step of the gate and a step of the handlers.   *)

\* c is in the registers of the gate and its worker among the threads.
LEMMA ClientTypes ==
    ASSUME TypeOK, NEW c \in Clients
    PROVE  /\ WorkerOf[c] \in Workers /\ WorkerOf[c] \in Handlers!Threads
           /\ MetaOf[c] \in Inputs
           /\ client[c].at # "start" => client[c].url \in Urls /\ PathOf[client[c].url] \in AddrStrs
  BY KeyserverAssumption DEF TypeOK, Handlers!Threads, Inputs

LEMMA GateStep ==
    ASSUME TypeOK, \A c \in Clients : Billed(c), Next
    PROVE  [Gate!Next]_Gate!vars
<1>1. CASE crash
  BY <1>1 DEF crash, Gate!Next
<1>2. ASSUME NEW c \in Clients, Progress(c) \/ Trouble(c)
      PROVE  [Gate!Next]_Gate!vars
  <2> USE ClientTypes DEF Gate!Next
  <2>1. ASSUME NEW url \in UrlsOf[c], ask(c, url)
        PROVE  Gate!Arrival(c)
    BY <2>1, KeyserverAssumption DEF ask, Gate!Arrival
  <2>2. ASSUME NEW a \in AddrsOf[c], invoice(c, a)
        PROVE  Gate!Step(c)
    BY <2>2, KeyserverAssumption DEF invoice, Gate!Step
  <2>3. CASE pay(c)
    <3>1. client[c].addr \in Addrs /\ client[c].url \in Urls
      BY <2>3 DEF pay, TypeOK, Billed
    <3>2. Gate!payment_handler(c, PostFor(client[c].addr, client[c].url))
      BY <2>3 DEF pay
    <3> QED
      BY <3>1, <3>2 DEF Gate!Arrival
  <2>4. CASE check(c) \/ node_accept(c) \/ send_tx(c)
    BY <2>4 DEF check, node_accept, send_tx, Gate!Step
  <2>5. CASE put_paid(c)
    <3>1. Gate!call(c, client[c].url, client[c].token) /\ client[c].url \in Urls
      BY <2>5 DEF put_paid
    <3>2. client[c].token \in {None, NotPop, Garbage} \cup Gate!Tokens
      BY <3>1 DEF Gate!call
    <3> QED
      BY <3>1, <3>2 DEF Gate!Arrival
  <2>6. CASE upload(c) \/ store(c) \/ store_failed(c) \/ put_lost(c)
    BY <2>6 DEF upload, store, store_failed, put_lost, gate, Gate!vars, Gate!server, Gate!node,
                Gate!history
  <2>7. CASE \/ \E error \in {"AddrFetchFailed", "Address", "MismatchedNetwork"} :
                   invoice_failed(c, error)
             \/ send_tx_failed(c)
             \/ disconnect(c)
    BY <2>7 DEF invoice_failed, send_tx_failed, disconnect, Gate!Step
  <2> QED
    BY <1>2, <2>1, <2>2, <2>3, <2>4, <2>5, <2>6, <2>7 DEF Progress, Trouble
<1>3. CASE Background
  <2>1. UNCHANGED gate
    BY <1>3 DEF Background, Tick, compact, serve, read, pull, pull_store, db_failed, Aside
  <2> QED
    BY <2>1 DEF gate, Gate!vars, Gate!server, Gate!node, Gate!history
<1> QED
  BY <1>1, <1>2, <1>3 DEF Next

LEMMA HandlersStep ==
    ASSUME TypeOK, Next
    PROVE  [Handlers!Next]_Handlers!vars
<1>1. CASE crash
  BY <1>1 DEF crash, Handlers!Next
<1>2. ASSUME NEW c \in Clients, Progress(c) \/ Trouble(c)
      PROVE  [Handlers!Next]_Handlers!vars
  <2>1. CASE upload(c)
    <3>1. Handlers!put_key(WorkerOf[c], PathOf[client[c].url], MetaOf[c])
      BY <2>1 DEF upload
    <3>2. client[c].at # "start"
      BY <2>1 DEF upload
    <3> QED
      BY <3>1, <3>2, ClientTypes DEF Handlers!Next, Handlers!Arrival
  <2>2. CASE store(c) \/ store_failed(c)
    BY <2>2, ClientTypes DEF store, store_failed, DbCall, Handlers!DbStep, Handlers!Next
  <2>3. CASE UNCHANGED keys
    BY <2>3 DEF keys, Handlers!vars
  <2> QED
    BY <1>2, <2>1, <2>2, <2>3 DEF Progress, Trouble, ask, invoice, pay, check, node_accept,
       send_tx, put_paid, invoice_failed, send_tx_failed, disconnect, put_lost
<1>3. CASE Background
  <2>1. ASSUME NEW t \in Handlers!Threads, DbCall(t) \/ Handlers!rocks_error(t)
        PROVE  Handlers!Next
    BY <2>1 DEF DbCall, Handlers!DbStep, Handlers!Next
  <2>2. Workers \subseteq Handlers!Threads /\ Pollers \subseteq Handlers!Threads
    BY DEF Handlers!Threads
  <2>3. CASE Tick \/ \E b \in Bodies : compact(b)
    BY <2>3 DEF Tick, compact, Handlers!Next
  <2>4. ASSUME NEW w \in Workers, serve(w) \/ \E s \in AddrStrs : read(w, s)
        PROVE  Handlers!Next
    <3>1. CASE serve(w)
      BY <2>1, <2>2, <3>1 DEF serve
    <3>2. ASSUME NEW s \in AddrStrs, read(w, s)
          PROVE  Handlers!Arrival(w)
      BY <3>2 DEF read, Handlers!Arrival
    <3> QED
      BY <2>2, <2>4, <3>1, <3>2 DEF Handlers!Next
  <2>5. ASSUME NEW p \in Pollers,
               \/ pull_store(p)
               \/ \E b \in Bodies, raw \in PeerInputs \cup {Garbage} : pull(p, b, raw)
        PROVE  Handlers!Next
    <3>1. CASE pull_store(p)
      BY <2>1, <2>2, <3>1 DEF pull_store
    <3>2. ASSUME NEW b \in Bodies, NEW raw \in PeerInputs \cup {Garbage}, pull(p, b, raw)
          PROVE  Handlers!Arrival(p)
      BY <3>2 DEF pull, Handlers!Arrival, Inputs
    <3> QED
      BY <2>2, <2>5, <3>1, <3>2 DEF Handlers!Next
  <2>6. ASSUME NEW t \in Workers \cup Pollers, db_failed(t)
        PROVE  Handlers!Next
    BY <2>1, <2>2, <2>6 DEF db_failed
  <2> QED
    BY <1>3, <2>3, <2>4, <2>5, <2>6 DEF Background
<1> QED
  BY <1>1, <1>2, <1>3 DEF Next

\* So the invariants of both survive the steps of the whole.
LEMMA PartsKept ==
    ASSUME KInv, [Next]_vars
    PROVE  GateProofs!PInv' /\ HandlersProofs!IInv'
<1>1. CASE Next
  <2>1. [GateProofs!Next]_GateProofs!vars
    BY <1>1, GateStep, SameGate DEF KInv, ClientInv
  <2>2. [HandlersProofs!Next]_HandlersProofs!vars
    BY <1>1, HandlersStep, SameHandlers DEF KInv
  <2> QED
    BY <2>1, <2>2, GateAssumed, GateProofs!NextPInv, HandlersAssumed, HandlersProofs!NextIInv
       DEF KInv
<1>2. CASE UNCHANGED vars
  <2>1. UNCHANGED GateProofs!vars
    BY <1>2 DEF vars, gate, GateProofs!vars, GateProofs!server, GateProofs!node,
                GateProofs!history
  <2>2. UNCHANGED HandlersProofs!vars
    BY <1>2 DEF vars, keys, HandlersProofs!vars
  <2> QED
    BY <2>1, <2>2, GateAssumed, GateProofs!NextPInv, HandlersAssumed, HandlersProofs!NextIInv
       DEF KInv
<1> QED
  BY <1>1, <1>2

-----------------------------------------------------------------------------
(* What the clients have of a step that does not concern them.             *)

\* TxFor tells addresses apart.
LEMMA TxForInjective ==
    ASSUME NEW a, NEW b, TxFor(a) = TxFor(b)
    PROVE  a = b
  BY DEF TxFor

\* A payload that has expired stays so while the clock goes on.
LEMMA ExpiredStays ==
    ASSUME NEW p \in Handlers!Payload, NEW t1 \in Nat, NEW t2 \in Nat, t1 <= t2,
           Handlers!expired(p, t1)
    PROVE  Handlers!expired(p, t2)
<1> DEFINE sum == Handlers!WrappingAdd(p.timestamp, p.ttl)
<1>1. sum \in Int
  BY KeyserverAssumption DEF Handlers!Payload, Handlers!I64, Handlers!MinI64,
     Handlers!WrappingAdd
<1> HIDE DEF sum
<1>2. sum < t1 => sum < t2
  BY <1>1
<1> QED
  BY <1>2 DEF Handlers!expired, sum

\* Who got ahead of a client stays there.
LEMMA OvertakenStays ==
    ASSUME \A e \in Clients : Charges(e) \subseteq Charges(e)', pulled \subseteq pulled',
           NEW d \in Clients, Overtaken(d)
    PROVE  Overtaken(d)'
<1>1. \A e \in Clients : Charges(e) # {} => Charges(e)' # {}
  OBVIOUS
<1> QED
  BY <1>1 DEF Overtaken, Timestamp

\* Nothing that holds of a client is disturbed by a step it has no part in.
LEMMA ClientKept ==
    ASSUME KInv, NEW d \in Clients,
           client'[d] = client[d] /\ unsure'[d] = unsure[d],
           task_pc'[d] = task_pc[d] /\ payment'[d] = payment[d],
           Charges(d)' = Charges(d), \A e \in Clients : Charges(e) \subseteq Charges(e)',
           handed \subseteq handed', faults' \in Nat, faults' >= faults,
           pulled \subseteq pulled', now' \in Nat, now' >= now
    PROVE  ClientInv(d)'
<1>1. ClientInv(d)
  BY DEF KInv
<1>2. Station(d)' /\ Billed(d)' /\ Bearer(d)' /\ Charged(d)'
  BY <1>1 DEF ClientInv, Station, Billed, Bearer, Charged
<1>3. ASSUME client'[d].at = "refused"
      PROVE  Cause(d)'
  <2>1. Cause(d)
    BY <1>1, <1>3 DEF ClientInv
  <2>2. CASE client[d].error = "Outdated" /\ Overtaken(d)
    BY <2>2, OvertakenStays DEF Cause
  <2>3. CASE /\ client[d].error = "ExpiredTTL"
             /\ MetaOf[d].serialized_payload \in Handlers!Payload
             /\ Handlers!expired(MetaOf[d].serialized_payload, now)
    <3>1. now \in Nat
      BY DEF KInv, HandlersProofs!IInv, HandlersProofs!TypeOK
    <3>2. Handlers!expired(MetaOf[d].serialized_payload, now')
      BY <2>3, <3>1, ExpiredStays
    <3> QED
      BY <2>3, <3>2 DEF Cause, Handlers!Payload, Handlers!I64, Handlers!MinI64,
         Handlers!expired, Handlers!WrappingAdd
  <2>4. faults > 0 => faults' > 0
    BY DEF KInv, TypeOK
  <2> QED
    BY <2>1, <2>2, <2>3, <2>4 DEF Cause,
       Handlers!put_key_check, Handlers!validate, Handlers!to_raw_address, Handlers!verify
<1> QED
  BY <1>2, <1>3 DEF ClientInv

\* So with a step of another client.
LEMMA OthersKept ==
    ASSUME KInv, NEW c \in Clients,
           \A d \in Clients \ {c} :
               /\ client'[d] = client[d] /\ unsure'[d] = unsure[d]
               /\ task_pc'[d] = task_pc[d] /\ payment'[d] = payment[d]
               /\ Charges(d)' = Charges(d),
           Charges(c) \subseteq Charges(c)', UNCHANGED pulled,
           handed \subseteq handed', faults' \in Nat, faults' >= faults, now' = now
    PROVE  \A d \in Clients \ {c} : ClientInv(d)'
<1>1. now \in Nat /\ now' >= now
  BY DEF KInv, HandlersProofs!IInv, HandlersProofs!TypeOK
<1>2. \A e \in Clients : Charges(e) \subseteq Charges(e)'
  OBVIOUS
<1>3. ASSUME NEW d \in Clients \ {c}
      PROVE  ClientInv(d)'
  BY <1>1, <1>2, ClientKept
<1> QED
  BY <1>3

\* What was paid for stays paid for, and what was pulled stays pulled.
LEMMA SourcedStays ==
    ASSUME \A d \in Clients : Charges(d) \subseteq Charges(d)', pulled \subseteq pulled',
           NEW m, Sourced(m)
    PROVE  Sourced(m)'
  BY DEF Sourced

\* So with a step that touches neither the database nor the node, nor the bills.
LEMMA GateSide ==
    ASSUME KInv, NEW c \in Clients,
           \A d \in Clients \ {c} :
               /\ client'[d] = client[d] /\ unsure'[d] = unsure[d]
               /\ task_pc'[d] = task_pc[d] /\ payment'[d] = payment[d],
           client'[c].bills = client[c].bills,
           client'[c].at = "storing" => client[c].at = "storing",
           UNCHANGED <<keys, chain, handed>>, faults' \in Nat, faults' >= faults,
           UNCHANGED <<pulled, visits>>,
           ClientInv(c)', TypeOK', GateProofs!PInv', HandlersProofs!IInv'
    PROVE  KInv'
<1>1. \A d \in Clients : client'[d].bills = client[d].bills
  OBVIOUS
<1>2. \A d \in Clients : Charges(d)' = Charges(d)
  BY <1>1 DEF Charges
<1>3. \A d \in Clients : ClientInv(d)'
  BY <1>2, OthersKept DEF keys
<1>4. OwnBills' /\ PaidBills'
  BY <1>1 DEF KInv, OwnBills, PaidBills
<1>5. UploadInv'
  BY DEF KInv, UploadInv, keys
<1>6. SeenInv' /\ PollInv' /\ StoredIsPaid'
  BY <1>2, SourcedStays DEF KInv, SeenInv, PollInv, StoredIsPaid, keys
<1> QED
  BY <1>3, <1>4, <1>5, <1>6 DEF KInv

-----------------------------------------------------------------------------
(* The steps of a client at the gate.                                      *)

\* What the gate does with the task of c it does not do with others.
LEMMA Finished ==
    ASSUME KInv, NEW c \in Clients, Gate!Finish(c)
    PROVE  /\ task_pc'[c] = "idle"
           /\ \A d \in Clients \ {c} : task_pc'[d] = task_pc[d] /\ payment'[d] = payment[d]
  BY DEF Gate!Finish, KInv, GateProofs!PInv, GateProofs!TypeOK

LEMMA Went ==
    ASSUME KInv, NEW c \in Clients, NEW label, Gate!Goto(c, label)
    PROVE  /\ task_pc'[c] = label
           /\ payment'[c] = payment[c]
           /\ \A d \in Clients \ {c} : task_pc'[d] = task_pc[d] /\ payment'[d] = payment[d]
  BY DEF Gate!Goto, KInv, GateProofs!PInv, GateProofs!TypeOK

\* Where a client stands without a token, and what it has paid by then.
LEMMA Tokenless ==
    ASSUME KInv, NEW c \in Clients,
           client[c].at \in {"start", "asking", "invoiced", "paying"}
    PROVE  client[c].token = None /\ client[c].bills \subseteq Addrs /\ unsure[c] \in Nat
  BY DEF KInv, ClientInv, Bearer, TypeOK

\* There are only so many addresses to charge for.
LEMMA FiniteCharges ==
    ASSUME KInv, NEW c \in Clients
    PROVE  /\ Charges(c) \subseteq Addrs
           /\ IsFiniteSet(Charges(c))
           /\ Cardinality(Charges(c)) \in Nat
<1>1. Charges(c) \subseteq Addrs
  BY DEF KInv, TypeOK, Charges
<1>2. IsFiniteSet(Addrs)
  BY FS_Interval, KeyserverAssumption DEF Addrs
<1> QED
  BY <1>1, <1>2, FS_Subset, FS_CardinalityType

\* A fault is put down to a client that waits for the answer to its payment.
LEMMA Faulted ==
    ASSUME KInv, NEW c \in Clients, Fault(c)
    PROVE  /\ faults' \in Nat /\ faults' > 0 /\ faults' >= faults
           /\ unsure' \in [Clients -> Nat]
           /\ \A d \in Clients \ {c} : unsure'[d] = unsure[d]
           /\ unsure'[c] = IF client[c].at = "paying" THEN unsure[c] + 1 ELSE unsure[c]
  BY DEF Fault, KInv, TypeOK

\* A client that is charged no more and is in doubt about more stays within bounds.
LEMMA ChargedStays ==
    ASSUME KInv, NEW c \in Clients, Charges(c)' = Charges(c), client'[c].token = client[c].token,
           unsure'[c] \in Nat, unsure'[c] >= unsure[c],
           task_pc[c] = "sent" => task_pc'[c] = "sent" \/ unsure'[c] > unsure[c]
    PROVE  Charged(c)'
<1>1. Charged(c) /\ unsure[c] \in Nat
  BY DEF KInv, ClientInv, TypeOK
<1>2. Cardinality(Charges(c)) \in Nat
  BY FiniteCharges
<1> DEFINE n == Cardinality(Charges(c))
<1>3. n <= unsure[c] + IF client[c].token # None \/ task_pc[c] = "sent" THEN 1 ELSE 0
  BY <1>1 DEF Charged
<1>4. Cardinality(Charges(c)') = n
  OBVIOUS
<1> HIDE DEF n
<1>5. n <= unsure'[c] + IF client'[c].token # None \/ task_pc'[c] = "sent" THEN 1 ELSE 0
  BY <1>1, <1>2, <1>3 DEF n
<1> QED
  BY <1>4, <1>5 DEF Charged

ClientRecords ==
    [at : Stations, url : Urls \cup {None}, bills : SUBSET Addrs,
     addr : Addrs \cup {None}, error : PaymentErrors \cup Handlers!Codes \cup {None},
     token : [msg : Urls, secret : {"server"}] \cup {None}]

\* A step that writes to the record of c has its type to account for.
LEMMA Retyped ==
    ASSUME KInv, NEW c \in Clients, client' = [client EXCEPT ![c] = client'[c]],
           client'[c] \in ClientRecords, client'[c].at # "start" => client'[c].url \in Urls,
           unsure' \in [Clients -> Nat], faults' \in Nat, UNCHANGED <<pulled, visits>>
    PROVE  TypeOK'
<1>1. \A d \in Clients \ {c} : client'[d] = client[d]
  BY DEF KInv, TypeOK
<1>2. client' \in [Clients -> ClientRecords]
  BY DEF KInv, TypeOK, ClientRecords
<1> QED
  BY <1>1, <1>2 DEF KInv, TypeOK, ClientRecords

LEMMA AskKept ==
    ASSUME KInv, NEW c \in Clients, NEW url \in UrlsOf[c], ask(c, url),
           UNCHANGED <<pulled, visits>>,
           GateProofs!PInv', HandlersProofs!IInv'
    PROVE  KInv'
<1>1. url \in Urls /\ client[c].at = "start" /\ client[c].token = None
  BY KeyserverAssumption, Tokenless DEF ask
<1>2. TypeOK'
  BY <1>1 DEF ask, KInv, TypeOK, Stations, NoFault, PaymentErrors, Handlers!Codes
<1>3. /\ client'[c].bills = client[c].bills /\ client'[c].token = None
      /\ client'[c].url = url
      /\ \/ client'[c].at = "asking" /\ url \in Decodable
         \/ client'[c].at = "refused" /\ url \notin Decodable /\ client'[c].error = "Address"
      /\ \A d \in Clients \ {c} : client'[d] = client[d]
  BY <1>1 DEF ask, KInv, TypeOK
<1>4. /\ IF url \in Decodable THEN Gate!Goto(c, "addr") ELSE Gate!Finish(c)
      /\ UNCHANGED <<keys, chain, handed>>
  <2>1. Gate!Tokens \subseteq [msg : Urls, secret : {"server", "other"}]
    BY DEF Gate!Tokens, Gate!generate_token, KInv, GateProofs!PInv, GateProofs!TypeOK
  <2>2. None \notin {NotPop, Garbage} \cup Gate!Tokens
    BY <2>1, DistinctAssumption
  <2> QED
    BY <2>2 DEF ask, Gate!call, Gate!node
<1>5. /\ task_pc'[c] = IF url \in Decodable THEN "addr" ELSE "idle"
      /\ \A d \in Clients \ {c} : task_pc'[d] = task_pc[d] /\ payment'[d] = payment[d]
  BY <1>4, Finished, Went
<1>6. unsure' = unsure /\ faults' = faults /\ Charges(c)' = Charges(c)
  BY <1>3, <1>4 DEF ask, NoFault, Charges
<1>7. ClientInv(c)'
  <2>1. Station(c)' /\ Billed(c)' /\ Bearer(c)'
    BY <1>3, <1>4, <1>5 DEF KInv, ClientInv, Station, Billed, Bearer
  <2>2. Charged(c)'
    BY <1>1, <1>3, <1>5, <1>6 DEF KInv, ClientInv, Station, Charged
  <2>3. client'[c].at = "refused" => Cause(c)'
    BY <1>3 DEF Cause, Decodable
  <2> QED
    BY <2>1, <2>2, <2>3 DEF ClientInv
<1> QED
  BY <1>2, <1>3, <1>4, <1>5, <1>6, <1>7, GateSide DEF KInv, TypeOK

LEMMA PayKept ==
    ASSUME KInv, NEW c \in Clients, pay(c), UNCHANGED <<pulled, visits>>,
           GateProofs!PInv', HandlersProofs!IInv'
    PROVE  KInv'
<1>1. client[c].at = "invoiced" /\ client[c].token = None /\ Billed(c)
  BY Tokenless DEF pay, KInv, ClientInv
<1>2. TypeOK'
  BY <1>1 DEF pay, Move, KInv, TypeOK, Stations, NoFault
<1>3. /\ client'[c] = [client[c] EXCEPT !.at = "paying"]
      /\ \A d \in Clients \ {c} : client'[d] = client[d]
  BY DEF pay, Move, KInv, TypeOK
<1>4. /\ client'[c].at = "paying"
      /\ client'[c].bills = client[c].bills /\ client'[c].token = client[c].token
      /\ client'[c].addr = client[c].addr /\ client'[c].url = client[c].url
  BY <1>3 DEF KInv, TypeOK
<1>5. Gate!PaymentCheck(PostFor(client[c].addr, client[c].url)) = "Ok"
  <2>1. client[c].addr \in Addrs /\ client[c].url \in Urls
    BY <1>1 DEF Billed, KInv, TypeOK
  <2>2. PICK post : post = PostFor(client[c].addr, client[c].url)
    OBVIOUS
  <2>3. /\ post.content_type = TRUE /\ post.accept = TRUE
        /\ post.raw.tx = TxFor(client[c].addr)
    BY <2>2 DEF PostFor
  <2>4. post.raw \notin {None, Garbage} /\ post.raw.tx # Garbage
    BY <2>1, <2>2, <2>3, DistinctAssumption
  <2>5. post.raw.tx # None
    BY <2>1, <2>3, DistinctAssumption
  <2> QED
    BY <2>2, <2>3, <2>4, <2>5 DEF Gate!PaymentCheck
<1>6. /\ task_pc' = [task_pc EXCEPT ![c] = "scan"]
      /\ payment' = [payment EXCEPT ![c] = PostFor(client[c].addr, client[c].url).raw]
      /\ UNCHANGED <<keys, chain, handed>>
  BY <1>5 DEF pay, Gate!payment_handler, Gate!node
<1>7. /\ task_pc'[c] = "scan" /\ task_pc[c] # "sent"
      /\ payment'[c] = PostFor(client[c].addr, client[c].url).raw
      /\ \A d \in Clients \ {c} : task_pc'[d] = task_pc[d] /\ payment'[d] = payment[d]
  BY <1>1, <1>6 DEF KInv, ClientInv, Station, GateProofs!PInv, GateProofs!TypeOK
<1>8. /\ unsure' = unsure /\ faults' = faults /\ unsure[c] \in Nat
      /\ faults' \in Nat /\ faults' >= faults
  BY DEF pay, NoFault, KInv, TypeOK
<1>9. ClientInv(c)'
  <2>1. Charges(c)' = Charges(c)
    BY <1>4, <1>6 DEF Charges
  <2>2. Charged(c)'
    BY <1>4, <1>7, <1>8, <2>1, ChargedStays
  <2>3. Billed(c)'
    BY <1>1, <1>4, <1>6, <1>7 DEF Billed, PostFor, TxFor
  <2> QED
    BY <1>1, <1>4, <1>7, <2>2, <2>3 DEF ClientInv, Station, Bearer
<1> QED
  BY <1>2, <1>3, <1>4, <1>6, <1>7, <1>8, <1>9, GateSide

\* check_outputs, of which a client learns only when it finds nothing.
LEMMA CheckKept ==
    ASSUME KInv, NEW c \in Clients, check(c), UNCHANGED <<pulled, visits>>,
           GateProofs!PInv', HandlersProofs!IInv'
    PROVE  KInv'
<1>1. task_pc[c] \in {"scan", "flush"} /\ client[c].at = "paying" /\ client[c].token = None
  BY Tokenless DEF check, Gate!Check, Gate!check_p2pkh, Gate!flush, KInv, ClientInv, Station
<1>2. /\ task_pc'[c] \in {"idle", "scan", "flush", "send"}
      /\ task_pc'[c] # "idle" => payment'[c] = payment[c]
      /\ \A d \in Clients \ {c} : task_pc'[d] = task_pc[d] /\ payment'[d] = payment[d]
      /\ UNCHANGED <<keys, chain, handed>>
  <2>1. CASE Gate!check_p2pkh(c)
    <3>1. \/ Gate!Finish(c)
          \/ Gate!Goto(c, "flush")
          \/ task_pc[c] = "scan" /\ UNCHANGED <<task_pc, payment>>
      BY <2>1 DEF Gate!check_p2pkh
    <3>2. UNCHANGED <<keys, chain, handed>>
      BY <2>1 DEF Gate!check_p2pkh, Gate!node, check
    <3> QED
      BY <3>1, <3>2, Finished, Went
  <2>2. CASE Gate!flush(c)
    <3>1. Gate!Goto(c, "send") /\ UNCHANGED <<keys, chain, handed>>
      BY <2>2 DEF Gate!flush, Gate!node, check
    <3> QED
      BY <3>1, Went
  <2> QED
    BY <2>1, <2>2 DEF check, Gate!Check
<1>3. TypeOK'
  BY <1>1, <1>2 DEF check, Move, KInv, TypeOK, Stations, NoFault
<1>4. /\ client'[c].at = IF task_pc'[c] = "idle" THEN "start" ELSE "paying"
      /\ client'[c].bills = client[c].bills /\ client'[c].token = client[c].token
      /\ client'[c].addr = client[c].addr /\ client'[c].url = client[c].url
      /\ \A d \in Clients \ {c} : client'[d] = client[d]
  BY <1>1 DEF check, Move, KInv, TypeOK
<1>5. /\ unsure' = unsure /\ faults' = faults /\ unsure[c] \in Nat
      /\ faults' \in Nat /\ faults' >= faults
  BY DEF check, NoFault, KInv, TypeOK
<1>6. ClientInv(c)'
  <2>1. Charges(c)' = Charges(c)
    BY <1>2, <1>4 DEF Charges
  <2>2. Charged(c)'
    BY <1>1, <1>4, <1>5, <2>1, ChargedStays
  <2>3. Billed(c)'
    BY <1>1, <1>2, <1>4 DEF KInv, ClientInv, Billed, PostFor, TxFor
  <2> QED
    BY <1>1, <1>2, <1>4, <2>2, <2>3 DEF ClientInv, Station, Bearer
<1> QED
  BY <1>1, <1>2, <1>3, <1>4, <1>5, <1>6, GateSide

\* The client asks again after InvalidTx.
LEMMA SendFailedKept ==
    ASSUME KInv, NEW c \in Clients, send_tx_failed(c), UNCHANGED <<pulled, visits>>,
           GateProofs!PInv', HandlersProofs!IInv'
    PROVE  KInv'
<1>1. client[c].at = "paying" /\ client[c].token = None /\ unsure[c] \in Nat
  BY Tokenless DEF send_tx_failed, Gate!send_tx_failed, KInv, ClientInv, Station
<1>2. Gate!Finish(c) /\ UNCHANGED <<keys, chain, handed>>
  BY DEF send_tx_failed, Gate!send_tx_failed, Gate!node
<1>3. /\ client' = [client EXCEPT ![c].at = "start"]
      /\ Fault(c)
  BY DEF send_tx_failed, Move
<1>4. TypeOK'
  <2>1. /\ unsure' \in [Clients -> Nat] /\ faults' \in Nat
    BY <1>3, Faulted
  <2>2. client' = [client EXCEPT ![c] = [client[c] EXCEPT !.at = "start"]]
    BY <1>3
  <2>3. \A d \in Clients : client'[d].at # "start" => client'[d].url \in Urls
    BY <2>2 DEF KInv, TypeOK
  <2> QED
    BY <2>1, <2>2, <2>3, ZenonT(60) DEF KInv, TypeOK, Stations
<1>5. /\ client'[c].at = "start"
      /\ client'[c].bills = client[c].bills /\ client'[c].token = client[c].token
      /\ \A d \in Clients \ {c} : client'[d] = client[d]
  BY <1>3 DEF KInv, TypeOK
<1>6. ClientInv(c)'
  <2>1. Charges(c)' = Charges(c)
    BY <1>2, <1>5 DEF Charges
  <2>2. unsure'[c] \in Nat /\ unsure'[c] > unsure[c] /\ unsure'[c] >= unsure[c]
    BY <1>1, <1>3, Faulted
  <2>3. Charged(c)'
    BY <1>5, <2>1, <2>2, ChargedStays
  <2>4. task_pc'[c] = "idle"
    BY <1>2, Finished
  <2> QED
    BY <1>1, <1>2, <1>5, <2>3, <2>4 DEF KInv, ClientInv, Station, Billed, Bearer
<1> QED
  BY <1>2, <1>3, <1>4, <1>5, <1>6, Finished, Faulted, GateSide

\* A client that lost its connection takes up where it was.
LEMMA DisconnectKept ==
    ASSUME KInv, NEW c \in Clients, disconnect(c), UNCHANGED <<pulled, visits>>,
           GateProofs!PInv', HandlersProofs!IInv'
    PROVE  KInv'
<1>1. /\ client[c].at \in {"asking", "paying"} /\ client[c].token = None /\ unsure[c] \in Nat
      /\ client[c].at = "asking" => task_pc[c] = "addr"
  BY Tokenless DEF disconnect, Gate!disconnect, KInv, ClientInv, Station
<1>2. Gate!Finish(c) /\ UNCHANGED <<keys, chain, handed>>
  BY DEF disconnect, Gate!disconnect, Gate!node
<1>3. /\ client' = [client EXCEPT ![c].at = IF client[c].at = "asking" THEN "start" ELSE "invoiced"]
      /\ Fault(c)
  BY <1>1 DEF disconnect, Move, Resume
<1>4. TypeOK'
  BY <1>1, <1>3, Faulted DEF KInv, TypeOK, Stations
<1>5. /\ client'[c].at = IF client[c].at = "asking" THEN "start" ELSE "invoiced"
      /\ client'[c].bills = client[c].bills /\ client'[c].token = client[c].token
      /\ client'[c].addr = client[c].addr
      /\ \A d \in Clients \ {c} : client'[d] = client[d]
  BY <1>3 DEF KInv, TypeOK
<1>6. ClientInv(c)'
  <2>1. Charges(c)' = Charges(c)
    BY <1>2, <1>5 DEF Charges
  <2>2. /\ unsure'[c] \in Nat /\ unsure'[c] >= unsure[c]
        /\ client[c].at = "paying" => unsure'[c] > unsure[c]
    BY <1>1, <1>3, Faulted
  <2>3. Charged(c)'
    BY <1>1, <1>5, <2>1, <2>2, ChargedStays
  <2>4. task_pc'[c] = "idle"
    BY <1>2, Finished
  <2> QED
    BY <1>1, <1>2, <1>5, <2>3, <2>4 DEF KInv, ClientInv, Station, Billed, Bearer
<1> QED
  BY <1>1, <1>2, <1>3, <1>4, <1>5, <1>6, Finished, Faulted, GateSide

\* An upload or its answer is lost, and the token serves again.
LEMMA PutLostKept ==
    ASSUME KInv, NEW c \in Clients, put_lost(c), UNCHANGED <<pulled, visits>>,
           GateProofs!PInv', HandlersProofs!IInv'
    PROVE  KInv'
<1>1. /\ client[c].at \in {"uploading", "done"} /\ client[c].token # None
      /\ task_pc[c] \notin {"addr", "scan", "flush", "send", "sent"}
  BY DEF put_lost, KInv, ClientInv, Bearer, Station
<1>2. UNCHANGED <<keys, chain, handed>> /\ UNCHANGED <<task_pc, payment>>
  BY DEF put_lost, gate
<1>3. client' = [client EXCEPT ![c].at = "acked"] /\ Fault(c)
  BY DEF put_lost, Move
<1>4. /\ client'[c].at = "acked"
      /\ client'[c].bills = client[c].bills /\ client'[c].token = client[c].token
      /\ client'[c].url = client[c].url
      /\ \A d \in Clients \ {c} : client'[d] = client[d]
  BY <1>3 DEF KInv, TypeOK
<1>5. TypeOK'
  <2>1. unsure' \in [Clients -> Nat] /\ faults' \in Nat
    BY <1>3, Faulted
  <2>2. client' = [client EXCEPT ![c] = client'[c]]
    BY <1>3 DEF KInv, TypeOK
  <2>3. client'[c] \in ClientRecords
    BY <1>3 DEF KInv, TypeOK, ClientRecords, Stations
  <2> QED
    BY <1>1, <1>4, <2>1, <2>2, <2>3, Retyped DEF KInv, TypeOK
<1>6. ClientInv(c)'
  <2>1. Charges(c)' = Charges(c)
    BY <1>2, <1>4 DEF Charges
  <2>2. unsure'[c] \in Nat /\ unsure'[c] >= unsure[c]
    BY <1>1, <1>3, Faulted DEF KInv, TypeOK
  <2>3. Charged(c)'
    BY <1>1, <1>4, <2>1, <2>2, ChargedStays
  <2> QED
    BY <1>1, <1>2, <1>4, <2>1, <2>3 DEF KInv, ClientInv, Station, Billed, Bearer
<1> QED
  BY <1>2, <1>3, <1>4, <1>5, <1>6, Faulted, GateSide

\* The node fails before there is an invoice, or is not configured for this server.
LEMMA InvoiceFailedKept ==
    ASSUME KInv, NEW c \in Clients,
           NEW error \in {"AddrFetchFailed", "Address", "MismatchedNetwork"},
           invoice_failed(c, error), UNCHANGED <<pulled, visits>>,
           GateProofs!PInv', HandlersProofs!IInv'
    PROVE  KInv'
<1>1. client[c].at = "asking" /\ client[c].token = None /\ task_pc[c] = "addr"
  BY Tokenless DEF invoice_failed, Gate!get_new_addr_failed, KInv, ClientInv, Station
<1>2. Gate!Finish(c) /\ UNCHANGED <<keys, chain, handed>>
  BY DEF invoice_failed, Gate!get_new_addr_failed, Gate!node
<1>3. /\ client' = IF error = "AddrFetchFailed"
                   THEN [client EXCEPT ![c].at = "start", ![c].error = None]
                   ELSE [client EXCEPT ![c].at = "refused", ![c].error = error]
      /\ Fault(c)
  <2>1. error_response(error) = IF error = "AddrFetchFailed" THEN 500 ELSE 400
    <3>1. CASE error = "AddrFetchFailed"
      BY <3>1 DEF error_response, payment_error_response, PaymentErrors
    <3>2. CASE error = "Address"
      BY <3>2 DEF error_response, PaymentErrors
    <3>3. CASE error = "MismatchedNetwork"
      BY <3>3 DEF error_response, payment_error_response, PaymentErrors
    <3> QED
      BY <3>1, <3>2, <3>3
  <2>2. React(c, error, "start") /\ Fault(c)
    BY DEF invoice_failed
  <2>3. CASE error = "AddrFetchFailed"
    BY <2>1, <2>2, <2>3 DEF React
  <2>4. CASE error # "AddrFetchFailed"
    BY <2>1, <2>2, <2>4 DEF React
  <2> QED
    BY <2>2, <2>3, <2>4
<1>4. /\ client'[c].at \in {"start", "refused"}
      /\ client'[c].at = "refused" => client'[c].error \in {"Address", "MismatchedNetwork"}
      /\ client'[c].bills = client[c].bills /\ client'[c].token = client[c].token
      /\ client'[c].url = client[c].url
      /\ \A d \in Clients \ {c} : client'[d] = client[d]
  BY <1>3 DEF KInv, TypeOK
<1>5. TypeOK'
  <2>1. unsure' \in [Clients -> Nat] /\ faults' \in Nat
    BY <1>3, Faulted
  <2>2. client' = [client EXCEPT ![c] = client'[c]]
    BY <1>3 DEF KInv, TypeOK
  <2>3. client'[c] \in ClientRecords
    <3>1. client[c] \in ClientRecords
      BY DEF KInv, TypeOK, ClientRecords
    <3>2. \/ client'[c] = [client[c] EXCEPT !.at = "start", !.error = None]
          \/ client'[c] = [client[c] EXCEPT !.at = "refused", !.error = error]
      BY <1>3 DEF KInv, TypeOK
    <3> QED
      BY <3>1, <3>2, ZenonT(60) DEF ClientRecords, Stations, PaymentErrors, Handlers!Codes
  <2> QED
    BY <1>1, <1>4, <2>1, <2>2, <2>3, Retyped DEF KInv, TypeOK
<1>6. ClientInv(c)'
  <2>1. Charges(c)' = Charges(c)
    BY <1>2, <1>4 DEF Charges
  <2>2. unsure'[c] \in Nat /\ unsure'[c] >= unsure[c] /\ faults' > 0
    BY <1>1, <1>3, Faulted DEF KInv, TypeOK
  <2>3. Charged(c)'
    BY <1>1, <1>4, <2>1, <2>2, ChargedStays
  <2>4. task_pc'[c] = "idle"
    BY <1>2, Finished
  <2>5. client'[c].at = "refused" => Cause(c)'
    BY <1>4, <2>2 DEF Cause
  <2> QED
    BY <1>1, <1>2, <1>4, <2>3, <2>4, <2>5 DEF KInv, ClientInv, Station, Billed, Bearer
<1> QED
  BY <1>2, <1>3, <1>4, <1>5, <1>6, Finished, Faulted, GateSide, ZenonT(60)

\* The answer to a payment brings the token, and the client has been charged.
LEMMA SendKept ==
    ASSUME KInv, NEW c \in Clients, send_tx(c), UNCHANGED <<pulled, visits>>,
           GateProofs!PInv', HandlersProofs!IInv'
    PROVE  KInv'
<1>1. /\ task_pc[c] = "sent" /\ client[c].at = "paying" /\ client[c].url \in Urls
      /\ client[c].token = None
  BY Tokenless DEF send_tx, Gate!send_tx, KInv, ClientInv, Station, TypeOK
<1>2. Gate!Finish(c) /\ UNCHANGED <<keys, chain, handed>>
  BY DEF send_tx, Gate!send_tx, Gate!node
<1>3. client' = [client EXCEPT ![c].at = "acked",
                               ![c].url = Normal[client[c].url],
                               ![c].token = [msg |-> client[c].url, secret |-> "server"]]
  BY DEF send_tx, redirect_url, Gate!generate_token
<1>4. /\ client'[c].at = "acked" /\ client'[c].bills = client[c].bills
      /\ client'[c].url = Normal[client[c].url]
      /\ client'[c].token = [msg |-> client[c].url, secret |-> "server"]
      /\ \A d \in Clients \ {c} : client'[d] = client[d]
  BY <1>3 DEF KInv, TypeOK
<1>5. Normal[client[c].url] \in Urls
  BY <1>1, KeyserverAssumption
<1>6. /\ unsure' = unsure /\ faults' = faults /\ unsure[c] \in Nat
      /\ faults' \in Nat /\ faults' >= faults
  BY DEF send_tx, NoFault, KInv, TypeOK
<1>7. TypeOK'
  <2>1. unsure' \in [Clients -> Nat]
    BY <1>6 DEF KInv, TypeOK
  <2>2. client' = [client EXCEPT ![c] = client'[c]]
    BY <1>3 DEF KInv, TypeOK
  <2>3. client'[c] \in ClientRecords
    <3>1. client[c] \in ClientRecords
      BY DEF KInv, TypeOK, ClientRecords
    <3>2. client'[c] = [client[c] EXCEPT !.at = "acked", !.url = Normal[client[c].url],
                                         !.token = [msg |-> client[c].url, secret |-> "server"]]
      BY <1>3 DEF KInv, TypeOK
    <3>3. [msg |-> client[c].url, secret |-> "server"] \in [msg : Urls, secret : {"server"}]
      BY <1>1
    <3> QED
      BY <1>5, <3>1, <3>2, <3>3 DEF ClientRecords, Stations
  <2> QED
    BY <1>4, <1>5, <1>6, <2>1, <2>2, <2>3, Retyped
<1>8. client'[c].token # None /\ client'[c].token.msg = client[c].url
  BY <1>1, <1>4, DistinctAssumption
<1>9. ClientInv(c)'
  <2>1. Charges(c)' = Charges(c)
    BY <1>2, <1>4 DEF Charges
  <2>2. Charges(c) # {}
    <3>1. payment[c].tx \in chain
      BY <1>1 DEF KInv, GateProofs!PInv, GateProofs!TaskInv
    <3>2. payment[c].tx = TxFor(client[c].addr)
      <4>1. payment[c] = PostFor(client[c].addr, client[c].url).raw
        BY <1>1 DEF KInv, ClientInv, Billed
      <4> QED
        BY <4>1 DEF PostFor
    <3>3. client[c].addr \in client[c].bills
      BY <1>1 DEF KInv, ClientInv, Billed
    <3> QED
      BY <3>1, <3>2, <3>3 DEF Charges
  <2>3. Charged(c)'
    BY <1>1, <1>6, <1>8, <2>1 DEF KInv, ClientInv, Charged
  <2>4. task_pc'[c] = "idle"
    BY <1>2, Finished
  <2>5. Billed(c)' /\ Station(c)'
    BY <1>1, <1>2, <1>4, <2>4 DEF KInv, ClientInv, Station, Billed
  <2>6. Bearer(c)'
    BY <1>4, <1>8, <2>1, <2>2 DEF Bearer
  <2> QED
    BY <1>4, <2>3, <2>5, <2>6 DEF ClientInv
<1> QED
  BY <1>2, <1>4, <1>6, <1>7, <1>9, Finished, GateSide

\* The token is good for the URL it was made for, and is refused only when the
\* redirect names another form of it.
LEMMA PutPaidKept ==
    ASSUME KInv, NEW c \in Clients, put_paid(c), UNCHANGED <<pulled, visits>>,
           GateProofs!PInv', HandlersProofs!IInv'
    PROVE  KInv'
<1>1. /\ client[c].at = "acked" /\ client[c].token # None
      /\ client[c].token \in [msg : Urls, secret : {"server"}]
      /\ client[c].url = Normal[client[c].token.msg]
      /\ task_pc[c] \notin {"addr", "scan", "flush", "send", "sent"}
  BY DEF put_paid, KInv, ClientInv, Bearer, Station, TypeOK
<1>2. Gate!Finish(c) /\ UNCHANGED <<keys, chain, handed>>
  BY <1>1 DEF put_paid, Gate!call, Gate!node
<1>3. client' = IF client[c].token = [msg |-> client[c].url, secret |-> "server"]
                THEN [client EXCEPT ![c].at = "uploading"]
                ELSE [client EXCEPT ![c].at = "refused", ![c].error = "InvalidAuth"]
  BY DEF put_paid, Move, React, error_response, payment_error_response, PaymentErrors,
         Gate!validate_token, Gate!generate_token
<1>4. /\ client'[c].at \in {"uploading", "refused"}
      /\ client'[c].at = "refused" =>
            /\ client'[c].error = "InvalidAuth"
            /\ client[c].token # [msg |-> client[c].url, secret |-> "server"]
      /\ client'[c].bills = client[c].bills /\ client'[c].token = client[c].token
      /\ client'[c].url = client[c].url
      /\ \A d \in Clients \ {c} : client'[d] = client[d]
  BY <1>3 DEF KInv, TypeOK
<1>5. /\ unsure' = unsure /\ faults' = faults /\ unsure[c] \in Nat /\ unsure'[c] >= unsure[c]
      /\ faults' \in Nat /\ faults' >= faults
  BY DEF put_paid, NoFault, KInv, TypeOK
<1>6. TypeOK'
  <2>1. unsure' \in [Clients -> Nat]
    BY <1>5 DEF KInv, TypeOK
  <2>2. client' = [client EXCEPT ![c] = client'[c]]
    BY <1>3 DEF KInv, TypeOK
  <2>3. client'[c] \in ClientRecords
    <3>1. client[c] \in ClientRecords
      BY DEF KInv, TypeOK, ClientRecords
    <3>2. \/ client'[c] = [client[c] EXCEPT !.at = "uploading"]
          \/ client'[c] = [client[c] EXCEPT !.at = "refused", !.error = "InvalidAuth"]
      BY <1>3 DEF KInv, TypeOK
    <3> QED
      BY <3>1, <3>2, ZenonT(60) DEF ClientRecords, Stations, PaymentErrors, Handlers!Codes
  <2> QED
    BY <1>1, <1>4, <1>5, <2>1, <2>2, <2>3, Retyped DEF KInv, TypeOK
<1>7. ClientInv(c)'
  <2>1. Charges(c)' = Charges(c)
    BY <1>2, <1>4 DEF Charges
  <2>2. Charged(c)'
    BY <1>1, <1>4, <1>5, <2>1, ChargedStays
  <2>3. task_pc'[c] = "idle"
    BY <1>2, Finished
  <2>4. Billed(c)' /\ Station(c)' /\ Bearer(c)'
    BY <1>1, <1>2, <1>4, <2>1, <2>3 DEF KInv, ClientInv, Station, Billed, Bearer
  <2>5. client'[c].at = "refused" => Cause(c)'
    BY <1>1, <1>4 DEF Cause
  <2> QED
    BY <2>2, <2>4, <2>5 DEF ClientInv
<1> QED
  BY <1>1, <1>2, <1>4, <1>5, <1>6, <1>7, Finished, GateSide

\* An invoice adds one bill, to which nobody has paid yet.
LEMMA InvoiceKept ==
    ASSUME KInv, NEW c \in Clients, NEW a \in Addrs, invoice(c, a),
           UNCHANGED <<pulled, visits>>,
           GateProofs!PInv', HandlersProofs!IInv'
    PROVE  KInv'
<1>1. client[c].at = "asking" /\ client[c].token = None /\ task_pc[c] = "addr"
  BY Tokenless DEF invoice, Gate!get_new_addr, KInv, ClientInv, Station
<1>2. /\ a \notin handed /\ handed' = handed \cup {a} /\ chain' = chain
      /\ Gate!Finish(c) /\ UNCHANGED keys
  BY DEF invoice, Gate!get_new_addr
<1>3. client' = [client EXCEPT ![c].at = "invoiced", ![c].addr = a, ![c].bills = @ \cup {a}]
  BY DEF invoice
<1>4. /\ client'[c] = [client[c] EXCEPT !.at = "invoiced", !.addr = a, !.bills = @ \cup {a}]
      /\ \A d \in Clients \ {c} : client'[d] = client[d]
  BY <1>3 DEF KInv, TypeOK
<1>5. /\ client'[c].at = "invoiced" /\ client'[c].addr = a
      /\ client'[c].bills = client[c].bills \cup {a} /\ client'[c].token = client[c].token
      /\ client'[c].url = client[c].url /\ client[c].bills \subseteq Addrs
  BY <1>4 DEF KInv, TypeOK
<1>6. /\ unsure' = unsure /\ faults' = faults /\ unsure[c] \in Nat /\ unsure'[c] >= unsure[c]
      /\ faults' \in Nat /\ faults' >= faults
  BY DEF invoice, NoFault, KInv, TypeOK
<1>7. TypeOK'
  <2>1. unsure' \in [Clients -> Nat]
    BY <1>6 DEF KInv, TypeOK
  <2>2. client' = [client EXCEPT ![c] = client'[c]]
    BY <1>3 DEF KInv, TypeOK
  <2>3. client'[c] \in ClientRecords
    <3>1. client[c] \in ClientRecords
      BY DEF KInv, TypeOK, ClientRecords
    <3>2. PICK r \in ClientRecords : r = client[c]
      BY <3>1
    <3>3. client'[c] = [at |-> "invoiced", url |-> r.url, bills |-> r.bills \cup {a},
                        addr |-> a, error |-> r.error, token |-> r.token]
      BY <1>4, <3>2 DEF ClientRecords
    <3>4. r.bills \cup {a} \in SUBSET Addrs
      BY <1>5, <3>2
    <3> QED
      BY <3>3, <3>4 DEF ClientRecords, Stations
  <2> QED
    BY <1>1, <1>5, <1>6, <2>1, <2>2, <2>3, Retyped DEF KInv, TypeOK
<1>8. TxFor(a) \notin chain /\ \A d \in Clients : a \notin client[d].bills
  BY <1>2 DEF KInv, PaidBills, ClientInv, Billed
<1>9. \A d \in Clients : Charges(d)' = Charges(d)
  BY <1>2, <1>4, <1>5, <1>8, ZenonT(60) DEF Charges
<1>10. /\ task_pc'[c] = "idle"
       /\ \A d \in Clients \ {c} : task_pc'[d] = task_pc[d] /\ payment'[d] = payment[d]
  BY <1>2, Finished
<1>11. ClientInv(c)'
  <2>1. Charged(c)'
    BY <1>1, <1>5, <1>6, <1>9, ChargedStays
  <2>2. Billed(c)' /\ Station(c)' /\ Bearer(c)'
    BY <1>1, <1>2, <1>5, <1>10 DEF KInv, ClientInv, Station, Billed, Bearer
  <2> QED
    BY <1>5, <2>1, <2>2 DEF ClientInv
<1>12. \A d \in Clients \ {c} : ClientInv(d)'
  BY <1>2, <1>4, <1>6, <1>9, <1>10, OthersKept DEF keys
<1>13. OwnBills'
  <2>1. ASSUME NEW d \in Clients, NEW e \in Clients, d # e
        PROVE  client'[d].bills \cap client'[e].bills = {}
    <3>1. client[d].bills \cap client[e].bills = {}
      BY <2>1 DEF KInv, OwnBills
    <3>2. \A f \in Clients : \/ client'[f].bills = client[f].bills
                             \/ f = c /\ client'[f].bills = client[f].bills \cup {a}
      BY <1>4, <1>5
    <3> QED
      BY <1>8, <2>1, <3>1, <3>2
  <2> QED
    BY <2>1 DEF OwnBills
<1>14. PaidBills'
  BY <1>2 DEF KInv, PaidBills
<1>15. UploadInv'
  <2>1. \A d \in Clients : client'[d].at = "storing" => client[d].at = "storing"
    BY <1>4, <1>5
  <2> QED
    BY <1>2, <2>1 DEF KInv, UploadInv, keys
<1>16. SeenInv' /\ PollInv' /\ StoredIsPaid'
  BY <1>2, <1>9, SourcedStays DEF KInv, SeenInv, PollInv, StoredIsPaid, keys
<1> QED
  BY <1>7, <1>11, <1>12, <1>13, <1>14, <1>15, <1>16 DEF KInv

\* The node takes the payment, which is the only time that a client is charged.
LEMMA AcceptKept ==
    ASSUME KInv, NEW c \in Clients, node_accept(c), UNCHANGED <<pulled, visits>>,
           GateProofs!PInv', HandlersProofs!IInv'
    PROVE  KInv'
<1>1. /\ task_pc[c] = "send" /\ client[c].at = "paying" /\ client[c].token = None
      /\ unsure[c] \in Nat
  BY Tokenless DEF node_accept, Gate!node_accept, KInv, ClientInv, Station
<1>2. /\ chain' = chain \cup {payment[c].tx} /\ handed' = handed
      /\ Gate!Goto(c, "sent") /\ UNCHANGED <<client, unsure, faults>> /\ UNCHANGED keys
  BY DEF node_accept, Gate!node_accept, NoFault
<1>3. PICK a : a = client[c].addr
  OBVIOUS
<1>4. a \in client[c].bills /\ a \in Addrs /\ a \in handed
  BY <1>1, <1>3 DEF KInv, ClientInv, Billed, TypeOK
<1>5. chain' = chain \cup {TxFor(a)}
  <2>1. payment[c] = PostFor(a, client[c].url).raw
    BY <1>1, <1>3 DEF KInv, ClientInv, Billed
  <2> QED
    BY <1>2, <2>1 DEF PostFor
<1>6. /\ task_pc'[c] = "sent" /\ payment'[c] = payment[c]
      /\ \A d \in Clients \ {c} : task_pc'[d] = task_pc[d] /\ payment'[d] = payment[d]
  BY <1>2, Went
<1>7. Charges(c)' = Charges(c) \cup {a}
  BY <1>2, <1>4, <1>5, TxForInjective DEF Charges
<1>8. \A d \in Clients \ {c} : Charges(d)' = Charges(d)
  <2>1. \A d \in Clients \ {c} : a \notin client[d].bills
    BY <1>4 DEF KInv, OwnBills
  <2> QED
    BY <1>2, <1>5, <2>1, TxForInjective DEF Charges
<1>9. ClientInv(c)'
  <2>1. Cardinality(Charges(c)) \in Nat /\ Cardinality(Charges(c)) <= unsure[c]
    BY <1>1, FiniteCharges DEF KInv, ClientInv, Charged
  <2>2. Cardinality(Charges(c)') <= Cardinality(Charges(c)) + 1
    <3>1. PICK S : S = Charges(c)
      OBVIOUS
    <3>2. IsFiniteSet(S) /\ Cardinality(S) \in Nat
      BY <3>1, FiniteCharges
    <3>3. \/ Cardinality(S \cup {a}) = Cardinality(S)
          \/ Cardinality(S \cup {a}) = Cardinality(S) + 1
      BY <3>2, FS_AddElement
    <3>4. Cardinality(S \cup {a}) <= Cardinality(S) + 1
      BY <3>2, <3>3
    <3> QED
      BY <1>7, <3>1, <3>4
  <2>3. Cardinality(Charges(c)') \in Nat
    BY <1>7, FiniteCharges, FS_AddElement, FS_CardinalityType
  <2>4. Cardinality(Charges(c)') <= unsure'[c] + 1
    BY <1>1, <1>2, <2>1, <2>2, <2>3
  <2>5. Charged(c)'
    BY <1>6, <2>4 DEF Charged
  <2> QED
    BY <1>1, <1>2, <1>6, <2>5 DEF KInv, ClientInv, Station, Billed, Bearer, PostFor, TxFor
<1>10. faults' \in Nat /\ faults' >= faults
  BY <1>2 DEF KInv, TypeOK
<1>11. \A d \in Clients \ {c} : ClientInv(d)'
  BY <1>2, <1>6, <1>7, <1>8, <1>10, OthersKept DEF keys
<1>12. OwnBills' /\ PaidBills'
  BY <1>2, <1>4, <1>5, TxForInjective DEF KInv, OwnBills, PaidBills
<1>13. UploadInv' /\ TypeOK'
  BY <1>2 DEF KInv, UploadInv, keys, TypeOK
<1>14. SeenInv' /\ PollInv' /\ StoredIsPaid'
  <2>1. \A d \in Clients : Charges(d) \subseteq Charges(d)'
    BY <1>7, <1>8
  <2>2. SeenInv' /\ PollInv'
    BY <1>2, <2>1, SourcedStays DEF KInv, SeenInv, PollInv, keys
  <2>3. StoredIsPaid'
    BY <1>2, <2>1 DEF KInv, StoredIsPaid, keys
  <2> QED
    BY <2>2, <2>3
<1> QED
  BY <1>9, <1>11, <1>12, <1>13, <1>14 DEF KInv

-----------------------------------------------------------------------------
(* The steps of a client at the handlers.                                  *)

\* The registers of the handlers are there for every thread.
LEMMA HandlerTypes ==
    ASSUME KInv
    PROVE  /\ Workers \subseteq Handlers!Threads
           /\ Pollers \subseteq Handlers!Threads
           /\ \A w \in Workers : w \notin Pollers
           /\ \E S : pc \in [Handlers!Threads -> S]
           /\ \E S : req \in [Handlers!Threads -> S]
           /\ \E S : seen \in [Handlers!Threads -> S]
           /\ \E S : reply \in [Handlers!Threads -> S]
           /\ \E S : db \in [Bodies -> S]
           /\ now \in Nat
<1>1. Handlers!Threads = HandlersProofs!Threads
  BY DEF Handlers!Threads, HandlersProofs!Threads
<1>2. Workers \subseteq Handlers!Threads /\ Pollers \subseteq Handlers!Threads
  BY DEF Handlers!Threads
<1>3. \A w \in Workers : w \notin Pollers
  BY KeyserverAssumption
<1> QED
  BY <1>1, <1>2, <1>3 DEF KInv, HandlersProofs!IInv, HandlersProofs!TypeOK

\* A step at the handlers leaves the gate, the bills and the chain alone.
LEMMA HandlerSide ==
    ASSUME KInv, NEW c \in Clients,
           \A d \in Clients \ {c} : client'[d] = client[d] /\ unsure'[d] = unsure[d],
           client'[c].bills = client[c].bills,
           client'[c].url = client[c].url, client'[c].token = client[c].token,
           client[c].at \in {"uploading", "storing"},
           client'[c].at \in {"acked", "storing", "done", "refused"},
           UNCHANGED gate, now' = now, faults' \in Nat, faults' >= faults,
           unsure'[c] \in Nat, unsure'[c] >= unsure[c],
           client'[c].at = "refused" => Cause(c)', UNCHANGED <<pulled, visits>>,
           TypeOK', GateProofs!PInv', HandlersProofs!IInv',
           UploadInv', SeenInv', PollInv', StoredIsPaid'
    PROVE  KInv'
<1>1. UNCHANGED <<chain, handed>> /\ UNCHANGED <<task_pc, payment>>
  BY DEF gate
<1>2. \A d \in Clients : client'[d].bills = client[d].bills
  OBVIOUS
<1>3. \A d \in Clients : Charges(d)' = Charges(d)
  BY <1>1, <1>2 DEF Charges
<1>4. /\ client[c].token # None /\ client[c].url = Normal[client[c].token.msg]
      /\ Charges(c) # {}
      /\ task_pc[c] \notin {"addr", "scan", "flush", "send", "sent"}
  BY DEF KInv, ClientInv, Bearer, Station
<1>5. ClientInv(c)'
  <2>1. Charged(c)'
    BY <1>3, <1>4, ChargedStays
  <2>2. Bearer(c)'
    BY <1>3, <1>4 DEF Bearer
  <2>3. Station(c)' /\ Billed(c)'
    BY <1>1, <1>4 DEF KInv, ClientInv, Station, Billed
  <2> QED
    BY <2>1, <2>2, <2>3 DEF ClientInv
<1>6. \A d \in Clients \ {c} : ClientInv(d)'
  BY <1>1, <1>3, OthersKept
<1>7. OwnBills' /\ PaidBills'
  BY <1>1, <1>2 DEF KInv, OwnBills, PaidBills
<1> QED
  BY <1>5, <1>6, <1>7 DEF KInv

\* put_key takes the upload, or refuses it with the error that it found.
LEMMA UploadKept ==
    ASSUME KInv, NEW c \in Clients, upload(c), UNCHANGED <<pulled, visits>>,
           GateProofs!PInv', HandlersProofs!IInv'
    PROVE  KInv'
<1> DEFINE w == WorkerOf[c]
           error == Handlers!put_key_check(PathOf[client[c].url], MetaOf[c])
<1>1. /\ client[c].at = "uploading" /\ client[c].url \in Urls /\ w \in Workers
      /\ Handlers!put_key(w, PathOf[client[c].url], MetaOf[c])
  BY ClientTypes DEF upload, KInv, TypeOK
<1>2. /\ pc[w] = "idle" /\ UNCHANGED <<db, now, seen>>
      /\ \/ error = "Ok" /\ pc' = [pc EXCEPT ![w] = "read"]
            /\ \E body, since : req' = [req EXCEPT ![w] = [kind |-> "put_key", body |-> body,
                                                meta |-> MetaOf[c], since |-> since]]
         \/ error # "Ok" /\ UNCHANGED <<pc, req>>
  BY <1>1 DEF Handlers!put_key, Handlers!Begin, Handlers!Refuse
<1>3. error \in Handlers!Codes
  BY DEF Handlers!put_key_check, Handlers!validate, Handlers!Codes, Handlers!ValidationResults
<1> HIDE DEF error
<1>4. /\ client' = IF error = "Ok" THEN [client EXCEPT ![c].at = "storing"]
                   ELSE IF error_response(error) = 500
                   THEN [client EXCEPT ![c].at = "acked", ![c].error = None]
                   ELSE [client EXCEPT ![c].at = "refused", ![c].error = error]
  BY DEF upload, Move, React, error
<1>5. /\ unsure' = unsure /\ faults' = faults /\ unsure[c] \in Nat /\ unsure'[c] >= unsure[c]
      /\ faults' \in Nat /\ faults' >= faults /\ UNCHANGED gate
  BY DEF upload, NoFault, KInv, TypeOK
<1>6. /\ \/ client'[c] = [client[c] EXCEPT !.at = "storing"] /\ error = "Ok"
         \/ client'[c] = [client[c] EXCEPT !.at = "acked", !.error = None]
         \/ client'[c] = [client[c] EXCEPT !.at = "refused", !.error = error]
      /\ \A d \in Clients \ {c} : client'[d] = client[d]
  BY <1>4 DEF KInv, TypeOK
<1>7. /\ client'[c].bills = client[c].bills
      /\ client'[c].url = client[c].url /\ client'[c].token = client[c].token
      /\ client'[c].at \in {"acked", "storing", "refused"}
      /\ client'[c].at = "storing" => error = "Ok"
      /\ client'[c].at = "refused" => client'[c].error = error
  BY <1>6 DEF KInv, TypeOK
<1>8. TypeOK'
  <2>1. unsure' \in [Clients -> Nat]
    BY <1>5 DEF KInv, TypeOK
  <2>2. client' = [client EXCEPT ![c] = client'[c]]
    BY <1>4 DEF KInv, TypeOK
  <2>3. client'[c] \in ClientRecords
    <3>1. client[c] \in ClientRecords
      BY DEF KInv, TypeOK, ClientRecords
    <3> QED
      BY <1>3, <1>6, <3>1, ZenonT(60) DEF ClientRecords, Stations
  <2> QED
    BY <1>1, <1>5, <1>7, <2>1, <2>2, <2>3, Retyped DEF KInv, TypeOK
<1>9. client'[c].at = "refused" => Cause(c)'
  BY <1>7 DEF Cause, error, Handlers!put_key_check, Handlers!validate, Handlers!to_raw_address,
              Handlers!verify
<1>10. UploadInv'
  <2>1. \A d \in Clients : client[d].at = "storing" => WorkerOf[d] # w /\ WorkerOf[d] \in Workers
    BY <1>2, ClientTypes DEF KInv, UploadInv
  <2>2. \A v \in Workers \ {w} : pc'[v] = pc[v] /\ req'[v] = req[v]
    BY <1>1, <1>2, HandlerTypes
  <2>3. client'[c].at = "storing" =>
            pc'[w] = "read" /\ req'[w].kind = "put_key" /\ req'[w].meta = MetaOf[c]
    <3>1. ASSUME error = "Ok"
          PROVE  pc'[w] = "read"
      BY <1>1, <1>2, <3>1, HandlerTypes
    <3>2. ASSUME error = "Ok"
          PROVE  req'[w].kind = "put_key" /\ req'[w].meta = MetaOf[c]
      <4>1. PICK body, since : req' = [req EXCEPT ![w] = [kind |-> "put_key", body |-> body,
                                              meta |-> MetaOf[c], since |-> since]]
        BY <1>2, <3>2
      <4>2. req'[w] = [kind |-> "put_key", body |-> body, meta |-> MetaOf[c], since |-> since]
        BY <1>1, <4>1, HandlerTypes
      <4> QED
        BY <4>2
    <3> QED
      BY <1>7, <3>1, <3>2
  <2>4. \A d \in Clients \ {c} : client'[d].at = "storing" => client[d].at = "storing"
    BY <1>6
  <2> QED
    BY <2>1, <2>2, <2>3, <2>4 DEF KInv, UploadInv
<1>11. SeenInv' /\ PollInv' /\ StoredIsPaid'
  <2>1. \A d \in Clients : Charges(d)' = Charges(d)
    BY <1>5, <1>6, <1>7 DEF Charges, gate
  <2>2. \A v \in Handlers!Threads : pc'[v] = "check" => pc[v] = "check"
    BY <1>1, <1>2, HandlerTypes
  <2>3. \A p \in Pollers : pc'[p] = pc[p] /\ req'[p] = req[p]
    BY <1>1, <1>2, HandlerTypes
  <2> QED
    BY <1>2, <2>1, <2>2, <2>3, SourcedStays DEF KInv, SeenInv, PollInv, StoredIsPaid
<1> QED
  BY <1>1, <1>2, <1>5, <1>6, <1>7, <1>8, <1>9, <1>10, <1>11, HandlerSide

\* What a call to the database can do.
LEMMA CallEffects ==
    ASSUME KInv, NEW t \in Handlers!Threads, DbCall(t)
    PROVE  /\ now' = now /\ pc[t] # "idle"
           /\ \A v \in Handlers!Threads \ {t} :
                 pc'[v] = pc[v] /\ req'[v] = req[v] /\ seen'[v] = seen[v]
           /\ \A b \in Bodies : \/ db'[b] \in {None, db[b]}
                                \/ pc[t] = "put" /\ db'[b] = req[t].meta
           /\ seen'[t] \in {None, seen[t]} \/ \E b \in Bodies : seen'[t] = db[b]
           /\ pc'[t] = "check" => seen'[t] # None
           /\ pc'[t] # "idle" => req' = req
           /\ pc'[t] = "idle" /\ req[t].kind # "get_key" =>
                 \/ reply'[t].code = "Ok"
                 \/ /\ reply'[t].code = "ExpiredTTL"
                    /\ Handlers!expired(req[t].meta.serialized_payload, now)
                 \/ /\ reply'[t].code = "Outdated" /\ seen[t] # None
                    /\ seen[t].serialized_payload.timestamp
                          > req[t].meta.serialized_payload.timestamp
<1>1. pc[t] # "idle"
  BY DEF DbCall, Handlers!get_read, Handlers!get_expiry, Handlers!get_delete,
         Handlers!check_timestamp, Handlers!put
<1>2. req[t].body \in Bodies
  <2>1. t \in HandlersProofs!Threads
    BY DEF Handlers!Threads, HandlersProofs!Threads
  <2> QED
    BY <1>1, <2>1 DEF KInv, HandlersProofs!IInv, HandlersProofs!RequestInv
<1> DEFINE Quiet(label, m) ==
        /\ pc' = [pc EXCEPT ![t] = label] /\ seen' = [seen EXCEPT ![t] = m]
        /\ req' = req /\ now' = now
           Over(answer) ==
        /\ pc' = [pc EXCEPT ![t] = "idle"] /\ seen' = [seen EXCEPT ![t] = None]
        /\ \E r : req' = [req EXCEPT ![t] = r]
        /\ reply' = [reply EXCEPT ![t] = answer]
        /\ now' = now
<1>3. CASE Handlers!get_read(t)
  <2>1. \/ req[t].kind # "get_key" /\ Quiet("put", None)
        \/ req[t].kind = "get_key" /\ \E answer : Over(answer)
        \/ db[req[t].body] # None /\ Quiet("expiry", db[req[t].body])
    BY <1>3 DEF Handlers!get_read, Handlers!GetReturns, Handlers!Goto, Handlers!Reply
  <2>2. db' = db
    BY <1>3 DEF Handlers!get_read
  <2> QED
    BY <1>1, <1>2, <2>1, <2>2, HandlerTypes
<1>4. CASE Handlers!get_expiry(t)
  <2>1. \/ Quiet("panicked", seen[t])
        \/ Quiet("delete", seen[t])
        \/ req[t].kind = "get_key" /\ \E answer : Over(answer)
        \/ seen[t] = None /\ Quiet("put", None)
        \/ seen[t] # None /\ Quiet("check", seen[t])
    BY <1>4 DEF Handlers!get_expiry, Handlers!GetReturns, Handlers!Goto, Handlers!Reply
  <2>2. db' = db
    BY <1>4 DEF Handlers!get_expiry
  <2> QED
    BY <1>1, <2>1, <2>2, HandlerTypes
<1>5. CASE Handlers!get_delete(t)
  <2>1. \/ req[t].kind = "get_key" /\ \E answer : Over(answer)
        \/ Quiet("put", None)
    BY <1>5 DEF Handlers!get_delete, Handlers!GetReturns, Handlers!Goto, Handlers!Reply
  <2>2. db' = [db EXCEPT ![req[t].body] = None]
    BY <1>5 DEF Handlers!get_delete
  <2> QED
    BY <1>1, <2>1, <2>2, HandlerTypes
<1>6. CASE Handlers!check_timestamp(t)
  <2> DEFINE new == req[t].meta.serialized_payload
             old == seen[t].serialized_payload
  <2>1. db' = db /\ seen[t] # None
    BY <1>6 DEF Handlers!check_timestamp, KInv, SeenInv
  <2>2. CASE new.timestamp < old.timestamp
    <3>1. Over(Handlers!Answer("Outdated"))
      BY <1>6, <2>2 DEF Handlers!check_timestamp, Handlers!Reply
    <3>2. reply'[t].code = "Outdated"
      BY <3>1, HandlerTypes DEF Handlers!Answer
    <3> QED
      BY <1>1, <2>1, <2>2, <3>1, <3>2, HandlerTypes
  <2>3. CASE ~(new.timestamp < old.timestamp) /\ Handlers!expired(new, now)
    <3>1. Over(Handlers!Answer("ExpiredTTL"))
      BY <1>6, <2>3 DEF Handlers!check_timestamp, Handlers!Reply
    <3>2. reply'[t].code = "ExpiredTTL"
      BY <3>1, HandlerTypes DEF Handlers!Answer
    <3> QED
      BY <1>1, <2>1, <2>3, <3>1, <3>2, HandlerTypes
  <2>4. CASE ~(new.timestamp < old.timestamp) /\ ~Handlers!expired(new, now)
    <3>1. Quiet("put", seen[t])
      BY <1>6, <2>4 DEF Handlers!check_timestamp, Handlers!Goto
    <3> QED
      BY <1>1, <2>1, <3>1, HandlerTypes
  <2> QED
    BY <2>2, <2>3, <2>4
<1>7. CASE Handlers!put(t)
  <2>1. Over(Handlers!Answer("Ok"))
    BY <1>7 DEF Handlers!put, Handlers!Reply
  <2>2. pc[t] = "put" /\ db' = [db EXCEPT ![req[t].body] = req[t].meta]
    BY <1>7 DEF Handlers!put
  <2>3. reply'[t].code = "Ok"
    BY <2>1, HandlerTypes DEF Handlers!Answer
  <2> QED
    BY <1>1, <2>1, <2>2, <2>3, HandlerTypes
<1> QED
  BY <1>3, <1>4, <1>5, <1>6, <1>7 DEF DbCall

\* A failed call ends the request.
LEMMA ErrorEffects ==
    ASSUME KInv, NEW t \in Handlers!Threads, Handlers!rocks_error(t)
    PROVE  /\ now' = now /\ db' = db /\ pc[t] # "idle"
           /\ \A v \in Handlers!Threads \ {t} :
                 pc'[v] = pc[v] /\ req'[v] = req[v] /\ seen'[v] = seen[v]
           /\ pc'[t] = "idle" /\ seen'[t] = None
  BY HandlerTypes DEF Handlers!rocks_error, Handlers!Reply

\* What a step of one thread has to leave as it was.
LEMMA ThreadSide ==
    ASSUME KInv, NEW t \in Handlers!Threads,
           \A v \in Handlers!Threads \ {t} :
               pc'[v] = pc[v] /\ req'[v] = req[v] /\ seen'[v] = seen[v],
           NEW m, \A b \in Bodies : \/ db'[b] \in {None, db[b]}
                                    \/ db'[b] = m /\ Sourced(m)',
           seen'[t] \in {None, seen[t]} \/ \E b \in Bodies : seen'[t] = db[b],
           pc'[t] = "check" => seen'[t] # None,
           t \in Pollers /\ pc'[t] # "idle" => req'[t].meta \in PeerInputs,
           \A d \in Clients : Charges(d) \subseteq Charges(d)', pulled \subseteq pulled'
    PROVE  SeenInv' /\ PollInv' /\ StoredIsPaid'
<1>1. \A b \in Bodies : db[b] # None => Sourced(db[b])
  BY DEF KInv, StoredIsPaid, Sourced
<1>2. \A d \in Clients : Charges(d) # {} => Charges(d)' # {}
  OBVIOUS
<1>3. SeenInv'
  <2>1. seen'[t] # None => Sourced(seen'[t])
    BY <1>1 DEF KInv, SeenInv
  <2>2. \A v \in Handlers!Threads \ {t} : /\ seen'[v] # None => Sourced(seen'[v])
                                          /\ pc'[v] = "check" => seen'[v] # None
    BY DEF KInv, SeenInv
  <2> QED
    BY <1>2, <2>1, <2>2 DEF SeenInv, Sourced, Handlers!Threads
<1>4. PollInv'
  BY HandlerTypes DEF KInv, PollInv
<1>5. StoredIsPaid'
  <2>1. ASSUME NEW b \in Bodies, db'[b] = m, Sourced(m)'
        PROVE  \/ \E d \in Clients : MetaOf[d] = db'[b] /\ Charges(d)' # {}
               \/ db'[b] \in pulled'
    BY <2>1 DEF Sourced
  <2>2. ASSUME NEW b \in Bodies, db'[b] = db[b], db[b] # None
        PROVE  \/ \E d \in Clients : MetaOf[d] = db'[b] /\ Charges(d)' # {}
               \/ db'[b] \in pulled'
    BY <1>1, <1>2, <2>2 DEF Sourced
  <2> QED
    BY <2>1, <2>2 DEF StoredIsPaid
<1> QED
  BY <1>3, <1>4, <1>5

\* Whoever finishes with the worker leaves it, whoever does not stays on it.
LEMMA StoreSide ==
    ASSUME KInv, NEW c \in Clients, client[c].at = "storing",
           NEW w \in Workers, w = WorkerOf[c],
           \A v \in Handlers!Threads \ {w} :
               pc'[v] = pc[v] /\ req'[v] = req[v] /\ seen'[v] = seen[v],
           \A b \in Bodies : db'[b] \in {None, db[b], MetaOf[c]},
           seen'[w] \in {None, seen[w]} \/ \E b \in Bodies : seen'[w] = db[b],
           pc'[w] = "check" => seen'[w] # None,
           \A d \in Clients \ {c} : client'[d] = client[d],
           client'[c].at = "storing" =>
               pc'[w] # "idle" /\ req'[w].kind = req[w].kind /\ req'[w].meta = req[w].meta,
           client'[c].bills = client[c].bills, UNCHANGED gate, UNCHANGED pulled
    PROVE  UploadInv' /\ SeenInv' /\ PollInv' /\ StoredIsPaid'
<1>1. \A d \in Clients : Charges(d)' = Charges(d)
  BY DEF Charges, gate
<1>2. PICK m : m = MetaOf[c]
  OBVIOUS
<1>3. Sourced(m)
  BY <1>2 DEF KInv, ClientInv, Bearer, Sourced
<1>4. Sourced(m)'
  BY <1>1, <1>3, SourcedStays
<1>5. UploadInv'
  <2>1. \A d \in Clients \ {c} :
            client[d].at = "storing" => WorkerOf[d] # w /\ WorkerOf[d] \in Workers
    BY ClientTypes DEF KInv, UploadInv
  <2> QED
    BY <2>1, HandlerTypes DEF KInv, UploadInv
<1>6. w \in Handlers!Threads /\ w \notin Pollers
  BY HandlerTypes
<1>7. \A b \in Bodies : \/ db'[b] \in {None, db[b]}
                        \/ db'[b] = m /\ Sourced(m)'
  BY <1>2, <1>4
<1>8. SeenInv' /\ PollInv' /\ StoredIsPaid'
  BY <1>1, <1>6, <1>7, ThreadSide
<1> QED
  BY <1>5, <1>8

\* put_key at the database.
LEMMA StoreKept ==
    ASSUME KInv, NEW c \in Clients, store(c), UNCHANGED <<pulled, visits>>,
           GateProofs!PInv', HandlersProofs!IInv'
    PROVE  KInv'
<1>1. PICK w \in Workers : w = WorkerOf[c]
  BY ClientTypes DEF KInv
<1>2. PICK code : code = reply'[w].code
  OBVIOUS
<1>3. /\ client[c].at = "storing" /\ client[c].url \in Urls
      /\ w \in Handlers!Threads /\ DbCall(w)
      /\ req[w].kind = "put_key" /\ req[w].meta = MetaOf[c]
  BY <1>1, HandlerTypes DEF store, KInv, TypeOK, UploadInv
<1>4. /\ now' = now
      /\ \A v \in Handlers!Threads \ {w} :
            pc'[v] = pc[v] /\ req'[v] = req[v] /\ seen'[v] = seen[v]
      /\ \A b \in Bodies : db'[b] \in {None, db[b], MetaOf[c]}
      /\ seen'[w] \in {None, seen[w]} \/ \E b \in Bodies : seen'[w] = db[b]
      /\ pc'[w] = "check" => seen'[w] # None
      /\ pc'[w] # "idle" => req' = req
      /\ pc'[w] = "idle" =>
            \/ code = "Ok"
            \/ code = "ExpiredTTL" /\ Handlers!expired(MetaOf[c].serialized_payload, now)
            \/ /\ code = "Outdated" /\ seen[w] # None
               /\ seen[w].serialized_payload.timestamp > Timestamp(c)
  BY <1>2, <1>3, CallEffects DEF Timestamp
<1>5. \/ pc'[w] # "idle" /\ client' = client
      \/ /\ pc'[w] = "idle"
         /\ \/ client' = [client EXCEPT ![c].at = "done"]
            \/ client' = [client EXCEPT ![c].at = "acked", ![c].error = None]
            \/ /\ code \in {"ExpiredTTL", "Outdated"}
               /\ client' = [client EXCEPT ![c].at = "refused", ![c].error = code]
  BY <1>1, <1>2, <1>4 DEF store, Move, React
<1>6. /\ unsure' = unsure /\ faults' = faults /\ unsure[c] \in Nat /\ unsure'[c] >= unsure[c]
      /\ faults' \in Nat /\ faults' >= faults /\ UNCHANGED gate
  BY DEF store, NoFault, KInv, TypeOK
<1>7. /\ \/ pc'[w] # "idle" /\ client'[c] = client[c]
         \/ client'[c] = [client[c] EXCEPT !.at = "done"]
         \/ client'[c] = [client[c] EXCEPT !.at = "acked", !.error = None]
         \/ /\ pc'[w] = "idle" /\ code \in {"ExpiredTTL", "Outdated"}
            /\ client'[c] = [client[c] EXCEPT !.at = "refused", !.error = code]
      /\ \A d \in Clients \ {c} : client'[d] = client[d]
  BY <1>5 DEF KInv, TypeOK
<1>8. /\ client'[c].bills = client[c].bills
      /\ client'[c].url = client[c].url /\ client'[c].token = client[c].token
      /\ client'[c].at \in {"acked", "storing", "done", "refused"}
      /\ client'[c].at = "storing" => pc'[w] # "idle"
      /\ client'[c].at = "refused" => pc'[w] = "idle" /\ client'[c].error = code
                                      /\ code \in {"ExpiredTTL", "Outdated"}
  BY <1>3, <1>7, ZenonT(60) DEF KInv, TypeOK
<1>9. TypeOK'
  <2>1. unsure' \in [Clients -> Nat]
    BY <1>6 DEF KInv, TypeOK
  <2>2. client' = [client EXCEPT ![c] = client'[c]]
    BY <1>5 DEF KInv, TypeOK
  <2>3. client'[c] \in ClientRecords
    <3>1. client[c] \in ClientRecords
      BY DEF KInv, TypeOK, ClientRecords
    <3> QED
      BY <1>7, <3>1, ZenonT(60) DEF ClientRecords, Stations, Handlers!Codes
  <2> QED
    BY <1>3, <1>6, <1>8, <2>1, <2>2, <2>3, Retyped
<1>10. UploadInv' /\ SeenInv' /\ PollInv' /\ StoredIsPaid'
  BY <1>1, <1>3, <1>4, <1>6, <1>7, <1>8, StoreSide
<1>11. client'[c].at = "refused" => Cause(c)'
  <2>1. \A d \in Clients : Charges(d)' = Charges(d)
    BY <1>6, <1>7, <1>8 DEF Charges, gate
  <2>2. ASSUME seen[w] # None, seen[w].serialized_payload.timestamp > Timestamp(c)
        PROVE  Overtaken(c)'
    <3>1. Overtaken(c)
      BY <1>3, <2>2 DEF KInv, SeenInv, Sourced, Overtaken, Timestamp
    <3> QED
      BY <2>1, <3>1, OvertakenStays
  <2>3. MetaOf[c].serialized_payload \in Handlers!Payload
    <3>1. HandlersProofs!Storable(req[w].body, req[w].meta)
      <4>1. w \in HandlersProofs!Threads /\ pc[w] # "idle" /\ req[w].kind # "get_key"
        BY <1>3, CallEffects DEF Handlers!Threads, HandlersProofs!Threads
      <4> QED
        BY <4>1 DEF KInv, HandlersProofs!IInv, HandlersProofs!RequestInv
    <3> QED
      BY <1>3, <3>1, SameData DEF HandlersProofs!Storable
  <2> QED
    BY <1>4, <1>8, <2>2, <2>3 DEF Cause, Handlers!expired, Handlers!WrappingAdd,
       Handlers!MinI64, Handlers!Payload, Handlers!I64
<1> QED
  BY <1>3, <1>4, <1>6, <1>7, <1>8, <1>9, <1>10, <1>11, HandlerSide

\* put_key when RocksDB fails.
LEMMA StoreFailedKept ==
    ASSUME KInv, NEW c \in Clients, store_failed(c), UNCHANGED <<pulled, visits>>,
           GateProofs!PInv', HandlersProofs!IInv'
    PROVE  KInv'
<1>1. PICK w \in Workers : w = WorkerOf[c]
  BY ClientTypes DEF KInv
<1>2. /\ client[c].at = "storing" /\ client[c].url \in Urls /\ w \in Handlers!Threads
      /\ Handlers!rocks_error(w) /\ Fault(c) /\ UNCHANGED gate
  BY <1>1, HandlerTypes DEF store_failed, KInv, TypeOK
<1>3. /\ db' = db /\ now' = now
      /\ \A v \in Handlers!Threads \ {w} :
            pc'[v] = pc[v] /\ req'[v] = req[v] /\ seen'[v] = seen[v]
      /\ pc'[w] = "idle" /\ seen'[w] = None
  BY <1>2, ErrorEffects
<1>4. client' = [client EXCEPT ![c].at = "acked", ![c].error = None]
  <2>1. error_response("DB") = 500
    BY DEF error_response, PaymentErrors
  <2> QED
    BY <2>1 DEF store_failed, React
<1>5. /\ client'[c] = [client[c] EXCEPT !.at = "acked", !.error = None]
      /\ \A d \in Clients \ {c} : client'[d] = client[d]
  BY <1>4 DEF KInv, TypeOK
<1>6. /\ client'[c].bills = client[c].bills /\ client'[c].at = "acked"
      /\ client'[c].url = client[c].url /\ client'[c].token = client[c].token
  BY <1>5 DEF KInv, TypeOK
<1>7. /\ unsure' \in [Clients -> Nat] /\ faults' \in Nat /\ faults' >= faults
      /\ \A d \in Clients \ {c} : unsure'[d] = unsure[d]
      /\ unsure'[c] \in Nat /\ unsure'[c] >= unsure[c]
  BY <1>2, Faulted DEF KInv, TypeOK
<1>8. TypeOK'
  <2>1. client' = [client EXCEPT ![c] = client'[c]]
    BY <1>4 DEF KInv, TypeOK
  <2>2. client'[c] \in ClientRecords
    <3>1. client[c] \in ClientRecords
      BY DEF KInv, TypeOK, ClientRecords
    <3> QED
      BY <1>5, <3>1 DEF ClientRecords, Stations
  <2> QED
    BY <1>2, <1>6, <1>7, <2>1, <2>2, Retyped
<1>9. UploadInv' /\ SeenInv' /\ PollInv' /\ StoredIsPaid'
  BY <1>1, <1>2, <1>3, <1>5, <1>6, StoreSide, ZenonT(60)
<1> QED
  BY <1>2, <1>3, <1>5, <1>6, <1>7, <1>8, <1>9, HandlerSide

\* A restart takes every client back to where it can begin again, and leaves in
\* doubt those that were paying.
LEMMA CrashKept ==
    ASSUME KInv, crash, GateProofs!PInv', HandlersProofs!IInv'
    PROVE  KInv'
<1>1. /\ task_pc' = [c \in Clients |-> "idle"] /\ UNCHANGED <<handed, chain>>
      /\ pc' = [t \in Handlers!Threads |-> "idle"]
      /\ seen' = [t \in Handlers!Threads |-> None]
      /\ UNCHANGED <<db, now, faults, pulled, visits>>
  BY DEF crash, Gate!crash, Gate!node, Handlers!restart
<1>2. ASSUME NEW c \in Clients
      PROVE  /\ client'[c] = [client[c] EXCEPT !.at = Resume(@)]
             /\ unsure'[c] = unsure[c] + IF client[c].at = "paying" THEN 1 ELSE 0
             /\ unsure'[c] \in Nat /\ unsure'[c] >= unsure[c]
  BY DEF crash, KInv, TypeOK
<1>3. ASSUME NEW c \in Clients
      PROVE  /\ client'[c].at = Resume(client[c].at) /\ client[c].at \in Stations
             /\ client'[c].bills = client[c].bills /\ client'[c].token = client[c].token
             /\ client'[c].url = client[c].url /\ client'[c].addr = client[c].addr
             /\ client'[c].error = client[c].error
  BY <1>2, ZenonT(60) DEF KInv, TypeOK
<1>4. ASSUME NEW s \in Stations
      PROVE  /\ Resume(s) \in {"start", "invoiced", "acked", "done", "refused"}
             /\ Resume(s) = "start" => s \in {"start", "asking"}
             /\ Resume(s) = "invoiced" => s \in {"invoiced", "paying"}
             /\ Resume(s) \in {"acked", "done"} => s \in {"acked", "uploading", "storing", "done"}
             /\ s = "refused" <=> Resume(s) = "refused"
  BY DEF Resume, Stations
<1>5. TypeOK'
  <2>1. ASSUME NEW c \in Clients
        PROVE  /\ [client[c] EXCEPT !.at = Resume(@)] \in ClientRecords
               /\ Resume(client[c].at) # "start" => client[c].url \in Urls
    <3>1. client[c] \in ClientRecords /\ client[c].at \in Stations
      BY DEF KInv, TypeOK, ClientRecords
    <3>2. Resume(client[c].at) \in Stations
      BY <1>4, <3>1 DEF Stations
    <3>3. Resume(client[c].at) # "start" => client[c].at # "start"
      BY DEF Resume
    <3> QED
      BY <3>1, <3>2, <3>3 DEF ClientRecords, KInv, TypeOK
  <2>2. client' \in [Clients -> ClientRecords]
    BY <2>1 DEF crash
  <2>3. \A c \in Clients : client'[c].at # "start" => client'[c].url \in Urls
    BY <1>3, <2>1
  <2>4. unsure' \in [Clients -> Nat]
    BY DEF crash, KInv, TypeOK
  <2> QED
    BY <1>1, <2>2, <2>3, <2>4 DEF KInv, TypeOK, ClientRecords
<1>6. \A c \in Clients : Charges(c)' = Charges(c)
  BY <1>1, <1>3 DEF Charges
<1>7. ASSUME NEW c \in Clients
      PROVE  ClientInv(c)'
  <2>1. client[c].at \in Stations /\ ClientInv(c)
    BY <1>3 DEF KInv
  <2>2. Station(c)'
    BY <1>1, <1>3, <1>4, <2>1 DEF Station
  <2>3. Billed(c)'
    BY <1>1, <1>3, <1>4, <2>1 DEF ClientInv, Billed
  <2>4. Bearer(c)'
    <3>1. client'[c].at \in {"acked", "uploading", "storing", "done"} => client[c].token # None
      BY <1>3, <1>4, <2>1 DEF ClientInv, Bearer
    <3>2. ASSUME client[c].token # None
          PROVE  client'[c].at \in {"acked", "uploading", "storing", "done", "refused"}
      BY <1>3, <2>1, <3>2 DEF ClientInv, Bearer, Resume
    <3> QED
      BY <1>3, <1>6, <2>1, <3>1, <3>2 DEF ClientInv, Bearer
  <2>5. Charged(c)'
    <3>1. task_pc[c] = "sent" => client[c].at = "paying"
      BY <2>1 DEF ClientInv, Station
    <3>2. unsure[c] \in Nat
      BY DEF KInv, TypeOK
    <3>3. client[c].at = "paying" => unsure'[c] = unsure[c] + 1
      BY <1>2
    <3>4. task_pc[c] = "sent" => unsure'[c] > unsure[c]
      BY <3>1, <3>2, <3>3
    <3> QED
      BY <1>2, <1>3, <1>6, <3>4, ChargedStays
  <2>6. client'[c].at = "refused" => Cause(c)'
    <3>1. client'[c].at = "refused" => Cause(c)
      BY <1>3, <1>4, <2>1 DEF ClientInv
    <3>2. Overtaken(c) => Overtaken(c)'
      BY <1>1, <1>6, OvertakenStays
    <3> QED
      BY <1>1, <1>3, <1>6, <3>1, <3>2 DEF Cause, Handlers!expired, Handlers!WrappingAdd,
         Handlers!MinI64, Handlers!Payload, Handlers!I64, Handlers!put_key_check,
         Handlers!validate, Handlers!to_raw_address, Handlers!verify
  <2> QED
    BY <2>2, <2>3, <2>4, <2>5, <2>6 DEF ClientInv
<1>8. OwnBills' /\ PaidBills'
  BY <1>1, <1>3 DEF KInv, OwnBills, PaidBills
<1>9. UploadInv'
  BY <1>3, <1>4 DEF UploadInv
<1>10. SeenInv' /\ PollInv' /\ StoredIsPaid'
  BY <1>1, <1>6, HandlerTypes DEF KInv, SeenInv, PollInv, StoredIsPaid
<1> QED
  BY <1>5, <1>7, <1>8, <1>9, <1>10 DEF KInv

-----------------------------------------------------------------------------
(* The steps of the rest of the server.                                    *)

\* The gate and the clients have no part in them.
LEMMA AsideKept ==
    ASSUME KInv, Aside, visits' \in Nat, faults' \in Nat, faults' >= faults,
           pulled \subseteq pulled', pulled' \subseteq PeerInputs, now' >= now,
           GateProofs!PInv', HandlersProofs!IInv',
           UploadInv', SeenInv', PollInv', StoredIsPaid'
    PROVE  KInv'
<1>1. UNCHANGED <<client, unsure>> /\ UNCHANGED <<handed, chain, task_pc, payment>>
  BY DEF Aside, gate
<1>2. \A c \in Clients : Charges(c)' = Charges(c)
  BY <1>1 DEF Charges
<1>3. now' \in Nat
  BY DEF HandlersProofs!IInv, HandlersProofs!TypeOK
<1>4. ASSUME NEW c \in Clients
      PROVE  ClientInv(c)'
  BY <1>1, <1>2, <1>3, ClientKept
<1>5. OwnBills' /\ PaidBills' /\ TypeOK'
  BY <1>1 DEF KInv, OwnBills, PaidBills, TypeOK
<1> QED
  BY <1>4, <1>5 DEF KInv

\* Clients that store keep their workers when t is not one of those.
LEMMA UploadsStay ==
    ASSUME KInv, client' = client, NEW t,
           \A v \in Handlers!Threads \ {t} : pc'[v] = pc[v] /\ req'[v] = req[v],
           \A c \in Clients : client[c].at = "storing" => WorkerOf[c] # t
    PROVE  UploadInv'
<1>1. \A c \in Clients : WorkerOf[c] \in Handlers!Threads
  BY ClientTypes DEF KInv
<1> QED
  BY <1>1 DEF KInv, UploadInv

\* No client stores on a poller, on a worker with another request, or on an idle one.
LEMMA NotStoring ==
    ASSUME KInv, NEW t \in Handlers!Threads,
           t \in Pollers \/ req[t].kind # "put_key" \/ pc[t] = "idle"
    PROVE  \A c \in Clients : client[c].at = "storing" => WorkerOf[c] # t
  BY ClientTypes, HandlerTypes DEF KInv, UploadInv

\* The threads go on holding what they held, and what is removed needs no source.
LEMMA StillThreads ==
    ASSUME KInv, UNCHANGED <<client, pc, req, seen>>, UNCHANGED <<gate, pulled>>,
           \A b \in Bodies : db'[b] \in {None, db[b]}
    PROVE  UploadInv' /\ SeenInv' /\ PollInv' /\ StoredIsPaid'
<1>1. \A d \in Clients : Charges(d)' = Charges(d)
  BY DEF Charges, gate
<1> QED
  BY <1>1, SourcedStays DEF KInv, UploadInv, SeenInv, PollInv, StoredIsPaid, Handlers!Threads

\* get_key reads, and at most removes what it finds expired.
LEMMA ServeKept ==
    ASSUME KInv, NEW w \in Workers, serve(w), GateProofs!PInv', HandlersProofs!IInv'
    PROVE  KInv'
<1>1. /\ w \in Handlers!Threads /\ w \in HandlersProofs!Threads /\ w \notin Pollers
      /\ req[w].kind = "get_key" /\ DbCall(w) /\ Aside
      /\ UNCHANGED <<pulled, visits, faults>>
  BY HandlerTypes DEF serve, Handlers!Threads, HandlersProofs!Threads
<1>2. /\ now' = now
      /\ \A v \in Handlers!Threads \ {w} :
            pc'[v] = pc[v] /\ req'[v] = req[v] /\ seen'[v] = seen[v]
      /\ \A b \in Bodies : \/ db'[b] \in {None, db[b]}
                           \/ pc[w] = "put" /\ db'[b] = req[w].meta
      /\ seen'[w] \in {None, seen[w]} \/ \E b \in Bodies : seen'[w] = db[b]
      /\ pc'[w] = "check" => seen'[w] # None
  BY <1>1, CallEffects
<1>3. pc[w] # "put"
  BY <1>1 DEF KInv, HandlersProofs!IInv, HandlersProofs!StepInv
<1>4. UploadInv'
  <2>1. \A c \in Clients : client[c].at = "storing" => WorkerOf[c] # w
    BY <1>1, NotStoring
  <2> QED
    BY <1>1, <1>2, <2>1, UploadsStay DEF Aside
<1>5. SeenInv' /\ PollInv' /\ StoredIsPaid'
  <2>1. \A d \in Clients : Charges(d)' = Charges(d)
    BY <1>1 DEF Charges, Aside, gate
  <2> QED
    BY <1>1, <1>2, <1>3, <2>1, ThreadSide
<1> QED
  BY <1>1, <1>2, <1>4, <1>5, HandlerTypes, AsideKept DEF KInv, TypeOK

\* A thread that begins a request has read nothing yet.
LEMMA BeginSide ==
    ASSUME KInv, Aside, NEW t \in Handlers!Threads, pc[t] = "idle",
           UNCHANGED <<db, now, seen, pulled>>,
           \/ UNCHANGED <<pc, req>>
           \/ /\ pc' = [pc EXCEPT ![t] = "read"]
              /\ \E r : req' = [req EXCEPT ![t] = r] /\ (t \in Pollers => r.meta \in PeerInputs)
    PROVE  UploadInv' /\ SeenInv' /\ PollInv' /\ StoredIsPaid'
<1>1. UNCHANGED <<gate, client>>
  BY DEF Aside
<1>2. CASE UNCHANGED <<pc, req>>
  BY <1>1, <1>2, StillThreads
<1>3. CASE /\ pc' = [pc EXCEPT ![t] = "read"]
           /\ \E r : req' = [req EXCEPT ![t] = r] /\ (t \in Pollers => r.meta \in PeerInputs)
  <2>1. /\ \A v \in Handlers!Threads \ {t} :
              pc'[v] = pc[v] /\ req'[v] = req[v] /\ seen'[v] = seen[v]
        /\ pc'[t] = "read"
        /\ t \in Pollers => req'[t].meta \in PeerInputs
    BY <1>3, HandlerTypes
  <2>2. UploadInv'
    BY <1>1, <2>1, NotStoring, UploadsStay
  <2>3. \A d \in Clients : Charges(d)' = Charges(d)
    BY <1>1 DEF Charges, gate
  <2>4. SeenInv' /\ PollInv' /\ StoredIsPaid'
    BY <2>1, <2>3, ThreadSide
  <2> QED
    BY <2>2, <2>4
<1> QED
  BY <1>2, <1>3

LEMMA ReadKept ==
    ASSUME KInv, NEW w \in Workers, NEW s \in AddrStrs, read(w, s),
           GateProofs!PInv', HandlersProofs!IInv'
    PROVE  KInv'
<1>1. /\ w \in Handlers!Threads /\ w \notin Pollers /\ pc[w] = "idle"
      /\ UNCHANGED <<db, now, seen, pulled, faults>> /\ Aside /\ visits' = visits + 1
      /\ \/ UNCHANGED <<pc, req>>
         \/ pc' = [pc EXCEPT ![w] = "read"] /\ \E r : req' = [req EXCEPT ![w] = r]
  BY HandlerTypes DEF read, Visit, Handlers!get_key, Handlers!Refuse, Handlers!Begin
<1>2. UploadInv' /\ SeenInv' /\ PollInv' /\ StoredIsPaid'
  BY <1>1, BeginSide
<1> QED
  BY <1>1, <1>2, HandlerTypes, AsideKept DEF KInv, TypeOK

LEMMA PullKept ==
    ASSUME KInv, NEW p \in Pollers, NEW body \in Bodies, NEW raw \in PeerInputs \cup {Garbage},
           pull(p, body, raw), GateProofs!PInv', HandlersProofs!IInv'
    PROVE  KInv'
<1>1. /\ p \in Handlers!Threads /\ pc[p] = "idle"
      /\ UNCHANGED <<db, now, seen, pulled, faults>> /\ Aside /\ visits' = visits + 1
  BY HandlerTypes DEF pull, Visit, Handlers!peer_polling, Handlers!Refuse, Handlers!Begin
<1>2. \/ UNCHANGED <<pc, req>>
      \/ /\ pc' = [pc EXCEPT ![p] = "read"]
         /\ \E r : req' = [req EXCEPT ![p] = r] /\ r.meta \in PeerInputs
  <2>1. CASE Handlers!peer_check(body, raw) # "Ok"
    BY <2>1 DEF pull, Handlers!peer_polling, Handlers!Refuse
  <2>2. CASE Handlers!peer_check(body, raw) = "Ok"
    <3>1. raw \in PeerInputs
      BY <2>2 DEF Handlers!peer_check
    <3>2. PICK r : r = [kind |-> "peer_polling", body |-> body, meta |-> raw, since |-> now]
      OBVIOUS
    <3>3. pc' = [pc EXCEPT ![p] = "read"] /\ req' = [req EXCEPT ![p] = r]
      BY <2>2, <3>2 DEF pull, Handlers!peer_polling, Handlers!Begin
    <3>4. r.meta \in PeerInputs
      BY <3>1, <3>2
    <3> QED
      BY <3>3, <3>4
  <2> QED
    BY <2>1, <2>2
<1>3. UploadInv' /\ SeenInv' /\ PollInv' /\ StoredIsPaid'
  BY <1>1, <1>2, BeginSide
<1> QED
  BY <1>1, <1>3, HandlerTypes, AsideKept DEF KInv, TypeOK

\* What peer_polling puts is what it has pulled.
LEMMA PullStoreKept ==
    ASSUME KInv, NEW p \in Pollers, pull_store(p), GateProofs!PInv', HandlersProofs!IInv'
    PROVE  KInv'
<1>1. PICK m : m = req[p].meta
  OBVIOUS
<1>2. /\ p \in Handlers!Threads /\ DbCall(p) /\ Aside /\ UNCHANGED <<visits, faults>>
      /\ pulled' = IF pc[p] = "put" THEN pulled \cup {m} ELSE pulled
  BY <1>1, HandlerTypes DEF pull_store
<1>3. /\ now' = now /\ pc[p] # "idle"
      /\ \A v \in Handlers!Threads \ {p} :
            pc'[v] = pc[v] /\ req'[v] = req[v] /\ seen'[v] = seen[v]
      /\ \A b \in Bodies : \/ db'[b] \in {None, db[b]}
                           \/ pc[p] = "put" /\ db'[b] = m
      /\ seen'[p] \in {None, seen[p]} \/ \E b \in Bodies : seen'[p] = db[b]
      /\ pc'[p] = "check" => seen'[p] # None
      /\ pc'[p] # "idle" => req' = req
  BY <1>1, <1>2, CallEffects
<1>4. m \in PeerInputs
  BY <1>1, <1>3 DEF KInv, PollInv
<1>5. UploadInv'
  BY <1>2, <1>3, NotStoring, UploadsStay DEF Aside
<1>6. pc[p] = "put" => Sourced(m)'
  BY <1>2 DEF Sourced
<1>7. SeenInv' /\ PollInv' /\ StoredIsPaid'
  <2>1. \A d \in Clients : Charges(d)' = Charges(d)
    BY <1>2 DEF Charges, Aside, gate
  <2>2. pc'[p] # "idle" => req'[p].meta \in PeerInputs
    BY <1>1, <1>3, <1>4
  <2>3. pulled \subseteq pulled'
    BY <1>2
  <2> QED
    BY <1>2, <1>3, <1>6, <2>1, <2>2, <2>3, ThreadSide
<1>8. pulled \subseteq pulled' /\ pulled' \subseteq PeerInputs
  BY <1>2, <1>4 DEF KInv, TypeOK
<1> QED
  BY <1>2, <1>3, <1>5, <1>7, <1>8, HandlerTypes, AsideKept DEF KInv, TypeOK

LEMMA DbFailedKept ==
    ASSUME KInv, NEW t \in Workers \cup Pollers, db_failed(t),
           GateProofs!PInv', HandlersProofs!IInv'
    PROVE  KInv'
<1>1. /\ t \in Handlers!Threads /\ req[t].kind # "put_key" /\ Handlers!rocks_error(t)
      /\ Aside /\ UNCHANGED <<pulled, visits>> /\ faults' = faults + 1
  BY HandlerTypes DEF db_failed
<1>2. /\ now' = now /\ db' = db
      /\ \A v \in Handlers!Threads \ {t} :
            pc'[v] = pc[v] /\ req'[v] = req[v] /\ seen'[v] = seen[v]
      /\ pc'[t] = "idle" /\ seen'[t] = None
  BY <1>1, ErrorEffects
<1>3. UploadInv'
  BY <1>1, <1>2, NotStoring, UploadsStay DEF Aside
<1>4. SeenInv' /\ PollInv' /\ StoredIsPaid'
  <2>1. \A d \in Clients : Charges(d)' = Charges(d)
    BY <1>1 DEF Charges, Aside, gate
  <2> QED
    BY <1>1, <1>2, <2>1, ThreadSide
<1> QED
  BY <1>1, <1>2, <1>3, <1>4, HandlerTypes, AsideKept DEF KInv, TypeOK

\* Compaction: what is stored decodes, so all it does is remove.
LEMMA CompactKept ==
    ASSUME KInv, NEW body \in Bodies, compact(body), GateProofs!PInv', HandlersProofs!IInv'
    PROVE  KInv'
<1>1. db[body] # None => db[body].serialized_payload # Garbage
  BY DistinctAssumption, SameData
     DEF KInv, HandlersProofs!IInv, HandlersProofs!StoredInv, HandlersProofs!Storable
<1>2. /\ db' = [db EXCEPT ![body] = None] /\ UNCHANGED <<now, pc, req, seen>>
      /\ Aside /\ UNCHANGED <<pulled, visits, faults>>
  BY <1>1 DEF compact, Handlers!ttl_filter
<1>3. \A b \in Bodies : db'[b] \in {None, db[b]}
  BY <1>2, HandlerTypes
<1>4. UploadInv' /\ SeenInv' /\ PollInv' /\ StoredIsPaid'
  BY <1>2, <1>3, StillThreads DEF Aside
<1> QED
  BY <1>2, <1>4, HandlerTypes, AsideKept DEF KInv, TypeOK

\* The clock goes on.
LEMMA TickKept ==
    ASSUME KInv, Tick, GateProofs!PInv', HandlersProofs!IInv'
    PROVE  KInv'
<1>1. /\ now' = now + 1 /\ UNCHANGED <<db, pc, req, seen>>
      /\ Aside /\ UNCHANGED <<pulled, visits, faults>>
  BY DEF Tick, Handlers!Tick
<1>2. UploadInv' /\ SeenInv' /\ PollInv' /\ StoredIsPaid'
  BY <1>1, StillThreads DEF Aside
<1> QED
  BY <1>1, <1>2, HandlerTypes, AsideKept DEF KInv, TypeOK

-----------------------------------------------------------------------------
(* The theorems.                                                           *)

LEMMA InitKInv == Init => KInv
<1> SUFFICES ASSUME Init
             PROVE  KInv
  OBVIOUS
<1>1. GateProofs!PInv
  BY SameGate, GateAssumed, GateProofs!InitPInv DEF Init
<1>2. HandlersProofs!IInv
  BY SameHandlers, HandlersAssumed, HandlersProofs!InitIInv DEF Init
<1>3. TypeOK
  BY DEF Init, TypeOK, NewClient, Stations
<1>4. \A c \in Clients : Charges(c) = {}
  BY DEF Init, Charges, NewClient
<1>5. ASSUME NEW c \in Clients
      PROVE  ClientInv(c)
  <2>1. client[c] = NewClient /\ unsure[c] = 0 /\ task_pc[c] = "idle"
    BY DEF Init, Gate!Init
  <2>2. Cardinality(Charges(c)) = 0
    BY <1>4, FS_EmptySet
  <2>3. Charged(c)
    BY <2>1, <2>2 DEF Charged, NewClient
  <2> QED
    BY <2>1, <2>3 DEF ClientInv, Station, Billed, Bearer, NewClient
<1>6. OwnBills /\ PaidBills /\ UploadInv
  BY DEF Init, Gate!Init, OwnBills, PaidBills, UploadInv, NewClient
<1>7. SeenInv /\ PollInv /\ StoredIsPaid
  BY DEF Init, Handlers!Init, Handlers!Threads, SeenInv, PollInv, StoredIsPaid
<1> QED
  BY <1>1, <1>2, <1>3, <1>5, <1>6, <1>7 DEF KInv

\* KInv is inductive.
LEMMA NextKInv ==
    ASSUME KInv, [Next]_vars
    PROVE  KInv'
<1>1. GateProofs!PInv' /\ HandlersProofs!IInv'
  BY PartsKept
<1>2. CASE crash
  BY <1>1, <1>2, CrashKept
<1>3. ASSUME NEW c \in Clients, Progress(c)
      PROVE  KInv'
  <2>1. UNCHANGED <<pulled, visits>>
    BY <1>3 DEF Progress
  <2>2. AddrsOf[c] \subseteq Addrs
    BY KeyserverAssumption
  <2> QED
    BY <1>1, <1>3, <2>1, <2>2, AskKept, InvoiceKept, PayKept, CheckKept, AcceptKept, SendKept,
       PutPaidKept, UploadKept, StoreKept DEF Progress
<1>4. ASSUME NEW c \in Clients, Trouble(c)
      PROVE  KInv'
  <2>1. UNCHANGED <<pulled, visits>>
    BY <1>4 DEF Trouble
  <2> QED
    BY <1>1, <1>4, <2>1, InvoiceFailedKept, SendFailedKept, StoreFailedKept, DisconnectKept,
       PutLostKept DEF Trouble
<1>5. CASE Background
  BY <1>1, <1>5, ServeKept, ReadKept, PullKept, PullStoreKept, DbFailedKept, CompactKept,
     TickKept DEF Background
<1>6. CASE UNCHANGED vars
  <2>1. UNCHANGED <<gate, client, pulled, unsure, visits, faults>>
        /\ UNCHANGED <<db, now, pc, req, seen>>
    BY <1>6 DEF vars, keys
  <2>2. /\ UploadInv' /\ SeenInv' /\ PollInv' /\ StoredIsPaid'
        /\ Aside /\ visits' \in Nat /\ faults' \in Nat /\ faults' >= faults
        /\ pulled \subseteq pulled' /\ pulled' \subseteq PeerInputs /\ now' >= now
    BY <2>1, StillThreads, HandlerTypes DEF KInv, TypeOK, Aside
  <2> QED
    BY <1>1, <2>2, AsideKept
<1> QED
  BY <1>2, <1>3, <1>4, <1>5, <1>6 DEF Next

\* The inductive invariant holds in every reachable state.
THEOREM KInvHolds == Spec => []KInv
  BY InitKInv, NextKInv, PTL DEF Spec

\* Clients, doubts and faults keep their types.
THEOREM KeyserverTypes == Spec => []TypeOK
<1>1. KInv => TypeOK
  BY DEF KInv
<1> QED
  BY <1>1, KInvHolds, PTL

\* What is in the database was put there by a client that has paid, whatever was
\* lost, failed or restarted on the way (README.md: updates are charged for), or was
\* pulled from a peer.
THEOREM StoragePaid == Spec => []StoredIsPaid
<1>1. KInv => StoredIsPaid
  BY DEF KInv
<1> QED
  BY <1>1, KInvHolds, PTL

\* A client pays again only for a payment that payment_handler left it in doubt of.
THEOREM ChargesBounded == Spec => []ChargedOnce
<1>1. ASSUME KInv, NEW c \in Clients
      PROVE  Cardinality(Charges(c)) <= 1 + unsure[c]
  <2>1. Cardinality(Charges(c)) \in Nat /\ unsure[c] \in Nat
    BY <1>1, FiniteCharges DEF KInv, TypeOK
  <2>2. \/ Cardinality(Charges(c)) <= unsure[c] + 1
        \/ Cardinality(Charges(c)) <= unsure[c] + 0
    BY <1>1 DEF KInv, ClientInv, Charged
  <2> QED
    BY <2>1, <2>2
<1>2. KInv => ChargedOnce
  BY <1>1 DEF ChargedOnce
<1> QED
  BY <1>2, KInvHolds, PTL

\* No client is turned away but for a fault of its own, of the node's configuration,
\* or because another client that has paid, or an answer of a peer, got ahead of it.
THEOREM RefusalsHaveCause == Spec => []RefusedWithCause
<1>1. KInv => RefusedWithCause
  BY DEF KInv, ClientInv, Cause, Overtaken, RefusedWithCause
<1> QED
  BY <1>1, KInvHolds, PTL

-----------------------------------------------------------------------------
(* The whole implements its parts.                                         *)

\* Seen from the payment gate, CheckPayment and payment_handler with these clients
\* behave as Payments says, which allows for any client.
THEOREM GateImplemented == Spec => Gate!Spec
<1>1. Init => Gate!Init
  BY DEF Init
<1>2. KInv /\ [Next]_vars => [Gate!Next]_Gate!vars
  <2>1. CASE Next
    BY <2>1, GateStep DEF KInv, ClientInv
  <2>2. CASE UNCHANGED vars
    BY <2>2 DEF vars, gate, Gate!vars, Gate!server, Gate!node, Gate!history
  <2> QED
    BY <2>1, <2>2
<1> QED
  BY <1>1, <1>2, KInvHolds, PTL DEF Spec, Gate!Spec

\* Seen from the database, put_key behind the gate, get_key, peer_polling and
\* compaction together behave as KeyHandlers says, the theorems of which are about
\* the assembled server by this.
THEOREM HandlersImplemented == Spec => Handlers!Spec
<1>1. Init => Handlers!Init
  BY DEF Init
<1>2. KInv /\ [Next]_vars => [Handlers!Next]_Handlers!vars
  <2>1. CASE Next
    BY <2>1, HandlersStep DEF KInv
  <2>2. CASE UNCHANGED vars
    BY <2>2 DEF vars, keys, Handlers!vars
  <2> QED
    BY <2>1, <2>2
<1> QED
  BY <1>1, <1>2, KInvHolds, PTL DEF Spec, Handlers!Spec

\* So what holds of the gate holds of the whole: no update gets past CheckPayment
\* unless its URL was paid for.
THEOREM WholeGatePaid == Spec => []Gate!GateIsPaid
<1>1. KInv => Gate!GateIsPaid
  BY DEF KInv, GateProofs!PInv, GateProofs!GateIsPaid, Gate!GateIsPaid
<1> QED
  BY <1>1, KInvHolds, PTL

\* And what holds of the handlers: with peers putting beside the clients that paid,
\* the database has, and get_key serves, only what the owner of the address signed.
THEOREM WholeAuthentic == Spec => []Handlers!OnlyAuthentic
<1>1. Spec => []HandlersProofs!OnlyAuthentic
  <2>1. Spec => HandlersProofs!Spec
    BY SameHandlers, HandlersImplemented, PTL DEF Handlers!Spec, HandlersProofs!Spec
  <2> QED
    BY <2>1, HandlersAssumed, HandlersProofs!Authenticity, PTL
<1>2. HandlersProofs!OnlyAuthentic => Handlers!OnlyAuthentic
  BY DEF HandlersProofs!OnlyAuthentic, Handlers!OnlyAuthentic, HandlersProofs!Authentic,
         Handlers!Authentic, HandlersProofs!Threads, Handlers!Threads
<1> QED
  BY <1>1, <1>2, PTL

\* The whole keeps the promise of PaidGate to its clients: what they upload is let
\* through on credit, and credit is only to be had for a bill that was settled.
THEOREM WholePromise == Spec => Gate!PromiseSpec
<1>1. Spec => GateProofs!Spec
  BY SameGate, GateImplemented, PTL DEF Gate!Spec, GateProofs!Spec
<1>2. Spec => GateProofs!PromiseSpec
  BY <1>1, GateAssumed, GateProofs!GatePromise, PTL
<1>3. GateProofs!PromiseSpec => Gate!PromiseSpec
  <2>1. GateProofs!Settled = Gate!Settled /\ GateProofs!Pending = Gate!Pending
    BY DEF GateProofs!Settled, Gate!Settled, GateProofs!Pending, Gate!Pending,
           GateProofs!Sending, Gate!Sending, GateProofs!Output, Gate!Output
  <2>2. GateProofs!Promise!Init => Gate!Promise!Init
    BY <2>1 DEF GateProofs!Promise!Init, Gate!Promise!Init
  <2>3. (GateProofs!Settled = Gate!Settled /\ GateProofs!Pending = Gate!Pending)'
    BY DEF GateProofs!Settled, Gate!Settled, GateProofs!Pending, Gate!Pending,
           GateProofs!Sending, Gate!Sending, GateProofs!Output, Gate!Output
  <2>4. GateProofs!Promise!Next => Gate!Promise!Next
    BY <2>1, <2>3 DEF GateProofs!Promise!Next, Gate!Promise!Next,
       GateProofs!Promise!Bill, Gate!Promise!Bill, GateProofs!Promise!Settle,
       Gate!Promise!Settle, GateProofs!Promise!Collect, Gate!Promise!Collect,
       GateProofs!Promise!Pass, Gate!Promise!Pass, GateProofs!Promise!Restart,
       Gate!Promise!Restart
  <2>5. [GateProofs!Promise!Next]_<<handed, wallet, GateProofs!Settled, GateProofs!Pending,
                                    {k.url : k \in acks}, passes>>
        => [Gate!Promise!Next]_<<handed, wallet, Gate!Settled, Gate!Pending,
                                 {k.url : k \in acks}, passes>>
    BY <2>1, <2>3, <2>4
  <2> QED
    BY <2>2, <2>5, PTL
    DEF GateProofs!PromiseSpec, Gate!PromiseSpec, GateProofs!Promise!Spec, Gate!Promise!Spec
<1> QED
  BY <1>2, <1>3, PTL
=============================================================================
