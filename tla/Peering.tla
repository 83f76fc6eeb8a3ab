------------------------------ MODULE Peering ------------------------------
(***************************************************************************)
(* Keyservers that poll each other.  Announcements of paid updates arrive  *)
(* on the transaction stream of each (bitcoin/tx_stream.rs), and its       *)
(* peer_polling (net/peer.rs) takes them one at a time, waits, asks the    *)
(* announcing peer and stores what it answers.  Pollers run this code;     *)
(* other peers may answer as they like.                                    *)
(*                                                                         *)
(* On the database of a poller its peer_polling, the PUTs of its clients   *)
(* and GETs interleave at every RocksDB call, as in KeyDB; here the result *)
(* of check_timestamp also decides what is asked for and found elsewhere.  *)
(***************************************************************************)
EXTENDS Integers, Sequences, FiniteSets

CONSTANTS
    Peers,         \* keyservers
    Pollers,       \* those that run this code
    Hung,          \* those that never answer
    Bodies,        \* addresses
    Updates,       \* what the owners of the addresses have signed
    Paid,          \* those that clients pay for
    PeerOf,        \* PeerOf[k]: the URL in the announcement of k
    BodyOf,        \* BodyOf[k]: the address that k is about
    Timestamp,     \* Timestamp[k]
    Ttl,           \* Ttl[k], in ticks, or Forever
    Prompt,        \* updates whose clients put before their invoice expires
    Delay,         \* VALID_DURATION, in ticks
    Horizon,       \* the clock stops here, when all that expires has expired
    MaxFaults,     \* bound on the faults
    Forever, Err, Garbage, None

\* Updates whose clients put at a server that runs this code.
Clients == {k \in Updates : PeerOf[k] \in Pollers}

ASSUME PeeringAssumption ==
    /\ Pollers \subseteq Peers
    /\ Hung \subseteq Peers \ Pollers
    /\ PeerOf \in [Updates -> Peers]
    /\ BodyOf \in [Updates -> Bodies]
    /\ Timestamp \in [Updates -> Nat]
    /\ Forever \notin Nat
    /\ Delay \in Nat \ {0}
    /\ Ttl \in [Updates -> Nat \cup {Forever}]
    /\ Horizon \in Nat
    /\ \A k \in Updates : Ttl[k] # Forever => Timestamp[k] + Ttl[k] < Horizon
    /\ Paid \subseteq Updates
    /\ Prompt \subseteq Paid \cap Clients
    /\ MaxFaults \in Nat
    /\ {Err, Garbage, None} \cap Updates = {}
    /\ Pollers \cap Updates = {}

\* The threads that write to a database: a poller, and for each client the worker
\* that serves its PUT.
Threads == Pollers \cup Clients

\* The server whose database thread t uses.
Server(t) == IF t \in Pollers THEN t ELSE PeerOf[t]

VARIABLES
    now,           \* SystemTime::now()
    client,        \* per update: its client has not paid, has paid, has put
    invoice,       \* per update: ticks until its invoice expires
    store,         \* per poller and address: the update in its database, or None
    queue,         \* per poller: what its stream holds
    pc,            \* per thread: where it is
    raw,           \* per thread: the metadata it is to store
    seen,          \* per thread: what its get() has read
    job,           \* per poller: the announcement it is at
    wait,          \* per poller: ticks left of the waiting period
    visits,        \* per poller: copies that GET handlers have in hand and that may expire
    missed,        \* history, per poller: lost announcements and those whose GET failed
    lost,          \* history, per poller: live updates rolled back by a write on a stale copy
    faults         \* repeated, lost and broken messages; failed calls and restarts

clock == <<now, invoice, wait>>
db == <<store, lost>>
thread == <<pc, raw, seen, job>>
vars == <<clock, client, db, queue, thread, visits, missed, faults>>

Fault ==
    /\ faults < MaxFaults
    /\ faults' = faults + 1

expired(k) == Ttl[k] # Forever /\ Timestamp[k] + Ttl[k] < now

\* What a get at this moment finds at server q.
Found(q, b) == IF store[q][b] # None /\ ~expired(store[q][b]) THEN store[q][b] ELSE None

-----------------------------------------------------------------------------
\* What server p makes of the announcement of k: extract_op_return leaves out the
\* server's own.
extract_details(p, k) == IF PeerOf[k] = p THEN <<>> ELSE <<k>>

\* The client of k pays; one that is prompt does so while k is alive.
Pay(k) ==
    /\ client[k] = "new" /\ k \in Paid
    /\ k \in Prompt => ~expired(k)
    /\ client' = [client EXCEPT ![k] = "paid"]
    /\ invoice' = [invoice EXCEPT ![k] = Delay]
    /\ UNCHANGED <<now, wait, db, thread, visits>>

\* The nodes publish the transaction.
announce(k) ==
    /\ Pay(k)
    /\ queue' = [p \in Pollers |-> queue[p] \o extract_details(p, k)]
    /\ UNCHANGED <<missed, faults>>

\* The message of one node is dropped on its way, at a full buffer or while the
\* stream reconnects: ZMQ publishers do not wait for subscribers.
announce_lost(p, k) ==
    /\ Pay(k) /\ PeerOf[k] # p
    /\ Fault
    /\ queue' = [q \in Pollers |->
                    IF q = p THEN queue[q] ELSE queue[q] \o extract_details(q, k)]
    /\ missed' = [missed EXCEPT ![p] = @ \cup {k}]

\* A node publishes it again when it is mined.
announce_again(p, k) ==
    /\ client[k] # "new"
    /\ Fault
    /\ queue' = [queue EXCEPT ![p] = @ \o extract_details(p, k)]
    /\ UNCHANGED <<clock, client, db, thread, visits, missed>>

\* A broken message or bytes that are no transaction.
stream_error(p) ==
    /\ Fault
    /\ queue' = [queue EXCEPT ![p] = Append(@, Err)]
    /\ UNCHANGED <<clock, client, db, thread, visits, missed>>

-----------------------------------------------------------------------------
(* The database of a server, and the threads that write to it.              *)

\* A live entry would give way to none or to an older one, and the writing thread
\* saw something else than this entry.
RolledBack(q, b, old, new) ==
    /\ Found(q, b) \notin {None, old}
    /\ new = None \/ Timestamp[new] < Timestamp[Found(q, b)]

\* RocksDB's put, or its delete if new is None, by a thread whose get() read old.
Write(q, b, old, new) ==
    /\ store' = [store EXCEPT ![q][b] = new]
    /\ lost' = IF RolledBack(q, b, old, new)
               THEN [lost EXCEPT ![q] = @ \cup {store[q][b]}] ELSE lost

\* Thread t goes on to label with k to store and old read.
Goto(t, label, k, old) ==
    /\ pc' = [pc EXCEPT ![t] = label]
    /\ raw' = [raw EXCEPT ![t] = k]
    /\ seen' = [seen EXCEPT ![t] = old]

\* The slip of keeping the announcement in hand.
Return_keeping(t) ==
    /\ Goto(t, "idle", None, None)
    /\ UNCHANGED job

\* Thread t is done: put_key responds, or the closure of peer_polling returns and
\* for_each may take the next item.
Return(t) ==
    /\ Goto(t, "idle", None, None)
    /\ job' = [p \in Pollers |-> IF p = t THEN None ELSE job[p]]

\* The client of t has its answer, whether Ok or a refusal.
Responded(t) == client' = IF t \in Clients THEN [client EXCEPT ![t] = "put"] ELSE client

\* The client in this state puts its update with the token it paid for.
Upload(k, state) ==
    /\ pc[k] = "idle" /\ client[k] = state
    /\ Goto(k, "read", k, None)
    /\ UNCHANGED <<clock, client, db, queue, job, visits, missed, faults>>

client_put(k) == Upload(k, "paid")

\* Its token stays valid, so it may do so again.
client_put_again(k) == Upload(k, "put")

\* KeyDB::get in check_timestamp.
get(t) ==
    /\ pc[t] = "read"
    /\ Goto(t, "check", raw[t], store[Server(t)][BodyOf[raw[t]]])
    /\ UNCHANGED <<clock, client, db, queue, job, visits, missed, faults>>

\* The entry read has expired: get deletes by key, returns None and so lets the put
\* through.
get_delete(t) ==
    /\ pc[t] = "check"
    /\ seen[t] # None /\ expired(seen[t])
    /\ Write(Server(t), BodyOf[raw[t]], seen[t], None)
    /\ Goto(t, "put", raw[t], None)
    /\ UNCHANGED <<clock, client, queue, job, visits, missed, faults>>

\* The slip of storing whatever is authentic.
Refused_never(k, old) == FALSE

\* The slip of keeping what is there.
Refused_present(k, old) == TRUE

\* check_timestamp of k against the living entry old: Outdated or ExpiredTTL.
Refused(k, old) == Timestamp[k] < Timestamp[old] \/ expired(k)

check_timestamp(t) ==
    /\ pc[t] = "check"
    /\ seen[t] # None => ~expired(seen[t])
    /\ IF seen[t] # None /\ Refused(raw[t], seen[t])
       THEN Return(t) /\ Responded(t)
       ELSE Goto(t, "put", raw[t], seen[t]) /\ UNCHANGED <<job, client>>
    /\ UNCHANGED <<clock, db, queue, visits, missed, faults>>

put(t) ==
    /\ pc[t] = "put"
    /\ Write(Server(t), BodyOf[raw[t]], seen[t], raw[t])
    /\ Return(t) /\ Responded(t)
    /\ UNCHANGED <<clock, queue, visits, missed, faults>>

\* RocksDB fails, in get, in its delete or in put.  put_key answers 500 and the client
\* tries again; peer_polling drops the announcement.
db_failed(t) ==
    /\ pc[t] \in {"read", "check", "put"}
    /\ pc[t] = "check" => seen[t] # None /\ expired(seen[t])
    /\ Fault
    /\ missed' = [p \in Pollers |-> IF p = t THEN missed[p] \cup {job[p]} ELSE missed[p]]
    /\ Return(t)
    /\ UNCHANGED <<clock, client, db, queue, visits>>

\* get_key for somebody: the copy it reads may expire before it is served.
get_key(q, b) ==
    /\ store[q][b] # None /\ Ttl[store[q][b]] # Forever
    /\ visits' = [visits EXCEPT ![q] = @ \cup {store[q][b]}]
    /\ UNCHANGED <<clock, client, db, queue, thread, missed, faults>>

\* One of the GET handlers that read k, perhaps not the last, tests it and serves or
\* deletes.
get_key_expiry(q, k) ==
    /\ k \in visits[q]
    /\ \/ visits' = [visits EXCEPT ![q] = @ \ {k}]
       \/ UNCHANGED visits
    /\ IF expired(k) THEN Write(q, BodyOf[k], k, None) ELSE UNCHANGED db
    /\ UNCHANGED <<clock, client, queue, thread, missed, faults>>

\* Compaction drops an expired entry.
ttl_filter(q, b) ==
    /\ store[q][b] # None /\ expired(store[q][b])
    /\ store' = [store EXCEPT ![q][b] = None]
    /\ UNCHANGED <<clock, client, lost, queue, thread, visits, missed, faults>>

-----------------------------------------------------------------------------
(* peer_polling.                                                            *)

\* The waiting period of the next item starts; an error has none.
Begin(p, item, ticks) ==
    /\ pc[p] = "idle" /\ queue[p] # <<>>
    /\ queue' = [queue EXCEPT ![p] = Tail(@)]
    /\ IF item = Err THEN UNCHANGED <<pc, job, wait>>
       ELSE /\ pc' = [pc EXCEPT ![p] = "wait"]
            /\ job' = [job EXCEPT ![p] = item]
            /\ wait' = [wait EXCEPT ![p] = ticks]
    /\ UNCHANGED <<now, invoice, client, db, raw, seen, visits, missed, faults>>

\* The slip of asking at once.
take_hurried(p) == Begin(p, Head(queue[p]), 0)

\* The slip of leaving the loop at an error of the stream.
take_giving_up(p) == queue[p] # <<>> /\ Head(queue[p]) # Err /\ Begin(p, Head(queue[p]), Delay)

\* for_each takes the next item.  (Encoding the address, which the code does before it
\* waits, fails for no 20-byte body.)
take(p) == Begin(p, Head(queue[p]), Delay)

\* The waiting period is over and the GET goes out.
get_metadata(p) ==
    /\ pc[p] = "wait" /\ wait[p] = 0
    /\ pc' = [pc EXCEPT ![p] = "get"]
    /\ UNCHANGED <<clock, client, db, queue, raw, seen, job, visits, missed, faults>>

\* The URL does not parse, or the peer cannot be reached, breaks off or fails: the
\* announcement is dropped.
get_failed(p) ==
    /\ pc[p] = "get"
    /\ Fault
    /\ missed' = [missed EXCEPT ![p] = @ \cup {job[p]}]
    /\ Return(p)
    /\ UNCHANGED <<clock, client, db, queue, visits>>

\* The answer is decoded and validated.
Answered(p, answer) ==
    IF answer # Garbage /\ BodyOf[answer] = BodyOf[job[p]]
    THEN Goto(p, "read", answer, None) /\ UNCHANGED job
    ELSE Return(p)

\* A server of this kind answers with the entry that its get_key reads.  When that has
\* expired its handler has the copy in hand to delete by, and sends an error page.
pull(p) ==
    /\ pc[p] = "get" /\ PeerOf[job[p]] \in Pollers
    /\ LET q == PeerOf[job[p]]
           b == BodyOf[job[p]]
       IN  IF Found(q, b) # None
           THEN Answered(p, store[q][b]) /\ UNCHANGED visits
           ELSE /\ Answered(p, Garbage)
                /\ visits' = [visits EXCEPT ![q] = @ \cup ({store[q][b]} \ {None})]
    /\ UNCHANGED <<clock, client, db, queue, missed, faults>>

\* Any other sends what it likes, paid for or not; what no owner has signed is Garbage.
pull_any(p, answer) ==
    /\ pc[p] = "get" /\ PeerOf[job[p]] \notin Pollers \cup Hung
    /\ Answered(p, answer)
    /\ UNCHANGED <<clock, client, db, queue, visits, missed, faults>>

-----------------------------------------------------------------------------
Sub(n) == IF n > 0 THEN n - 1 ELSE 0

\* A second passes.  The client of a prompt update has its answer before its invoice
\* expires.
Tick ==
    /\ \A k \in Prompt : client[k] = "paid" => invoice[k] > 1
    /\ now' = IF now < Horizon THEN now + 1 ELSE now
    /\ invoice' = [k \in Updates |-> Sub(invoice[k])]
    /\ wait' = [p \in Pollers |-> Sub(wait[p])]
    /\ UNCHANGED <<client, db, queue, thread, visits, missed, faults>>

\* Server p still has the announcement of k before it.
Pending(p, k) == job[p] = k \/ \E i \in DOMAIN queue[p] : queue[p][i] = k

\* The database survives; the stream's items, the announcement in hand and all
\* requests do not.
restart(q) ==
    LET ended == {t \in Threads : Server(t) = q} IN
    /\ Fault
    /\ missed' = [missed EXCEPT ![q] = @ \cup {k \in Updates : Pending(q, k)}]
    /\ queue' = [queue EXCEPT ![q] = <<>>]
    /\ pc' = [t \in Threads |-> IF t \in ended THEN "idle" ELSE pc[t]]
    /\ raw' = [t \in Threads |-> IF t \in ended THEN None ELSE raw[t]]
    /\ seen' = [t \in Threads |-> IF t \in ended THEN None ELSE seen[t]]
    /\ job' = [job EXCEPT ![q] = None]
    /\ wait' = [wait EXCEPT ![q] = 0]
    /\ visits' = [visits EXCEPT ![q] = {}]
    /\ UNCHANGED <<now, invoice, client, db>>

Init ==
    /\ now = 0
    /\ client = [k \in Updates |-> "new"]
    /\ invoice = [k \in Updates |-> 0]
    /\ store = [q \in Pollers |-> [b \in Bodies |-> None]]
    /\ queue = [p \in Pollers |-> <<>>]
    /\ pc = [t \in Threads |-> "idle"]
    /\ raw = [t \in Threads |-> None]
    /\ seen = [t \in Threads |-> None]
    /\ job = [p \in Pollers |-> None]
    /\ wait = [p \in Pollers |-> 0]
    /\ visits = [q \in Pollers |-> {}]
    /\ missed = [p \in Pollers |-> {}]
    /\ lost = [q \in Pollers |-> {}]
    /\ faults = 0

DbStep(t) == get(t) \/ get_delete(t) \/ check_timestamp(t) \/ put(t)

peer_polling(p) ==
    \/ take(p)
    \/ get_metadata(p)
    \/ pull(p)
    \/ \E answer \in Updates \cup {Garbage} : pull_any(p, answer)
    \/ DbStep(p)

\* The PUT of the client of k, without errors.
put_key(k) == client_put(k) \/ DbStep(k)

Next ==
    \/ Tick
    \/ \E k \in Updates : announce(k)
    \/ \E k \in Clients : put_key(k) \/ client_put_again(k)
    \/ \E t \in Threads : db_failed(t)
    \/ \E p \in Pollers :
          \/ restart(p)
          \/ stream_error(p)
          \/ get_failed(p)
          \/ peer_polling(p)
          \/ \E b \in Bodies : get_key(p, b) \/ ttl_filter(p, b)
          \/ \E k \in Updates :
                announce_lost(p, k) \/ announce_again(p, k) \/ get_key_expiry(p, k)

Spec == Init /\ [][Next]_vars

\* Time passes, peer_polling goes on where nothing keeps it waiting, and a peer
\* that answers does so some time; one that is hung has no answer to be fair to.
\* Prompt clients put, and the worker that serves them goes on.
FairSpec ==
    /\ Spec
    /\ WF_vars(Tick)
    /\ \A p \in Pollers : WF_vars(peer_polling(p))
    /\ \A k \in Prompt : WF_vars(put_key(k))

-----------------------------------------------------------------------------
TypeOK ==
    /\ now \in 0 .. Horizon
    /\ client \in [Updates -> {"new", "paid", "put"}]
    /\ invoice \in [Updates -> 0 .. Delay]
    /\ store \in [Pollers -> [Bodies -> Updates \cup {None}]]
    /\ queue \in [Pollers -> Seq(Updates \cup {Err})]
    /\ pc \in [Threads -> {"idle", "wait", "get", "read", "check", "put"}]
    /\ raw \in [Threads -> Updates \cup {None}]
    /\ seen \in [Threads -> Updates \cup {None}]
    /\ job \in [Pollers -> Updates \cup {None}]
    /\ wait \in [Pollers -> 0 .. Delay]
    /\ visits \in [Pollers -> SUBSET Updates]
    /\ missed \in [Pollers -> SUBSET Updates]
    /\ lost \in [Pollers -> SUBSET Updates]
    /\ faults \in 0 .. MaxFaults
    /\ \A p \in Pollers : job[p] = None <=> pc[p] = "idle"
    /\ \A k \in Clients : pc[k] \notin {"wait", "get"}
    /\ \A t \in Threads : raw[t] # None <=> pc[t] \in {"read", "check", "put"}

\* Whatever peers answer and in whichever order updates are announced, repeated
\* or lost, no peer can bring back what was replaced, and servers that pull from each
\* other do not pass an old update round in a circle: a live entry gives way to an
\* older one or to none only in a write of a thread that had read another entry, which
\* was then replaced under its hands.
RolledBackOnlyByRace ==
    [][\A q \in Pollers, b \in Bodies :
          Found(q, b) # None =>
              \/ store'[q][b] # None /\ Timestamp[store'[q][b]] >= Timestamp[Found(q, b)]
              \/ Found(q, b) \in lost'[q]]_vars

\* Updates that may stand in for k.
Newer(k) == {n \in Updates : BodyOf[n] = BodyOf[k] /\ Timestamp[n] >= Timestamp[k]}

\* Server p has k or a newer update.
Arrived(p, k) == Found(p, BodyOf[k]) \in Newer(k)

\* Time has run out for k or for something that may have replaced it.
Outlived(k) == \E n \in Newer(k) : expired(n)

\* Server q had k or a newer update and lost it in a race.
Lost(q, k) == Newer(k) \cap lost[q] # {}

\* The purpose of the waiting period: the payment is on the chain before the
\* update is put, but when a server asks a peer that runs this code, a client that kept
\* to the validity of its invoice has put.  The peer then has the update, or one that
\* replaced it, unless its time is over or the peer lost it in a race of its threads.
PromptFound ==
    \A p \in Pollers :
        LET k == job[p] IN
        pc[p] = "get" /\ k \in Prompt =>
            Arrived(PeerOf[k], k) \/ Outlived(k) \/ Lost(PeerOf[k], k)

\* k and all that may replace it live for ever.
Lasting(k) == \A n \in Newer(k) : Ttl[n] = Forever

\* No update is passed over: once its client has put it, a prompt update that lasts
\* is at a server, or a newer one is, or the server still has its announcement
\* before it, unless that was lost or its GET failed, or the update fell to a race at
\* this server or at the one it was to come from.
NoneSkipped ==
    \A k \in Prompt, p \in Pollers :
        client[k] = "put" /\ Lasting(k) =>
            \/ Arrived(p, k) \/ Pending(p, k) \/ k \in missed[p]
            \/ Lost(p, k) \/ Lost(PeerOf[k], k)

\* Every such update reaches every server in the end: repeated announcements, errors
\* of the stream, failures of other GETs, GETs of others, compaction and peers that
\* answer anything do not keep it away.
Converges ==
    \A k \in Prompt, p \in Pollers :
        Lasting(k) /\ PeerOf[k] # p =>
            (client[k] = "paid" ~>
                Arrived(p, k) \/ k \in missed[p] \/ Lost(p, k) \/ Lost(PeerOf[k], k))

-----------------------------------------------------------------------------
\* "At most, a malicious keyserver can censor a particular key, in which case
\* other keyservers will provide it" (README.md): a peer that answers nothing
\* does not keep a server from pulling other updates.
OthersProvide == Converges

\* "Waiting for peering delay..." (example/peering.py): after the waiting period
\* the update that the client has put is found at the other server.
PeeredAfterDelay ==
    \A k \in Prompt, p \in Pollers :
        client[k] = "paid" ~>
            Arrived(p, k) \/ k \in missed[p] \/ Lost(p, k) \/ Lost(PeerOf[k], k)
=============================================================================
