----------------------------- MODULE Keyserver -----------------------------
(***************************************************************************)
(* A keyserver as main.rs assembles it, and clients that use it as the     *)
(* test test_put_payment and example/basic.py do: PUT without a token, pay *)
(* the invoice, follow the redirect, PUT with the token.  PUT passes       *)
(* CheckPayment before it reaches put_key; the gate is an instance of      *)
(* Payments, where a task is the request that a client has open, and the   *)
(* handlers are an instance of KeyHandlers on the same workers.            *)
(*                                                                         *)
(* On the same database peer_polling, which asks nobody for a payment,     *)
(* puts what peers answer (what it asks for, and when, is the subject of   *)
(* Peering), anybody may GET, RocksDB compacts and the clock goes on.      *)
(*                                                                         *)
(* A client sees responses only.  When one is lost, or tells of a failure  *)
(* of the server, it repeats the request; when a payment is refused, it    *)
(* asks for another invoice.                                               *)
(***************************************************************************)
EXTENDS Integers, Sequences, FiniteSets

CONSTANTS
    PubKeys, Bodies, RawAddress, Entries, Schemes, MaxI64,     \* as in Metadata
    Workers, Pollers, MaxTime, AddrStrs, AddrBody,             \* as in KeyHandlers
    Urls, NotPop, Garbage, None,                               \* as in Payments
    Clients,       \* clients, each with one request open at a time
    WorkerOf,      \* WorkerOf[c]: the worker that has c's connection
    UrlsOf,        \* UrlsOf[c]: the ways in which c may write its URL
    MetaOf,        \* MetaOf[c]: the update of c
    PeerInputs,    \* metadata that peers answer with
    PathOf,        \* PathOf[u]: the address string in the path of u
    Normal,        \* Normal[u]: u as Url::parse and into_string write it
    AddrsOf,       \* AddrsOf[c]: addresses the node may generate for c
    MaxAddr,       \* bound on the addresses the node generates
    MaxPasses,     \* bound on the updates admitted per URL
    MaxCrashes,    \* bound on the number of restarts
    MaxEvents      \* bound on Events

Addrs == 1 .. MaxAddr
Inputs == {MetaOf[c] : c \in Clients} \cup PeerInputs
Decodable == {u \in Urls : AddrBody[PathOf[u]] # Garbage}

\* The transaction a client makes of an invoice, and what it posts.
TxFor(a) == <<[value |-> 5, addr |-> a]>>
PostFor(a, url) ==
    [content_type |-> TRUE, accept |-> TRUE, raw |-> [tx |-> TxFor(a), merchant_data |-> url]]

VARIABLES
    wallet, task_pc, payment, at, handed, chain,               \* of Payments
    invoices, admissions, acks, passes, crashes,
    db, now, pc, req, seen, reply,                             \* of KeyHandlers
    client,        \* per client: where it is, and what it has been sent
    pulled,        \* history: what peer_polling has put into the database
    unsure,        \* history: payments of a client without a clear answer
    visits,        \* GETs and answers of peers
    faults         \* lost answers and failed calls

gate == <<wallet, task_pc, payment, at, handed, chain,
          invoices, admissions, acks, passes, crashes>>
keys == <<db, now, pc, req, seen, reply>>
vars == <<gate, keys, client, pulled, unsure, visits, faults>>

Gate == INSTANCE Payments WITH
    Tasks <- Clients, pc <- task_pc,
    Txs <- {TxFor(a) : a \in Addrs},
    Posts <- {PostFor(a, u) : a \in Addrs, u \in Urls}

Handlers == INSTANCE KeyHandlers

ASSUME KeyserverAssumption ==
    /\ WorkerOf \in [Clients -> Workers]
    /\ UrlsOf \in [Clients -> SUBSET Urls]
    /\ MetaOf \in [Clients -> Handlers!AddressMetadata]
    /\ PeerInputs \subseteq Handlers!AddressMetadata
    /\ Workers \cap Pollers = {} /\ MaxTime \in Nat
    /\ PathOf \in [Urls -> AddrStrs]
    /\ AddrsOf \in [Clients -> SUBSET Addrs]
    /\ Normal \in [Urls -> Urls]
    /\ \A u \in Urls : Normal[Normal[u]] = Normal[u]
    /\ MaxAddr \in Nat /\ MaxPasses \in Nat /\ MaxCrashes \in Nat /\ MaxEvents \in Nat
    /\ RawAddress \in [PubKeys -> Bodies] /\ MaxI64 \in Nat
    /\ AddrBody \in [AddrStrs -> Bodies \cup {Garbage}]

\* None and bytes that do not decode are nothing else.
ASSUME DistinctAssumption ==
    /\ None \notin Urls /\ None \notin Addrs
    /\ None \notin Handlers!AddressMetadata \cup {Garbage, NotPop}
    /\ None \notin [msg : Urls, secret : {"server", "other"}]
    /\ Garbage \notin PubKeys \cup Bodies /\ Garbage \notin Urls
    /\ \A a \in Addrs : TxFor(a) \notin {None, Garbage}
    /\ \A a \in Addrs, u \in Urls : PostFor(a, u).raw \notin {None, Garbage}
    /\ Garbage \notin Handlers!Payload \cup Handlers!Signature \cup Handlers!AddressMetadata

-----------------------------------------------------------------------------
\* Statuses that a client gets for errors (net/errors.rs).
PaymentErrors ==
    {"Content", "Accept", "Decode", "Payload", "NoMerchantDat", "InvalidMerchantDat",
     "InvalidAuth", "NoToken", "URIMalformed", "NoTx", "TxDecode", "InvalidOutputs",
     "InvalidTx", "MismatchedNetwork", "AddrFetchFailed"}

payment_error_response(error) ==
    CASE error = "Accept" -> 406
      [] error = "Content" -> 415
      [] error \in {"InvalidAuth", "NoToken"} -> 402
      [] error = "AddrFetchFailed" -> 500
      [] OTHER -> 400

error_response(error) ==
    CASE error = "DB" -> 500
      [] error = "NotFound" -> 404
      [] error \in PaymentErrors -> payment_error_response(error)
      [] OTHER -> 400

Stations ==
    {"start", "asking", "invoiced", "paying", "acked", "uploading", "storing",
     "done", "refused"}

NewClient ==
    [at |-> "start", url |-> None, bills |-> {}, addr |-> None, token |-> None,
     error |-> None]

Move(c, station) == client' = [client EXCEPT ![c].at = station]

\* A failure of the server is worth the same request again, other errors are not.
React(c, error, again) ==
    client' = [client EXCEPT ![c].at = IF error_response(error) = 500 THEN again ELSE "refused",
                             ![c].error = IF error_response(error) = 500 THEN None ELSE error]

\* Faults, restarts, GETs, answers of peers and seconds, together.
Events == faults + crashes + visits + now

\* A fault hits client c.
Fault(c) ==
    /\ Events < MaxEvents
    /\ faults' = faults + 1
    /\ unsure' = IF client[c].at = "paying" THEN [unsure EXCEPT ![c] = @ + 1] ELSE unsure

NoFault == UNCHANGED <<unsure, faults>>

\* The handlers do not await once they use the database, so no other request of
\* the same worker goes on meanwhile.
Free(c) == pc[WorkerOf[c]] = "idle"

-----------------------------------------------------------------------------
\* PUT without a token.
ask(c, url) ==
    /\ client[c].at = "start" /\ Free(c)
    /\ Gate!call(c, url, None)
    /\ client' = [client EXCEPT ![c].url = url,
                                ![c].at = IF url \in Decodable THEN "asking" ELSE "refused",
                                ![c].error = IF url \in Decodable THEN None ELSE "Address"]
    /\ NoFault /\ UNCHANGED keys

\* 402 with an invoice: an address to pay to, and the URL as merchant data.
invoice(c, a) ==
    /\ Free(c)
    /\ Gate!get_new_addr(c, a)
    /\ client' = [client EXCEPT ![c].at = "invoiced", ![c].addr = a, ![c].bills = @ \cup {a}]
    /\ NoFault /\ UNCHANGED keys

invoice_failed(c, error) ==
    /\ Free(c)
    /\ error \in {"AddrFetchFailed", "Address", "MismatchedNetwork"}
    /\ Gate!get_new_addr_failed(c)
    /\ React(c, error, "start")
    /\ Fault(c) /\ UNCHANGED keys

\* POST of the payment.
pay(c) ==
    /\ client[c].at = "invoiced" /\ Free(c)
    /\ Gate!payment_handler(c, PostFor(client[c].addr, client[c].url))
    /\ Move(c, "paying")
    /\ NoFault /\ UNCHANGED keys

\* check_outputs; InvalidOutputs if it finds nothing, and the client asks again.
check(c) ==
    /\ Gate!Check(c)
    /\ IF task_pc'[c] = "idle" THEN Move(c, "start") ELSE UNCHANGED client
    /\ NoFault /\ UNCHANGED keys

node_accept(c) == Gate!node_accept(c) /\ NoFault /\ UNCHANGED <<client, keys>>

\* InvalidTx, whatever became of the transaction; the client asks again.
send_tx_failed(c) ==
    /\ Free(c)
    /\ Gate!send_tx_failed(c)
    /\ Move(c, "start")
    /\ Fault(c) /\ UNCHANGED keys

\* The slip of redirecting to a URL of the server's own choice for the same key.
redirect_url_own(merchant_data) == CHOOSE u \in Urls : PathOf[u] = PathOf[merchant_data]

\* The slip of sending no Location.
redirect_url_missing(merchant_data) == None

\* Location is the merchant data after a pass through Url.
redirect_url(merchant_data) == Normal[merchant_data]

\* 202 with a token over the merchant data, and the URL to put to.
send_tx(c) ==
    /\ Free(c)
    /\ Gate!send_tx(c)
    /\ LET merchant_data == client[c].url IN
       client' = [client EXCEPT ![c].at = "acked",
                                ![c].url = redirect_url(merchant_data),
                                ![c].token = Gate!generate_token(merchant_data, "server")]
    /\ NoFault /\ UNCHANGED keys

\* PUT to Location with the token: CheckPayment lets it through to put_key, which
\* waits for the body, or answers InvalidAuth.
put_paid(c) ==
    /\ client[c].at = "acked" /\ Free(c)
    /\ Gate!call(c, client[c].url, client[c].token)
    /\ IF Gate!validate_token(client[c].url, "server", client[c].token)
       THEN Move(c, "uploading")
       ELSE React(c, "InvalidAuth", "acked")
    /\ NoFault /\ UNCHANGED keys

\* The body is in.
upload(c) ==
    /\ client[c].at = "uploading" /\ Gate!HasThread(c)
    /\ Handlers!put_key(WorkerOf[c], PathOf[client[c].url], MetaOf[c])
    /\ LET error == Handlers!put_key_check(PathOf[client[c].url], MetaOf[c]) IN
       IF error = "Ok" THEN Move(c, "storing") ELSE React(c, error, "acked")
    /\ NoFault /\ UNCHANGED gate

\* Thread t at the database, without errors.
DbCall(t) ==
    \/ Handlers!get_read(t)
    \/ Handlers!get_expiry(t)
    \/ Handlers!get_delete(t)
    \/ Handlers!check_timestamp(t)
    \/ Handlers!put(t)

\* put_key at the database, up to its response.
store(c) ==
    LET w == WorkerOf[c] IN
    /\ client[c].at = "storing"
    /\ DbCall(w)
    /\ IF pc'[w] # "idle" THEN UNCHANGED client
       ELSE IF reply'[w].code = "Ok" THEN Move(c, "done")
       ELSE React(c, reply'[w].code, "acked")
    /\ NoFault /\ UNCHANGED gate

\* RocksDB fails, which is answered with 500.
store_failed(c) ==
    /\ client[c].at = "storing"
    /\ Handlers!rocks_error(WorkerOf[c])
    /\ React(c, "DB", "acked")
    /\ Fault(c) /\ UNCHANGED gate

-----------------------------------------------------------------------------
(* What else uses the database; the gate and its clients have no part in it. *)

Aside == UNCHANGED <<gate, client, unsure>>

Visit ==
    /\ Events < MaxEvents
    /\ visits' = visits + 1
    /\ UNCHANGED <<pulled, faults>>

\* CheckPayment lets a GET through to get_key, which runs when its worker awaits
\* everything else.
read(w, addr_str) ==
    /\ \A c \in Clients : WorkerOf[c] = w => task_pc[c] \notin {"scan", "flush"}
    /\ Handlers!get_key(w, addr_str)
    /\ Visit /\ Aside

\* get_key at the database.
serve(w) ==
    /\ req[w].kind = "get_key"
    /\ DbCall(w)
    /\ Aside /\ UNCHANGED <<pulled, visits, faults>>

\* A peer has answered the GET of peer_polling, which never asks whether this server
\* was paid.
pull(p, body, raw) ==
    /\ Handlers!peer_polling(p, body, raw)
    /\ Visit /\ Aside

\* peer_polling at the database.
pull_store(p) ==
    /\ DbCall(p)
    /\ pulled' = IF pc[p] = "put" THEN pulled \cup {req[p].meta} ELSE pulled
    /\ Aside /\ UNCHANGED <<visits, faults>>

\* RocksDB fails in a GET or in peer_polling.
db_failed(t) ==
    /\ req[t].kind # "put_key"
    /\ Handlers!rocks_error(t)
    /\ Events < MaxEvents /\ faults' = faults + 1
    /\ Aside /\ UNCHANGED <<pulled, visits>>

compact(b) ==
    /\ Handlers!ttl_filter(b)
    /\ Aside /\ UNCHANGED <<pulled, visits, faults>>

Tick ==
    /\ Events < MaxEvents
    /\ Handlers!Tick
    /\ Aside /\ UNCHANGED <<pulled, visits, faults>>

-----------------------------------------------------------------------------
\* Where a client that was not answered begins again: a payment is posted again
\* as it is, and a token used again.
Resume(station) ==
    CASE station = "asking" -> "start"
      [] station = "paying" -> "invoiced"
      [] station \in {"uploading", "storing"} -> "acked"
      [] OTHER -> station

\* The connection breaks while the server awaits the node.
disconnect(c) ==
    /\ Free(c)
    /\ Gate!disconnect(c)
    /\ Move(c, Resume(client[c].at))
    /\ Fault(c) /\ UNCHANGED keys

\* It breaks during the upload, or when the update has been stored.
put_lost(c) ==
    /\ client[c].at \in {"uploading", "done"}
    /\ Move(c, "acked")
    /\ Fault(c) /\ UNCHANGED <<gate, keys>>

\* The process ends and is started again: the database and the secret stay.
crash ==
    /\ Events < MaxEvents
    /\ Gate!crash
    /\ Handlers!restart
    /\ client' = [c \in Clients |-> [client[c] EXCEPT !.at = Resume(@)]]
    /\ unsure' = [c \in Clients |-> unsure[c] + IF client[c].at = "paying" THEN 1 ELSE 0]
    /\ UNCHANGED <<pulled, visits, faults>>

\* Addresses are all alike, so the node may as well take those for c from a set of
\* its own, in order.
Progress(c) ==
    /\ \/ \E url \in UrlsOf[c] : ask(c, url)
       \/ \E a \in AddrsOf[c] :
             handed \cap AddrsOf[c] = {x \in AddrsOf[c] : x < a} /\ invoice(c, a)
       \/ pay(c)
       \/ check(c)
       \/ node_accept(c)
       \/ send_tx(c)
       \/ put_paid(c)
       \/ upload(c)
       \/ store(c)
    /\ UNCHANGED <<pulled, visits>>

Trouble(c) ==
    /\ \/ \E error \in {"AddrFetchFailed", "Address", "MismatchedNetwork"} :
             invoice_failed(c, error)
       \/ send_tx_failed(c)
       \/ store_failed(c)
       \/ disconnect(c)
       \/ put_lost(c)
    /\ UNCHANGED <<pulled, visits>>

\* The database without the clients.
Background ==
    \/ Tick
    \/ \E b \in Bodies : compact(b)
    \/ \E w \in Workers : serve(w) \/ \E s \in AddrStrs : read(w, s)
    \/ \E p \in Pollers :
          \/ pull_store(p)
          \/ \E b \in Bodies, raw \in PeerInputs \cup {Garbage} : pull(p, b, raw)
    \/ \E t \in Workers \cup Pollers : db_failed(t)

Init ==
    /\ Gate!Init
    /\ Handlers!Init
    /\ client = [c \in Clients |-> NewClient]
    /\ pulled = {}
    /\ unsure = [c \in Clients |-> 0]
    /\ visits = 0
    /\ faults = 0

Next == crash \/ Background \/ \E c \in Clients : Progress(c) \/ Trouble(c)

\* Clients go on as long as there is something to do, the node answers, and a
\* server thread is not stopped for good, so that a GET leaves its worker to others.
\* Faults, restarts, GETs, answers of peers and compaction need not happen.
Spec ==
    /\ Init /\ [][Next]_vars
    /\ \A c \in Clients : WF_vars(Progress(c))
    /\ \A w \in Workers : WF_vars(serve(w))

-----------------------------------------------------------------------------
TypeOK ==
    /\ client \in [Clients ->
          [at : Stations, url : Urls \cup {None}, bills : SUBSET Addrs,
           addr : Addrs \cup {None}, error : PaymentErrors \cup Handlers!Codes \cup {None},
           token : [msg : Urls, secret : {"server"}] \cup {None}]]
    /\ \A c \in Clients : client[c].at # "start" => client[c].url \in Urls
    /\ pulled \subseteq PeerInputs
    /\ unsure \in [Clients -> Nat]
    /\ visits \in Nat
    /\ faults \in Nat

\* The bills of c that a transaction on the chain pays.
Charges(c) == {a \in client[c].bills : TxFor(a) \in chain}

Timestamp(c) == MetaOf[c].serialized_payload.timestamp

\* README.md, "we are able to charge for key updates": what is in the database was
\* put there by a client from whom the node has a payment, whatever answers were
\* lost, whatever failed and whenever the process was restarted, unless peer_polling
\* put it, whose updates this server is not paid for.
StoredIsPaid ==
    \A b \in Bodies : db[b] # None =>
        \/ \E c \in Clients : MetaOf[c] = db[b] /\ Charges(c) # {}
        \/ db[b] \in pulled

\* A client pays a second time only when the server left it in doubt about the
\* first: payment_handler lost its answer, crashed or reported InvalidTx.  A refusal
\* (InvalidOutputs after a restart, say) is always given before the node is sent the
\* transaction, and a restart costs no client that has its token another payment.
ChargedOnce == \A c \in Clients : Cardinality(Charges(c)) <= 1 + unsure[c]

\* The ways to be turned away.  A client that has paid is refused only when its
\* update is invalid or expired, when a newer one got ahead of it, one that was paid
\* for or one that was pulled from a peer, or when the form in which it wrote its URL
\* is not the one the redirect names (the token is for the former).  Before it has
\* paid, only its own address or the configuration of the node is in its way.
RefusedWithCause ==
    \A c \in Clients : client[c].at = "refused" =>
        \/ client[c].error = "Address" /\ (client[c].url \notin Decodable \/ faults > 0)
        \/ client[c].error = "MismatchedNetwork" /\ faults > 0
        \/ /\ client[c].error = "InvalidAuth"
           /\ client[c].token.msg # Normal[client[c].token.msg]
        \/ client[c].error = Handlers!put_key_check(PathOf[client[c].url], MetaOf[c])
        \/ /\ client[c].error = "ExpiredTTL"
           /\ Handlers!expired(MetaOf[c].serialized_payload, now)
        \/ /\ client[c].error = "Outdated"
           /\ \/ \E d \in Clients : Charges(d) # {} /\ Timestamp(d) > Timestamp(c)
              \/ \E m \in pulled : m.serialized_payload.timestamp > Timestamp(c)

\* Every client comes to an end: its update is stored or refused for good, although
\* answers are lost, the node and the database fail and the process is restarted
\* while invoices, payments and uploads are under way.
Settled == \A c \in Clients : <>[](client[c].at \in {"done", "refused"})
=============================================================================
