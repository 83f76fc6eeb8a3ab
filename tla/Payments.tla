------------------------------ MODULE Payments ------------------------------
(***************************************************************************)
(* The payment gate: the middleware CheckPayment in front of PUT, which    *)
(* hands out invoices and admits tokens, and payment_handler, which turns  *)
(* a paid invoice into a token (net/payments.rs), with the wallet they     *)
(* share (bitcoin/mod.rs) and the calls to the Bitcoin node they await     *)
(* (bitcoin/client.rs).                                                    *)
(*                                                                         *)
(* A task is a request in flight.  Each worker runs its tasks on one       *)
(* thread, so tasks of a worker change places only where they await, while *)
(* tasks of different workers interleave at every lock of the wallet.  The *)
(* node and the clients are outside the code; a client may go away while   *)
(* its task awaits, and the process may crash.                             *)
(***************************************************************************)
EXTENDS Integers, Sequences, FiniteSets

CONSTANTS
    Workers,       \* threads of the HTTP server
    Tasks,         \* requests in flight
    WorkerOf,      \* WorkerOf[t]: the worker that serves task t
    Addrs,         \* addresses the node can generate, all on the right network
    Urls,          \* merchant URLs: scheme, host and path of a request
    Decodable,     \* the URLs whose path ends in an address
    Txs,           \* transactions: sequences of outputs
    Posts,         \* what clients post to /payments
    MaxPasses,     \* bound on the updates admitted per URL
    MaxCrashes,    \* bound on the number of restarts
    NotPop,        \* an Authorization header that is not "POP ..."
    Garbage,       \* bytes that do not decode
    None           \* Option::None

PRICE == 5

\* An output pays value to a P2PKH address; any other script is None.
Outputs == [value : Nat, addr : Addrs \cup {None}]

Payment == [tx : Txs \cup {None, Garbage}, merchant_data : Urls \cup {None, Garbage}]

ASSUME PaymentsAssumption ==
    /\ WorkerOf \in [Tasks -> Workers]
    /\ Decodable \subseteq Urls
    /\ Txs \subseteq Seq(Outputs)
    /\ Posts \subseteq
          [content_type : BOOLEAN, accept : BOOLEAN, raw : Payment \cup {None, Garbage}]
    /\ MaxPasses \in Nat
    /\ MaxCrashes \in Nat
    /\ None \notin Urls \cup Addrs
    /\ Garbage \notin Urls \cup Txs \cup {None}

VARIABLES
    wallet,        \* WalletState: addresses that await a payment
    pc,            \* per task: where it is
    payment,       \* per task: the transaction and merchant data posted
    at,            \* per task: the output being checked, or the one that matched
    handed,        \* node: addresses it has generated
    chain,         \* node: transactions it has accepted
    invoices,      \* history: addresses on invoices sent since the last start
    admissions,    \* history: payments to an address that a worker admitted
    acks,          \* history: acknowledged payments, each with a token
    passes,        \* history: updates the gate let through, per URL
    crashes

server == <<wallet, pc, payment, at>>
node == <<handed, chain>>
history == <<invoices, admissions, acks, passes, crashes>>
vars == <<server, node, history>>

NoPayment == [tx |-> <<>>, merchant_data |-> None]

\* No other task of the same worker is inside a stretch of code without await.
HasThread(t) ==
    \A u \in Tasks \ {t} : WorkerOf[u] = WorkerOf[t] => pc[u] \notin {"scan", "flush"}

Idle(t) == pc[t] = "idle" /\ HasThread(t)

\* Task t sends its response, an error or not, and is over.
Finish(t) ==
    /\ pc' = [pc EXCEPT ![t] = "idle"]
    /\ payment' = [payment EXCEPT ![t] = NoPayment]
    /\ at' = [at EXCEPT ![t] = 1]

Goto(t, label) ==
    /\ pc' = [pc EXCEPT ![t] = label]
    /\ UNCHANGED <<payment, at>>

-----------------------------------------------------------------------------
\* A keyed hash nobody can compute without the secret.
generate_token(msg, secret) == [msg |-> msg, secret |-> secret]

\* The slip of checking that the token is one of this server's, not for what.
validate_token_unbound(msg, secret, token) == token.secret = secret

validate_token(msg, secret, token) == token = generate_token(msg, secret)

\* Tokens a client can present: those it was given, and its own inventions.
Tokens ==
    {generate_token(k.url, "server") : k \in acks} \cup
    {generate_token(u, "other") : u \in Urls}

\* CheckPayment for PUT on url with the Authorization header auth.
call(t, url, auth) ==
    /\ Idle(t)
    /\ \/ /\ auth \in {NotPop, Garbage}
          /\ Finish(t)                                 \* InvalidAuth
          /\ UNCHANGED passes
       \/ /\ auth = None
          /\ IF url \in Decodable THEN Goto(t, "addr") ELSE Finish(t)
          /\ UNCHANGED passes
       \/ /\ auth \in Tokens
          /\ IF validate_token(url, "server", auth)
             THEN /\ passes[url] < MaxPasses
                  /\ passes' = [passes EXCEPT ![url] = @ + 1]
             ELSE UNCHANGED passes                      \* InvalidAuth
          /\ Finish(t)
    /\ UNCHANGED <<wallet, node, invoices, admissions, acks, crashes>>

\* CheckPayment lets every other method through.
call_unpaid(t) ==
    /\ Idle(t)
    /\ Finish(t)
    /\ UNCHANGED <<wallet, node, history>>

\* The slip of sending the invoice without entering its address.
get_new_addr_unrecorded(t, addr) ==
    /\ pc[t] = "addr" /\ HasThread(t)
    /\ addr \in Addrs \ handed
    /\ handed' = handed \cup {addr}
    /\ invoices' = invoices \cup {addr}
    /\ Finish(t)
    /\ UNCHANGED <<wallet, chain, admissions, acks, passes, crashes>>

\* The node answers getnewaddress with a fresh address; it enters the wallet
\* and goes out with the invoice.
get_new_addr(t, addr) ==
    /\ pc[t] = "addr" /\ HasThread(t)
    /\ addr \in Addrs \ handed
    /\ handed' = handed \cup {addr}
    /\ wallet' = wallet \cup {addr}
    /\ invoices' = invoices \cup {addr}
    /\ Finish(t)
    /\ UNCHANGED <<chain, admissions, acks, passes, crashes>>

\* The call fails, or the node's answer is no address this server can use.
get_new_addr_failed(t) ==
    /\ pc[t] = "addr" /\ HasThread(t)
    /\ Finish(t)        \* AddrFetchFailed, Address or MismatchedNetwork
    /\ UNCHANGED <<wallet, node, history>>

-----------------------------------------------------------------------------
\* What payment_handler checks before it looks at the outputs, in order.
\* post.raw is None when the upload breaks off.
PaymentCheck(post) ==
    IF ~post.content_type THEN "Accept"
    ELSE IF ~post.accept THEN "Content"
    ELSE IF post.raw = None THEN "PayloadDecode"
    ELSE IF post.raw = Garbage THEN "Decode"
    ELSE IF post.raw.tx = None THEN "NoTx"
    ELSE IF post.raw.tx = Garbage THEN "TxDecode"
    ELSE "Ok"

\* The slip of sending the transaction before its outputs are checked.
payment_handler_sends_first(t, post) ==
    /\ Idle(t)
    /\ PaymentCheck(post) = "Ok"
    /\ chain' = chain \cup {post.raw.tx}
    /\ pc' = [pc EXCEPT ![t] = "scan"]
    /\ payment' = [payment EXCEPT ![t] = post.raw]
    /\ at' = [at EXCEPT ![t] = 1]
    /\ UNCHANGED <<wallet, handed, history>>

payment_handler(t, post) ==
    /\ Idle(t)
    /\ IF PaymentCheck(post) # "Ok"
       THEN Finish(t)
       ELSE /\ pc' = [pc EXCEPT ![t] = "scan"]
            /\ payment' = [payment EXCEPT ![t] = post.raw]
            /\ at' = [at EXCEPT ![t] = 1]
    /\ UNCHANGED <<wallet, node, history>>

\* The output of the transaction that task t is at.
Output(t) == payment[t].tx[at[t]]

\* The slip of accepting any amount.
check_p2pkh_any(t) ==
    /\ pc[t] = "scan"
    /\ IF at[t] > Len(payment[t].tx) THEN Finish(t)
       ELSE IF Output(t).addr \in wallet
            THEN Goto(t, "flush")
       ELSE /\ at' = [at EXCEPT ![t] = @ + 1]
            /\ UNCHANGED <<pc, payment>>
    /\ UNCHANGED <<wallet, node, history>>

\* check_outputs looks for the first output that pays PRICE to an address of
\* the wallet; each look takes the read lock for itself.
check_p2pkh(t) ==
    /\ pc[t] = "scan"
    /\ IF at[t] > Len(payment[t].tx) THEN Finish(t)
       ELSE IF Output(t).value = PRICE /\ Output(t).addr \in wallet
            THEN Goto(t, "flush")
       ELSE /\ at' = [at EXCEPT ![t] = @ + 1]
            /\ UNCHANGED <<pc, payment>>
    /\ UNCHANGED <<wallet, node, history>>

\* The slip of leaving the address in the wallet.
flush_forgotten(t) ==
    /\ pc[t] = "flush"
    /\ admissions' = [admissions EXCEPT ![Output(t).addr][WorkerOf[t]] = @ + 1]
    /\ Goto(t, "send")
    /\ UNCHANGED <<wallet, node, invoices, acks, passes, crashes>>

\* "Flush address": the write lock is taken after the read lock was given up,
\* and the payment is admitted whether or not the address is still there.
flush(t) ==
    /\ pc[t] = "flush"
    /\ wallet' = wallet \ {Output(t).addr}
    /\ admissions' = [admissions EXCEPT ![Output(t).addr][WorkerOf[t]] = @ + 1]
    /\ Goto(t, "send")
    /\ UNCHANGED <<node, invoices, acks, passes, crashes>>

\* sendrawtransaction reaches the node, which takes the transaction (or has it).
node_accept(t) ==
    /\ pc[t] = "send"
    /\ chain' = chain \cup {payment[t].tx}
    /\ Goto(t, "sent")
    /\ UNCHANGED <<wallet, handed, history>>

\* The call fails before the node takes the transaction, the node refuses it,
\* or its answer is lost: all the same to payment_handler.
send_tx_failed(t) ==
    /\ pc[t] \in {"send", "sent"} /\ HasThread(t)
    /\ Finish(t)
    /\ UNCHANGED <<wallet, node, history>>

\* The slip of acknowledging a payment whose merchant data nobody checked.
send_tx_unchecked(t) ==
    /\ pc[t] = "sent" /\ HasThread(t)
    /\ acks' = acks \cup {[url |-> payment[t].merchant_data, tx |-> payment[t].tx,
                          addr |-> Output(t).addr]}
    /\ Finish(t)
    /\ UNCHANGED <<wallet, node, invoices, admissions, passes, crashes>>

\* The slip of acknowledging the payment without awaiting the node.
send_tx_unawaited(t) ==
    /\ pc[t] \in {"send", "sent"} /\ HasThread(t)
    /\ acks' = acks \cup {[url |-> payment[t].merchant_data, tx |-> payment[t].tx,
                          addr |-> Output(t).addr]}
    /\ Finish(t)
    /\ UNCHANGED <<wallet, node, invoices, admissions, passes, crashes>>

\* The node's answer arrives; only now is the merchant data looked at.
send_tx(t) ==
    /\ pc[t] = "sent" /\ HasThread(t)
    /\ LET url == payment[t].merchant_data IN
       IF url \in Urls
       THEN /\ acks' = acks \cup {[url |-> url, tx |-> payment[t].tx, addr |-> Output(t).addr]}
       ELSE UNCHANGED acks                \* NoMerchantDat or InvalidMerchantDat
    /\ Finish(t)
    /\ UNCHANGED <<wallet, node, invoices, admissions, passes, crashes>>

-----------------------------------------------------------------------------
\* The client closes the connection, and the task is dropped where it awaits.
disconnect(t) ==
    /\ pc[t] \in {"addr", "send", "sent"} /\ HasThread(t)
    /\ Finish(t)
    /\ UNCHANGED <<wallet, node, history>>

\* The wallet lives in memory only.
crash ==
    /\ crashes < MaxCrashes
    /\ crashes' = crashes + 1
    /\ wallet' = {}
    /\ invoices' = {}
    /\ pc' = [t \in Tasks |-> "idle"]
    /\ payment' = [t \in Tasks |-> NoPayment]
    /\ at' = [t \in Tasks |-> 1]
    /\ UNCHANGED <<node, admissions, acks, passes>>

Arrival(t) ==
    \/ call_unpaid(t)
    \/ \E url \in Urls, auth \in {None, NotPop, Garbage} \cup Tokens : call(t, url, auth)
    \/ \E post \in Posts : payment_handler(t, post)

Check(t) == check_p2pkh(t) \/ flush(t)

Step(t) ==
    \/ \E addr \in Addrs : get_new_addr(t, addr)
    \/ get_new_addr_failed(t)
    \/ Check(t)
    \/ node_accept(t)
    \/ send_tx_failed(t)
    \/ send_tx(t)
    \/ disconnect(t)

Init ==
    /\ wallet = {}
    /\ pc = [t \in Tasks |-> "idle"]
    /\ payment = [t \in Tasks |-> NoPayment]
    /\ at = [t \in Tasks |-> 1]
    /\ handed = {}
    /\ chain = {}
    /\ invoices = {}
    /\ admissions = [a \in Addrs |-> [w \in Workers |-> 0]]
    /\ acks = {}
    /\ passes = [u \in Urls |-> 0]
    /\ crashes = 0

Next == crash \/ \E t \in Tasks : Arrival(t) \/ Step(t)

Spec == Init /\ [][Next]_vars

-----------------------------------------------------------------------------
TypeOK ==
    /\ wallet \subseteq Addrs
    /\ pc \in [Tasks -> {"idle", "addr", "scan", "flush", "send", "sent"}]
    /\ payment \in [Tasks -> [tx : Txs \cup {<<>>}, merchant_data : Urls \cup {None, Garbage}]]
    /\ at \in [Tasks -> Nat \ {0}]
    /\ handed \subseteq Addrs
    /\ chain \subseteq Txs
    /\ invoices \subseteq Addrs
    /\ admissions \in [Addrs -> [Workers -> Nat]]
    /\ acks \subseteq [url : Urls, tx : Txs, addr : Addrs]
    /\ passes \in [Urls -> Nat]
    /\ crashes \in Nat

Pays(tx, addr) == \E i \in DOMAIN tx : tx[i] = [value |-> PRICE, addr |-> addr]

\* Behind every token stands a transaction that the node has accepted and that
\* pays the price to an address the node generated for an invoice, whatever was
\* lost, dropped or crashed on the way.
TokensArePaid ==
    \A k \in acks : k.tx \in chain /\ Pays(k.tx, k.addr) /\ k.addr \in handed

\* An update passes the gate only for a URL that a payment was made for: a token
\* is good for no other URL, and none can be had without a payment.
GateIsPaid ==
    \A u \in Urls : passes[u] > 0 => \E k \in acks : k.url = u /\ k.tx \in chain

\* check_p2pkh looks under the read lock and removes under the write lock.  A
\* worker still admits at most one payment to an address, so an address is good
\* for as many payments as there are workers, at worst.
OncePerWorker == \A a \in Addrs, w \in Workers : admissions[a][w] <= 1

\* An invoice can be paid exactly until a payment to it has been admitted, unless
\* the process restarts: its address is in the wallet as long as and only as long
\* as no payment to it was admitted, whatever happens to other invoices.
InvoiceHonoured ==
    \A a \in invoices : a \in wallet <=> \A w \in Workers : admissions[a][w] = 0

-----------------------------------------------------------------------------
\* The refinement mapping: who has admitted a payment to an address, and what has
\* been admitted but not answered.
Settled == [a \in Addrs |-> {w \in Workers : admissions[a][w] > 0}]

Sending == {t \in Tasks : pc[t] \in {"send", "sent"}}

Pending == {<<Output(t).addr, WorkerOf[t]>> : t \in Sending}

Promise == INSTANCE PaidGate WITH
    billed <- handed, open <- wallet, settled <- Settled, pending <- Pending,
    credit <- {k.url : k \in acks}, passed <- passes

\* The gate, with its separate look and flush, its calls to the node and all that can
\* go wrong between them, implements the abstract one.
PromiseSpec == Promise!Spec

-----------------------------------------------------------------------------
\* "Flush address" (bitcoin/mod.rs): a paid address is used up, so that no two
\* payments are admitted for one invoice.
PaidOnce ==
    \A a \in Addrs, v, w \in Workers :
        v # w => admissions[a][v] + admissions[a][w] <= 1

\* "we are able to charge for key updates" (README.md): the gate lets through no
\* more updates of a URL than payments were made for it.
EveryUpdateCharged == \A u \in Urls : passes[u] <= Cardinality({k \in acks : k.url = u})

-----------------------------------------------------------------------------
(***************************************************************************)
(* The inductive invariant behind the theorems of PaymentsProofs.          *)
(***************************************************************************)
\* Only addresses of the node are waited for, and none that was paid.
LedgerInv ==
    /\ wallet \subseteq handed
    /\ invoices \subseteq handed
    /\ \A a \in Addrs, w \in Workers : admissions[a][w] > 0 => a \in handed \ wallet

\* Task t has found the output that pays for it.
Matched(t) ==
    /\ payment[t].tx \in Txs
    /\ at[t] \in DOMAIN payment[t].tx
    /\ Output(t).value = PRICE
    /\ Output(t).addr \in handed

\* A worker is in the check of one task only, which is why the worker cannot have
\* admitted another payment between the look of that task and its flush.
TaskInv ==
    \A t \in Tasks :
        /\ pc[t] = "scan" => payment[t].tx \in Txs
        /\ pc[t] \in {"flush", "send", "sent"} => Matched(t)
        /\ pc[t] = "flush" => admissions[Output(t).addr][WorkerOf[t]] = 0
        /\ pc[t] = "sent" => payment[t].tx \in chain
        /\ pc[t] \in {"scan", "flush"} => HasThread(t)

PInv ==
    /\ TypeOK
    /\ LedgerInv
    /\ TaskInv
    /\ TokensArePaid
    /\ GateIsPaid
    /\ OncePerWorker
    /\ InvoiceHonoured
=============================================================================
