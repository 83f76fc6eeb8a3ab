# Verification of the Cash:web keyserver

TLA+ models of the keyserver in `src/`, checked with TLC on small instances and
proved with TLAPS for all instances. `PROJECT.json` lists the runs, the lines of
the source each definition models, the hazards, the findings and the theorems.

## The system

A keyserver stores, per Bitcoin Cash address, metadata signed by the owner of the
address. Anyone may GET it. A PUT has to be paid for: without a token it is answered
with an invoice, the invoice is paid by posting a transaction to `/payments`, and the
acknowledgement carries the token. The payment transaction announces the update on the
chain; other servers see it there and pull the metadata from the announcing server.

| Part | State | Operations | Modules |
| - | - | - | - |
| Metadata, authentication (`crypto/`) | none | `validate`, `verify`, `to_raw_address` | `Metadata` |
| Key database (`db.rs`) | RocksDB: address body to metadata | `get` (with lazy deletion), `check_timestamp`, `put`, compaction filter | `KeyDB`, `MetadataStore` |
| Key handlers (`net/mod.rs`) | none | `get_key`, `put_key` | `KeyHandlers` |
| Peer polling (`net/peer.rs`, `bitcoin/tx_stream.rs`) | queue of the ZMQ stream | take, wait, GET from the peer, check, `put` | `Peering`; `KeyHandlers` (from the peer's answer on) |
| Payment gate (`net/payments.rs`, `crypto/token.rs`) | none of its own | `CheckPayment`, `payment_handler` | `Payments`, `PaidGate` |
| Wallet (`bitcoin/mod.rs`) | set of addresses that await payment, in memory, behind an `RwLock` | `add`, `check_p2pkh`, `check_outputs` | `Payments` |
| Bitcoin client (`bitcoin/client.rs`) | none | `get_new_addr`, `send_tx` | `Payments` |
| Scripts (`bitcoin/mod.rs`) | none | `generate_outputs`, `extract_op_return`, `extract_pubkey_hash` | `Script`, `Announcement` |
| Assembly and errors (`main.rs`, `net/errors.rs`) | the above, in one process | start, restart, routes, status codes | `Keyserver` |
| Settings (`settings.rs`) | read once | none | not modelled |

What the parts share: the HTTP workers and the arbiter that polls peers share the
database; the workers share the wallet; gate and handlers meet only in the order in
which a request passes them. Nothing locks the database across two calls, and the
wallet is locked once for the look and once for the removal.

What is hard about it:

* threads that overtake each other between two RocksDB calls of one method (`get`
  reads, tests and deletes; `check_timestamp` and `put` are separate);
* the two critical sections of `check_p2pkh`;
* payments are irreversible while every step after the broadcast can fail: lost
  answers, closed connections, missing merchant data, a restart that empties the wallet;
* announcements that come before the update they announce, twice, or not at all, handled
  one at a time by a loop that waits on peers nobody vouches for;
* TTL arithmetic on values that clients choose, and a length kept in one byte;
* `unwrap()` on bytes that another path has stored.

## Modules

`Metadata` holds the data: a payload has a timestamp, a TTL and contents the server
never looks at; bytes that do not decode are `Garbage`; a signature is identified with
its key and message, which makes it unforgeable. `WrappingAdd` is the i64 addition of
the release build, with `MaxI64` as a parameter.

`KeyDB` is the database as its threads use it. `pc[t]` is the RocksDB call thread `t` is
about to make: `get_read`, `get_expiry` and `get_delete` are the three parts of `get`,
`check_timestamp` the comparison after it, `put` the write. `seen[t]` is the copy that
`get` holds while others change the entry. `rocks_error` lets any call fail,
`ttl_filter` is compaction, which may remove an expired entry at any time, and `restart`
ends the process and starts it on the same database. `since` in requests and replies is
history for the properties.

`KeyHandlers` adds the requests: `get_key` and `put_key` on workers, `peer_polling` (from
the peer's answer on) on pollers. `put_key_check` and `peer_check` are the checks each
makes before it touches the database; everything after the last `await` runs on one
thread, so a thread serves one request at a time. It states the properties and the
inductive invariant.

`MetadataStore` is the abstract store: per address the newest authentic metadata, until
its TTL is over, with no lazy deletion, no compaction and no intermediate steps.

`Payments` is the gate with its wallet and the node. A task is a request in flight.
Tasks of one worker change places only where the code awaits (`HasThread`); tasks of
different workers interleave at each lock of the wallet. `check_p2pkh` is one look under
the read lock, `flush` the removal under the write lock. `node_accept`, `send_tx_failed`
and `send_tx` separate what the node does from what the server learns of it, so an
answer can be lost after the transaction was taken. `disconnect` drops a task where it
awaits, `crash` empties the wallet. The responses themselves are left out: which error a
refusal carries is named in a comment and decided by `PaymentCheck`, but no later step
depends on it. `invoices`, `admissions`, `acks` and `passes` are history.

`PaidGate` is what the gate promises, without transactions, tokens, requests or checks: a bill can be
settled once at each worker, a settlement is one step and yields at most one credit, and updates pass
only for URLs that have credit. `Payments` maps to it at its end: an address is billed when the node
has generated it, settled at a worker when the worker has flushed it, pending while a task of the worker
is sending for it, and a URL has credit when a payment for it was acknowledged.

`Peering` is a number of servers that poll each other (`Pollers`), among peers that do as they
like. Updates are numbered; a client pays (the announcement enters the queue of every other
server) and later puts at its own server, and may do so again. `take`, `get_metadata`, `get_failed` and
`pull` are the stations of `peer_polling`. On each database the poller, a worker for each client's PUT
(`Threads`) and GETs interleave at every RocksDB call: `get` reads, `get_delete` removes an expired entry by
its key, `check_timestamp` compares with the copy read, `put` writes. A GET is `get_key` and
`get_key_expiry`; `visits` holds the copies GET handlers have in hand, of which only those that can expire
matter, and one copy stands for any number of handlers. The test of the expiry and the comparison after
it look at the clock and at the copy alone, so they are one step, unlike in `KeyDB`; what differs is only which
second they see. A peer of this kind answers a `pull` by its own `get_key`, any
other by any signed update, paid for or not (`pull_any`), or never (`Hung`). A URL that does not parse is a case of
`get_failed`; a database that fails is `db_failed`. `invoice` counts the ticks until the invoice of an update
is over; `Prompt` clients have their answer before that, others put whenever they like or never. A node may
publish a transaction again (`announce_again`), its message may be dropped (`announce_lost`) or broken
(`stream_error`), and `restart` loses what a server has queued or in hand, but for the database. `missed` and
`lost` are history: the announcements that were lost or whose pull failed, and the live entries that a
write took back although its thread had read another entry. A stream that ends is not modelled.

`Keyserver` is the server as `main.rs` assembles it, with its clients: `Payments` and `KeyHandlers`
are instantiated on the same workers, and each action is one action of one of them (of both, for
`crash`) together with what the client makes of the answer. `Background` is what else `main.rs` starts
on the same database: `peer_polling`, which puts what peers answer and asks nobody for a payment (`pull`,
`pull_store`), GETs (`read`, `serve`), compaction, and the clock. What a poller asks for, and when, is the
subject of `Peering`; here a peer may answer anything in `PeerInputs` at any time. `pulled` is history: what
the poller has put. A client goes the way of
`test_put_payment` and `example/basic.py`: `ask`, `invoice`, `pay`, `check`, `send_tx`, `put_paid`,
`upload`, `store`. It knows responses only. One that tells of a failure of the server (status 500,
`error_response`) or is lost makes it repeat the request (`React`, `Resume`); a refused payment makes
it ask for another invoice; other errors are final. How a client repeats is not in the repository
and is an assumption. `Url::parse` and `into_string` are the function `Normal`: the
token is over the merchant data as the client wrote it, `redirect_url` its normal form. `unsure` counts
the payments of a client that were not clearly answered. The loss of an acknowledgement looks to the
client like `disconnect` at the last await of `payment_handler`. Addresses of the node are all alike, so each client
takes its own from `AddrsOf`, in order. The
module's assumptions are the types of its parameters, and that `None` and `Garbage` are different from
everything that is an address, a URL, a token, a transaction or metadata.

`Script` has the two output scripts of an invoice and the two functions that read scripts, on
sequences of bytes, with the `u8` length as the release build computes it. `Announcement` sends
them through a wallet, which keeps the scripts or rebuilds the second one as the examples
do, to the reading server. Address bodies have 20 bytes: others cannot be put, as they are
the hash of no key. The other outputs of the transaction are `Neutral`: none of them is a P2PKH output
of the price or an announcement of another server.

The code around these (secp256k1, HMAC, RocksDB, actix, the node) is external and
modelled by what the code relies on: signatures and tokens cannot be forged, single
RocksDB calls are atomic and survive the process, the node never generates an address
twice. An answer of the node that is no address, or an address of another network, is an
outcome of `get_new_addr_failed`.

Operators named `..._swapped`, `..._forgotten` and so on, each introduced as a slip, are
plausible mistakes. No specification uses them; each one, put in the place of the
definition that follows it, breaks a property, which shows that the property depends on
that definition.

## Runs

| Run | Instance | Shows |
| - | - | - |
| `key_access` | 1 worker, 1 poller, 2 keys and addresses, 10 inputs: each check fails for one, old and new entries, expiries beyond both ends of the integer range; clock 0..2, restarts | `OnlyAuthentic`, `NoPanic`, `FreshReads`: only what the owner signed is stored or served, and only while it is fresh; no `unwrap` on stored bytes fails. `RegressOnlyByRace`, `VanishOnlyByRace`: the two windows are the only ways to lose a live entry. `Answered` under fairness |
| `key_serial` | 1 worker, compaction, clock, restarts | `StoreSpec`: refinement of `MetadataStore` |
| `key_outdated` | 1 worker, 1 poller, 4 inputs (old/new, short/long TTL) | violated: an older put lands on a newer live entry |
| `key_vanish` | 2 workers | violated: `get` of an expired entry deletes its replacement |
| `pay_gate` | 2 workers, one with two tasks, 2 addresses, 3 transactions (too little, one address, two addresses after another output), every malformed post, 1 restart; the two tasks of one worker are symmetric | `TokensArePaid`, `GateIsPaid`, `InvoiceHonoured`, `OncePerWorker`; `PromiseSpec`: refinement of `PaidGate` |
| `pay_twice` | 2 workers, 1 address | violated: both admit a payment to the address |
| `pay_reuse` | 1 address, 2 updates | violated: one payment, two updates |
| `peer` | 2 servers that poll each other and a peer that answers anything; 3 updates of one address: one put at a server, an older one with TTL 1 at the peer, and one as new as the first that nobody has paid for; delay 1, 1 fault of the stream, the database, a GET or a whole server | `PromptFound`: the waiting period is enough for prompt clients; `RolledBackOnlyByRace`: no peer and no order of announcements brings back what was replaced, only two threads at one entry do; `NoneSkipped`: no lasting update is passed over; `Converges` under fairness |
| `peer_hung` | 2 updates, one of a peer that never answers | violated: the other one never arrives |
| `peer_no_ttl` | 1 update without TTL | violated: expired before it is asked for |
| `keyserver` | 2 clients on 2 workers for one address, one with a URL that may not be in normal form, one with a mistyped or another URL and an expired entry; a poller whose peer has a newer, short-lived entry; GETs, compaction, the clock; 2 events out of faults, a restart, visits and ticks; 3 addresses for each client | `StoredIsPaid`, `ChargedOnce`, `RefusedWithCause`; `Settled` under fairness |
| `announce` | URLs of 0 to 290 bytes, own URL, invalid UTF-8, 4 kinds of outputs in front | `AnnouncedExactly`, `CreditedExactly` |

Bounds. A clock up to 2 or 3 and `MaxI64 = 3` give entries that are alive, that expire between
any two steps and whose TTL wraps in both directions. Two threads are enough for the
races, which all need one thread between two steps of another; the theorems show that
nothing new comes with more. `MaxPasses` and `MaxCrashes` stop counters that otherwise
grow for ever; no property depends on their value. With `Delay = 1` a prompt
client puts in the tick of its payment and a server that did not wait would ask in it too; other
clients put in any tick. The clock stops at `Horizon`, where all that expires has expired: invoices and
waiting periods go on. The one fault of `peer` (`MaxFaults`) can be any of the six kinds; the races need none, as they
come from the order of steps alone. The peer `mal` also stands for any other server, as it may answer
whatever one would. The excuses in `PromptFound` and `NoneSkipped` are needed: without any one of the `Lost` and
`missed` TLC finds a counterexample; `Outlived` matters for updates that expire, which the prompt one of this
instance does not, but that of `peer_no_ttl` does. In `keyserver`,
`MaxEvents = 2` bounds the faults, restarts, visits (GETs and answers of peers) and ticks together, so that any
two of them meet, at any two points of the clients' way. Each client needs an address, and each event costs
a client at most one more, so that three addresses for each and three passes of a URL keep nobody waiting; otherwise
`Settled` would fail.
290 bytes of URL are beyond the wrap of the length byte at 227 and of `as u8` at 256. All keyserver actions of the
specification fire in the passing runs.

Deadlock is checked everywhere, as a worker can always be idle and receive another request, except
in `keyserver`: when all clients have what they came for, nothing is left to do.

Fairness. `KeyHandlers!FairSpec` has weak fairness of `DbStep(t)`: once the body is in,
the handlers never await, and RocksDB calls return or fail. Nothing is assumed
of clients, compaction or the clock. `Payments` has safety properties only and no fairness: a task
may wait for the node for ever, as the RPC client sets no timeout. `Peering!FairSpec` has weak fairness of the clock, of `peer_polling` (the runtime polls
a future that is ready, and a peer that is not hung answers) and of the PUT of prompt clients up to its response,
which is what prompt means; failures, restarts, GETs, compaction and other clients are not fair. `Keyserver!Spec` has
weak fairness of `Progress(c)`: a client goes on with its own business, the node answers a call that
does not fail (`settings` names one node, and without it nothing can be sold), and workers run what is
ready; and of `serve(w)`: a server thread is not stopped for good in the middle of a GET, which would keep
its worker from its clients. Lost answers, failed calls, restarts, GETs, pulls, compaction and the clock are not
fair. The first three are bounded: a server that fails for ever serves nobody. The number of GETs is finite
too: a worker that is given nothing but GETs would be another matter, of the scheduler and not of this code.

## Findings

1. `NeverOutdated` (`key_outdated`): `check_timestamp` and `put` are not one operation, so
   "refusing to pull outdated metadata" can be got round by timing alone.
2. `KeptUntilTTL` (`key_vanish`): the delete in `get` is by key and takes whatever is stored
   by then.
3. `PaidOnce` (`pay_twice`): the flush in `check_p2pkh` does not look whether the address
   was still there.
4. `EveryUpdateCharged` (`pay_reuse`): tokens are neither used up nor do they expire, while
   the README speaks of charging for key updates.
5. `OthersProvide` (`peer_hung`): the GET has no timeout and the loop is sequential, so one silent
   peer ends peering, while the README limits a malicious server to censoring a key.
6. `PeeredAfterDelay` (`peer_no_ttl`): `example/peering.py` sets no TTL, and its metadata expires
   before the waiting period is over.

`RegressOnlyByRace`, `VanishOnlyByRace` and `OncePerWorker` say what holds nevertheless.

## Proofs

`KeyHandlersProofs` proves, for all sets of threads, keys, addresses and inputs and every
`MaxI64`, that `IInv` is inductive and from it `TypeOK`, `OnlyAuthentic`, `NoPanic`,
`FreshReads`, `RegressOnlyByRace` and `VanishOnlyByRace`. `OnlyAuthentic` alone is not inductive:
a put writes what the request carries, so the invariant has to say that a request past
its checks carries storable metadata (`RequestInv`), that the copy in a thread's hand is
storable and, at `delete`, expired, and, at `put`, not newer than what is written
(`StepInv`), and that what is stored decodes (`StoredInv`). `ReplyInv` carries freshness from
the expiry test back to the arrival of the request, by `ExpiredStays`: the clock only moves
on. The proof has one lemma per action; `ReplyPreserves`, `GotoPreserves` and
`SafeWritePreserves` hold what the actions have in common.

`KeyStoreProofs` proves that a server with a single thread implements `MetadataStore`. The
mapping shows the entries that are alive. `SerialInv` says that between two steps of the only
thread the entry it has read is still there or gone, which is exactly what fails with a
second thread. A put is a `Publish`, a tick is a `Pass`, deletion and compaction stutter.

`PaymentsProofs` proves that `PInv` is inductive, and from it `TypeOK`, `TokensArePaid`,
`GateIsPaid`, `OncePerWorker` and `InvoiceHonoured`, for any number of workers, tasks,
addresses and transactions. `OncePerWorker` needs `TaskInv`: a task between look and flush has
its worker for itself, and its worker has not admitted a payment to that address, because
an address in the wallet has never been paid (`LedgerInv`).

`ScriptProofs` proves the round trip of both scripts for all 20-byte hashes and all URLs:
`AnnouncementRoundTrip` with its exact range of 1 to 226 bytes, and `PaymentRoundTrip`. The
argument cuts a concatenation into its parts with symbolic lengths (`ThreeParts`, `FourParts`)
and puts in the numbers of the code last (`Parts`, `LengthByte`).

`AnnouncementProofs` carries the round trips through a wallet, for every URL, every hash and any neutral
outputs in front. `RebuiltRoundTrip` is the one the code does not intend: after the node has pushed the
data anew, the reader takes the update up to 46 bytes of URL, because the second byte is the length only
for a short push. The invariant `CarriedInv` says what the outputs are in every stage; from it `AnnouncedExactly`
and `CreditedExactly` follow, with one case for the first output that is read or paid.

`PeeringProofs` proves that `ArriveInv` is inductive for any servers, peers, updates, lifetimes and waiting
period, and from it and its parts `TypeOK`, `PromptFound` and `NoneSkipped`; `RolledBackOnlyByRace` is proved of
every step. It goes in three layers.
* `BaseInv` is about data: what is stored under an address is about it (`StoreInv`); the copy a thread has read
  is about the same address as what it is to write, and at `put` no newer than that (`HandInv`). With it every step is `Steady`: a live entry is followed by one at least as new,
  or is in `lost`. This is
  `RolledBackOnlyByRace`, and the fact on which the other two rest. It is a matter of the guards of `get_delete` and
  `check_timestamp` and of what `lost` excuses, not of atomic steps.
* `SafeInv` adds `TimeInv` and `KeepInv`. `PromptFound` needs two facts that meet in the GET: a poller that waits has
  `wait >= invoice` for its job, so that at the GET the invoice is over (`WaitInv`), and a prompt
  client that has not put has an invoice that is not (`PromptInv`). So the client has put. `Kept(q, k)` says that
  server `q` has `k` or a newer update, or lost one in a race, or time has run out for one of these; once true it stays
  true (`KeptStable`), and it is true of every entry a thread has read and of `k` at its own server once the client
  has put, also when the PUT was refused (`KeepInv`).
* `NoneSkipped` is not inductive, as the announcement comes before the put: `SkipInv` covers the time from the payment on,
  and leaves out the client's own server until the put. `AnswerInv` says that what a poller has in hand for a lasting
  update is that update or a newer one, unless the peer lost it.

`PaidGateProofs` proves that `Payments` implements `PaidGate`. `SaleInv`, on top of `PInv`, says that
no two tasks of one worker are sending for the same address, so that the end of a task takes exactly one
settlement from the pending ones, and that the address of a task about to flush is on an invoice of this
start, so that by `InvoiceHonoured` the bill is open or another worker has settled it. `flush` is `Settle`,
`send_tx` is `Collect`, with credit or without; `send_tx_failed` and `disconnect` give up what was pending; `call`
with a valid token is `Pass`; `crash` is `Restart`; the rest stutters.

`KeyserverProofs` proves the composition. Every step of the server with its clients, its poller, GETs,
compaction and the clock is a step of the
instance `Gate` or a step of the instance `Handlers` or of both, and where it is not, leaves them alone
(`GateImplemented`, `HandlersImplemented`), and the assumptions of both modules follow from those of `Keyserver`
(`GateAssumed`, `HandlersAssumed`). `Handlers` has all threads, pollers and workers alike. So all that is proved of
the parts holds of the whole: `WholeGatePaid`, `WholeAuthentic`
and `WholePromise` are examples, and `PInv` and `IInv` are conjuncts of the inductive invariant `KInv`. The rest
of `KInv` ties the clients to both: where a client is and where its task is (`Station`), that it pays its own
bills (`Billed`, `OwnBills`, `PaidBills`), that a client with a token has paid (`Bearer`), that what
a worker writes for a client was paid for (`UploadInv`), that what a poller writes came from a peer (`PollInv`), and
that the copy any thread has read was paid for or pulled (`SeenInv`, `Sourced`). From it follow `TypeOK`,
`StoredIsPaid`, `ChargedOnce` and `RefusedWithCause`. The excuse `pulled` in `StoredIsPaid` and `RefusedWithCause` is needed: without it
both fail, for `peer_polling` stores what it was never paid for, and such an entry turns a paying client with an
older update away. `ChargedOnce` is strengthened by `Charged`: as long as the client has no token
and its task is not past the broadcast, every payment is one it was left in doubt of. `RefusedWithCause` speaks of
the moment of refusal; `Cause` says that each cause lasts (`ExpiredStays`, `OvertakenStays`).

Assumptions are those named in the modules (`MetadataAssumption`, `NoneAssumption`,
`GarbageAssumption`, `ThreadsAssumption`, `HandlersAssumption`, `PaymentsAssumption`, `NoneIsNoBytes`,
`AnnouncementAssumption`, `PeeringAssumption`, `KeyserverAssumption`, `DistinctAssumption`): types of the
parameters, distinctness of the special values, and in addition that a server in `Pollers` is honest to the
others and its delay at least one tick, that a URL in normal form stays as it is when normalised again, and
that the other outputs of an announcing transaction are `Neutral`.

Only model-checked: the liveness properties `Answered`, `Converges` and `Settled`, which are out of
reach for the prover, and the counterexamples of the findings. Every other property of a passing run is a
theorem.

## Not modelled, and the plan

Not modelled: HTTP parsing, CORS, logging, static files, the wording of errors, the bytes of
protobuf messages, the end of the ZMQ stream, a clock that is set back. Settings are read once, before
there is a server, and merged by an external crate; the secret and the network are constants.
`generate_secret` is used by tests only.

What modelling `Keyserver` brought to light, short of a contradiction with a document: a
payment that is posted again after a lost answer is always refused, because its address is flushed
before the transaction is sent, so the client pays twice (`ChargedOnce` allows exactly this); a client
whose URL is not in normal form pays and is then refused by following the redirect
(`RefusedWithCause` names it); a token that is refused and an invoice both have status 402; and
`payment_handler` answers a wrong Content-Type with 406 and a wrong Accept with 415, which the test
asserts.

The plan for what is left:

1. That the database of a server in `Peering` is a `KeyDB` with one poller and as many workers as clients can be
   stated as a refinement: both have the same calls, `Peering` with fewer steps between them.
2. The enabling part of the liveness properties: that the ranking they rest on (steps left of a request,
   announcements in front of another) never grows but for the reasons the fairness names.
3. The bound behind `PaidOnce` as it is: an address is good for at most as many payments as there are
   workers, from `OncePerWorker`, by counting.
