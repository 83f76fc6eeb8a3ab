------------------------------- MODULE KeyDB -------------------------------
(***************************************************************************)
(* The key database (db.rs) as the threads of one server use it.  RocksDB  *)
(* makes a single get, put or delete atomic; the methods of KeyDB are      *)
(* sequences of those, so a thread can be overtaken between any two of its *)
(* steps.  Threads are the workers of the HTTP server and the arbiter that *)
(* polls peers; compaction and the clock run beside them.                  *)
(***************************************************************************)
EXTENDS Metadata

CONSTANTS
    Workers,       \* threads that run the HTTP handlers
    Pollers,       \* threads that run peer_polling
    MaxTime        \* bound on the clock

ASSUME ThreadsAssumption ==
    /\ Workers \cap Pollers = {}
    /\ MaxTime \in Nat

Threads == Workers \cup Pollers

VARIABLES
    db,      \* content of RocksDB
    now,     \* SystemTime::now() in seconds
    pc,      \* per thread: the step of the KeyDB call it is about to take
    req,     \* per thread: the request it serves
    seen,    \* per thread: the metadata its get() has in hand
    reply    \* per thread: its last answer

vars == <<db, now, pc, req, seen, reply>>

Labels == {"idle", "read", "expiry", "delete", "check", "put", "panicked"}

Codes ==
    ValidationResults \cup
    {"NotFound", "MetadataDecode", "Address", "UnsupportedSigScheme",
     "PayloadDecode", "Outdated", "ExpiredTTL", "DB", "Pending"}

\* since is when the request arrived, for the properties only.
Requests ==
    [kind : {"none", "get_key", "put_key", "peer_polling"},
     body : Bodies \cup {None}, meta : AddressMetadata \cup {None}, since : Nat]

\* meta is the metadata served; body and since tell which request it answers.
Replies ==
    [code : Codes, body : Bodies \cup {None}, meta : AddressMetadata \cup {None},
     since : Nat]

NoRequest == [kind |-> "none", body |-> None, meta |-> None, since |-> 0]

Answer(code) == [code |-> code, body |-> None, meta |-> None, since |-> 0]

Served(r, m) == [code |-> "Ok", body |-> r.body, meta |-> m, since |-> r.since]

\* Thread t answers and keeps nothing of the request.
Reply(t, answer) ==
    /\ pc' = [pc EXCEPT ![t] = "idle"]
    /\ req' = [req EXCEPT ![t] = NoRequest]
    /\ seen' = [seen EXCEPT ![t] = None]
    /\ reply' = [reply EXCEPT ![t] = answer]

\* Thread t goes on to the step label with m in hand.
Goto(t, label, m) ==
    /\ pc' = [pc EXCEPT ![t] = label]
    /\ seen' = [seen EXCEPT ![t] = m]
    /\ UNCHANGED <<req, reply>>

\* get() hands m to its caller: the handler get_key, or check_timestamp, which
\* lets the put through when there is nothing to compare with.
GetReturns(t, m) ==
    IF req[t].kind = "get_key"
    THEN Reply(t, IF m = None THEN Answer("NotFound") ELSE Served(req[t], m))
    ELSE Goto(t, IF m = None THEN "put" ELSE "check", m)

(***************************************************************************)
(* KeyDB::get in three steps: the read, the expiry test against the clock  *)
(* on the copy read, and the delete, which is by key and takes whatever is *)
(* stored by then.                                                         *)
(***************************************************************************)
get_read(t) ==
    /\ pc[t] = "read"
    /\ LET m == db[req[t].body] IN
       IF m = None THEN GetReturns(t, None) ELSE Goto(t, "expiry", m)
    /\ UNCHANGED <<db, now>>

\* The slip of serving whatever is stored: the TTL is left to compaction.
get_expiry_unchecked(t) ==
    /\ pc[t] = "expiry"
    /\ GetReturns(t, seen[t])
    /\ UNCHANGED <<db, now>>

\* The slip of adding with overflow checks, as a debug build does.
get_expiry_checked(t) ==
    /\ pc[t] = "expiry"
    /\ LET payload == seen[t].serialized_payload IN
       IF payload.timestamp + payload.ttl \notin I64 THEN Goto(t, "panicked", seen[t])
       ELSE IF expired(payload, now) THEN Goto(t, "delete", seen[t])
       ELSE GetReturns(t, seen[t])
    /\ UNCHANGED <<db, now>>

get_expiry(t) ==
    /\ pc[t] = "expiry"
    /\ IF seen[t].serialized_payload = Garbage THEN Goto(t, "panicked", seen[t])
       ELSE IF expired(seen[t].serialized_payload, now) THEN Goto(t, "delete", seen[t])
       ELSE GetReturns(t, seen[t])
    /\ UNCHANGED <<db, now>>

\* The slip of blanking the value instead of removing the key.
get_delete_blank(t) ==
    /\ pc[t] = "delete"
    /\ db' = [db EXCEPT ![req[t].body] = Garbage]
    /\ GetReturns(t, None)
    /\ UNCHANGED now

get_delete(t) ==
    /\ pc[t] = "delete"
    /\ db' = [db EXCEPT ![req[t].body] = None]
    /\ GetReturns(t, None)
    /\ UNCHANGED now

\* The slip of comparing the wrong way round.
check_timestamp_swapped(t) ==
    /\ pc[t] = "check"
    /\ LET new == req[t].meta.serialized_payload
           old == seen[t].serialized_payload
       IN  IF new.timestamp > old.timestamp THEN Reply(t, Answer("Outdated"))
           ELSE IF expired(new, now) THEN Reply(t, Answer("ExpiredTTL"))
           ELSE Goto(t, "put", seen[t])
    /\ UNCHANGED <<db, now>>

\* KeyDB::check_timestamp once its get() has returned an old entry.
check_timestamp(t) ==
    /\ pc[t] = "check"
    /\ LET new == req[t].meta.serialized_payload
           old == seen[t].serialized_payload
       IN  IF new.timestamp < old.timestamp THEN Reply(t, Answer("Outdated"))
           ELSE IF expired(new, now) THEN Reply(t, Answer("ExpiredTTL"))
           ELSE Goto(t, "put", seen[t])
    /\ UNCHANGED <<db, now>>

put(t) ==
    /\ pc[t] = "put"
    /\ db' = [db EXCEPT ![req[t].body] = req[t].meta]
    /\ Reply(t, Answer("Ok"))
    /\ UNCHANGED now

\* The slip of retrying a failed call for ever.
rocks_error_retried(t) ==
    /\ pc[t] \in {"read", "delete", "put"}
    /\ Goto(t, "read", None)
    /\ UNCHANGED <<db, now>>

\* RocksDB fails the call the thread is making; the caller gets Err(Error).
rocks_error(t) ==
    /\ pc[t] \in {"read", "delete", "put"}
    /\ Reply(t, Answer("DB"))
    /\ UNCHANGED <<db, now>>

\* The slip of dropping the entries that are still alive.
ttl_filter_inverted(b) ==
    /\ db[b] # None
    /\ ~expired(db[b].serialized_payload, now)
    /\ db' = [db EXCEPT ![b] = None]
    /\ UNCHANGED <<now, pc, req, seen, reply>>

\* Compaction removes an expired entry.  A stored payload that does not decode
\* panics inside RocksDB's own thread, which takes the process down.
ttl_filter(b) ==
    /\ db[b] # None
    /\ LET payload == db[b].serialized_payload IN
       IF payload = Garbage
       THEN /\ pc' = [t \in Threads |-> "panicked"]
            /\ UNCHANGED db
       ELSE /\ expired(payload, now)
            /\ db' = [db EXCEPT ![b] = None]
            /\ UNCHANGED pc
    /\ UNCHANGED <<now, req, seen, reply>>

\* The process ends and is started again on the same database.  Requests in
\* flight are gone; what RocksDB has taken is kept.
restart ==
    /\ pc' = [t \in Threads |-> "idle"]
    /\ req' = [t \in Threads |-> NoRequest]
    /\ seen' = [t \in Threads |-> None]
    /\ reply' = [t \in Threads |-> Answer("Pending")]
    /\ UNCHANGED <<db, now>>

Tick ==
    /\ now < MaxTime
    /\ now' = now + 1
    /\ UNCHANGED <<db, pc, req, seen, reply>>

DbStep(t) ==
    \/ get_read(t)
    \/ get_expiry(t)
    \/ get_delete(t)
    \/ check_timestamp(t)
    \/ put(t)
    \/ rocks_error(t)

TypeOK ==
    /\ db \in [Bodies -> AddressMetadata \cup {None}]
    /\ now \in Nat
    /\ pc \in [Threads -> Labels]
    /\ req \in [Threads -> Requests]
    /\ seen \in [Threads -> AddressMetadata \cup {None}]
    /\ reply \in [Threads -> Replies]

Init ==
    /\ db = [b \in Bodies |-> None]
    /\ now = 0
    /\ pc = [t \in Threads |-> "idle"]
    /\ req = [t \in Threads |-> NoRequest]
    /\ seen = [t \in Threads |-> None]
    /\ reply = [t \in Threads |-> Answer("Pending")]
=============================================================================
