--------------------------- MODULE PeeringProofs ---------------------------
(***************************************************************************)
(* Proofs about Peering, for any servers, pollers and peers of any         *)
(* conduct, any updates, lifetimes and waiting period, any number of       *)
(* faults.                                                                 *)
(***************************************************************************)
EXTENDS Peering, SequenceTheorems, TLAPS

Labels == {"idle", "wait", "get", "read", "check", "put"}

\* Every thread uses the database of a poller.
LEMMA ServerType ==
    ASSUME NEW t \in Threads
    PROVE  Server(t) \in Pollers
  BY PeeringAssumption DEF Threads, Clients, Server

\* The entry a get finds is stored, and alive.
LEMMA FoundEntry ==
    ASSUME TypeOK, NEW q \in Pollers, NEW b \in Bodies
    PROVE  /\ Found(q, b) \in Updates \cup {None}
           /\ Found(q, b) # None => Found(q, b) = store[q][b] /\ ~expired(Found(q, b))
  BY DEF TypeOK, Found

-----------------------------------------------------------------------------
(* Queues.                                                                 *)

\* What the stream of p holds once the announcement of k has come in.
Extended(p, k) == queue[p] \o extract_details(p, k)

\* That is the items it held before and, unless it is the server's own, k.
LEMMA Enqueued ==
    ASSUME TypeOK, NEW p \in Pollers, NEW k \in Updates
    PROVE  /\ Extended(p, k) \in Seq(Updates \cup {Err})
           /\ \A i \in DOMAIN queue[p] :
                 i \in DOMAIN Extended(p, k) /\ Extended(p, k)[i] = queue[p][i]
           /\ \A i \in DOMAIN Extended(p, k) :
                 \/ Extended(p, k)[i] = k
                 \/ \E j \in DOMAIN queue[p] : Extended(p, k)[i] = queue[p][j]
           /\ PeerOf[k] # p => \E i \in DOMAIN Extended(p, k) : Extended(p, k)[i] = k
<1> DEFINE S == Updates \cup {Err}
           q == Extended(p, k)
<1>1. queue[p] \in Seq(S) /\ extract_details(p, k) \in Seq(S)
  <2>1. queue[p] \in Seq(S) /\ <<>> \in Seq(S) /\ <<k>> \in Seq(S)
    BY DEF TypeOK
  <2> QED
    BY <2>1 DEF extract_details
<1>2. CASE PeerOf[k] = p
  BY <1>1, <1>2, ConcatEmptySeq DEF extract_details, Extended
<1>3. CASE PeerOf[k] # p
  <2>1. q = Append(queue[p], k)
    BY <1>1, <1>3, AppendIsConcat DEF extract_details, Extended
  <2>2. /\ q \in Seq(S) /\ Len(q) = Len(queue[p]) + 1
        /\ \A i \in 1 .. Len(queue[p]) : q[i] = queue[p][i]
        /\ q[Len(queue[p]) + 1] = k
    BY <1>1, <2>1, AppendProperties
  <2>3. Len(queue[p]) \in Nat /\ DOMAIN queue[p] = 1 .. Len(queue[p]) /\ DOMAIN q = 1 .. Len(q)
    BY <1>1, <2>2
  <2>4. \E i \in DOMAIN q : q[i] = k
    BY <2>2, <2>3
  <2>5. \A i \in DOMAIN queue[p] : i \in DOMAIN q /\ q[i] = queue[p][i]
    BY <2>2, <2>3
  <2>6. \A i \in DOMAIN q : i = Len(queue[p]) + 1 \/ i \in DOMAIN queue[p]
    BY <2>2, <2>3
  <2> QED
    BY <2>2, <2>4, <2>5, <2>6
<1> QED
  BY <1>2, <1>3

\* What the stream of p holds once its first item is taken.
LEMMA Dequeued ==
    ASSUME TypeOK, NEW p \in Pollers, queue[p] # <<>>
    PROVE  /\ Tail(queue[p]) \in Seq(Updates \cup {Err})
           /\ Head(queue[p]) \in Updates \cup {Err}
           /\ \E i \in DOMAIN queue[p] : Head(queue[p]) = queue[p][i]
           /\ \A i \in DOMAIN Tail(queue[p]) :
                 \E j \in DOMAIN queue[p] : Tail(queue[p])[i] = queue[p][j]
           /\ \A j \in DOMAIN queue[p] :
                 \/ queue[p][j] = Head(queue[p])
                 \/ \E i \in DOMAIN Tail(queue[p]) : Tail(queue[p])[i] = queue[p][j]
<1> DEFINE S == Updates \cup {Err}
           q == Tail(queue[p])
<1>1. queue[p] \in Seq(S)
  BY DEF TypeOK
<1>2. /\ q \in Seq(S) /\ Head(queue[p]) \in S /\ Len(queue[p]) \in Nat \ {0}
      /\ Head(queue[p]) = queue[p][1]
      /\ Len(q) = Len(queue[p]) - 1
      /\ \A i \in 1 .. Len(q) : q[i] = queue[p][i + 1]
  BY <1>1, HeadTailProperties
<1>3. DOMAIN queue[p] = 1 .. Len(queue[p]) /\ DOMAIN q = 1 .. Len(q)
  BY <1>1, <1>2
<1>4. ASSUME NEW i \in DOMAIN q
      PROVE  \E j \in DOMAIN queue[p] : q[i] = queue[p][j]
  <2>1. i + 1 \in DOMAIN queue[p]
    BY <1>2, <1>3
  <2> QED
    BY <1>2, <1>3, <2>1
<1>5. ASSUME NEW j \in DOMAIN queue[p], j # 1
      PROVE  \E i \in DOMAIN q : q[i] = queue[p][j]
  <2>1. j - 1 \in DOMAIN q /\ (j - 1) + 1 = j
    BY <1>2, <1>3, <1>5
  <2>2. q[j - 1] = queue[p][j]
    BY <1>2, <1>3, <2>1
  <2> QED
    BY <2>1, <2>2
<1>6. 1 \in DOMAIN queue[p]
  BY <1>2, <1>3
<1> QED
  BY <1>2, <1>4, <1>5, <1>6

-----------------------------------------------------------------------------
(* Steps of a thread, and the types.                                       *)

\* No thread but t takes a step.
Alone(t) ==
    \A u \in Threads \ {t} : pc'[u] = pc[u] /\ raw'[u] = raw[u] /\ seen'[u] = seen[u]

\* A Goto moves its thread alone, within the types.
LEMMA GotoMoves ==
    ASSUME TypeOK, NEW t \in Threads, NEW label \in Labels, NEW k \in Updates \cup {None},
           NEW old \in Updates \cup {None}, Goto(t, label, k, old)
    PROVE  /\ pc' \in [Threads -> Labels]
           /\ raw' \in [Threads -> Updates \cup {None}]
           /\ seen' \in [Threads -> Updates \cup {None}]
           /\ pc'[t] = label /\ raw'[t] = k /\ seen'[t] = old
           /\ Alone(t)
  BY DEF Goto, TypeOK, Labels, Alone

\* What holds together in the state of a thread.
Shape ==
    /\ \A p \in Pollers : job[p] = None <=> pc[p] = "idle"
    /\ \A k \in Clients : pc[k] \notin {"wait", "get"}
    /\ \A t \in Threads : raw[t] # None <=> pc[t] \in {"read", "check", "put"}

\* A thread that goes on with metadata in hand stays in shape.
LEMMA GotoShape ==
    ASSUME TypeOK, NEW t \in Threads, NEW label \in {"read", "check", "put"},
           NEW k \in Updates, NEW old \in Updates \cup {None}, Goto(t, label, k, old),
           job' = job, t \in Pollers => pc[t] # "idle"
    PROVE  Shape'
<1>1. k # None /\ label \in Labels /\ Pollers \subseteq Threads /\ Clients \subseteq Threads
  BY PeeringAssumption DEF Labels, Threads
<1>2. pc'[t] = label /\ raw'[t] = k /\ Alone(t)
  BY <1>1, GotoMoves
<1>3. \A p \in Pollers : job'[p] = None <=> pc'[p] = "idle"
  BY <1>1, <1>2 DEF TypeOK, Alone
<1>4. \A u \in Threads : raw'[u] # None <=> pc'[u] \in {"read", "check", "put"}
  BY <1>1, <1>2 DEF TypeOK, Alone
<1>5. \A n \in Clients : pc'[n] \notin {"wait", "get"}
  BY <1>1, <1>2 DEF TypeOK, Alone
<1> QED
  BY <1>3, <1>4, <1>5 DEF Shape

\* So does one that is done.
LEMMA ReturnMoves ==
    ASSUME TypeOK, NEW t \in Threads, Return(t)
    PROVE  /\ pc' \in [Threads -> Labels]
           /\ raw' \in [Threads -> Updates \cup {None}]
           /\ seen' \in [Threads -> Updates \cup {None}]
           /\ job' \in [Pollers -> Updates \cup {None}]
           /\ pc'[t] = "idle" /\ raw'[t] = None /\ seen'[t] = None
           /\ Alone(t)
           /\ \A p \in Pollers : job'[p] = IF p = t THEN None ELSE job[p]
           /\ Shape'
<1>1. Goto(t, "idle", None, None) /\ job' = [p \in Pollers |-> IF p = t THEN None ELSE job[p]]
  BY DEF Return
<1>2. "idle" \in Labels /\ Pollers \subseteq Threads /\ Clients \subseteq Threads
  BY DEF Labels, Threads
<1>3. /\ pc' \in [Threads -> Labels]
      /\ raw' \in [Threads -> Updates \cup {None}]
      /\ seen' \in [Threads -> Updates \cup {None}]
      /\ pc'[t] = "idle" /\ raw'[t] = None /\ seen'[t] = None
      /\ Alone(t)
  BY <1>1, <1>2, GotoMoves
<1>4. job' \in [Pollers -> Updates \cup {None}]
  BY <1>1 DEF TypeOK
<1>5. \A p \in Pollers : job'[p] = None <=> pc'[p] = "idle"
  BY <1>1, <1>2, <1>3 DEF TypeOK, Alone
<1>6. \A u \in Threads : raw'[u] # None <=> pc'[u] \in {"read", "check", "put"}
  BY <1>2, <1>3 DEF TypeOK, Alone
<1>7. \A n \in Clients : pc'[n] \notin {"wait", "get"}
  BY <1>2, <1>3 DEF TypeOK, Alone
<1> QED
  BY <1>1, <1>3, <1>4, <1>5, <1>6, <1>7 DEF Shape

\* A write changes one entry.
LEMMA WriteMoves ==
    ASSUME TypeOK, NEW q \in Pollers, NEW b \in Bodies, NEW old \in Updates \cup {None},
           NEW new \in Updates \cup {None}, Write(q, b, old, new)
    PROVE  /\ store' \in [Pollers -> [Bodies -> Updates \cup {None}]]
           /\ lost' \in [Pollers -> SUBSET Updates]
           /\ \A r \in Pollers, c \in Bodies :
                 store'[r][c] = IF r = q /\ c = b THEN new ELSE store[r][c]
           /\ \A r \in Pollers : lost[r] \subseteq lost'[r]
           /\ RolledBack(q, b, old, new) => Found(q, b) \in lost'[q]
<1>1. store' = [store EXCEPT ![q][b] = new]
  BY DEF Write
<1>2. store' \in [Pollers -> [Bodies -> Updates \cup {None}]]
  BY <1>1 DEF TypeOK
<1>3. \A r \in Pollers, c \in Bodies :
         store'[r][c] = IF r = q /\ c = b THEN new ELSE store[r][c]
  BY <1>1 DEF TypeOK
<1>4. CASE RolledBack(q, b, old, new)
  <2>1. Found(q, b) = store[q][b] /\ store[q][b] \in Updates
    BY <1>4, FoundEntry DEF RolledBack
  <2>2. lost' = [lost EXCEPT ![q] = @ \cup {store[q][b]}]
    BY <1>4 DEF Write
  <2>3. lost' \in [Pollers -> SUBSET Updates]
    BY <2>1, <2>2 DEF TypeOK
  <2>4. \A r \in Pollers : lost[r] \subseteq lost'[r]
    BY <2>2 DEF TypeOK
  <2>5. Found(q, b) \in lost'[q]
    BY <2>1, <2>2 DEF TypeOK
  <2> QED
    BY <1>2, <1>3, <2>3, <2>4, <2>5
<1>5. CASE ~RolledBack(q, b, old, new)
  <2>1. lost' = lost
    BY <1>5 DEF Write
  <2> QED
    BY <1>2, <1>3, <1>5, <2>1 DEF TypeOK
<1> QED
  BY <1>4, <1>5

\* The client of a thread that responds has put.
LEMMA RespondedMoves ==
    ASSUME TypeOK, NEW t \in Threads, Responded(t)
    PROVE  /\ client' \in [Updates -> {"new", "paid", "put"}]
           /\ \A k \in Updates :
                 client'[k] = IF k = t /\ k \in Clients THEN "put" ELSE client[k]
<1>1. Clients \subseteq Updates
  BY DEF Clients
<1>2. CASE t \in Clients
  BY <1>1, <1>2 DEF TypeOK, Responded
<1>3. CASE t \notin Clients
  BY <1>3 DEF TypeOK, Responded
<1> QED
  BY <1>2, <1>3

\* Faults are counted up to their bound.
LEMMA FaultType ==
    ASSUME TypeOK, Fault
    PROVE  faults' \in 0 .. MaxFaults
  BY PeeringAssumption DEF TypeOK, Fault

-----------------------------------------------------------------------------
(* What is stored and in hand, and how a database changes.                  *)

\* What is stored under an address is about it.
StoreInv ==
    \A q \in Pollers, b \in Bodies : store[q][b] # None => BodyOf[store[q][b]] = b

\* Metadata in hand: that of the client, or what the peer answered for the announced
\* address; the entry read is about the same address; and past the check it is no newer.
Hand(t) ==
    raw[t] # None =>
        /\ t \in Clients => raw[t] = t
        /\ t \in Pollers => BodyOf[raw[t]] = BodyOf[job[t]]
        /\ seen[t] # None => BodyOf[seen[t]] = BodyOf[raw[t]]
        /\ pc[t] = "put" /\ seen[t] # None => Timestamp[raw[t]] >= Timestamp[seen[t]]

HandInv == \A t \in Threads : Hand(t)

BaseInv == TypeOK /\ StoreInv /\ HandInv

\* The clock goes on, and what is alive is kept, replaced by something that is not older,
\* or known to be lost.
Steady ==
    /\ now' >= now
    /\ \A q \in Pollers : lost[q] \subseteq lost'[q]
    /\ \A q \in Pollers, b \in Bodies :
          Found(q, b) # None =>
              \/ store'[q][b] # None /\ Timestamp[store'[q][b]] >= Timestamp[Found(q, b)]
              \/ Found(q, b) \in lost'[q]

\* Nothing has been announced, stored or asked for at the start.
LEMMA InitBaseInv == Init => BaseInv
<1> SUFFICES ASSUME Init PROVE BaseInv
  OBVIOUS
<1> USE PeeringAssumption
<1>1. TypeOK
  BY DEF Init, TypeOK, Threads
<1>2. StoreInv /\ HandInv
  BY DEF Init, StoreInv, HandInv, Hand
<1> QED
  BY <1>1, <1>2 DEF BaseInv

\* A step that leaves the databases and the clock alone.
LEMMA QuietSteady ==
    ASSUME BaseInv, UNCHANGED db, now' = now
    PROVE  StoreInv' /\ Steady
<1>1. store' = store /\ lost' = lost
  BY DEF db
<1>2. StoreInv'
  BY <1>1 DEF BaseInv, StoreInv
<1>3. \A k \in Updates : Timestamp[k] >= Timestamp[k]
  BY PeeringAssumption
<1>4. now \in Nat
  BY PeeringAssumption DEF BaseInv, TypeOK
<1>5. ASSUME NEW q \in Pollers, NEW b \in Bodies, Found(q, b) # None
      PROVE  store'[q][b] # None /\ Timestamp[store'[q][b]] >= Timestamp[Found(q, b)]
  BY <1>1, <1>3, <1>5, FoundEntry DEF BaseInv
<1> QED
  BY <1>1, <1>2, <1>4, <1>5 DEF Steady

\* A write of something that is not older than the entry read, or of none if that has
\* expired.
LEMMA WriteSteady ==
    ASSUME BaseInv, NEW q \in Pollers, NEW b \in Bodies, NEW old \in Updates \cup {None},
           NEW new \in Updates \cup {None}, Write(q, b, old, new), now' = now,
           new # None => BodyOf[new] = b,
           old # None /\ ~expired(old) => new # None /\ Timestamp[new] >= Timestamp[old]
    PROVE  StoreInv' /\ Steady
<1>1. /\ \A r \in Pollers, c \in Bodies :
            store'[r][c] = IF r = q /\ c = b THEN new ELSE store[r][c]
      /\ \A r \in Pollers : lost[r] \subseteq lost'[r]
      /\ RolledBack(q, b, old, new) => Found(q, b) \in lost'[q]
  BY WriteMoves DEF BaseInv
<1>2. StoreInv'
  BY <1>1 DEF BaseInv, StoreInv
<1>3. now \in Nat
  BY PeeringAssumption DEF BaseInv, TypeOK
<1>4. ASSUME NEW r \in Pollers, NEW c \in Bodies, Found(r, c) # None
      PROVE  \/ store'[r][c] # None /\ Timestamp[store'[r][c]] >= Timestamp[Found(r, c)]
             \/ Found(r, c) \in lost'[r]
  <2>1. Found(r, c) = store[r][c] /\ ~expired(Found(r, c)) /\ Found(r, c) \in Updates
    BY <1>4, FoundEntry DEF BaseInv
  <2>2. Timestamp[Found(r, c)] \in Nat
    BY <2>1, PeeringAssumption
  <2>3. CASE ~(r = q /\ c = b)
    <3>1. store'[r][c] = Found(r, c)
      BY <1>1, <2>1, <2>3
    <3> QED
      BY <1>4, <2>2, <3>1
  <2>4. CASE r = q /\ c = b
    <3>1. store'[r][c] = new
      BY <1>1, <2>4
    <3>2. CASE Found(r, c) = old
      BY <1>4, <2>1, <3>1, <3>2
    <3>3. CASE Found(r, c) # old /\ (new = None \/ Timestamp[new] < Timestamp[Found(r, c)])
      BY <1>1, <1>4, <2>4, <3>3 DEF RolledBack
    <3>4. CASE new # None /\ ~(Timestamp[new] < Timestamp[Found(r, c)])
      <4>1. Timestamp[new] \in Nat
        BY <3>4, PeeringAssumption
      <4> QED
        BY <2>2, <3>1, <3>4, <4>1
    <3> QED
      BY <3>2, <3>3, <3>4
  <2> QED
    BY <2>3, <2>4
<1> QED
  BY <1>1, <1>2, <1>3, <1>4 DEF Steady

\* A step that leaves the threads alone leaves what they have in hand.
LEMMA QuietHand ==
    ASSUME BaseInv, UNCHANGED thread
    PROVE  HandInv' /\ Shape'
<1>1. pc' = pc /\ raw' = raw /\ seen' = seen /\ job' = job
  BY DEF thread
<1> QED
  BY <1>1 DEF BaseInv, TypeOK, HandInv, Hand, Shape

\* A step of one thread.
LEMMA HandStep ==
    ASSUME BaseInv, NEW t \in Threads, Alone(t), Hand(t)',
           \A p \in Pollers \ {t} : job'[p] = job[p]
    PROVE  HandInv'
<1> SUFFICES ASSUME NEW u \in Threads, u # t
             PROVE  Hand(u)'
  BY DEF HandInv
<1>1. Hand(u)
  BY DEF BaseInv, HandInv
<1>2. pc'[u] = pc[u] /\ raw'[u] = raw[u] /\ seen'[u] = seen[u]
  BY DEF Alone
<1>3. u \in Pollers => job'[u] = job[u]
  OBVIOUS
<1> QED
  BY <1>1, <1>2, <1>3 DEF Hand

\* A thread that is done has nothing in hand.
LEMMA ReturnHand ==
    ASSUME BaseInv, NEW t \in Threads, Return(t)
    PROVE  HandInv'
<1>1. raw'[t] = None /\ Alone(t) /\ \A p \in Pollers \ {t} : job'[p] = job[p]
  BY ReturnMoves DEF BaseInv
<1> QED
  BY <1>1, HandStep DEF Hand

\* A thread with metadata in hand, at a database and an address.
LEMMA Holding ==
    ASSUME BaseInv, NEW t \in Threads, pc[t] \in {"read", "check", "put"}
    PROVE  /\ raw[t] \in Updates /\ raw[t] # None
           /\ seen[t] \in Updates \cup {None}
           /\ BodyOf[raw[t]] \in Bodies
           /\ Server(t) \in Pollers
           /\ Hand(t)
<1>1. raw[t] # None /\ raw[t] \in Updates
  BY DEF BaseInv, TypeOK
<1> QED
  BY <1>1, ServerType, PeeringAssumption DEF BaseInv, TypeOK, HandInv

-----------------------------------------------------------------------------
(* The actions keep this much in order, and the databases steady.           *)

\* What remains of the types when threads and databases are left alone.
Rest ==
    /\ now' \in 0 .. Horizon
    /\ client' \in [Updates -> {"new", "paid", "put"}]
    /\ invoice' \in [Updates -> 0 .. Delay]
    /\ queue' \in [Pollers -> Seq(Updates \cup {Err})]
    /\ wait' \in [Pollers -> 0 .. Delay]
    /\ visits' \in [Pollers -> SUBSET Updates]
    /\ missed' \in [Pollers -> SUBSET Updates]
    /\ faults' \in 0 .. MaxFaults

\* The types of the threads.
ThreadTypes ==
    /\ pc \in [Threads -> Labels]
    /\ raw \in [Threads -> Updates \cup {None}]
    /\ seen \in [Threads -> Updates \cup {None}]
    /\ job \in [Pollers -> Updates \cup {None}]
    /\ Shape

\* The types of the databases.
DbTypes ==
    /\ store \in [Pollers -> [Bodies -> Updates \cup {None}]]
    /\ lost \in [Pollers -> SUBSET Updates]

LEMMA TypesSplit ==
    /\ TypeOK => ThreadTypes /\ DbTypes
    /\ Rest /\ ThreadTypes' /\ DbTypes' => TypeOK'
  BY DEF TypeOK, Rest, ThreadTypes, DbTypes, Shape, Labels

LEMMA QuietTypes ==
    ASSUME BaseInv
    PROVE  /\ UNCHANGED thread => ThreadTypes'
           /\ UNCHANGED db => DbTypes'
  BY TypesSplit DEF BaseInv, ThreadTypes, DbTypes, thread, db, Shape

\* A step that leaves threads, databases and the clock alone.
LEMMA QuietBase ==
    ASSUME BaseInv, UNCHANGED <<db, thread>>, now' = now, Rest
    PROVE  BaseInv' /\ Steady
  BY QuietSteady, QuietHand, QuietTypes, TypesSplit DEF BaseInv

\* A client pays, and the announcement goes out to some or all.
LEMMA AnnounceBase ==
    ASSUME BaseInv, NEW k \in Updates,
           announce(k) \/ \E p \in Pollers : announce_lost(p, k)
    PROVE  BaseInv' /\ Steady
<1>1. Pay(k)
  BY DEF announce, announce_lost
<1>2. /\ client' = [client EXCEPT ![k] = "paid"]
      /\ invoice' = [invoice EXCEPT ![k] = Delay]
      /\ now' = now /\ wait' = wait /\ visits' = visits
      /\ UNCHANGED <<db, thread>>
  BY <1>1 DEF Pay
<1>3. /\ queue' \in [Pollers -> Seq(Updates \cup {Err})]
      /\ missed' \in [Pollers -> SUBSET Updates] /\ faults' \in 0 .. MaxFaults
  <2>1. CASE announce(k)
    <3>1. queue' = [p \in Pollers |-> Extended(p, k)] /\ missed' = missed /\ faults' = faults
      BY <2>1 DEF announce, Extended
    <3> QED
      BY <3>1, Enqueued DEF BaseInv, TypeOK
  <2>2. CASE \E p \in Pollers : announce_lost(p, k)
    <3>1. PICK p \in Pollers : announce_lost(p, k)
      BY <2>2
    <3>2. /\ queue' = [q \in Pollers |-> IF q = p THEN queue[q] ELSE Extended(q, k)]
          /\ missed' = [missed EXCEPT ![p] = @ \cup {k}]
          /\ Fault
      BY <3>1 DEF announce_lost, Extended
    <3>3. faults' \in 0 .. MaxFaults
      BY <3>2, FaultType DEF BaseInv
    <3>4. \A q \in Pollers : Extended(q, k) \in Seq(Updates \cup {Err})
      BY Enqueued DEF BaseInv
    <3> QED
      BY <3>2, <3>3, <3>4 DEF BaseInv, TypeOK
  <2> QED
    BY <2>1, <2>2
<1>4. Delay \in 0 .. Delay
  BY PeeringAssumption
<1>5. Rest
  BY <1>2, <1>3, <1>4 DEF BaseInv, TypeOK, Rest
<1> QED
  BY <1>2, <1>5, QuietBase

\* An announcement is repeated, an error comes in, somebody reads an entry.
LEMMA EnvironmentBase ==
    ASSUME BaseInv, NEW p \in Pollers,
           \/ stream_error(p)
           \/ \E k \in Updates : announce_again(p, k)
           \/ \E b \in Bodies : get_key(p, b)
    PROVE  BaseInv' /\ Steady
<1>1. CASE stream_error(p)
  <2>1. /\ queue' = [queue EXCEPT ![p] = Append(@, Err)] /\ Fault
        /\ UNCHANGED <<clock, client, db, thread, visits, missed>>
    BY <1>1 DEF stream_error
  <2>2. queue[p] \in Seq(Updates \cup {Err}) /\ Err \in Updates \cup {Err}
    BY DEF BaseInv, TypeOK
  <2>3. Append(queue[p], Err) \in Seq(Updates \cup {Err})
    BY <2>2, AppendProperties
  <2>4. queue' \in [Pollers -> Seq(Updates \cup {Err})] /\ faults' \in 0 .. MaxFaults
    BY <2>1, <2>3, FaultType DEF BaseInv, TypeOK
  <2> QED
    BY <2>1, <2>4, QuietBase DEF BaseInv, TypeOK, Rest, clock
<1>2. CASE \E k \in Updates : announce_again(p, k)
  <2>1. PICK k \in Updates : announce_again(p, k)
    BY <1>2
  <2>2. /\ queue' = [queue EXCEPT ![p] = Extended(p, k)] /\ Fault
        /\ UNCHANGED <<clock, client, db, thread, visits, missed>>
    BY <2>1 DEF announce_again, Extended, BaseInv, TypeOK
  <2>3. Extended(p, k) \in Seq(Updates \cup {Err})
    BY Enqueued DEF BaseInv
  <2>4. queue' \in [Pollers -> Seq(Updates \cup {Err})] /\ faults' \in 0 .. MaxFaults
    BY <2>2, <2>3, FaultType DEF BaseInv, TypeOK
  <2> QED
    BY <2>2, <2>4, QuietBase DEF BaseInv, TypeOK, Rest, clock
<1>3. CASE \E b \in Bodies : get_key(p, b)
  <2>1. PICK b \in Bodies : get_key(p, b)
    BY <1>3
  <2>2. /\ visits' = [visits EXCEPT ![p] = @ \cup {store[p][b]}] /\ store[p][b] # None
        /\ UNCHANGED <<clock, client, db, queue, thread, missed, faults>>
    BY <2>1 DEF get_key
  <2>3. store[p][b] \in Updates
    BY <2>2 DEF BaseInv, TypeOK
  <2>4. visits' \in [Pollers -> SUBSET Updates]
    BY <2>2, <2>3 DEF BaseInv, TypeOK
  <2> QED
    BY <2>2, <2>4, QuietBase DEF BaseInv, TypeOK, Rest, clock
<1> QED
  BY <1>1, <1>2, <1>3

\* A step of one thread that leaves databases and clock alone.
LEMMA ThreadBase ==
    ASSUME BaseInv, UNCHANGED db, now' = now, Rest, ThreadTypes', HandInv'
    PROVE  BaseInv' /\ Steady
  BY QuietSteady, QuietTypes, TypesSplit DEF BaseInv

\* A thread that is done.
LEMMA ReturnBase ==
    ASSUME BaseInv, NEW t \in Threads, Return(t), UNCHANGED db, now' = now, Rest
    PROVE  BaseInv' /\ Steady
<1>1. ThreadTypes' /\ HandInv'
  BY ReturnMoves, ReturnHand DEF BaseInv, ThreadTypes
<1> QED
  BY <1>1, ThreadBase

\* A thread that goes on with metadata in hand.
LEMMA GotoBase ==
    ASSUME BaseInv, NEW t \in Threads, NEW label \in {"read", "check", "put"},
           NEW k \in Updates, NEW old \in Updates \cup {None}, Goto(t, label, k, old),
           job' = job, t \in Pollers => pc[t] # "idle",
           t \in Clients => k = t,
           t \in Pollers => BodyOf[k] = BodyOf[job[t]],
           old # None => BodyOf[old] = BodyOf[k],
           label = "put" /\ old # None => Timestamp[k] >= Timestamp[old]
    PROVE  ThreadTypes' /\ HandInv'
<1>1. label \in Labels /\ k \in Updates \cup {None}
  BY DEF Labels
<1>2. /\ pc' \in [Threads -> Labels]
      /\ raw' \in [Threads -> Updates \cup {None}]
      /\ seen' \in [Threads -> Updates \cup {None}]
      /\ pc'[t] = label /\ raw'[t] = k /\ seen'[t] = old
      /\ Alone(t)
  BY <1>1, GotoMoves DEF BaseInv
<1>3. ThreadTypes'
  BY <1>2, GotoShape DEF BaseInv, TypeOK, ThreadTypes
<1>4. Hand(t)'
  BY <1>2 DEF Hand
<1>5. \A p \in Pollers \ {t} : job'[p] = job[p]
  OBVIOUS
<1> QED
  BY <1>2, <1>3, <1>4, <1>5, HandStep

\* What a step leaves alone keeps its type.
LEMMA RestKept ==
    ASSUME BaseInv
    PROVE  /\ UNCHANGED <<clock, client, queue, visits, missed, faults>> => Rest
           /\ /\ UNCHANGED <<clock, queue, visits, missed, faults>>
              /\ client' \in [Updates -> {"new", "paid", "put"}]
              => Rest
  BY DEF BaseInv, TypeOK, Rest, clock

\* A client starts to put.
LEMMA UploadBase ==
    ASSUME BaseInv, NEW k \in Clients, client_put(k) \/ client_put_again(k)
    PROVE  BaseInv' /\ Steady
<1>1. /\ Goto(k, "read", k, None) /\ job' = job /\ now' = now
      /\ UNCHANGED <<clock, client, db, queue, visits, missed, faults>>
  BY DEF client_put, client_put_again, Upload, clock
<1>2. k \in Threads /\ k \in Updates /\ k \notin Pollers
  BY PeeringAssumption DEF Threads, Clients
<1>3. ThreadTypes' /\ HandInv'
  BY <1>1, <1>2, GotoBase
<1> QED
  BY <1>1, <1>3, RestKept, ThreadBase

\* A thread reads the entry.
LEMMA GetBase ==
    ASSUME BaseInv, NEW t \in Threads, get(t)
    PROVE  BaseInv' /\ Steady
<1>1. /\ pc[t] = "read" /\ job' = job /\ now' = now
      /\ Goto(t, "check", raw[t], store[Server(t)][BodyOf[raw[t]]])
      /\ UNCHANGED <<clock, client, db, queue, visits, missed, faults>>
  BY DEF get, clock
<1>2. /\ raw[t] \in Updates /\ BodyOf[raw[t]] \in Bodies /\ Server(t) \in Pollers
      /\ raw[t] # None /\ Hand(t)
  BY <1>1, Holding
<1>3. PICK old \in Updates \cup {None} : old = store[Server(t)][BodyOf[raw[t]]]
  BY <1>2 DEF BaseInv, TypeOK
<1>4. old # None => BodyOf[old] = BodyOf[raw[t]]
  BY <1>2, <1>3 DEF BaseInv, StoreInv
<1>5. Goto(t, "check", raw[t], old)
  BY <1>1, <1>3
<1>6. ThreadTypes' /\ HandInv'
  BY <1>1, <1>2, <1>4, <1>5, GotoBase DEF Hand
<1> QED
  BY <1>1, <1>6, RestKept, ThreadBase

\* It finds the entry expired and deletes.
LEMMA DeleteBase ==
    ASSUME BaseInv, NEW t \in Threads, get_delete(t)
    PROVE  BaseInv' /\ Steady
<1>1. /\ pc[t] = "check" /\ job' = job /\ now' = now
      /\ seen[t] # None /\ expired(seen[t])
      /\ Write(Server(t), BodyOf[raw[t]], seen[t], None)
      /\ Goto(t, "put", raw[t], None)
      /\ UNCHANGED <<clock, client, queue, visits, missed, faults>>
  BY DEF get_delete, clock
<1>2. /\ raw[t] \in Updates /\ BodyOf[raw[t]] \in Bodies /\ Server(t) \in Pollers
      /\ raw[t] # None /\ Hand(t) /\ seen[t] \in Updates \cup {None}
  BY <1>1, Holding
<1>3. StoreInv' /\ Steady
  BY <1>1, <1>2, WriteSteady
<1>4. DbTypes'
  BY <1>1, <1>2, WriteMoves DEF BaseInv, DbTypes
<1>5. ThreadTypes' /\ HandInv'
  BY <1>1, <1>2, GotoBase DEF Hand
<1> QED
  BY <1>1, <1>3, <1>4, <1>5, RestKept, TypesSplit DEF BaseInv

\* It compares, and is refused or goes on to the put.
LEMMA CheckBase ==
    ASSUME BaseInv, NEW t \in Threads, check_timestamp(t)
    PROVE  BaseInv' /\ Steady
<1>1. /\ pc[t] = "check" /\ now' = now
      /\ UNCHANGED <<clock, db, queue, visits, missed, faults>>
  BY DEF check_timestamp, clock
<1>2. /\ raw[t] \in Updates /\ raw[t] # None /\ Hand(t) /\ seen[t] \in Updates \cup {None}
  BY <1>1, Holding
<1>3. CASE seen[t] # None /\ Refused(raw[t], seen[t])
  <2>1. Return(t) /\ Responded(t)
    BY <1>3 DEF check_timestamp
  <2>2. Rest
    BY <1>1, <2>1, RespondedMoves, RestKept DEF BaseInv
  <2> QED
    BY <1>1, <2>1, <2>2, ReturnBase
<1>4. CASE ~(seen[t] # None /\ Refused(raw[t], seen[t]))
  <2>1. Goto(t, "put", raw[t], seen[t]) /\ job' = job /\ client' = client
    BY <1>4 DEF check_timestamp
  <2>2. seen[t] # None => Timestamp[raw[t]] >= Timestamp[seen[t]]
    BY <1>2, <1>4, PeeringAssumption DEF Refused
  <2>3. ThreadTypes' /\ HandInv'
    BY <1>1, <1>2, <2>1, <2>2, GotoBase DEF Hand
  <2> QED
    BY <1>1, <2>1, <2>3, RestKept, ThreadBase
<1> QED
  BY <1>3, <1>4

\* It puts.
LEMMA PutBase ==
    ASSUME BaseInv, NEW t \in Threads, put(t)
    PROVE  BaseInv' /\ Steady
<1>1. /\ pc[t] = "put" /\ now' = now
      /\ Write(Server(t), BodyOf[raw[t]], seen[t], raw[t])
      /\ Return(t) /\ Responded(t)
      /\ UNCHANGED <<clock, queue, visits, missed, faults>>
  BY DEF put, clock
<1>2. /\ raw[t] \in Updates /\ BodyOf[raw[t]] \in Bodies /\ Server(t) \in Pollers
      /\ raw[t] # None /\ Hand(t) /\ seen[t] \in Updates \cup {None}
  BY <1>1, Holding
<1>3. seen[t] # None => Timestamp[raw[t]] >= Timestamp[seen[t]]
  BY <1>1, <1>2 DEF Hand
<1>4. StoreInv' /\ Steady
  BY <1>1, <1>2, <1>3, WriteSteady
<1>5. DbTypes'
  BY <1>1, <1>2, WriteMoves DEF BaseInv, DbTypes
<1>6. ThreadTypes' /\ HandInv'
  BY <1>1, ReturnMoves, ReturnHand DEF BaseInv, ThreadTypes
<1>7. Rest
  BY <1>1, RespondedMoves, RestKept DEF BaseInv
<1> QED
  BY <1>4, <1>5, <1>6, <1>7, TypesSplit DEF BaseInv

\* A call or a GET fails.
LEMMA FailedBase ==
    ASSUME BaseInv, NEW t \in Threads, db_failed(t) \/ (t \in Pollers /\ get_failed(t))
    PROVE  BaseInv' /\ Steady
<1>1. /\ Return(t) /\ Fault /\ now' = now /\ pc[t] # "idle"
      /\ UNCHANGED <<clock, client, db, queue, visits>>
  BY DEF db_failed, get_failed, clock
<1>2. t \in Pollers => job[t] \in Updates
  BY <1>1 DEF BaseInv, TypeOK
<1>3. missed' \in [Pollers -> SUBSET Updates]
  <2>1. CASE db_failed(t)
    BY <1>2, <2>1 DEF db_failed, BaseInv, TypeOK
  <2>2. CASE t \in Pollers /\ get_failed(t)
    BY <1>2, <2>2 DEF get_failed, BaseInv, TypeOK
  <2> QED
    BY <2>1, <2>2
<1>4. Rest
  BY <1>1, <1>3, FaultType DEF BaseInv, TypeOK, Rest, clock
<1> QED
  BY <1>1, <1>4, ReturnBase

\* An entry that has expired is deleted for a reader, or compacted.
LEMMA ExpiryBase ==
    ASSUME BaseInv, NEW q \in Pollers, NEW k \in Updates, get_key_expiry(q, k)
    PROVE  BaseInv' /\ Steady
<1>1. /\ UNCHANGED <<clock, client, queue, thread, missed, faults>> /\ now' = now
      /\ visits' = [visits EXCEPT ![q] = @ \ {k}] \/ UNCHANGED visits
  BY DEF get_key_expiry, clock
<1>2. visits' \in [Pollers -> SUBSET Updates]
  <2>1. visits \in [Pollers -> SUBSET Updates]
    BY DEF BaseInv, TypeOK
  <2>2. visits[q] \ {k} \in SUBSET Updates
    BY <2>1
  <2>3. [visits EXCEPT ![q] = @ \ {k}] \in [Pollers -> SUBSET Updates]
    BY <2>1, <2>2
  <2> QED
    BY <1>1, <2>1, <2>3
<1>3. Rest
  BY <1>1, <1>2 DEF BaseInv, TypeOK, Rest, clock
<1>4. CASE ~expired(k)
  <2>1. UNCHANGED db
    BY <1>4 DEF get_key_expiry
  <2> QED
    BY <1>1, <1>3, <2>1, QuietBase
<1>5. CASE expired(k)
  <2>1. Write(q, BodyOf[k], k, None)
    BY <1>5 DEF get_key_expiry
  <2>2. BodyOf[k] \in Bodies /\ k \in Updates \cup {None}
    BY PeeringAssumption
  <2>3. StoreInv' /\ Steady
    BY <1>1, <1>5, <2>1, <2>2, WriteSteady
  <2>4. DbTypes'
    BY <2>1, <2>2, WriteMoves DEF BaseInv, DbTypes
  <2> QED
    BY <1>1, <1>3, <2>3, <2>4, QuietHand, QuietTypes, TypesSplit DEF BaseInv
<1> QED
  BY <1>4, <1>5

LEMMA FilterBase ==
    ASSUME BaseInv, NEW q \in Pollers, NEW b \in Bodies, ttl_filter(q, b)
    PROVE  BaseInv' /\ Steady
<1>1. /\ store[q][b] # None /\ expired(store[q][b])
      /\ store' = [store EXCEPT ![q][b] = None] /\ lost' = lost /\ now' = now
      /\ UNCHANGED <<clock, client, queue, thread, visits, missed, faults>>
  BY DEF ttl_filter, clock
<1>2. DbTypes' /\ Rest
  BY <1>1, RestKept DEF BaseInv, TypeOK, DbTypes
<1>3. \A r \in Pollers, c \in Bodies :
         store'[r][c] = IF r = q /\ c = b THEN None ELSE store[r][c]
  BY <1>1 DEF BaseInv, TypeOK
<1>4. StoreInv'
  BY <1>3 DEF BaseInv, StoreInv
<1>5. ASSUME NEW r \in Pollers, NEW c \in Bodies, Found(r, c) # None
      PROVE  store'[r][c] # None /\ Timestamp[store'[r][c]] >= Timestamp[Found(r, c)]
  <2>1. Found(r, c) = store[r][c] /\ ~expired(Found(r, c)) /\ Found(r, c) \in Updates
    BY <1>5, FoundEntry DEF BaseInv
  <2>2. Timestamp[Found(r, c)] \in Nat /\ ~(r = q /\ c = b)
    BY <1>1, <2>1, PeeringAssumption
  <2>3. store'[r][c] = Found(r, c)
    BY <1>3, <2>1, <2>2
  <2> QED
    BY <1>5, <2>2, <2>3
<1>6. now \in Nat
  BY PeeringAssumption DEF BaseInv, TypeOK
<1>7. Steady
  BY <1>1, <1>5, <1>6 DEF Steady
<1> QED
  BY <1>1, <1>2, <1>4, <1>7, QuietHand, QuietTypes, TypesSplit DEF BaseInv

\* An item is taken from the stream.
LEMMA TakeBase ==
    ASSUME BaseInv, NEW p \in Pollers, take(p)
    PROVE  BaseInv' /\ Steady
<1>1. /\ pc[p] = "idle" /\ queue[p] # <<>>
      /\ queue' = [queue EXCEPT ![p] = Tail(@)]
      /\ UNCHANGED <<now, invoice, client, db, raw, seen, visits, missed, faults>>
  BY DEF take, Begin
<1>2. Tail(queue[p]) \in Seq(Updates \cup {Err}) /\ Head(queue[p]) \in Updates \cup {Err}
  BY <1>1, Dequeued DEF BaseInv
<1>3. queue' \in [Pollers -> Seq(Updates \cup {Err})]
  BY <1>1, <1>2 DEF BaseInv, TypeOK
<1>4. p \in Threads /\ raw[p] = None
  BY <1>1 DEF BaseInv, TypeOK, Threads
<1>5. CASE Head(queue[p]) = Err
  <2>1. UNCHANGED <<pc, job, wait>>
    BY <1>5 DEF take, Begin
  <2>2. Rest
    BY <1>1, <1>3, <2>1 DEF BaseInv, TypeOK, Rest
  <2> QED
    BY <1>1, <2>1, <2>2, QuietBase DEF thread
<1>6. CASE Head(queue[p]) # Err
  <2>1. PICK item \in Updates : item = Head(queue[p])
    BY <1>2, <1>6
  <2>2. /\ pc' = [pc EXCEPT ![p] = "wait"]
        /\ job' = [job EXCEPT ![p] = item]
        /\ wait' = [wait EXCEPT ![p] = Delay]
    BY <1>6, <2>1 DEF take, Begin
  <2>3. item # None /\ Delay \in 0 .. Delay
    BY PeeringAssumption
  <2>4. /\ pc' \in [Threads -> Labels] /\ job' \in [Pollers -> Updates \cup {None}]
        /\ wait' \in [Pollers -> 0 .. Delay]
    BY <2>2, <2>3 DEF BaseInv, TypeOK, Labels
  <2>5. Rest
    BY <1>1, <1>3, <2>4 DEF BaseInv, TypeOK, Rest
  <2>6. Shape'
    <3>1. \A u \in Threads : pc'[u] = IF u = p THEN "wait" ELSE pc[u]
      BY <1>4, <2>2 DEF BaseInv, TypeOK
    <3>2. \A u \in Pollers : job'[u] = IF u = p THEN item ELSE job[u]
      BY <2>2 DEF BaseInv, TypeOK
    <3>3. raw' = raw /\ Pollers \subseteq Threads /\ Clients \subseteq Threads /\ p \notin Clients
      BY <1>1, PeeringAssumption DEF Threads, Clients
    <3>4. \A u \in Pollers : job'[u] = None <=> pc'[u] = "idle"
      BY <2>3, <3>1, <3>2, <3>3 DEF BaseInv, TypeOK
    <3>5. \A u \in Threads : raw'[u] # None <=> pc'[u] \in {"read", "check", "put"}
      BY <1>4, <3>1, <3>3 DEF BaseInv, TypeOK
    <3>6. \A n \in Clients : pc'[n] \notin {"wait", "get"}
      BY <3>1, <3>3 DEF BaseInv, TypeOK
    <3> QED
      BY <3>4, <3>5, <3>6 DEF Shape
  <2>7. ThreadTypes'
    BY <1>1, <2>4, <2>6 DEF BaseInv, TypeOK, ThreadTypes
  <2>8. Alone(p) /\ \A u \in Pollers \ {p} : job'[u] = job[u]
    BY <1>1, <2>2 DEF BaseInv, TypeOK, Alone
  <2>9. Hand(p)'
    BY <1>1, <1>4 DEF Hand
  <2>10. HandInv'
    BY <1>4, <2>8, <2>9, HandStep
  <2> QED
    BY <1>1, <2>5, <2>7, <2>10, ThreadBase
<1> QED
  BY <1>5, <1>6

\* The GET goes out.
LEMMA AskBase ==
    ASSUME BaseInv, NEW p \in Pollers, get_metadata(p)
    PROVE  BaseInv' /\ Steady
<1>1. /\ pc[p] = "wait" /\ pc' = [pc EXCEPT ![p] = "get"] /\ job' = job /\ now' = now
      /\ UNCHANGED <<clock, client, db, queue, raw, seen, visits, missed, faults>>
  BY DEF get_metadata, clock
<1>2. p \in Threads /\ raw[p] = None /\ Pollers \subseteq Threads /\ Clients \subseteq Threads
  BY <1>1 DEF BaseInv, TypeOK, Threads
<1>3. pc' \in [Threads -> Labels]
  BY <1>1 DEF BaseInv, TypeOK, Labels
<1>4. \A u \in Threads : pc'[u] = IF u = p THEN "get" ELSE pc[u]
  BY <1>1, <1>2 DEF BaseInv, TypeOK
<1>5. Shape'
  <2>1. p \notin Clients
    BY PeeringAssumption DEF Clients
  <2>2. \A u \in Pollers : job'[u] = None <=> pc'[u] = "idle"
    BY <1>1, <1>2, <1>4 DEF BaseInv, TypeOK
  <2>3. \A u \in Threads : raw'[u] # None <=> pc'[u] \in {"read", "check", "put"}
    BY <1>1, <1>2, <1>4 DEF BaseInv, TypeOK
  <2>4. \A n \in Clients : pc'[n] \notin {"wait", "get"}
    BY <1>2, <1>4, <2>1 DEF BaseInv, TypeOK
  <2> QED
    BY <2>2, <2>3, <2>4 DEF Shape
<1>6. ThreadTypes'
  BY <1>1, <1>3, <1>5 DEF BaseInv, TypeOK, ThreadTypes
<1>7. Alone(p) /\ Hand(p)'
  BY <1>1, <1>2, <1>4 DEF Alone, Hand
<1>8. HandInv'
  BY <1>1, <1>2, <1>7, HandStep
<1> QED
  BY <1>1, <1>6, <1>8, RestKept, ThreadBase

\* An answer comes in, of which only metadata about the announced address is kept.
LEMMA AnsweredBase ==
    ASSUME BaseInv, NEW p \in Pollers, pc[p] = "get",
           NEW answer \in Updates \cup {Garbage}, Answered(p, answer),
           UNCHANGED db, now' = now, Rest
    PROVE  BaseInv' /\ Steady
<1>1. p \in Threads /\ p \notin Clients
  BY PeeringAssumption DEF Threads, Clients
<1>2. CASE answer # Garbage /\ BodyOf[answer] = BodyOf[job[p]]
  <2>1. Goto(p, "read", answer, None) /\ job' = job
    BY <1>2 DEF Answered
  <2>2. ThreadTypes' /\ HandInv'
    BY <1>1, <1>2, <2>1, GotoBase
  <2> QED
    BY <2>2, ThreadBase
<1>3. CASE ~(answer # Garbage /\ BodyOf[answer] = BodyOf[job[p]])
  <2>1. Return(p)
    BY <1>3 DEF Answered
  <2> QED
    BY <1>1, <2>1, ReturnBase
<1> QED
  BY <1>2, <1>3

LEMMA PullBase ==
    ASSUME BaseInv, NEW p \in Pollers,
           pull(p) \/ \E answer \in Updates \cup {Garbage} : pull_any(p, answer)
    PROVE  BaseInv' /\ Steady
<1>1. CASE pull(p)
  <2>1. /\ pc[p] = "get" /\ now' = now
        /\ UNCHANGED <<clock, client, db, queue, missed, faults>>
    BY <1>1 DEF pull, clock
  <2>2. job[p] \in Updates /\ p \in Threads
    BY <2>1 DEF BaseInv, TypeOK, Threads
  <2>3. PICK q \in Pollers, b \in Bodies : q = PeerOf[job[p]] /\ b = BodyOf[job[p]]
    BY <1>1, <2>2, PeeringAssumption DEF pull
  <2>4. CASE Found(q, b) # None
    <3>1. Answered(p, store[q][b]) /\ visits' = visits
      BY <1>1, <2>3, <2>4 DEF pull
    <3>2. store[q][b] \in Updates
      BY <2>4, FoundEntry DEF BaseInv
    <3> QED
      BY <2>1, <3>1, <3>2, RestKept, AnsweredBase
  <2>5. CASE Found(q, b) = None
    <3>1. /\ Answered(p, Garbage)
          /\ visits' = [visits EXCEPT ![q] = @ \cup ({store[q][b]} \ {None})]
      BY <1>1, <2>3, <2>5 DEF pull
    <3>2. {store[q][b]} \ {None} \subseteq Updates
      BY DEF BaseInv, TypeOK
    <3>3. visits' \in [Pollers -> SUBSET Updates]
      BY <3>1, <3>2 DEF BaseInv, TypeOK
    <3>4. Rest
      BY <2>1, <3>3 DEF BaseInv, TypeOK, Rest, clock
    <3> QED
      BY <2>1, <3>1, <3>4, AnsweredBase
  <2> QED
    BY <2>4, <2>5
<1>2. CASE \E answer \in Updates \cup {Garbage} : pull_any(p, answer)
  <2>1. PICK answer \in Updates \cup {Garbage} : pull_any(p, answer)
    BY <1>2
  <2>2. /\ pc[p] = "get" /\ Answered(p, answer) /\ now' = now
        /\ UNCHANGED <<clock, client, db, queue, visits, missed, faults>>
    BY <2>1 DEF pull_any, clock
  <2> QED
    BY <2>2, RestKept, AnsweredBase
<1> QED
  BY <1>1, <1>2

\* Time passes.
LEMMA SubType ==
    ASSUME NEW m \in Nat, NEW n \in 0 .. m
    PROVE  Sub(n) \in 0 .. m
  BY DEF Sub

LEMMA TickBase ==
    ASSUME BaseInv, Tick
    PROVE  BaseInv' /\ Steady
<1>1. /\ now' = IF now < Horizon THEN now + 1 ELSE now
      /\ invoice' = [k \in Updates |-> Sub(invoice[k])]
      /\ wait' = [p \in Pollers |-> Sub(wait[p])]
      /\ UNCHANGED <<client, db, queue, thread, visits, missed, faults>>
  BY DEF Tick
<1>2. Horizon \in Nat /\ Delay \in Nat /\ now \in 0 .. Horizon
  BY PeeringAssumption DEF BaseInv, TypeOK
<1>3. now' \in 0 .. Horizon /\ now' >= now
  BY <1>1, <1>2
<1>4. invoice' \in [Updates -> 0 .. Delay] /\ wait' \in [Pollers -> 0 .. Delay]
  BY <1>1, <1>2, SubType DEF BaseInv, TypeOK
<1>5. Rest
  BY <1>1, <1>3, <1>4 DEF BaseInv, TypeOK, Rest
<1>6. store' = store /\ lost' = lost
  BY <1>1 DEF db
<1>7. ASSUME NEW q \in Pollers, NEW b \in Bodies, Found(q, b) # None
      PROVE  store'[q][b] # None /\ Timestamp[store'[q][b]] >= Timestamp[Found(q, b)]
  <2>1. Found(q, b) = store[q][b] /\ Timestamp[Found(q, b)] \in Nat
    BY <1>7, FoundEntry, PeeringAssumption DEF BaseInv
  <2> QED
    BY <1>6, <1>7, <2>1
<1>8. Steady
  BY <1>3, <1>6, <1>7 DEF Steady
<1>9. StoreInv'
  BY <1>6 DEF BaseInv, StoreInv
<1> QED
  BY <1>1, <1>5, <1>8, <1>9, QuietHand, QuietTypes, TypesSplit DEF BaseInv

\* A server is started again.
LEMMA RestartBase ==
    ASSUME BaseInv, NEW q \in Pollers, restart(q)
    PROVE  BaseInv' /\ Steady
<1> DEFINE ended == {t \in Threads : Server(t) = q}
<1>1. /\ Fault
      /\ missed' = [missed EXCEPT ![q] = @ \cup {k \in Updates : Pending(q, k)}]
      /\ queue' = [queue EXCEPT ![q] = <<>>]
      /\ pc' = [t \in Threads |-> IF t \in ended THEN "idle" ELSE pc[t]]
      /\ raw' = [t \in Threads |-> IF t \in ended THEN None ELSE raw[t]]
      /\ seen' = [t \in Threads |-> IF t \in ended THEN None ELSE seen[t]]
      /\ job' = [job EXCEPT ![q] = None]
      /\ wait' = [wait EXCEPT ![q] = 0]
      /\ visits' = [visits EXCEPT ![q] = {}]
      /\ UNCHANGED <<now, invoice, client, db>>
  BY DEF restart
<1>2. Pollers \subseteq Threads /\ Clients \subseteq Threads
  BY DEF Threads
<1>3. \A p \in Pollers : p \in ended <=> p = q
  BY <1>2 DEF Server
<1>4. /\ <<>> \in Seq(Updates \cup {Err}) /\ 0 \in 0 .. Delay /\ faults' \in 0 .. MaxFaults
  BY <1>1, FaultType, PeeringAssumption DEF BaseInv
<1>5. /\ queue' \in [Pollers -> Seq(Updates \cup {Err})]
      /\ wait' \in [Pollers -> 0 .. Delay]
      /\ visits' \in [Pollers -> SUBSET Updates]
  BY <1>1, <1>4 DEF BaseInv, TypeOK
<1>6. missed' \in [Pollers -> SUBSET Updates]
  BY <1>1 DEF BaseInv, TypeOK
<1>7. Rest
  BY <1>1, <1>4, <1>5, <1>6 DEF BaseInv, TypeOK, Rest
<1>8. /\ pc' \in [Threads -> Labels] /\ job' \in [Pollers -> Updates \cup {None}]
      /\ raw' \in [Threads -> Updates \cup {None}]
      /\ seen' \in [Threads -> Updates \cup {None}]
  BY <1>1 DEF BaseInv, TypeOK, Labels
<1>9. Shape'
  <2>1. \A p \in Pollers : job'[p] = IF p = q THEN None ELSE job[p]
    BY <1>1 DEF BaseInv, TypeOK
  <2>2. \A p \in Pollers : job'[p] = None <=> pc'[p] = "idle"
    BY <1>1, <1>2, <1>3, <2>1 DEF BaseInv, TypeOK
  <2>3. \A u \in Threads : raw'[u] # None <=> pc'[u] \in {"read", "check", "put"}
    BY <1>1 DEF BaseInv, TypeOK
  <2>4. \A n \in Clients : pc'[n] \notin {"wait", "get"}
    BY <1>1, <1>2 DEF BaseInv, TypeOK
  <2> QED
    BY <2>2, <2>3, <2>4 DEF Shape
<1>10. HandInv'
  <2> SUFFICES ASSUME NEW u \in Threads, raw'[u] # None
               PROVE  Hand(u)'
    BY DEF HandInv, Hand
  <2>1. u \notin ended /\ pc'[u] = pc[u] /\ raw'[u] = raw[u] /\ seen'[u] = seen[u]
    BY <1>1
  <2>2. u \in Pollers => job'[u] = job[u]
    BY <1>1, <1>3, <2>1 DEF BaseInv, TypeOK
  <2> QED
    BY <2>1, <2>2 DEF BaseInv, HandInv, Hand
<1> QED
  BY <1>1, <1>7, <1>8, <1>9, <1>10, ThreadBase DEF ThreadTypes

\* Every step keeps this order and is steady.
LEMMA NextBase ==
    ASSUME BaseInv, Next
    PROVE  BaseInv' /\ Steady
<1>1. CASE Tick
  BY <1>1, TickBase
<1>2. ASSUME NEW k \in Updates, announce(k) \/ \E p \in Pollers : announce_lost(p, k)
      PROVE  BaseInv' /\ Steady
  BY <1>2, AnnounceBase
<1>3. ASSUME NEW k \in Clients, client_put(k) \/ client_put_again(k)
      PROVE  BaseInv' /\ Steady
  BY <1>3, UploadBase
<1>4. ASSUME NEW t \in Threads, DbStep(t) \/ db_failed(t) \/ (t \in Pollers /\ get_failed(t))
      PROVE  BaseInv' /\ Steady
  BY <1>4, GetBase, DeleteBase, CheckBase, PutBase, FailedBase DEF DbStep
<1>5. ASSUME NEW p \in Pollers,
             \/ restart(p) \/ take(p) \/ get_metadata(p) \/ pull(p)
             \/ \E answer \in Updates \cup {Garbage} : pull_any(p, answer)
      PROVE  BaseInv' /\ Steady
  BY <1>5, RestartBase, TakeBase, AskBase, PullBase
<1>6. ASSUME NEW p \in Pollers,
             \/ stream_error(p)
             \/ \E k \in Updates : announce_again(p, k) \/ get_key_expiry(p, k)
             \/ \E b \in Bodies : get_key(p, b) \/ ttl_filter(p, b)
      PROVE  BaseInv' /\ Steady
  BY <1>6, EnvironmentBase, ExpiryBase, FilterBase
<1> QED
  BY <1>1, <1>2, <1>3, <1>4, <1>5, <1>6 DEF Next, peer_polling, put_key, Threads

\* A stuttering step too.
LEMMA StutterBase ==
    ASSUME BaseInv, UNCHANGED vars
    PROVE  BaseInv' /\ Steady
<1>1. /\ UNCHANGED <<db, thread, clock, client, visits, missed>> /\ now' = now
      /\ queue' = queue /\ faults' = faults
  BY DEF vars, clock
<1>2. Rest
  BY <1>1 DEF BaseInv, TypeOK, Rest, clock
<1> QED
  BY <1>1, <1>2, QuietBase

\* So it holds throughout.
THEOREM BaseInvariant == Spec => []BaseInv
<1>1. Init => BaseInv
  BY InitBaseInv
<1>2. BaseInv /\ [Next]_vars => BaseInv'
  BY NextBase, StutterBase
<1> QED
  BY <1>1, <1>2, PTL DEF Spec

-----------------------------------------------------------------------------
(* The kinds of steps.                                                      *)

\* A thread goes on in a request or at an announcement, with or without success.
ThreadStep(t) ==
    \/ DbStep(t) \/ db_failed(t)
    \/ t \in Clients /\ (client_put(t) \/ client_put_again(t))
    \/ /\ t \in Pollers
       /\ \/ get_failed(t) \/ pull(t)
          \/ \E answer \in Updates \cup {Garbage} : pull_any(t, answer)

\* Nobody that an announcement depends on takes a step.
OutsideStep(p) ==
    \/ stream_error(p)
    \/ \E k \in Updates : announce_again(p, k) \/ get_key_expiry(p, k)
    \/ \E b \in Bodies : get_key(p, b) \/ ttl_filter(p, b)

LEMMA NextCases ==
    ASSUME Next
    PROVE  \/ Tick
           \/ \E k \in Updates : announce(k) \/ \E p \in Pollers : announce_lost(p, k)
           \/ \E t \in Threads : ThreadStep(t)
           \/ \E p \in Pollers : OutsideStep(p) \/ take(p) \/ get_metadata(p) \/ restart(p)
<1> DEFINE Goal ==
             \/ Tick
             \/ \E k \in Updates : announce(k) \/ \E p \in Pollers : announce_lost(p, k)
             \/ \E t \in Threads : ThreadStep(t)
             \/ \E p \in Pollers : OutsideStep(p) \/ take(p) \/ get_metadata(p) \/ restart(p)
<1>1. CASE Tick
  BY <1>1
<1>2. ASSUME NEW k \in Updates, announce(k)
      PROVE  Goal
  BY <1>2
<1>3. ASSUME NEW k \in Clients, put_key(k) \/ client_put_again(k)
      PROVE  Goal
  BY <1>3 DEF put_key, ThreadStep, Threads
<1>4. ASSUME NEW t \in Threads, db_failed(t)
      PROVE  Goal
  BY <1>4 DEF ThreadStep
<1>5. ASSUME NEW p \in Pollers, restart(p) \/ get_failed(p) \/ peer_polling(p)
      PROVE  Goal
  BY <1>5 DEF peer_polling, ThreadStep, Threads
<1>6. ASSUME NEW p \in Pollers,
             \/ stream_error(p)
             \/ \E b \in Bodies : get_key(p, b) \/ ttl_filter(p, b)
             \/ \E k \in Updates :
                   announce_lost(p, k) \/ announce_again(p, k) \/ get_key_expiry(p, k)
      PROVE  Goal
  BY <1>6 DEF OutsideStep
<1> QED
  BY <1>1, <1>2, <1>3, <1>4, <1>5, <1>6 DEF Next

\* What a step of a thread does to other threads, to announcements and to clients.
Moved(t) ==
    /\ Alone(t)
    /\ queue' = queue /\ invoice' = invoice /\ wait' = wait
    /\ \A p \in Pollers : missed[p] \subseteq missed'[p]
    /\ \A p \in Pollers : job'[p] = job[p] \/ (p = t /\ job'[p] = None)
    /\ pc'[t] \notin {"wait", "get"}
    /\ \A k \in Updates :
          \/ client'[k] = client[k]
          \/ k = t /\ k \in Clients /\ pc[t] # "idle" /\ client'[k] = "put"

LEMMA GotoMoved ==
    ASSUME BaseInv, NEW t \in Threads, NEW label \in {"read", "check", "put"},
           NEW k \in Updates, NEW old \in Updates \cup {None}, Goto(t, label, k, old),
           UNCHANGED <<clock, client, queue, job, missed>>
    PROVE  Moved(t) /\ seen'[t] = old /\ raw'[t] = k
<1>1. label \in Labels /\ k \in Updates \cup {None}
  BY DEF Labels
<1>2. Alone(t) /\ pc'[t] = label /\ seen'[t] = old /\ raw'[t] = k
  BY <1>1, GotoMoves DEF BaseInv
<1> QED
  BY <1>2 DEF Moved, clock

LEMMA ReturnMoved ==
    ASSUME BaseInv, NEW t \in Threads, Return(t),
           UNCHANGED <<clock, queue>>, client' = client \/ (Responded(t) /\ pc[t] # "idle"),
           \A p \in Pollers : missed[p] \subseteq missed'[p]
    PROVE  Moved(t) /\ seen'[t] = None /\ raw'[t] = None
<1>1. /\ Alone(t) /\ pc'[t] = "idle" /\ seen'[t] = None /\ raw'[t] = None
      /\ \A p \in Pollers : job'[p] = IF p = t THEN None ELSE job[p]
  BY ReturnMoves DEF BaseInv
<1>2. \A k \in Updates :
          \/ client'[k] = client[k]
          \/ k = t /\ k \in Clients /\ pc[t] # "idle" /\ client'[k] = "put"
  BY RespondedMoves DEF BaseInv
<1> QED
  BY <1>1, <1>2 DEF Moved, clock

\* Unless it read, a thread knows of no other entry after its step than before it.
LEMMA ThreadMoves ==
    ASSUME BaseInv, NEW t \in Threads, ThreadStep(t)
    PROVE  /\ Moved(t)
           /\ seen'[t] \in {seen[t], None} \/ get(t)
           /\ raw'[t] \in {raw[t], None} \/ pc[t] \in {"idle", "get"}
<1> DEFINE Goal == /\ Moved(t)
                   /\ seen'[t] \in {seen[t], None} \/ get(t)
                   /\ raw'[t] \in {raw[t], None} \/ pc[t] \in {"idle", "get"}
<1>1. CASE get(t)
  <2>1. /\ pc[t] = "read"
        /\ Goto(t, "check", raw[t], store[Server(t)][BodyOf[raw[t]]])
        /\ UNCHANGED <<clock, client, queue, job, missed>>
    BY <1>1 DEF get
  <2>2. raw[t] \in Updates /\ BodyOf[raw[t]] \in Bodies /\ Server(t) \in Pollers
    BY <2>1, Holding
  <2>3. PICK old \in Updates \cup {None} : old = store[Server(t)][BodyOf[raw[t]]]
    BY <2>2 DEF BaseInv, TypeOK
  <2> QED
    BY <1>1, <2>1, <2>2, <2>3, GotoMoved
<1>2. CASE get_delete(t)
  <2>1. /\ pc[t] = "check" /\ Goto(t, "put", raw[t], None)
        /\ UNCHANGED <<clock, client, queue, job, missed>>
    BY <1>2 DEF get_delete
  <2> QED
    BY <2>1, Holding, GotoMoved
<1>3. CASE check_timestamp(t)
  <2>1. pc[t] = "check" /\ UNCHANGED <<clock, queue, missed>>
    BY <1>3 DEF check_timestamp
  <2>2. CASE seen[t] # None /\ Refused(raw[t], seen[t])
    BY <1>3, <2>1, <2>2, ReturnMoved DEF check_timestamp
  <2>3. CASE ~(seen[t] # None /\ Refused(raw[t], seen[t]))
    <3>1. Goto(t, "put", raw[t], seen[t]) /\ UNCHANGED <<job, client>>
      BY <1>3, <2>3 DEF check_timestamp
    <3> QED
      BY <2>1, <3>1, Holding, GotoMoved
  <2> QED
    BY <2>2, <2>3
<1>4. CASE put(t)
  BY <1>4, ReturnMoved DEF put
<1>5. CASE db_failed(t) \/ (t \in Pollers /\ get_failed(t))
  <2>1. Return(t) /\ UNCHANGED <<clock, client, queue>>
    BY <1>5 DEF db_failed, get_failed
  <2>2. \A p \in Pollers : missed[p] \subseteq missed'[p]
    <3>1. CASE db_failed(t)
      BY <3>1 DEF db_failed
    <3>2. CASE t \in Pollers /\ get_failed(t)
      BY <3>2 DEF get_failed, BaseInv, TypeOK
    <3> QED
      BY <1>5, <3>1, <3>2
  <2> QED
    BY <2>1, <2>2, ReturnMoved
<1>6. CASE t \in Clients /\ (client_put(t) \/ client_put_again(t))
  <2>1. /\ pc[t] = "idle" /\ Goto(t, "read", t, None) /\ t \in Updates
        /\ UNCHANGED <<clock, client, queue, job, missed>>
    BY <1>6 DEF client_put, client_put_again, Upload, Clients
  <2> QED
    BY <2>1, GotoMoved
<1>7. ASSUME t \in Pollers, NEW answer, answer \in Updates \cup {Garbage},
             pc[t] = "get", Answered(t, answer), UNCHANGED <<clock, client, queue, missed>>
      PROVE  Goal
  <2>1. CASE answer # Garbage /\ BodyOf[answer] = BodyOf[job[t]]
    <3>1. Goto(t, "read", answer, None) /\ UNCHANGED job
      BY <2>1, <1>7 DEF Answered
    <3> QED
      BY <1>7, <2>1, <3>1, GotoMoved
  <2>2. CASE ~(answer # Garbage /\ BodyOf[answer] = BodyOf[job[t]])
    <3>1. Return(t)
      BY <1>7, <2>2 DEF Answered
    <3> QED
      BY <1>7, <3>1, ReturnMoved
  <2> QED
    BY <2>1, <2>2
<1>8. CASE t \in Pollers /\ pull(t)
  <2>1. pc[t] = "get" /\ UNCHANGED <<clock, client, queue, missed>>
    BY <1>8 DEF pull
  <2>2. job[t] \in Updates
    BY <1>8, <2>1 DEF BaseInv, TypeOK
  <2>3. PICK q \in Pollers, b \in Bodies : q = PeerOf[job[t]] /\ b = BodyOf[job[t]]
    BY <1>8, <2>2, PeeringAssumption DEF pull
  <2>4. CASE Found(q, b) # None
    BY <1>7, <1>8, <2>1, <2>3, <2>4, FoundEntry DEF pull, BaseInv
  <2>5. CASE Found(q, b) = None
    BY <1>7, <1>8, <2>1, <2>3, <2>5 DEF pull
  <2> QED
    BY <2>4, <2>5
<1>9. ASSUME t \in Pollers, NEW answer \in Updates \cup {Garbage}, pull_any(t, answer)
      PROVE  Goal
  BY <1>7, <1>9 DEF pull_any
<1> QED
  BY <1>1, <1>2, <1>3, <1>4, <1>5, <1>6, <1>8, <1>9 DEF ThreadStep, DbStep

\* A step outside leaves what is before a server before it.
LEMMA OutsideMoves ==
    ASSUME BaseInv, NEW q \in Pollers, OutsideStep(q)
    PROVE  /\ UNCHANGED <<thread, client, clock, missed>>
           /\ \A p \in Pollers :
                 /\ \A i \in DOMAIN queue[p] :
                       i \in DOMAIN queue'[p] /\ queue'[p][i] = queue[p][i]
                 /\ \A i \in DOMAIN queue'[p] :
                       \/ queue'[p][i] = Err \/ client[queue'[p][i]] # "new"
                       \/ \E j \in DOMAIN queue[p] : queue'[p][i] = queue[p][j]
<1> DEFINE Items(p) ==
             /\ \A i \in DOMAIN queue[p] :
                   i \in DOMAIN queue'[p] /\ queue'[p][i] = queue[p][i]
             /\ \A i \in DOMAIN queue'[p] :
                   \/ queue'[p][i] = Err \/ client[queue'[p][i]] # "new"
                   \/ \E j \in DOMAIN queue[p] : queue'[p][i] = queue[p][j]
<1>1. CASE queue' = queue /\ UNCHANGED <<thread, client, clock, missed>>
  BY <1>1
<1>2. CASE stream_error(q)
  <2>1. /\ queue' = [queue EXCEPT ![q] = Append(@, Err)]
        /\ UNCHANGED <<thread, client, clock, missed>>
    BY <1>2 DEF stream_error
  <2>2. queue[q] \in Seq(Updates \cup {Err}) /\ Err \in Updates \cup {Err}
    BY DEF BaseInv, TypeOK
  <2>3. queue'[q] = Append(queue[q], Err)
    BY <2>1 DEF BaseInv, TypeOK
  <2>4. /\ queue'[q] \in Seq(Updates \cup {Err}) /\ Len(queue'[q]) = Len(queue[q]) + 1
        /\ \A i \in 1 .. Len(queue[q]) : queue'[q][i] = queue[q][i]
        /\ queue'[q][Len(queue[q]) + 1] = Err
    BY <2>2, <2>3, AppendProperties
  <2>5. /\ Len(queue[q]) \in Nat /\ DOMAIN queue[q] = 1 .. Len(queue[q])
        /\ DOMAIN queue'[q] = 1 .. Len(queue'[q])
    BY <2>2, <2>4
  <2>6. \A i \in DOMAIN queue[q] : i \in DOMAIN queue'[q] /\ queue'[q][i] = queue[q][i]
    BY <2>4, <2>5
  <2>7. \A i \in DOMAIN queue'[q] : i = Len(queue[q]) + 1 \/ i \in DOMAIN queue[q]
    BY <2>4, <2>5
  <2>8. Items(q)
    BY <2>4, <2>6, <2>7
  <2>9. \A p \in Pollers \ {q} : queue'[p] = queue[p]
    BY <2>1 DEF BaseInv, TypeOK
  <2> QED
    BY <2>1, <2>8, <2>9
<1>3. ASSUME NEW k \in Updates, announce_again(q, k)
      PROVE  \A p \in Pollers : Items(p)
  <2>1. client[k] # "new" /\ queue' = [queue EXCEPT ![q] = Extended(q, k)]
    BY <1>3 DEF announce_again, Extended, BaseInv, TypeOK
  <2>2. \A p \in Pollers : queue'[p] = IF p = q THEN Extended(q, k) ELSE queue[p]
    BY <2>1 DEF BaseInv, TypeOK
  <2>3. Items(q)
    BY <2>1, <2>2, Enqueued DEF BaseInv
  <2>4. \A p \in Pollers \ {q} : Items(p)
    BY <2>2
  <2> QED
    BY <2>3, <2>4
<1>4. ASSUME NEW k \in Updates, announce_again(q, k)
      PROVE  UNCHANGED <<thread, client, clock, missed>>
  BY <1>4 DEF announce_again
<1>5. ASSUME \/ \E k \in Updates : get_key_expiry(q, k)
             \/ \E b \in Bodies : get_key(q, b) \/ ttl_filter(q, b)
      PROVE  queue' = queue /\ UNCHANGED <<thread, client, clock, missed>>
  BY <1>5 DEF get_key_expiry, get_key, ttl_filter
<1> QED
  BY <1>1, <1>2, <1>3, <1>4, <1>5 DEF OutsideStep

-----------------------------------------------------------------------------
(* Invoices and waiting periods.                                           *)

\* What is announced, asked for or uploaded is paid for.
PaidInv ==
    /\ \A p \in Pollers : \A i \in DOMAIN queue[p] :
          queue[p][i] = Err \/ client[queue[p][i]] # "new"
    /\ \A p \in Pollers : job[p] # None => client[job[p]] # "new"
    /\ \A k \in Clients : pc[k] # "idle" => client[k] # "new"

\* As long as a prompt client has not put, its invoice is valid.
PromptInv == \A k \in Prompt : client[k] = "paid" => invoice[k] >= 1

\* The waiting period does not end before the invoice.
WaitInv ==
    \A p \in Pollers :
        /\ pc[p] = "wait" => wait[p] >= invoice[job[p]]
        /\ pc[p] = "get" => invoice[job[p]] = 0

TimeInv == PaidInv /\ PromptInv /\ WaitInv

\* Whoever has a request or an announcement in hand has paid, or its client has.
LEMMA ThreadPaid ==
    ASSUME BaseInv, PaidInv, NEW t \in Threads, ThreadStep(t), t \in Clients
    PROVE  client[t] # "new"
<1>1. t \notin Pollers
  BY PeeringAssumption DEF Clients
<1>2. CASE client_put(t) \/ client_put_again(t)
  BY <1>2 DEF client_put, client_put_again, Upload
<1>3. CASE DbStep(t) \/ db_failed(t)
  <2>1. pc[t] # "idle"
    BY <1>3 DEF DbStep, get, get_delete, check_timestamp, put, db_failed
  <2> QED
    BY <2>1 DEF PaidInv
<1> QED
  BY <1>1, <1>2, <1>3 DEF ThreadStep

LEMMA ThreadTime ==
    ASSUME BaseInv, TimeInv, NEW t \in Threads, ThreadStep(t)
    PROVE  TimeInv'
<1>1. Moved(t)
  BY ThreadMoves
<1>2. Clients \subseteq Updates /\ Clients \subseteq Threads /\ Pollers \subseteq Threads
  BY DEF Clients, Threads
<1>3. \A k \in Updates : client[k] # "new" => client'[k] # "new"
  BY <1>1 DEF Moved
<1>4. \A p \in Pollers : \A i \in DOMAIN queue[p] :
         queue[p][i] = Err \/ (queue[p][i] \in Updates /\ client[queue[p][i]] # "new")
  <2> SUFFICES ASSUME NEW p \in Pollers, NEW i \in DOMAIN queue[p]
               PROVE  queue[p][i] \in Updates \cup {Err}
    BY DEF TimeInv, PaidInv
  <2>1. queue[p] \in Seq(Updates \cup {Err})
    BY DEF BaseInv, TypeOK
  <2> QED
    BY <2>1, ElementOfSeq, LenProperties
<1>5. \A p \in Pollers : \A i \in DOMAIN queue'[p] :
         queue'[p][i] = Err \/ client'[queue'[p][i]] # "new"
  BY <1>1, <1>3, <1>4 DEF Moved
<1>6. \A p \in Pollers : job'[p] # None => client'[job'[p]] # "new"
  BY <1>1, <1>3 DEF Moved, TimeInv, PaidInv, BaseInv, TypeOK
<1>7. ASSUME NEW k \in Clients, pc'[k] # "idle"
      PROVE  client'[k] # "new"
  <2>1. CASE k = t
    BY <1>2, <1>3, <2>1, ThreadPaid DEF TimeInv
  <2>2. CASE k # t
    BY <1>1, <1>2, <1>3, <1>7, <2>2 DEF Moved, Alone, TimeInv, PaidInv
  <2> QED
    BY <2>1, <2>2
<1>8. PromptInv'
  BY <1>1, PeeringAssumption DEF Moved, TimeInv, PromptInv
<1>9. WaitInv'
  <2> SUFFICES ASSUME NEW p \in Pollers, pc'[p] \in {"wait", "get"}
               PROVE  /\ pc'[p] = "wait" => wait'[p] >= invoice'[job'[p]]
                      /\ pc'[p] = "get" => invoice'[job'[p]] = 0
    BY DEF WaitInv
  <2>1. p # t /\ pc'[p] = pc[p] /\ job'[p] = job[p] /\ invoice' = invoice /\ wait' = wait
    BY <1>1, <1>2 DEF Moved, Alone
  <2> QED
    BY <2>1 DEF TimeInv, WaitInv
<1> QED
  BY <1>5, <1>6, <1>7, <1>8, <1>9 DEF TimeInv, PaidInv

LEMMA OutsideTime ==
    ASSUME BaseInv, TimeInv, NEW q \in Pollers, OutsideStep(q)
    PROVE  TimeInv'
<1>1. client' = client /\ job' = job /\ pc' = pc /\ invoice' = invoice /\ wait' = wait
  BY OutsideMoves DEF thread, clock
<1>2. \A p \in Pollers : \A i \in DOMAIN queue'[p] :
         queue'[p][i] = Err \/ client[queue'[p][i]] # "new"
  BY OutsideMoves DEF TimeInv, PaidInv
<1> QED
  BY <1>1, <1>2 DEF TimeInv, PaidInv, PromptInv, WaitInv

\* A waiting period and an invoice count down together.
LEMMA TickTime ==
    ASSUME BaseInv, TimeInv, Tick
    PROVE  TimeInv'
<1>1. /\ \A k \in Prompt : client[k] = "paid" => invoice[k] > 1
      /\ invoice' = [k \in Updates |-> Sub(invoice[k])]
      /\ wait' = [p \in Pollers |-> Sub(wait[p])]
      /\ client' = client /\ queue' = queue /\ pc' = pc /\ job' = job
  BY DEF Tick, thread
<1>2. /\ \A m \in Nat, n \in Nat : m >= n => Sub(m) >= Sub(n)
      /\ \A n \in Nat : n > 1 => Sub(n) >= 1
      /\ Sub(0) = 0
  BY DEF Sub
<1>3. /\ \A k \in Updates : invoice[k] \in Nat /\ invoice'[k] = Sub(invoice[k])
      /\ \A p \in Pollers : wait[p] \in Nat /\ wait'[p] = Sub(wait[p])
  <2>1. Delay \in Nat
    BY PeeringAssumption
  <2>2. \A n \in 0 .. Delay : n \in Nat
    BY <2>1
  <2> QED
    BY <1>1, <2>2 DEF BaseInv, TypeOK
<1>4. PromptInv'
  BY <1>1, <1>2, <1>3, PeeringAssumption DEF PromptInv
<1>5. ASSUME NEW p \in Pollers
      PROVE  /\ pc'[p] = "wait" => wait'[p] >= invoice'[job'[p]]
             /\ pc'[p] = "get" => invoice'[job'[p]] = 0
  <2>1. pc[p] \in {"wait", "get"} => job[p] \in Updates
    BY DEF BaseInv, TypeOK
  <2> QED
    BY <1>1, <1>2, <1>3, <2>1 DEF TimeInv, WaitInv
<1>6. PaidInv'
  BY <1>1 DEF TimeInv, PaidInv
<1> QED
  BY <1>4, <1>5, <1>6 DEF TimeInv, WaitInv

\* A payment starts an invoice for which nobody waits yet.
LEMMA AnnounceTime ==
    ASSUME BaseInv, TimeInv, NEW k \in Updates,
           announce(k) \/ \E p \in Pollers : announce_lost(p, k)
    PROVE  TimeInv'
<1>1. /\ client[k] = "new" /\ client' = [client EXCEPT ![k] = "paid"]
      /\ invoice' = [invoice EXCEPT ![k] = Delay]
      /\ wait' = wait /\ pc' = pc /\ job' = job
  BY DEF announce, announce_lost, Pay, thread
<1>2. \A n \in Updates :
         /\ client'[n] = IF n = k THEN "paid" ELSE client[n]
         /\ invoice'[n] = IF n = k THEN Delay ELSE invoice[n]
  BY <1>1 DEF BaseInv, TypeOK
<1>3. ASSUME NEW p \in Pollers
      PROVE  \A i \in DOMAIN queue'[p] : queue'[p][i] = Err \/ client'[queue'[p][i]] # "new"
  <2>1. queue'[p] \in {queue[p], Extended(p, k)}
    BY DEF announce, announce_lost, Extended
  <2>2. \A i \in DOMAIN queue'[p] :
           queue'[p][i] = k \/ \E j \in DOMAIN queue[p] : queue'[p][i] = queue[p][j]
    BY <2>1, Enqueued DEF BaseInv
  <2>3. \A j \in DOMAIN queue[p] : queue[p][j] \in Updates \cup {Err}
    <3>1. queue[p] \in Seq(Updates \cup {Err})
      BY DEF BaseInv, TypeOK
    <3> QED
      BY <3>1, ElementOfSeq, LenProperties
  <2>4. \A j \in DOMAIN queue[p] : queue[p][j] = Err \/ client'[queue[p][j]] # "new"
    BY <1>2, <2>3 DEF TimeInv, PaidInv
  <2> QED
    BY <1>2, <2>2, <2>4
<1>4. \A p \in Pollers : job[p] # None => job[p] \in Updates \ {k}
  BY <1>1 DEF TimeInv, PaidInv, BaseInv, TypeOK
<1>5. PaidInv'
  <2>1. Clients \subseteq Updates
    BY DEF Clients
  <2> QED
    BY <1>1, <1>2, <1>3, <1>4, <2>1 DEF TimeInv, PaidInv
<1>6. PromptInv'
  <2>1. Delay >= 1 /\ Prompt \subseteq Updates
    BY PeeringAssumption
  <2> QED
    BY <1>2, <2>1 DEF TimeInv, PromptInv
<1>7. WaitInv'
  <2>1. \A p \in Pollers : pc[p] \in {"wait", "get"} => job[p] # None
    BY DEF BaseInv, TypeOK
  <2> QED
    BY <1>1, <1>2, <1>4, <2>1 DEF TimeInv, WaitInv
<1> QED
  BY <1>5, <1>6, <1>7 DEF TimeInv

\* The waiting period starts with the whole validity of an invoice.
LEMMA TakeTime ==
    ASSUME BaseInv, TimeInv, NEW p \in Pollers, take(p)
    PROVE  TimeInv'
<1> DEFINE item == Head(queue[p])
<1>1. /\ pc[p] = "idle" /\ queue[p] # <<>> /\ queue' = [queue EXCEPT ![p] = Tail(@)]
      /\ UNCHANGED <<client, invoice>>
      /\ IF item = Err THEN UNCHANGED <<pc, job, wait>>
         ELSE /\ pc' = [pc EXCEPT ![p] = "wait"] /\ job' = [job EXCEPT ![p] = item]
              /\ wait' = [wait EXCEPT ![p] = Delay]
  BY DEF take, Begin
<1>2. item = Err \/ (item \in Updates /\ client[item] # "new")
  BY <1>1, Dequeued DEF BaseInv, TimeInv, PaidInv
<1>3. \A r \in Pollers : \A i \in DOMAIN queue'[r] :
         queue'[r][i] = Err \/ client[queue'[r][i]] # "new"
  <2>1. \A r \in Pollers : queue'[r] = IF r = p THEN Tail(queue[p]) ELSE queue[r]
    BY <1>1 DEF BaseInv, TypeOK
  <2> QED
    BY <1>1, <2>1, Dequeued DEF BaseInv, TimeInv, PaidInv
<1>4. p \notin Clients
  BY PeeringAssumption DEF Clients
<1>5. CASE item = Err
  BY <1>1, <1>3, <1>5 DEF TimeInv, PaidInv, PromptInv, WaitInv
<1>6. CASE item # Err
  <2>1. \A r \in Pollers :
           /\ job'[r] = IF r = p THEN item ELSE job[r]
           /\ wait'[r] = IF r = p THEN Delay ELSE wait[r]
           /\ pc'[r] = IF r = p THEN "wait" ELSE pc[r]
    BY <1>1, <1>6 DEF BaseInv, TypeOK, Threads
  <2>2. \A k \in Clients : pc'[k] = pc[k]
    BY <1>1, <1>4, <1>6 DEF BaseInv, TypeOK, Threads
  <2>3. invoice[item] \in 0 .. Delay /\ Delay \in Nat
    BY <1>2, <1>6, PeeringAssumption DEF BaseInv, TypeOK
  <2>4. Delay >= invoice[item]
    BY <2>3
  <2> QED
    BY <1>1, <1>2, <1>3, <1>6, <2>1, <2>2, <2>4 DEF TimeInv, PaidInv, PromptInv, WaitInv
<1> QED
  BY <1>5, <1>6

\* The waiting period has ended, and with it the invoice.
LEMMA AskTime ==
    ASSUME BaseInv, TimeInv, NEW p \in Pollers, get_metadata(p)
    PROVE  TimeInv'
<1>1. /\ pc[p] = "wait" /\ wait[p] = 0 /\ pc' = [pc EXCEPT ![p] = "get"]
      /\ client' = client /\ invoice' = invoice /\ wait' = wait /\ queue' = queue
      /\ job' = job
  BY DEF get_metadata, clock
<1>2. p \notin Clients
  BY PeeringAssumption DEF Clients
<1>3. /\ \A r \in Pollers : pc'[r] = IF r = p THEN "get" ELSE pc[r]
      /\ \A k \in Clients : pc'[k] = pc[k]
  BY <1>1, <1>2 DEF BaseInv, TypeOK, Threads
<1>4. invoice[job[p]] \in 0 .. Delay /\ Delay \in Nat
  BY <1>1, PeeringAssumption DEF BaseInv, TypeOK
<1>5. invoice[job[p]] = 0
  <2>1. 0 >= invoice[job[p]]
    BY <1>1 DEF TimeInv, WaitInv
  <2> QED
    BY <1>4, <2>1
<1> QED
  BY <1>1, <1>3, <1>5 DEF TimeInv, PaidInv, PromptInv, WaitInv

\* A restart ends waiting periods, not invoices.
LEMMA RestartTime ==
    ASSUME BaseInv, TimeInv, NEW q \in Pollers, restart(q)
    PROVE  TimeInv'
<1>1. /\ queue' = [queue EXCEPT ![q] = <<>>] /\ job' = [job EXCEPT ![q] = None]
      /\ pc' = [t \in Threads |-> IF Server(t) = q THEN "idle" ELSE pc[t]]
      /\ wait' = [wait EXCEPT ![q] = 0] /\ client' = client /\ invoice' = invoice
  BY DEF restart
<1>2. Pollers \subseteq Threads /\ Clients \subseteq Threads
  BY DEF Threads
<1>3. \A p \in Pollers :
         /\ queue'[p] = IF p = q THEN <<>> ELSE queue[p]
         /\ job'[p] = IF p = q THEN None ELSE job[p]
         /\ wait'[p] = IF p = q THEN 0 ELSE wait[p]
  BY <1>1 DEF BaseInv, TypeOK
<1>4. /\ \A p \in Pollers : pc'[p] = IF p = q THEN "idle" ELSE pc[p]
      /\ \A k \in Clients : pc'[k] \in {"idle", pc[k]}
  BY <1>1, <1>2 DEF Server
<1>5. PaidInv'
  BY <1>1, <1>3, <1>4 DEF TimeInv, PaidInv
<1> QED
  BY <1>1, <1>3, <1>4, <1>5 DEF TimeInv, PromptInv, WaitInv

LEMMA NextTime ==
    ASSUME BaseInv, TimeInv, Next
    PROVE  TimeInv'
  BY NextCases, TickTime, AnnounceTime, ThreadTime, OutsideTime, TakeTime, AskTime, RestartTime

-----------------------------------------------------------------------------
(* What a server keeps.                                                     *)

\* Server q has k or a newer update, or its time is over, or q lost it in a race.
Kept(q, k) == Arrived(q, k) \/ Outlived(k) \/ Lost(q, k)

\* Newer than newer is newer.
LEMMA NewerNewer ==
    ASSUME NEW k \in Updates, NEW n \in Newer(k)
    PROVE  n \in Updates /\ BodyOf[n] = BodyOf[k] /\ Newer(n) \subseteq Newer(k)
<1>1. Timestamp \in [Updates -> Nat]
  BY PeeringAssumption
<1> QED
  BY <1>1 DEF Newer

\* What was lost remains known, and what has expired remains so.
LEMMA LostStable ==
    ASSUME Steady, NEW q \in Pollers, NEW k, Lost(q, k)
    PROVE  Lost(q, k)'
  BY DEF Steady, Lost, Newer

LEMMA OutlivedStable ==
    ASSUME BaseInv, BaseInv', Steady, NEW k \in Updates, Outlived(k)
    PROVE  Outlived(k)'
<1>1. PICK n \in Newer(k) : expired(n)
  BY DEF Outlived
<1>2. n \in Updates /\ Ttl[n] # Forever /\ Timestamp[n] + Ttl[n] < now
  BY <1>1 DEF Newer, expired
<1>3. Timestamp[n] \in Nat /\ Ttl[n] \in Nat /\ now \in Nat /\ now' \in Nat /\ now' >= now
  BY <1>2, PeeringAssumption DEF BaseInv, TypeOK, Steady
<1>4. Timestamp[n] + Ttl[n] < now'
  BY <1>2, <1>3
<1> QED
  BY <1>1, <1>2, <1>4 DEF Outlived, expired, Newer

\* What is stored is kept.
StoreKept ==
    \A q \in Pollers, b \in Bodies : store[q][b] # None => Kept(q, store[q][b])

LEMMA StoreIsKept == BaseInv => StoreKept
<1> SUFFICES ASSUME BaseInv, NEW q \in Pollers, NEW b \in Bodies, store[q][b] # None
             PROVE  Kept(q, store[q][b])
  BY DEF StoreKept
<1>1. store[q][b] \in Updates /\ BodyOf[store[q][b]] = b
  BY DEF BaseInv, TypeOK, StoreInv
<1>2. store[q][b] \in Newer(store[q][b])
  BY <1>1, PeeringAssumption DEF Newer
<1>3. CASE expired(store[q][b])
  BY <1>1, <1>2, <1>3 DEF Kept, Outlived
<1>4. CASE ~expired(store[q][b])
  BY <1>1, <1>2, <1>4 DEF Kept, Arrived, Found
<1> QED
  BY <1>1, <1>3, <1>4

\* What is kept remains so.
LEMMA KeptStable ==
    ASSUME BaseInv, BaseInv', Steady, NEW q \in Pollers, NEW k \in Updates, Kept(q, k)
    PROVE  Kept(q, k)'
<1>1. CASE Lost(q, k)
  BY <1>1, LostStable DEF Kept
<1>2. CASE Outlived(k)
  BY <1>2, OutlivedStable DEF Kept
<1>3. CASE Arrived(q, k)
  <2> DEFINE b == BodyOf[k]
             old == Found(q, b)
  <2>1. b \in Bodies /\ old \in Newer(k) /\ old \in Updates
    BY <1>3, PeeringAssumption DEF Arrived, Newer
  <2>2. old # None
    BY <2>1, PeeringAssumption
  <2> PICK new : new = store'[q][b]
    OBVIOUS
  <2>3. CASE old \in lost'[q]
    BY <2>1, <2>3 DEF Kept, Lost, Newer
  <2>4. CASE new # None /\ Timestamp[new] >= Timestamp[old]
    <3>1. new \in Updates /\ BodyOf[new] = b
      BY <2>1, <2>4, SMTT(30) DEF BaseInv, TypeOK, StoreInv
    <3>2. new \in Newer(k)
      <4>1. Timestamp[new] \in Nat /\ Timestamp[old] \in Nat /\ Timestamp[k] \in Nat
        BY <2>1, <3>1, PeeringAssumption
      <4>2. Timestamp[old] >= Timestamp[k]
        BY <2>1 DEF Newer
      <4>3. Timestamp[new] >= Timestamp[k]
        BY <2>4, <4>1, <4>2
      <4> QED
        BY <3>1, <4>3 DEF Newer
    <3>3. CASE expired(new)'
      BY <3>2, <3>3 DEF Kept, Outlived, Newer
    <3>4. CASE ~expired(new)'
      BY <2>4, <3>2, <3>4 DEF Kept, Arrived, Found, Newer
    <3> QED
      BY <3>3, <3>4
  <2> QED
    BY <2>1, <2>2, <2>3, <2>4 DEF Steady
<1> QED
  BY <1>1, <1>2, <1>3 DEF Kept

\* Where something newer is kept, the older one is.
LEMMA KeptNewer ==
    ASSUME NEW q \in Pollers, NEW k \in Updates, NEW n \in Newer(k), Kept(q, n)
    PROVE  Kept(q, k)
<1>1. BodyOf[n] = BodyOf[k] /\ Newer(n) \subseteq Newer(k)
  BY NewerNewer
<1> QED
  BY <1>1 DEF Kept, Arrived, Outlived, Lost

-----------------------------------------------------------------------------
(* Every thread and every client can rely on that.                          *)

\* What a thread has read is kept where it was read.
SeenInv == \A t \in Threads : seen[t] # None => Kept(Server(t), seen[t])

\* What a client has put is kept where it was put.
PutInv == \A k \in Clients : client[k] = "put" => Kept(PeerOf[k], k)

KeepInv == SeenInv /\ PutInv

\* A thread reads what is stored.
LEMMA GetKept ==
    ASSUME BaseInv, BaseInv', NEW t \in Threads, get(t), seen'[t] # None
    PROVE  \A n : n = seen'[t] => Kept(Server(t), n)'
<1>1. pc[t] = "read" /\ Goto(t, "check", raw[t], store[Server(t)][BodyOf[raw[t]]])
      /\ store' = store
  BY DEF get, db
<1>2. raw[t] \in Updates /\ BodyOf[raw[t]] \in Bodies /\ Server(t) \in Pollers
  BY <1>1, Holding
<1>3. PICK q \in Pollers, b \in Bodies : q = Server(t) /\ b = BodyOf[raw[t]]
  BY <1>2
<1>4. store[q][b] \in Updates \cup {None} /\ "check" \in Labels
  BY DEF BaseInv, TypeOK, Labels
<1>5. seen'[t] = store[q][b]
  BY <1>1, <1>2, <1>3, <1>4, GotoMoves DEF BaseInv
<1>6. seen'[t] = store'[q][b] /\ store'[q][b] # None
  BY <1>1, <1>5
<1>7. StoreKept'
  BY StoreIsKept, PTL
<1>8. ASSUME NEW n, n = seen'[t]
      PROVE  Kept(q, n)'
  <2>1. n = store'[q][b] /\ n # None
    BY <1>6, <1>8
  <2> QED
    BY <1>7, <2>1 DEF StoreKept
<1> QED
  BY <1>3, <1>8

\* A check that refuses.
Refuses(t) == check_timestamp(t) /\ seen[t] # None /\ Refused(raw[t], seen[t])

\* What a thread has put, or was refused, is kept.
LEMMA SettledKept ==
    ASSUME BaseInv, BaseInv', Steady, SeenInv, NEW t \in Threads, put(t) \/ Refuses(t)
    PROVE  raw[t] \in Updates /\ \A k : k = raw[t] => Kept(Server(t), k)'
<1>1. pc[t] \in {"check", "put"}
  BY DEF put, Refuses, check_timestamp
<1>2. raw[t] \in Updates /\ raw[t] # None /\ BodyOf[raw[t]] \in Bodies /\ Server(t) \in Pollers
      /\ Hand(t) /\ seen[t] \in Updates \cup {None}
  BY <1>1, Holding
<1>3. PICK q \in Pollers, b \in Bodies, k \in Updates, old \in Updates \cup {None} :
         q = Server(t) /\ b = BodyOf[raw[t]] /\ k = raw[t] /\ old = seen[t]
  BY <1>2
<1>4. CASE put(t)
  <2>1. Write(q, b, old, k) /\ k \in Updates \cup {None}
    BY <1>3, <1>4 DEF put
  <2>2. store'[q][b] = k /\ k # None
    BY <1>2, <1>3, <2>1, WriteMoves DEF BaseInv
  <2>3. StoreKept'
    BY StoreIsKept, PTL
  <2>4. Kept(q, k)'
    BY <2>2, <2>3 DEF StoreKept
  <2> QED
    BY <1>3, <2>4 DEF Server
<1>5. CASE Refuses(t)
  <2>1. old \in Updates /\ Kept(q, old) /\ BodyOf[old] = BodyOf[k]
    BY <1>2, <1>3, <1>5 DEF Refuses, SeenInv, Hand
  <2>2. CASE expired(k)
    <3>1. k \in Newer(k)
      BY PeeringAssumption DEF Newer
    <3>2. Kept(q, k)
      BY <2>2, <3>1 DEF Kept, Outlived
    <3> QED
      BY <1>3, <3>2, KeptStable DEF Server
  <2>3. CASE Timestamp[k] < Timestamp[old]
    <3>1. old \in Newer(k)
      BY <2>1, <2>3, PeeringAssumption DEF Newer
    <3>2. Kept(q, k)
      BY <2>1, <3>1, KeptNewer
    <3> QED
      BY <1>3, <3>2, KeptStable DEF Server
  <2> QED
    BY <1>3, <1>5, <2>2, <2>3 DEF Refuses, Refused
<1> QED
  BY <1>4, <1>5

\* Only then is a client answered.
LEMMA Answers ==
    ASSUME NEW t \in Threads, ThreadStep(t), client' # client
    PROVE  put(t) \/ Refuses(t)
<1>1. CASE DbStep(t)
  BY <1>1 DEF DbStep, get, get_delete, check_timestamp, Refuses
<1>2. CASE ~DbStep(t)
  BY <1>2 DEF ThreadStep, db_failed, client_put, client_put_again, Upload, get_failed, pull,
              pull_any
<1> QED
  BY <1>1, <1>2

LEMMA ThreadKeep ==
    ASSUME BaseInv, BaseInv', Steady, KeepInv, NEW t \in Threads, ThreadStep(t)
    PROVE  KeepInv'
<1>1. Moved(t) /\ (seen'[t] \in {seen[t], None} \/ get(t))
  BY ThreadMoves
<1>2. ASSUME NEW u \in Threads, NEW n, n = seen'[u], n # None
      PROVE  Kept(Server(u), n)'
  <2>1. Server(u) \in Pollers
    BY ServerType
  <2>2. CASE n = seen[u]
    <3>1. n \in Updates /\ Kept(Server(u), n)
      BY <1>2, <2>2 DEF KeepInv, SeenInv, BaseInv, TypeOK
    <3> QED
      BY <2>1, <3>1, KeptStable DEF Server
  <2>3. CASE u = t /\ get(t)
    BY <1>2, <2>3, GetKept
  <2> QED
    BY <1>1, <1>2, <2>2, <2>3 DEF Moved, Alone
<1>3. SeenInv'
  BY <1>2 DEF SeenInv, Server
<1>4. ASSUME NEW k \in Clients, client'[k] = "put"
      PROVE  Kept(PeerOf[k], k)'
  <2>1. k \in Updates /\ PeerOf[k] \in Pollers
    BY DEF Clients
  <2>2. CASE client[k] = "put"
    BY <2>1, <2>2, KeptStable DEF KeepInv, PutInv
  <2>3. CASE client[k] # "put"
    <3>1. k = t /\ client' # client
      BY <1>1, <1>4, <2>1, <2>3 DEF Moved
    <3>2. put(t) \/ Refuses(t)
      BY <3>1, Answers
    <3>3. raw[t] \in Updates /\ \A n : n = raw[t] => Kept(Server(t), n)'
      BY <3>2, SettledKept DEF KeepInv
    <3>4. k \notin Pollers
      BY <2>1, PeeringAssumption
    <3>5. raw[t] = k
      BY <3>1, <3>3, PeeringAssumption DEF BaseInv, HandInv, Hand
    <3> QED
      BY <3>1, <3>3, <3>4, <3>5 DEF Server
  <2> QED
    BY <2>2, <2>3
<1>5. PutInv'
  BY <1>4 DEF PutInv
<1> QED
  BY <1>3, <1>5 DEF KeepInv

\* A step in which nobody reads, and no client is answered.
LEMMA QuietKeep ==
    ASSUME BaseInv, BaseInv', Steady, KeepInv,
           \A t \in Threads : seen'[t] \in {seen[t], None},
           \A k \in Clients : client'[k] = "put" => client[k] = "put"
    PROVE  KeepInv'
<1>1. ASSUME NEW u \in Threads, NEW n, n = seen'[u], n # None
      PROVE  Kept(Server(u), n)'
  <2>1. Server(u) \in Pollers /\ n \in Updates /\ Kept(Server(u), n)
    BY <1>1, ServerType DEF KeepInv, SeenInv, BaseInv, TypeOK
  <2> QED
    BY <2>1, KeptStable DEF Server
<1>2. SeenInv'
  BY <1>1 DEF SeenInv, Server
<1>3. \A k \in Clients : client'[k] = "put" => Kept(PeerOf[k], k)'
  BY KeptStable DEF KeepInv, PutInv, Clients
<1> QED
  BY <1>2, <1>3 DEF KeepInv, PutInv

LEMMA NextKeep ==
    ASSUME BaseInv, BaseInv', Steady, KeepInv, Next
    PROVE  KeepInv'
<1>1. CASE Tick
  BY <1>1, QuietKeep DEF Tick, thread
<1>2. ASSUME NEW k \in Updates, announce(k) \/ \E p \in Pollers : announce_lost(p, k)
      PROVE  KeepInv'
  <2>1. client' = [client EXCEPT ![k] = "paid"] /\ seen' = seen
    BY <1>2 DEF announce, announce_lost, Pay, thread
  <2>2. \A n \in Clients : client'[n] = "put" => client[n] = "put"
    BY <2>1 DEF BaseInv, TypeOK, Clients
  <2> QED
    BY <2>1, <2>2, QuietKeep
<1>3. ASSUME NEW p \in Pollers, OutsideStep(p)
      PROVE  KeepInv'
  BY <1>3, OutsideMoves, QuietKeep DEF thread
<1>4. ASSUME NEW p \in Pollers, take(p) \/ get_metadata(p)
      PROVE  KeepInv'
  <2>1. client' = client /\ seen' = seen
    BY <1>4 DEF take, Begin, get_metadata
  <2> QED
    BY <2>1, QuietKeep
<1>5. ASSUME NEW q \in Pollers, restart(q)
      PROVE  KeepInv'
  <2>1. client' = client /\ \A t \in Threads : seen'[t] \in {seen[t], None}
    BY <1>5 DEF restart
  <2> QED
    BY <2>1, QuietKeep
<1> QED
  BY <1>1, <1>2, <1>3, <1>4, <1>5, NextCases, ThreadKeep

-----------------------------------------------------------------------------
(* The waiting period suffices.                                             *)

SafeInv == BaseInv /\ TimeInv /\ KeepInv

LEMMA SafeInitially == Init => SafeInv
<1> SUFFICES ASSUME Init PROVE SafeInv
  OBVIOUS
<1>1. BaseInv
  BY InitBaseInv
<1>2. TimeInv
  BY PeeringAssumption DEF Init, TimeInv, PaidInv, PromptInv, WaitInv, Threads, Clients
<1>3. KeepInv
  BY DEF Init, KeepInv, SeenInv, PutInv, Threads, Clients
<1> QED
  BY <1>1, <1>2, <1>3 DEF SafeInv

LEMMA SafeStutter ==
    ASSUME SafeInv, UNCHANGED vars
    PROVE  SafeInv'
<1>1. BaseInv' /\ Steady
  BY StutterBase DEF SafeInv
<1>2. /\ client' = client /\ queue' = queue /\ pc' = pc /\ job' = job /\ seen' = seen
      /\ invoice' = invoice /\ wait' = wait
  BY DEF vars, clock, thread
<1>3. TimeInv'
  BY <1>2 DEF SafeInv, TimeInv, PaidInv, PromptInv, WaitInv
<1>4. KeepInv'
  BY <1>1, <1>2, QuietKeep DEF SafeInv
<1> QED
  BY <1>1, <1>3, <1>4 DEF SafeInv

\* These hold throughout.
THEOREM SafeInvariant == Spec => []SafeInv
<1>1. SafeInv /\ [Next]_vars => SafeInv'
  BY NextBase, NextTime, NextKeep, SafeStutter DEF SafeInv
<1> QED
  BY <1>1, SafeInitially, PTL DEF Spec

\* When a server asks, the client has put.
LEMMA AskedAfterPut ==
    ASSUME SafeInv, NEW p \in Pollers, pc[p] = "get", job[p] \in Prompt
    PROVE  client[job[p]] = "put" /\ job[p] \in Clients /\ PeerOf[job[p]] \in Pollers
<1>1. job[p] \in Clients /\ job[p] \in Updates /\ PeerOf[job[p]] \in Pollers
  BY PeeringAssumption DEF Clients
<1>2. job[p] # None /\ client[job[p]] \in {"new", "paid", "put"}
  BY <1>1, PeeringAssumption DEF SafeInv, BaseInv, TypeOK
<1>3. client[job[p]] # "new"
  BY <1>2 DEF SafeInv, TimeInv, PaidInv
<1>4. client[job[p]] # "paid"
  <2>1. invoice[job[p]] = 0 /\ ~(0 >= 1)
    BY DEF SafeInv, TimeInv, WaitInv
  <2> QED
    BY <2>1 DEF SafeInv, TimeInv, PromptInv
<1> QED
  BY <1>1, <1>2, <1>3, <1>4

LEMMA AskedFor == SafeInv => PromptFound
<1> SUFFICES ASSUME SafeInv, NEW p \in Pollers, pc[p] = "get", job[p] \in Prompt
             PROVE  Kept(PeerOf[job[p]], job[p])
  BY DEF PromptFound, Kept
<1> QED
  BY AskedAfterPut DEF SafeInv, KeepInv, PutInv

\* For any number of servers, updates and faults, whatever the threads of a server do to
\* its database in between: the waiting period of peer_polling is long enough.  When it asks
\* for the update of a client that kept to its invoice, the other server of this kind has it
\* or a newer one, or its time is over, or that server lost it in a race of its own threads.
THEOREM WaitingSuffices == Spec => []PromptFound
  BY SafeInvariant, AskedFor, PTL

\* For any number of servers, updates and faults: a live entry gives way to an older one,
\* or to none, only in a write that rests on a stale copy and is counted among the lost ones.
THEOREM RollbackTheorem == Spec => RolledBackOnlyByRace
<1>1. ASSUME BaseInv, [Next]_vars
      PROVE  [\A q \in Pollers, b \in Bodies :
                 Found(q, b) # None =>
                     \/ store'[q][b] # None
                        /\ Timestamp[store'[q][b]] >= Timestamp[Found(q, b)]
                     \/ Found(q, b) \in lost'[q]]_vars
  BY <1>1, NextBase DEF Steady
<1> QED
  BY <1>1, BaseInvariant, PTL DEF Spec, RolledBackOnlyByRace

\* Types.
THEOREM PeerTypes == Spec => []TypeOK
<1>1. BaseInv => TypeOK
  BY DEF BaseInv
<1> QED
  BY <1>1, BaseInvariant, PTL

-----------------------------------------------------------------------------
(* No update is passed over.                                                *)

\* What a server has in hand for a prompt update that lasts is that or a newer one, if the
\* peer had it.
AnswerInv ==
    \A p \in Pollers :
        raw[p] # None /\ job[p] \in Prompt /\ Lasting(job[p]) =>
            raw[p] \in Newer(job[p]) \/ Lost(PeerOf[job[p]], job[p])

\* From the payment on, each server has such an update or will come to it.
Held(p, n) == Kept(p, n) \/ Pending(p, n) \/ n \in missed[p] \/ Lost(PeerOf[n], n)

SkipInv ==
    \A n \in Prompt, p \in Pollers :
        client[n] # "new" /\ Lasting(n) /\ PeerOf[n] # p => Held(p, n)

LEMMA PromptType ==
    ASSUME NEW n \in Prompt
    PROVE  n \in Clients /\ n \in Updates /\ PeerOf[n] \in Pollers /\ n # Err /\ n # None
  BY PeeringAssumption DEF Clients

\* When a server asks for it, the peer answers with it or with a newer one.
LEMMA Fresh ==
    ASSUME SafeInv, NEW p \in Pollers, pc[p] = "get", job[p] \in Prompt, Lasting(job[p])
    PROVE  \/ Found(PeerOf[job[p]], BodyOf[job[p]]) \in Newer(job[p])
           \/ Lost(PeerOf[job[p]], job[p])
<1>1. Arrived(PeerOf[job[p]], job[p]) \/ Outlived(job[p]) \/ Lost(PeerOf[job[p]], job[p])
  BY AskedFor DEF PromptFound
<1>2. ~Outlived(job[p])
  BY DEF Outlived, expired, Lasting
<1> QED
  BY <1>1, <1>2 DEF Arrived

LEMMA PullResult ==
    ASSUME SafeInv, NEW p \in Pollers, ThreadStep(p), pc[p] = "get", NEW k \in Prompt,
           job[p] = k, Lasting(k)
    PROVE  /\ raw'[p] # None => raw'[p] \in Newer(k) \/ Lost(PeerOf[k], k)
           /\ raw'[p] = None => k \in missed'[p] \/ Lost(PeerOf[k], k)
<1>1. p \in Threads /\ p \notin Clients
  BY PeeringAssumption DEF Threads, Clients
<1>2. k \in Updates /\ PeerOf[k] \in Pollers /\ BodyOf[k] \in Bodies
  BY PromptType, PeeringAssumption
<1>3. CASE get_failed(p)
  <2>1. k \in missed'[p] /\ Return(p)
    BY <1>3 DEF get_failed, SafeInv, BaseInv, TypeOK
  <2>2. raw'[p] = None
    BY <1>1, <2>1, ReturnMoves DEF SafeInv, BaseInv
  <2> QED
    BY <2>1, <2>2
<1>4. CASE pull(p)
  <2>1. PICK q \in Pollers, b \in Bodies : q = PeerOf[k] /\ b = BodyOf[k]
    BY <1>2
  <2>2. Found(q, b) \in Newer(k) \/ Lost(PeerOf[k], k)
    BY <2>1, Fresh
  <2>3. CASE Found(q, b) \in Newer(k)
    <3>1. Found(q, b) \in Updates /\ BodyOf[Found(q, b)] = BodyOf[k]
      BY <2>3 DEF Newer
    <3>2. Found(q, b) # None /\ Found(q, b) # Garbage
      BY <3>1, PeeringAssumption
    <3>3. PICK m \in Updates : m = Found(q, b)
      BY <3>1
    <3>4. m = store[q][b]
      BY <3>2, <3>3, FoundEntry DEF SafeInv, BaseInv
    <3>5. Answered(p, m)
      BY <1>4, <2>1, <3>2, <3>4 DEF pull
    <3>6. Goto(p, "read", m, None)
      BY <3>1, <3>2, <3>3, <3>5 DEF Answered
    <3>7. raw'[p] = m
      BY <1>1, <3>6, GotoMoves DEF SafeInv, BaseInv, Labels
    <3> QED
      BY <2>3, <3>2, <3>3, <3>7
  <2> QED
    BY <2>2, <2>3
<1>5. ~\E answer \in Updates \cup {Garbage} : pull_any(p, answer)
  BY <1>2 DEF pull_any
<1>6. ~(DbStep(p) \/ db_failed(p))
  BY DEF DbStep, get, get_delete, check_timestamp, put, db_failed
<1> QED
  BY <1>1, <1>3, <1>4, <1>5, <1>6 DEF ThreadStep

LEMMA Finished ==
    ASSUME SafeInv, NEW p \in Pollers, ThreadStep(p), pc[p] # "get", job[p] # None,
           job'[p] = None
    PROVE  put(p) \/ Refuses(p) \/ job[p] \in missed'[p]
<1>1. p \notin Clients
  BY PeeringAssumption DEF Clients
<1>2. CASE db_failed(p)
  BY <1>2 DEF db_failed
<1>3. CASE DbStep(p)
  BY <1>3 DEF DbStep, get, get_delete, check_timestamp, Refuses
<1> QED
  BY <1>1, <1>2, <1>3 DEF ThreadStep, get_failed, pull, pull_any

LEMMA ThreadAnswer ==
    ASSUME SafeInv, AnswerInv, Steady, NEW t \in Threads, ThreadStep(t)
    PROVE  AnswerInv'
<1> SUFFICES ASSUME NEW p \in Pollers, NEW k \in Prompt, k = job'[p], raw'[p] # None,
                    Lasting(k)
             PROVE  raw'[p] \in Newer(k) \/ Lost(PeerOf[k], k)'
  BY DEF AnswerInv, Lasting, Newer
<1>1. Moved(t) /\ (raw'[t] \in {raw[t], None} \/ pc[t] \in {"idle", "get"})
  BY ThreadMoves DEF SafeInv
<1>2. p \in Threads /\ PeerOf[k] \in Pollers /\ k # None /\ p \notin Clients
  BY PromptType, PeeringAssumption DEF Threads, Clients
<1>3. job[p] = k
  BY <1>1, <1>2 DEF Moved
<1>4. CASE p = t /\ pc[t] = "get"
  BY <1>2, <1>3, <1>4, PullResult, LostStable
<1>5. CASE ~(p = t /\ pc[t] = "get")
  <2>1. pc[p] # "idle"
    BY <1>2, <1>3 DEF SafeInv, BaseInv, TypeOK
  <2>2. raw'[p] = raw[p]
    BY <1>1, <1>2, <1>5, <2>1 DEF Moved, Alone
  <2>3. raw[p] \in Newer(k) \/ Lost(PeerOf[k], k)
    BY <1>3, <2>2 DEF AnswerInv
  <2> QED
    BY <1>2, <2>2, <2>3, LostStable
<1> QED
  BY <1>4, <1>5

LEMMA QuietAnswer ==
    ASSUME AnswerInv, Steady,
           \A p \in Pollers : raw'[p] = None \/ (raw'[p] = raw[p] /\ job'[p] = job[p])
    PROVE  AnswerInv'
<1> SUFFICES ASSUME NEW p \in Pollers, NEW k \in Prompt, k = job'[p], raw'[p] # None,
                    Lasting(k)
             PROVE  raw'[p] \in Newer(k) \/ Lost(PeerOf[k], k)'
  BY DEF AnswerInv, Lasting, Newer
<1>1. raw[p] \in Newer(k) \/ Lost(PeerOf[k], k)
  BY DEF AnswerInv
<1> QED
  BY <1>1, PromptType, LostStable

LEMMA ThreadSkip ==
    ASSUME SafeInv, SafeInv', AnswerInv, SkipInv, Steady, NEW t \in Threads, ThreadStep(t)
    PROVE  SkipInv'
<1> SUFFICES ASSUME NEW n \in Prompt, NEW p \in Pollers, client'[n] # "new", Lasting(n),
                    PeerOf[n] # p
             PROVE  Held(p, n)'
  BY DEF SkipInv, Lasting, Newer
<1>1. Moved(t)
  BY ThreadMoves DEF SafeInv
<1>2. /\ n \in Clients /\ n \in Updates /\ PeerOf[n] \in Pollers /\ n # None
      /\ p \in Threads /\ p \notin Clients
  BY PromptType, PeeringAssumption DEF Threads, Clients
<1>3. client[n] # "new"
  <2>1. n = t => client[n] # "new"
    BY <1>2, ThreadPaid DEF SafeInv, TimeInv
  <2> QED
    BY <1>1, <1>2, <2>1 DEF Moved
<1>4. Held(p, n)
  BY <1>3 DEF SkipInv
<1>5. CASE Kept(p, n)
  BY <1>2, <1>5, KeptStable DEF Held, SafeInv
<1>6. CASE n \in missed[p]
  BY <1>1, <1>6 DEF Held, Moved
<1>7. CASE Lost(PeerOf[n], n)
  BY <1>2, <1>7, LostStable DEF Held
<1>8. CASE Pending(p, n)
  <2>1. CASE job'[p] = job[p]
    BY <1>1, <1>8, <2>1 DEF Moved, Pending, Held
  <2>2. CASE job[p] # n
    BY <1>1, <1>8, <2>2 DEF Moved, Pending, Held
  <2>3. CASE job'[p] # job[p] /\ job[p] = n
    <3>1. p = t /\ job'[p] = None
      BY <1>1, <2>3 DEF Moved
    <3>2. raw'[p] = None
      BY <1>2, <3>1 DEF SafeInv, BaseInv, TypeOK
    <3>3. CASE pc[p] = "get"
      BY <1>2, <2>3, <3>1, <3>2, <3>3, PullResult, LostStable DEF Held
    <3>4. CASE pc[p] # "get"
      <4>1. put(p) \/ Refuses(p) \/ n \in missed'[p]
        BY <1>2, <2>3, <3>1, <3>4, Finished
      <4>2. CASE put(p) \/ Refuses(p)
        <5>1. raw[p] \in Updates /\ \A k : k = raw[p] => Kept(Server(p), k)'
          BY <1>2, <4>2, SettledKept DEF SafeInv, KeepInv
        <5>2. PICK m \in Updates : m = raw[p]
          BY <5>1
        <5>3. Kept(p, m)'
          BY <5>1, <5>2 DEF Server
        <5>4. m \in Newer(n) \/ Lost(PeerOf[n], n)
          BY <2>3, <5>1, <5>2, PeeringAssumption DEF AnswerInv
        <5>5. CASE m \in Newer(n)
          <6>1. BodyOf[m] = BodyOf[n] /\ Newer(m) \subseteq Newer(n)
            BY <1>2, <5>5, NewerNewer
          <6>2. Kept(p, n)'
            BY <5>3, <6>1 DEF Kept, Arrived, Outlived, Lost, Newer
          <6> QED
            BY <6>2 DEF Held
        <5> QED
          BY <1>2, <5>4, <5>5, LostStable DEF Held
      <4> QED
        BY <4>1, <4>2 DEF Held
    <3> QED
      BY <3>3, <3>4
  <2> QED
    BY <2>1, <2>2, <2>3
<1> QED
  BY <1>4, <1>5, <1>6, <1>7, <1>8 DEF Held

\* A step in which nobody pays and no announcement goes without being counted as missed.
LEMMA QuietSkip ==
    ASSUME SafeInv, SafeInv', SkipInv, Steady,
           \A n \in Prompt : client'[n] # "new" => client[n] # "new",
           \A p \in Pollers : missed[p] \subseteq missed'[p],
           \A n \in Prompt, p \in Pollers : Pending(p, n) => Pending(p, n)' \/ n \in missed'[p]
    PROVE  SkipInv'
<1> SUFFICES ASSUME NEW n \in Prompt, NEW p \in Pollers, client'[n] # "new", Lasting(n),
                    PeerOf[n] # p
             PROVE  Held(p, n)'
  BY DEF SkipInv, Lasting, Newer
<1>1. Held(p, n) /\ n \in Updates /\ PeerOf[n] \in Pollers
  BY PromptType DEF SkipInv
<1>2. CASE Kept(p, n)
  BY <1>1, <1>2, KeptStable DEF Held, SafeInv
<1>3. CASE Lost(PeerOf[n], n)
  BY <1>1, <1>3, LostStable DEF Held
<1> QED
  BY <1>1, <1>2, <1>3 DEF Held

\* What is announced comes before every other server, or is counted as missed there.
LEMMA AnnounceSkip ==
    ASSUME SafeInv, SafeInv', SkipInv, Steady, NEW k \in Updates,
           announce(k) \/ \E p \in Pollers : announce_lost(p, k)
    PROVE  SkipInv'
<1> SUFFICES ASSUME NEW n \in Prompt, NEW p \in Pollers, client'[n] # "new", Lasting(n),
                    PeerOf[n] # p
             PROVE  Held(p, n)'
  BY DEF SkipInv, Lasting, Newer
<1>1. /\ client' = [client EXCEPT ![k] = "paid"] /\ job' = job
      /\ \/ queue'[p] = Extended(p, k) /\ missed'[p] = missed[p]
         \/ queue'[p] = queue[p] /\ missed'[p] = missed[p] \cup {k}
         \/ queue'[p] = Extended(p, k) /\ missed[p] \subseteq missed'[p]
  <2>1. client' = [client EXCEPT ![k] = "paid"] /\ job' = job
    BY DEF announce, announce_lost, Pay, thread
  <2>2. CASE announce(k)
    BY <2>1, <2>2 DEF announce, Extended
  <2>3. ASSUME NEW r \in Pollers, announce_lost(r, k)
        PROVE  \/ queue'[p] = queue[p] /\ missed'[p] = missed[p] \cup {k}
               \/ queue'[p] = Extended(p, k) /\ missed[p] \subseteq missed'[p]
    BY <2>3 DEF announce_lost, Extended, SafeInv, BaseInv, TypeOK
  <2> QED
    BY <2>1, <2>2, <2>3
<1>2. n \in Updates /\ PeerOf[n] \in Pollers
  BY PromptType
<1>3. /\ \A i \in DOMAIN queue[p] :
            i \in DOMAIN Extended(p, k) /\ Extended(p, k)[i] = queue[p][i]
      /\ PeerOf[k] # p => \E i \in DOMAIN Extended(p, k) : Extended(p, k)[i] = k
  BY Enqueued DEF SafeInv, BaseInv
<1>4. CASE n = k
  BY <1>1, <1>3, <1>4 DEF Held, Pending
<1>5. CASE n # k
  <2>1. Held(p, n)
    BY <1>1, <1>2, <1>5 DEF SkipInv, SafeInv, BaseInv, TypeOK
  <2>2. CASE Kept(p, n)
    BY <1>2, <2>2, KeptStable DEF Held, SafeInv
  <2>3. CASE Lost(PeerOf[n], n)
    BY <1>2, <2>3, LostStable DEF Held
  <2>4. CASE n \in missed[p]
    BY <1>1, <2>4 DEF Held
  <2>5. CASE Pending(p, n)
    BY <1>1, <1>3, <2>5 DEF Held, Pending
  <2> QED
    BY <2>1, <2>2, <2>3, <2>4, <2>5 DEF Held
<1> QED
  BY <1>4, <1>5

\* What is taken from the queue is in hand then.
LEMMA TakePending ==
    ASSUME SafeInv, NEW q \in Pollers, take(q), NEW n \in Prompt, NEW p \in Pollers,
           Pending(p, n)
    PROVE  Pending(p, n)'
<1> DEFINE item == Head(queue[q])
<1>1. /\ pc[q] = "idle" /\ queue[q] # <<>> /\ queue' = [queue EXCEPT ![q] = Tail(@)]
      /\ IF item = Err THEN UNCHANGED <<pc, job, wait>> ELSE job' = [job EXCEPT ![q] = item]
  BY DEF take, Begin
<1>2. n # Err /\ n # None /\ n \in Updates
  BY PromptType
<1>3. CASE p # q
  <2>1. queue'[p] = queue[p] /\ job'[p] = job[p]
    BY <1>1, <1>3 DEF SafeInv, BaseInv, TypeOK
  <2> QED
    BY <2>1 DEF Pending
<1>4. CASE p = q
  <2>1. job[p] = None
    BY <1>1, <1>4 DEF SafeInv, BaseInv, TypeOK
  <2>2. PICK j \in DOMAIN queue[q] : queue[q][j] = n
    BY <1>2, <1>4, <2>1 DEF Pending
  <2>3. queue'[q] = Tail(queue[q])
    BY <1>1 DEF SafeInv, BaseInv, TypeOK
  <2>4. CASE item = n
    BY <1>1, <1>2, <1>4, <2>4 DEF Pending, SafeInv, BaseInv, TypeOK
  <2>5. CASE item # n
    <3>1. \E i \in DOMAIN Tail(queue[q]) : Tail(queue[q])[i] = n
      BY <1>1, <2>2, <2>5, Dequeued DEF SafeInv, BaseInv
    <3> QED
      BY <1>4, <2>3, <3>1 DEF Pending
  <2> QED
    BY <2>4, <2>5
<1> QED
  BY <1>3, <1>4

\* What was before a server when it is started again is counted as missed.
LEMMA RestartPending ==
    ASSUME SafeInv, NEW q \in Pollers, restart(q), NEW n \in Prompt, NEW p \in Pollers,
           Pending(p, n)
    PROVE  Pending(p, n)' \/ n \in missed'[p]
<1>1. /\ missed' = [missed EXCEPT ![q] = @ \cup {k \in Updates : Pending(q, k)}]
      /\ queue' = [queue EXCEPT ![q] = <<>>] /\ job' = [job EXCEPT ![q] = None]
  BY DEF restart
<1>2. n \in Updates
  BY PromptType
<1>3. CASE p = q
  BY <1>1, <1>2, <1>3 DEF SafeInv, BaseInv, TypeOK
<1>4. CASE p # q
  BY <1>1, <1>4 DEF Pending, SafeInv, BaseInv, TypeOK
<1> QED
  BY <1>3, <1>4

ArriveInv == SafeInv /\ AnswerInv /\ SkipInv

LEMMA ArriveInitially == Init => ArriveInv
<1> SUFFICES ASSUME Init PROVE ArriveInv
  OBVIOUS
<1>1. Pollers \subseteq Threads /\ Prompt \subseteq Updates
  BY PeeringAssumption DEF Threads
<1>2. AnswerInv /\ SkipInv
  BY <1>1 DEF Init, AnswerInv, SkipInv
<1> QED
  BY <1>2, SafeInitially DEF ArriveInv

LEMMA NextArrive ==
    ASSUME ArriveInv, SafeInv', Steady, Next
    PROVE  AnswerInv' /\ SkipInv'
<1>1. SafeInv /\ AnswerInv /\ SkipInv
  BY DEF ArriveInv
<1>2. CASE Tick
  <2>1. queue' = queue /\ job' = job /\ raw' = raw /\ missed' = missed /\ client' = client
    BY <1>2 DEF Tick, thread
  <2> QED
    BY <1>1, <2>1, QuietAnswer, QuietSkip DEF Pending
<1>3. ASSUME NEW k \in Updates, announce(k) \/ \E p \in Pollers : announce_lost(p, k)
      PROVE  AnswerInv' /\ SkipInv'
  <2>1. raw' = raw /\ job' = job
    BY <1>3 DEF announce, announce_lost, Pay, thread
  <2> QED
    BY <1>1, <1>3, <2>1, QuietAnswer, AnnounceSkip
<1>4. ASSUME NEW t \in Threads, ThreadStep(t)
      PROVE  AnswerInv' /\ SkipInv'
  BY <1>1, <1>4, ThreadAnswer, ThreadSkip
<1>5. ASSUME NEW q \in Pollers, OutsideStep(q)
      PROVE  AnswerInv' /\ SkipInv'
  <2>1. raw' = raw /\ job' = job /\ missed' = missed /\ client' = client
    BY <1>1, <1>5, OutsideMoves DEF thread, SafeInv
  <2>2. \A n \in Prompt, p \in Pollers : Pending(p, n) => Pending(p, n)'
    BY <1>1, <1>5, <2>1, OutsideMoves DEF Pending, SafeInv
  <2> QED
    BY <1>1, <2>1, <2>2, QuietAnswer, QuietSkip
<1>6. ASSUME NEW q \in Pollers, take(q)
      PROVE  AnswerInv' /\ SkipInv'
  <2>1. raw' = raw /\ missed' = missed /\ client' = client
    BY <1>6 DEF take, Begin
  <2>2. \A p \in Pollers : raw[p] = None \/ job'[p] = job[p]
    <3>1. pc[q] = "idle" /\ (job' = job \/ job' = [job EXCEPT ![q] = Head(queue[q])])
      BY <1>6 DEF take, Begin
    <3> QED
      BY <1>1, <3>1 DEF SafeInv, BaseInv, TypeOK, Threads
  <2> QED
    BY <1>1, <1>6, <2>1, <2>2, QuietAnswer, QuietSkip, TakePending
<1>7. ASSUME NEW q \in Pollers, get_metadata(q)
      PROVE  AnswerInv' /\ SkipInv'
  <2>1. queue' = queue /\ job' = job /\ raw' = raw /\ missed' = missed /\ client' = client
    BY <1>7 DEF get_metadata
  <2> QED
    BY <1>1, <2>1, QuietAnswer, QuietSkip DEF Pending
<1>8. ASSUME NEW q \in Pollers, restart(q)
      PROVE  AnswerInv' /\ SkipInv'
  <2>1. /\ missed' = [missed EXCEPT ![q] = @ \cup {k \in Updates : Pending(q, k)}]
        /\ raw' = [t \in Threads |-> IF Server(t) = q THEN None ELSE raw[t]]
        /\ job' = [job EXCEPT ![q] = None] /\ client' = client
    BY <1>8 DEF restart
  <2>2. \A p \in Pollers : raw'[p] = None \/ (raw'[p] = raw[p] /\ job'[p] = job[p])
    BY <1>1, <2>1 DEF Server, Threads, SafeInv, BaseInv, TypeOK
  <2>3. \A p \in Pollers : missed[p] \subseteq missed'[p]
    BY <1>1, <2>1 DEF SafeInv, BaseInv, TypeOK
  <2> QED
    BY <1>1, <1>8, <2>1, <2>2, <2>3, QuietAnswer, QuietSkip, RestartPending
<1> QED
  BY <1>2, <1>3, <1>4, <1>5, <1>6, <1>7, <1>8, NextCases

LEMMA ArriveStep == ArriveInv /\ [Next]_vars => ArriveInv'
<1> SUFFICES ASSUME ArriveInv, [Next]_vars PROVE ArriveInv'
  OBVIOUS
<1>1. SafeInv' /\ Steady
  BY NextBase, NextTime, NextKeep, SafeStutter, StutterBase DEF ArriveInv, SafeInv
<1>2. CASE Next
  BY <1>1, <1>2, NextArrive DEF ArriveInv
<1>3. CASE UNCHANGED vars
  <2>1. queue' = queue /\ job' = job /\ raw' = raw /\ missed' = missed /\ client' = client
    BY <1>3 DEF vars, thread
  <2> QED
    BY <1>1, <2>1, QuietAnswer, QuietSkip DEF ArriveInv, Pending
<1> QED
  BY <1>2, <1>3

\* For any number of servers, updates and faults, whatever the threads of a server do to
\* its database in between: once its client has put it, a prompt update that lasts is at
\* every server, or a newer one is, or the server still has its announcement before it,
\* unless that was lost or its GET failed, or a race of the threads of this server or of
\* the peer lost the update.
THEOREM NothingSkipped == Spec => []NoneSkipped
<1>1. ArriveInv => NoneSkipped
  <2> SUFFICES ASSUME ArriveInv, NEW n \in Prompt, NEW p \in Pollers, client[n] = "put",
                      Lasting(n)
               PROVE  Arrived(p, n) \/ Pending(p, n) \/ n \in missed[p]
                      \/ Lost(p, n) \/ Lost(PeerOf[n], n)
    BY DEF NoneSkipped
  <2>1. n \in Clients /\ n \in Updates
    BY PromptType
  <2>2. ~Outlived(n)
    BY DEF Outlived, expired, Lasting
  <2>3. CASE PeerOf[n] = p
    BY <2>1, <2>2, <2>3 DEF ArriveInv, SafeInv, KeepInv, PutInv, Kept
  <2>4. CASE PeerOf[n] # p
    BY <2>2, <2>4 DEF ArriveInv, SkipInv, Held, Kept
  <2> QED
    BY <2>3, <2>4
<1> QED
  BY <1>1, ArriveInitially, ArriveStep, PTL DEF Spec
=============================================================================
