--------------------------- MODULE PaidGateProofs ---------------------------
(***************************************************************************)
(* Proof that the payment gate keeps the promise of PaidGate, for any      *)
(* number of workers and requests in flight.                               *)
(***************************************************************************)
EXTENDS PaymentsProofs

\* What is payable is on an invoice of this start, also when it is about to be
\* flushed; and no two tasks of a worker are sending for one address.
SaleInv ==
    /\ wallet \subseteq invoices
    /\ \A t \in Tasks : pc[t] = "flush" => Output(t).addr \in invoices
    /\ \A t \in Sending : admissions[Output(t).addr][WorkerOf[t]] > 0
    /\ \A t, u \in Sending :
          t # u /\ WorkerOf[t] = WorkerOf[u] => Output(t).addr # Output(u).addr

\* The abstract state.
mapped == <<handed, wallet, Settled, Pending, {k.url : k \in acks}, passes>>

\* Who sends has found an address of the node.
LEMMA SendingTypes ==
    ASSUME PInv, NEW t \in Sending
    PROVE  /\ t \in Tasks /\ WorkerOf[t] \in Workers /\ Output(t).addr \in Addrs
           /\ pc[t] \in {"send", "sent"}
  BY PaymentsAssumption DEF Sending, PInv, TypeOK, TaskInv, Matched

-----------------------------------------------------------------------------
(* Steps of a task that does not come to send.                             *)

\* Only task t moves, and it is not sending afterwards.
Retires(t) ==
    /\ \A u \in Tasks \ {t} : pc'[u] = pc[u] /\ payment'[u] = payment[u] /\ at'[u] = at[u]
    /\ pc'[t] \notin {"send", "sent"}

\* The settlement of t is then no longer pending, if it was.
LEMMA RetiredPending ==
    ASSUME PInv, SaleInv, NEW t \in Tasks, Retires(t)
    PROVE  /\ Sending' = Sending \ {t}
           /\ \A u \in Sending \ {t} : Output(u)' = Output(u)
           /\ t \notin Sending => Pending' = Pending
           /\ t \in Sending => Pending' = Pending \ {<<Output(t).addr, WorkerOf[t]>>}
<1>1. Sending' = Sending \ {t}
  BY DEF Sending, Retires
<1>2. ASSUME NEW u \in Sending \ {t}
      PROVE  Output(u)' = Output(u)
  BY DEF Sending, Retires, Output
<1>3. Pending' = {<<Output(u).addr, WorkerOf[u]>> : u \in Sending \ {t}}
  BY <1>1, <1>2 DEF Pending
<1>4. CASE t \notin Sending
  BY <1>1, <1>2, <1>3, <1>4 DEF Pending
<1>5. CASE t \in Sending
  <2>1. ASSUME NEW u \in Sending \ {t}
        PROVE  <<Output(u).addr, WorkerOf[u]>> # <<Output(t).addr, WorkerOf[t]>>
    BY <1>5 DEF SaleInv
  <2> QED
    BY <1>1, <1>2, <1>3, <1>5, <2>1 DEF Pending
<1> QED
  BY <1>1, <1>2, <1>4, <1>5

LEMMA RetiredSale ==
    ASSUME PInv, SaleInv, NEW t \in Tasks, Retires(t), wallet' \subseteq invoices',
           invoices \subseteq invoices', UNCHANGED admissions,
           pc'[t] = "flush" => Output(t)'.addr \in invoices'
    PROVE  SaleInv'
<1>1. /\ Sending' = Sending \ {t}
      /\ \A u \in Sending \ {t} : Output(u)' = Output(u)
  BY RetiredPending
<1>2. ASSUME NEW u \in Tasks, pc'[u] = "flush"
      PROVE  Output(u)'.addr \in invoices'
  <2>1. CASE u = t
    BY <1>2, <2>1
  <2>2. CASE u # t
    <3>1. Output(u)' = Output(u) /\ pc[u] = "flush"
      BY <1>2, <2>2 DEF Retires, Output
    <3> QED
      BY <3>1 DEF SaleInv
  <2> QED
    BY <2>1, <2>2
<1>3. \A u \in Sending' : (admissions[Output(u).addr][WorkerOf[u]] > 0)'
  BY <1>1 DEF SaleInv
<1>4. \A u, v \in Sending' :
         u # v /\ WorkerOf[u] = WorkerOf[v] => Output(u)'.addr # Output(v)'.addr
  BY <1>1 DEF SaleInv
<1> QED
  BY <1>2, <1>3, <1>4 DEF SaleInv

\* A task that ends retires.
LEMMA FinishRetires ==
    ASSUME PInv, NEW t \in Tasks, Finish(t)
    PROVE  Retires(t) /\ pc'[t] = "idle"
  BY DEF Finish, Retires, PInv, TypeOK

\* A task that ends with no effect but on itself gives up the settlement it had.
LEMMA FinishPromise ==
    ASSUME PInv, SaleInv, NEW t \in Tasks, Finish(t), LocalStep
    PROVE  SaleInv' /\ [Promise!Next]_mapped
<1>1. Retires(t) /\ pc'[t] = "idle"
  BY FinishRetires
<1>2. /\ UNCHANGED <<wallet, handed, invoices, admissions, acks, passes>>
      /\ Settled' = Settled
  BY DEF LocalStep, node, history, Settled
<1>3. SaleInv'
  BY <1>1, <1>2, RetiredSale DEF SaleInv
<1>4. CASE t \notin Sending
  <2>1. Pending' = Pending
    BY <1>1, <1>4, RetiredPending
  <2> QED
    BY <1>2, <1>3, <2>1 DEF mapped
<1>5. CASE t \in Sending
  <2> DEFINE a == Output(t).addr
             w == WorkerOf[t]
  <2>1. a \in Addrs /\ w \in Workers /\ <<a, w>> \in Pending
    BY <1>5, SendingTypes DEF Pending
  <2>2. Pending' = Pending \ {<<a, w>>}
    BY <1>1, <1>5, RetiredPending
  <2>3. {k.url : k \in acks}' = {k.url : k \in acks} \cup {}
    BY <1>2
  <2>4. Promise!Collect(a, w, {})
    BY <1>2, <2>1, <2>2, <2>3 DEF Promise!Collect
  <2> QED
    BY <1>3, <2>1, <2>4 DEF Promise!Next
<1> QED
  BY <1>4, <1>5

\* Steps that change nothing the abstraction sees.
LEMMA UnseenPromise ==
    ASSUME PInv, SaleInv, NEW t \in Tasks, Retires(t), t \notin Sending, LocalStep,
           pc'[t] = "flush" => Output(t)'.addr \in invoices'
    PROVE  SaleInv' /\ [Promise!Next]_mapped
<1>1. /\ UNCHANGED <<wallet, handed, invoices, admissions, acks, passes>>
      /\ Settled' = Settled
  BY DEF LocalStep, node, history, Settled
<1>2. SaleInv'
  BY <1>1, RetiredSale DEF SaleInv
<1>3. Pending' = Pending
  BY RetiredPending
<1> QED
  BY <1>1, <1>2, <1>3 DEF mapped

-----------------------------------------------------------------------------
(* The actions.                                                            *)

\* A token lets an update pass, and it was given for a payment.
LEMMA CallPromise ==
    ASSUME PInv, SaleInv, NEW t \in Tasks, NEW url \in Urls, NEW auth, call(t, url, auth)
    PROVE  SaleInv' /\ [Promise!Next]_mapped
<1>1. t \notin Sending /\ pc[t] = "idle"
  BY DEF call, Idle, Sending
<1>2. CASE Finish(t) /\ passes' = passes
  BY <1>2, FinishPromise DEF call, LocalStep, node, history
<1>3. CASE Goto(t, "addr") /\ passes' = passes
  <2>1. Retires(t) /\ pc'[t] = "addr"
    BY <1>3 DEF Goto, Retires, PInv, TypeOK
  <2>2. LocalStep
    BY <1>3 DEF call, LocalStep, node, history
  <2> QED
    BY <1>1, <2>1, <2>2, UnseenPromise
<1>4. CASE /\ Finish(t) /\ auth \in Tokens /\ validate_token(url, "server", auth)
           /\ passes' = [passes EXCEPT ![url] = @ + 1]
  <2>1. UNCHANGED <<wallet, handed, invoices, admissions, acks>> /\ Settled' = Settled
    BY DEF call, node, Settled
  <2>2. Retires(t) /\ pc'[t] = "idle"
    BY <1>4, FinishRetires
  <2>3. SaleInv' /\ Pending' = Pending
    BY <1>1, <2>1, <2>2, RetiredSale, RetiredPending DEF SaleInv
  <2>4. url \in {k.url : k \in acks}
    BY <1>4 DEF Tokens, validate_token, generate_token
  <2>5. Promise!Pass(url)
    BY <1>4, <2>1, <2>3, <2>4 DEF Promise!Pass
  <2> QED
    BY <2>3, <2>5 DEF Promise!Next
<1> QED
  BY <1>2, <1>3, <1>4 DEF call

\* An invoice is a bill.
LEMMA NewAddrPromise ==
    ASSUME PInv, SaleInv, NEW t \in Tasks, NEW addr \in Addrs, get_new_addr(t, addr)
    PROVE  SaleInv' /\ [Promise!Next]_mapped
<1>1. /\ pc[t] = "addr" /\ addr \notin handed
      /\ handed' = handed \cup {addr}
      /\ wallet' = wallet \cup {addr}
      /\ invoices' = invoices \cup {addr}
      /\ Finish(t)
      /\ UNCHANGED <<admissions, acks, passes>>
      /\ Settled' = Settled
  BY DEF get_new_addr, Settled
<1>2. Retires(t) /\ pc'[t] = "idle" /\ t \notin Sending
  BY <1>1, FinishRetires DEF Sending
<1>3. SaleInv'
  BY <1>1, <1>2, RetiredSale DEF SaleInv
<1>4. Pending' = Pending
  BY <1>2, RetiredPending
<1>5. Promise!Bill(addr)
  BY <1>1, <1>4 DEF Promise!Bill
<1> QED
  BY <1>3, <1>5 DEF Promise!Next

\* A posted payment, and each look for the output that pays, are still nothing.
LEMMA HandlerPromise ==
    ASSUME PInv, SaleInv, NEW t \in Tasks, NEW post \in Posts, payment_handler(t, post)
    PROVE  SaleInv' /\ [Promise!Next]_mapped
<1>1. t \notin Sending /\ LocalStep
  BY DEF payment_handler, Idle, Sending, LocalStep
<1>2. CASE PaymentCheck(post) # "Ok"
  BY <1>1, <1>2, FinishPromise DEF payment_handler
<1>3. CASE PaymentCheck(post) = "Ok"
  <2>1. Retires(t) /\ pc'[t] = "scan"
    BY <1>3 DEF payment_handler, Retires, PInv, TypeOK
  <2> QED
    BY <1>1, <2>1, UnseenPromise
<1> QED
  BY <1>2, <1>3

LEMMA LookPromise ==
    ASSUME PInv, SaleInv, NEW t \in Tasks, check_p2pkh(t)
    PROVE  SaleInv' /\ [Promise!Next]_mapped
<1>1. t \notin Sending /\ LocalStep /\ pc[t] = "scan"
  BY DEF check_p2pkh, Sending, LocalStep
<1>2. CASE Finish(t)
  BY <1>1, <1>2, FinishPromise
<1>3. CASE Output(t).addr \in wallet /\ Goto(t, "flush")
  <2>1. Retires(t) /\ Output(t)' = Output(t) /\ invoices' = invoices
    BY <1>1, <1>3 DEF Goto, Retires, Output, PInv, TypeOK, LocalStep, history
  <2> QED
    BY <1>1, <1>3, <2>1, UnseenPromise DEF SaleInv
<1>4. CASE at' = [at EXCEPT ![t] = @ + 1] /\ UNCHANGED <<pc, payment>>
  <2>1. Retires(t) /\ pc'[t] = "scan"
    BY <1>1, <1>4 DEF Retires, PInv, TypeOK
  <2> QED
    BY <1>1, <2>1, UnseenPromise
<1> QED
  BY <1>2, <1>3, <1>4 DEF check_p2pkh

\* The flush is the settlement: the worker has not settled the bill before, and it
\* is open unless another worker settled it since this one looked.
LEMMA FlushPromise ==
    ASSUME PInv, SaleInv, NEW t \in Tasks, flush(t)
    PROVE  SaleInv' /\ [Promise!Next]_mapped
<1> DEFINE a == Output(t).addr
           w == WorkerOf[t]
<1>1. /\ pc[t] = "flush" /\ a \in Addrs /\ w \in Workers
      /\ a \in invoices /\ admissions[a][w] = 0
  BY PaymentsAssumption DEF flush, PInv, TaskInv, TypeOK, Matched, SaleInv
<1>2. /\ wallet' = wallet \ {a}
      /\ admissions' = [admissions EXCEPT ![a][w] = @ + 1]
      /\ pc' = [pc EXCEPT ![t] = "send"]
      /\ UNCHANGED <<payment, at, handed, invoices, acks, passes>>
  BY SMTT(30) DEF flush, Goto, node
<1>3. \A u \in Tasks : Output(u)' = Output(u)
  BY <1>2 DEF Output
<1>4. Sending' = Sending \cup {t}
  BY <1>2 DEF Sending, PInv, TypeOK
<1> HIDE DEF a, w
<1>5. /\ admissions'[a][w] = 1
      /\ \A b \in Addrs, v \in Workers :
            b # a \/ v # w => admissions'[b][v] = admissions[b][v]
  BY <1>1, <1>2 DEF PInv, TypeOK
<1>6. SaleInv'
  <2>1. wallet' \subseteq invoices'
    BY <1>2 DEF SaleInv
  <2>2. \A u \in Tasks : pc'[u] = "flush" => Output(u)'.addr \in invoices'
    BY <1>2, <1>3 DEF SaleInv, PInv, TypeOK
  <2>3. ASSUME NEW u \in Sending'
        PROVE  admissions'[Output(u)'.addr][WorkerOf[u]] > 0
    <3>1. CASE u = t
      BY <1>3, <1>5, <3>1 DEF a, w
    <3>2. CASE u # t
      <4>1. u \in Sending /\ Output(u)' = Output(u)
        BY <1>3, <1>4, <2>3, <3>2, SendingTypes DEF Sending
      <4>2. Output(u).addr \in Addrs /\ WorkerOf[u] \in Workers
            /\ admissions[Output(u).addr][WorkerOf[u]] > 0
        BY <4>1, SendingTypes DEF SaleInv
      <4>3. CASE Output(u).addr = a /\ WorkerOf[u] = w
        BY <1>1, <4>2, <4>3
      <4>4. CASE ~(Output(u).addr = a /\ WorkerOf[u] = w)
        BY <1>5, <4>1, <4>2, <4>4
      <4> QED
        BY <4>3, <4>4
    <3> QED
      BY <3>1, <3>2
  <2>4. ASSUME NEW u \in Sending, WorkerOf[u] = w
        PROVE  Output(u).addr # a
    <3>1. admissions[Output(u).addr][WorkerOf[u]] > 0
      BY DEF SaleInv
    <3> QED
      BY <1>1, <2>4, <3>1
  <2>5. \A u, v \in Sending' :
           u # v /\ WorkerOf[u] = WorkerOf[v] => Output(u)'.addr # Output(v)'.addr
    <3>1. \A u \in Sending' : u \in Tasks
      BY DEF Sending
    <3> QED
      BY <1>3, <1>4, <2>4, <3>1 DEF SaleInv, a, w
  <2> QED
    BY <2>1, <2>2, <2>3, <2>5 DEF SaleInv
<1>7. Pending' = Pending \cup {<<a, w>>}
  <2>1. \A u \in Sending \cup {t} : u \in Tasks
    BY DEF Sending
  <2> QED
    BY <1>3, <1>4, <2>1 DEF Pending, a, w
<1>8. Settled' = [Settled EXCEPT ![a] = @ \cup {w}]
  <2>1. ASSUME NEW b \in Addrs
        PROVE  Settled'[b] = IF b = a THEN Settled[a] \cup {w} ELSE Settled[b]
    <3>1. Settled'[b] = {v \in Workers : admissions'[b][v] > 0}
      BY DEF Settled
    <3>2. Settled[b] = {v \in Workers : admissions[b][v] > 0}
      BY DEF Settled
    <3>3. CASE b = a
      <4>1. \A v \in Workers : admissions'[b][v] > 0 <=> admissions[b][v] > 0 \/ v = w
        BY <1>5, <3>3
      <4> QED
        BY <1>1, <3>1, <3>2, <3>3, <4>1
    <3>4. CASE b # a
      BY <1>5, <3>1, <3>2, <3>4
    <3> QED
      BY <3>3, <3>4
  <2> QED
    BY <1>1, <2>1 DEF Settled
<1>9. w \notin Settled[a] /\ (a \in wallet \/ Settled[a] # {})
  <2>1. Settled[a] = {v \in Workers : admissions[a][v] > 0}
    BY <1>1 DEF Settled
  <2>2. \A v \in Workers : admissions[a][v] \in Nat
    BY <1>1 DEF PInv, TypeOK
  <2>3. a \in wallet \/ \E v \in Workers : admissions[a][v] # 0
    BY <1>1 DEF PInv, InvoiceHonoured
  <2> QED
    BY <1>1, <2>1, <2>2, <2>3
<1>10. Promise!Settle(a, w)
  BY <1>2, <1>7, <1>8, <1>9 DEF Promise!Settle
<1> QED
  BY <1>1, <1>6, <1>10 DEF Promise!Next

\* What the node has taken is settled already.
LEMMA AcceptPromise ==
    ASSUME PInv, SaleInv, NEW t \in Tasks, node_accept(t)
    PROVE  SaleInv' /\ [Promise!Next]_mapped
<1>1. /\ pc[t] = "send" /\ pc' = [pc EXCEPT ![t] = "sent"]
      /\ UNCHANGED <<wallet, payment, at, handed, invoices, admissions, acks, passes>>
  BY DEF node_accept, Goto, history
<1>2. Sending' = Sending /\ \A u \in Tasks : Output(u)' = Output(u)
  BY <1>1 DEF Sending, Output, PInv, TypeOK
<1>3. \A u \in Sending : u \in Tasks
  BY DEF Sending
<1>4. Pending' = Pending /\ Settled' = Settled
  BY <1>1, <1>2, <1>3 DEF Pending, Settled
<1>5. SaleInv'
  BY <1>1, <1>2, <1>3 DEF SaleInv, PInv, TypeOK
<1> QED
  BY <1>1, <1>4, <1>5 DEF mapped

\* The acknowledgement collects what was settled; without usable merchant data the
\* payer gets nothing for it.
LEMMA AckPromise ==
    ASSUME PInv, SaleInv, NEW t \in Tasks, send_tx(t)
    PROVE  SaleInv' /\ [Promise!Next]_mapped
<1> DEFINE url == payment[t].merchant_data
           a == Output(t).addr
           w == WorkerOf[t]
           k == [url |-> url, tx |-> payment[t].tx, addr |-> a]
<1>1. CASE url \notin Urls
  BY <1>1, FinishPromise DEF send_tx, LocalStep, node, history
<1>2. CASE url \in Urls
  <2>1. /\ Finish(t) /\ t \in Sending
        /\ acks' = acks \cup {k}
        /\ UNCHANGED <<wallet, handed, invoices, admissions, passes>>
        /\ Settled' = Settled
    BY <1>2 DEF send_tx, node, Settled, Sending
  <2>2. Retires(t) /\ pc'[t] = "idle"
    BY <2>1, FinishRetires
  <2>3. SaleInv'
    BY <2>1, <2>2, RetiredSale DEF SaleInv
  <2>4. a \in Addrs /\ w \in Workers /\ <<a, w>> \in Pending
    BY <2>1, SendingTypes DEF Pending
  <2>5. Pending' = Pending \ {<<a, w>>}
    BY <2>1, <2>2, RetiredPending
  <2>6. {j.url : j \in acks}' = {j.url : j \in acks} \cup {url}
    <3>1. k.url = url
      OBVIOUS
    <3> HIDE DEF k, url
    <3> QED
      BY <2>1, <3>1
  <2> HIDE DEF url, a, w
  <2>7. PICK b \in Addrs, v \in Workers, u \in Urls : b = a /\ v = w /\ u = url
    BY <1>2, <2>4
  <2>8. Promise!Collect(b, v, {u})
    BY <2>1, <2>4, <2>5, <2>6, <2>7 DEF Promise!Collect
  <2> QED
    BY <2>3, <2>8 DEF Promise!Next
<1> QED
  BY <1>1, <1>2

\* A restart forgets the open bills and the settlements under way.
LEMMA CrashPromise ==
    ASSUME PInv, SaleInv, crash
    PROVE  SaleInv' /\ [Promise!Next]_mapped
<1>1. /\ wallet' = {} /\ pc' = [t \in Tasks |-> "idle"]
      /\ UNCHANGED <<handed, admissions, acks, passes>> /\ Settled' = Settled
  BY DEF crash, node, Settled
<1>2. Sending' = {}
  BY <1>1 DEF Sending
<1>3. SaleInv'
  BY <1>1, <1>2 DEF SaleInv
<1>4. Pending' = {}
  BY <1>2 DEF Pending
<1>5. Promise!Restart
  BY <1>1, <1>4 DEF Promise!Restart
<1> QED
  BY <1>3, <1>5 DEF Promise!Next

-----------------------------------------------------------------------------
(* The refinement.                                                         *)

LEMMA InitPromise == Init => SaleInv /\ Promise!Init
<1> SUFFICES ASSUME Init
             PROVE  SaleInv /\ Promise!Init
  OBVIOUS
<1>1. Sending = {}
  BY DEF Init, Sending
<1>2. SaleInv
  BY <1>1 DEF Init, SaleInv
<1>3. Pending = {} /\ Settled = [a \in Addrs |-> {}]
  BY <1>1 DEF Init, Pending, Settled
<1> QED
  BY <1>2, <1>3 DEF Init, Promise!Init

LEMMA NextPromise ==
    ASSUME PInv, SaleInv, [Next]_vars
    PROVE  SaleInv' /\ [Promise!Next]_mapped
<1>1. ASSUME NEW t \in Tasks, Arrival(t)
      PROVE  SaleInv' /\ [Promise!Next]_mapped
  <2>1. CASE call_unpaid(t)
    BY <2>1, FinishPromise DEF call_unpaid, LocalStep
  <2> QED
    BY <1>1, <2>1, CallPromise, HandlerPromise DEF Arrival
<1>2. ASSUME NEW t \in Tasks, Step(t)
      PROVE  SaleInv' /\ [Promise!Next]_mapped
  <2>1. CASE get_new_addr_failed(t) \/ send_tx_failed(t) \/ disconnect(t)
    BY <2>1, FinishPromise DEF get_new_addr_failed, send_tx_failed, disconnect, LocalStep
  <2> QED
    BY <1>2, <2>1, NewAddrPromise, LookPromise, FlushPromise, AcceptPromise, AckPromise
    DEF Step, Check
<1>3. CASE UNCHANGED vars
  <2>1. UNCHANGED <<wallet, pc, payment, at, handed, invoices, admissions, acks, passes>>
    BY <1>3 DEF vars, server, node, history
  <2>2. Sending' = Sending /\ (\A u \in Tasks : Output(u)' = Output(u)) /\ Settled' = Settled
    BY <2>1 DEF Sending, Output, Settled
  <2>3. \A u \in Sending : u \in Tasks
    BY DEF Sending
  <2>4. Pending' = Pending
    BY <2>2, <2>3 DEF Pending
  <2>5. SaleInv'
    BY <2>1, <2>2, <2>3 DEF SaleInv
  <2> QED
    BY <2>1, <2>2, <2>4, <2>5 DEF mapped
<1> QED
  BY <1>1, <1>2, <1>3, CrashPromise DEF Next

\* Whatever the interleaving of the workers, the answers of the node, the clients
\* that hang up and the restarts, the payment gate does what PaidGate says: every
\* bill is settled at most once at a worker, every credit comes from a settlement,
\* and updates pass only on credit.
THEOREM GatePromise == Spec => PromiseSpec
  BY InitPromise, NextPromise, PInvHolds, PTL DEF Spec, PromiseSpec, Promise!Spec, mapped
=============================================================================
