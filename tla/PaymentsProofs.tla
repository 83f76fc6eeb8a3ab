--------------------------- MODULE PaymentsProofs ---------------------------
(***************************************************************************)
(* Proofs about Payments, for any number of workers and requests in        *)
(* flight, any addresses, URLs and transactions, any number of restarts.   *)
(***************************************************************************)
EXTENDS Payments, TLAPS

\* The payment gate starts empty.
LEMMA InitPInv == Init => PInv
  BY PaymentsAssumption DEF Init, PInv, TypeOK, LedgerInv, TaskInv, TokensArePaid, GateIsPaid,
     OncePerWorker, InvoiceHonoured, NoPayment

\* What a step of task t leaves alone when it only moves t itself.
LocalStep == UNCHANGED <<wallet, node, history>>

\* The conjuncts of the invariant that do not mention tasks survive a local step.
LEMMA LocalPreserves ==
    ASSUME PInv, LocalStep
    PROVE  /\ LedgerInv' /\ TokensArePaid' /\ GateIsPaid' /\ OncePerWorker' /\ InvoiceHonoured'
           /\ UNCHANGED <<wallet, handed, chain, invoices, admissions, acks, passes, crashes>>
  BY DEF PInv, LocalStep, node, history, LedgerInv, TokensArePaid, Pays, GateIsPaid,
         OncePerWorker, InvoiceHonoured

\* A task that ends frees its worker and keeps nothing.
LEMMA FinishTasks ==
    ASSUME PInv, NEW t \in Tasks, Finish(t), UNCHANGED admissions,
           handed \subseteq handed', chain \subseteq chain'
    PROVE  /\ TaskInv'
           /\ pc' \in [Tasks -> {"idle", "addr", "scan", "flush", "send", "sent"}]
           /\ payment' \in [Tasks -> [tx : Txs \cup {<<>>},
                                      merchant_data : Urls \cup {None, Garbage}]]
           /\ at' \in [Tasks -> Nat \ {0}]
<1>1. ASSUME NEW u \in Tasks, u # t
      PROVE  pc'[u] = pc[u] /\ payment'[u] = payment[u] /\ at'[u] = at[u]
  BY <1>1 DEF Finish, PInv, TypeOK
<1>2. pc'[t] = "idle"
  BY DEF Finish, PInv, TypeOK
<1>3. TaskInv'
  BY <1>1, <1>2 DEF PInv, TaskInv, Matched, Output, HasThread
<1> QED
  BY <1>3 DEF Finish, NoPayment, PInv, TypeOK

\* Ending with no other effect preserves the invariant.
LEMMA FinishPreserves ==
    ASSUME PInv, NEW t \in Tasks, Finish(t), LocalStep
    PROVE  PInv'
  BY LocalPreserves, FinishTasks DEF PInv, TypeOK

\* So does moving on to a step that needs no more than is known.
LEMMA GotoPreserves ==
    ASSUME PInv, NEW t \in Tasks, NEW label \in {"addr", "scan", "flush", "send", "sent"},
           LocalStep,
           pc' = [pc EXCEPT ![t] = label],
           payment' \in [Tasks -> [tx : Txs \cup {<<>>},
                                   merchant_data : Urls \cup {None, Garbage}]],
           at' \in [Tasks -> Nat \ {0}],
           \A u \in Tasks \ {t} : payment'[u] = payment[u] /\ at'[u] = at[u],
           label \in {"scan", "flush"} => HasThread(t),
           label = "scan" => payment'[t].tx \in Txs,
           label \in {"flush", "send", "sent"} => Matched(t)',
           label = "flush" => admissions[Output(t)'.addr][WorkerOf[t]] = 0,
           label = "sent" => payment'[t].tx \in chain
    PROVE  PInv'
<1>1. pc'[t] = label /\ \A u \in Tasks \ {t} : pc'[u] = pc[u]
  BY DEF PInv, TypeOK
<1>2. TypeOK'
  BY LocalPreserves DEF PInv, TypeOK
<1>3. ASSUME NEW u \in Tasks
      PROVE  /\ pc'[u] = "scan" => payment'[u].tx \in Txs
             /\ pc'[u] \in {"flush", "send", "sent"} => Matched(u)'
             /\ pc'[u] = "flush" => admissions'[Output(u)'.addr][WorkerOf[u]] = 0
             /\ pc'[u] = "sent" => payment'[u].tx \in chain'
  <2>1. CASE u = t
    BY <1>1, <2>1, LocalPreserves
  <2>2. CASE u # t
    BY <1>1, <2>2, LocalPreserves DEF PInv, TaskInv, Matched, Output
  <2> QED
    BY <2>1, <2>2
<1>4. ASSUME NEW u \in Tasks, pc'[u] \in {"scan", "flush"}
      PROVE  HasThread(u)'
  <2>1. CASE u = t
    BY <1>1, <1>4, <2>1 DEF HasThread
  <2>2. CASE u # t
    BY <1>1, <1>4, <2>2 DEF HasThread, PInv, TaskInv
  <2> QED
    BY <2>1, <2>2
<1>5. TaskInv'
  BY <1>3, <1>4 DEF TaskInv
<1> QED
  BY <1>2, <1>5, LocalPreserves DEF PInv

-----------------------------------------------------------------------------
(* The actions.                                                            *)

\* The middleware: refusing, asking for an address, or letting an update through
\* with a token that only an acknowledged payment can have brought.
LEMMA CallPreserves ==
    ASSUME PInv, NEW t \in Tasks, NEW url \in Urls, NEW auth, call(t, url, auth)
    PROVE  PInv'
<1>1. CASE Finish(t) /\ passes' = passes
  BY <1>1, FinishPreserves DEF call, LocalStep, node, history
<1>2. CASE Goto(t, "addr") /\ passes' = passes
  BY <1>2, GotoPreserves DEF call, LocalStep, node, history, Goto, PInv, TypeOK
<1>3. CASE /\ Finish(t) /\ auth \in Tokens /\ validate_token(url, "server", auth)
           /\ passes' = [passes EXCEPT ![url] = @ + 1]
  <2>1. UNCHANGED <<wallet, handed, chain, invoices, admissions, acks, crashes>>
    BY DEF call, node
  <2>2. \E k \in acks : k.url = url /\ k.tx \in chain
    BY <1>3 DEF Tokens, validate_token, generate_token, PInv, TokensArePaid
  <2>3. passes' \in [Urls -> Nat] /\ \A u \in Urls \ {url} : passes'[u] = passes[u]
    BY <1>3 DEF PInv, TypeOK
  <2>4. GateIsPaid'
    BY <2>1, <2>2, <2>3 DEF PInv, GateIsPaid
  <2>5. TypeOK' /\ TaskInv'
    BY <1>3, <2>1, <2>3, FinishTasks DEF PInv, TypeOK
  <2>6. LedgerInv' /\ TokensArePaid' /\ OncePerWorker' /\ InvoiceHonoured'
    BY <2>1 DEF PInv, LedgerInv, TokensArePaid, Pays, OncePerWorker, InvoiceHonoured
  <2> QED
    BY <2>4, <2>5, <2>6 DEF PInv
<1> QED
  BY <1>1, <1>2, <1>3 DEF call

\* A fresh address enters the wallet together with its invoice.
LEMMA NewAddrPreserves ==
    ASSUME PInv, NEW t \in Tasks, NEW addr \in Addrs, get_new_addr(t, addr)
    PROVE  PInv'
<1>1. /\ addr \notin handed
      /\ handed' = handed \cup {addr}
      /\ wallet' = wallet \cup {addr}
      /\ invoices' = invoices \cup {addr}
      /\ Finish(t)
      /\ UNCHANGED <<chain, admissions, acks, passes, crashes>>
  BY DEF get_new_addr
<1>2. TypeOK' /\ TaskInv'
  BY <1>1, FinishTasks DEF PInv, TypeOK
<1>3. \A w \in Workers : admissions[addr][w] = 0
  BY <1>1 DEF PInv, LedgerInv, TypeOK
<1>4. LedgerInv'
  BY <1>1, <1>3 DEF PInv, LedgerInv
<1>5. TokensArePaid' /\ GateIsPaid' /\ OncePerWorker'
  BY <1>1 DEF PInv, TokensArePaid, Pays, GateIsPaid, OncePerWorker
<1>6. InvoiceHonoured'
  BY <1>1, <1>3 DEF PInv, InvoiceHonoured, LedgerInv
<1> QED
  BY <1>2, <1>4, <1>5, <1>6 DEF PInv

\* payment_handler up to the check of the outputs.
LEMMA HandlerPreserves ==
    ASSUME PInv, NEW t \in Tasks, NEW post \in Posts, payment_handler(t, post)
    PROVE  PInv'
<1>1. CASE PaymentCheck(post) # "Ok"
  BY <1>1, FinishPreserves DEF payment_handler, LocalStep
<1>2. CASE PaymentCheck(post) = "Ok"
  <2>1. post.raw \in [tx : Txs, merchant_data : Urls \cup {None, Garbage}]
    BY <1>2, PaymentsAssumption DEF PaymentCheck, Payment
  <2>2. /\ pc' = [pc EXCEPT ![t] = "scan"]
        /\ payment' = [payment EXCEPT ![t] = post.raw]
        /\ at' = [at EXCEPT ![t] = 1]
        /\ HasThread(t) /\ LocalStep
    BY <1>2 DEF payment_handler, Idle, LocalStep
  <2>3. /\ payment' \in [Tasks -> [tx : Txs \cup {<<>>},
                                   merchant_data : Urls \cup {None, Garbage}]]
        /\ at' \in [Tasks -> Nat \ {0}]
        /\ payment'[t].tx \in Txs
        /\ \A u \in Tasks \ {t} : payment'[u] = payment[u] /\ at'[u] = at[u]
    BY <2>1, <2>2 DEF PInv, TypeOK
  <2> QED
    BY <2>2, <2>3, GotoPreserves
<1> QED
  BY <1>1, <1>2

\* The look into the wallet: an address found there has not been paid before.
LEMMA LookPreserves ==
    ASSUME PInv, NEW t \in Tasks, check_p2pkh(t)
    PROVE  PInv'
<1>1. pc[t] = "scan" /\ payment[t].tx \in Txs /\ HasThread(t) /\ LocalStep
  BY DEF check_p2pkh, PInv, TaskInv, LocalStep
<1>2. CASE Finish(t)
  BY <1>1, <1>2, FinishPreserves
<1>3. CASE /\ at[t] <= Len(payment[t].tx) /\ Output(t).value = PRICE
           /\ Output(t).addr \in wallet /\ Goto(t, "flush")
  <2>1. pc' = [pc EXCEPT ![t] = "flush"] /\ payment' = payment /\ at' = at
    BY <1>3 DEF Goto
  <2>2. at[t] \in DOMAIN payment[t].tx
    <3>1. payment[t].tx \in Seq(Outputs)
      BY <1>1, PaymentsAssumption
    <3> QED
      BY <1>3, <3>1 DEF PInv, TypeOK
  <2>3. Matched(t)'
    BY <1>1, <1>3, <2>1, <2>2, LocalPreserves DEF Matched, Output, PInv, LedgerInv
  <2>4. admissions[Output(t)'.addr][WorkerOf[t]] = 0
    <3>1. WorkerOf[t] \in Workers /\ Output(t)' = Output(t) /\ Output(t).addr \in Addrs
      BY <1>3, <2>1, PaymentsAssumption DEF Output, PInv, TypeOK
    <3> QED
      BY <1>3, <3>1 DEF PInv, LedgerInv, TypeOK
  <2> QED
    BY <1>1, <2>1, <2>3, <2>4, GotoPreserves DEF PInv, TypeOK
<1>4. CASE at' = [at EXCEPT ![t] = @ + 1] /\ UNCHANGED <<pc, payment>>
  <2>1. /\ pc' = [pc EXCEPT ![t] = "scan"]
        /\ at' \in [Tasks -> Nat \ {0}]
        /\ \A u \in Tasks \ {t} : at'[u] = at[u]
    BY <1>1, <1>4 DEF PInv, TypeOK
  <2> QED
    BY <1>1, <1>4, <2>1, GotoPreserves DEF PInv, TypeOK
<1> QED
  <2>1. Len(payment[t].tx) \in Nat /\ at[t] \in Nat
    BY <1>1, PaymentsAssumption DEF PInv, TypeOK
  <2> QED
    BY <1>2, <1>3, <1>4, <2>1 DEF check_p2pkh

\* The flush: this worker has not admitted a payment to the address before.
LEMMA FlushPreserves ==
    ASSUME PInv, NEW t \in Tasks, flush(t)
    PROVE  PInv'
<1> DEFINE a == Output(t).addr
           v == WorkerOf[t]
<1>1. /\ pc[t] = "flush" /\ Matched(t) /\ HasThread(t)
      /\ a \in handed /\ a \in Addrs /\ v \in Workers /\ admissions[a][v] = 0
  BY PaymentsAssumption DEF flush, PInv, TaskInv, TypeOK, Matched
<1>2. /\ wallet' = wallet \ {a}
      /\ admissions' = [admissions EXCEPT ![a][v] = @ + 1]
      /\ pc' = [pc EXCEPT ![t] = "send"]
      /\ UNCHANGED <<payment, at, handed, chain, invoices, acks, passes, crashes>>
  BY DEF flush, Goto, node
<1> HIDE DEF a, v
<1>3. /\ admissions' \in [Addrs -> [Workers -> Nat]]
      /\ admissions'[a][v] = 1
      /\ \A b \in Addrs, w \in Workers :
            b # a \/ w # v => admissions'[b][w] = admissions[b][w]
  BY <1>1, <1>2 DEF PInv, TypeOK
<1>4. TypeOK'
  BY <1>2, <1>3 DEF PInv, TypeOK
<1>5. LedgerInv'
  BY <1>1, <1>2, <1>3 DEF PInv, LedgerInv
<1>6. TokensArePaid' /\ GateIsPaid'
  BY <1>2 DEF PInv, TokensArePaid, Pays, GateIsPaid
<1>7. OncePerWorker'
  BY <1>1, <1>3 DEF PInv, OncePerWorker
<1>8. InvoiceHonoured'
  BY <1>1, <1>2, <1>3 DEF PInv, InvoiceHonoured, TypeOK
<1>9. ASSUME NEW u \in Tasks
      PROVE  /\ pc'[u] = "scan" => payment'[u].tx \in Txs
             /\ pc'[u] \in {"flush", "send", "sent"} => Matched(u)'
             /\ pc'[u] = "flush" => admissions'[Output(u)'.addr][WorkerOf[u]] = 0
             /\ pc'[u] = "sent" => payment'[u].tx \in chain'
             /\ pc'[u] \in {"scan", "flush"} => HasThread(u)'
  <2>1. CASE u = t
    BY <1>1, <1>2, <2>1 DEF Matched, Output, PInv, TypeOK
  <2>2. CASE u # t
    <3>1. pc'[u] = pc[u] /\ payment'[u] = payment[u] /\ at'[u] = at[u]
      BY <1>2, <2>2 DEF PInv, TypeOK
    <3>2. pc[u] \in {"flush", "send", "sent"} => Matched(u) /\ Matched(u)'
      BY <1>2, <3>1 DEF PInv, TaskInv, Matched, Output
    <3>3. pc[u] = "flush" =>
             /\ Output(u)'.addr = Output(u).addr
             /\ Output(u).addr \in Addrs /\ WorkerOf[u] \in Workers /\ WorkerOf[u] # v
             /\ admissions[Output(u).addr][WorkerOf[u]] = 0
      BY <1>1, <1>2, <2>2, <3>2, PaymentsAssumption
      DEF PInv, TypeOK, TaskInv, HasThread, Matched, Output, v
    <3>4. pc[u] \in {"scan", "flush"} => HasThread(u)'
      BY <1>2 DEF PInv, TypeOK, TaskInv, HasThread
    <3> QED
      BY <1>2, <1>3, <3>1, <3>2, <3>3, <3>4 DEF PInv, TaskInv
  <2> QED
    BY <2>1, <2>2
<1>10. TaskInv'
  BY <1>9 DEF TaskInv
<1> QED
  BY <1>4, <1>5, <1>6, <1>7, <1>8, <1>10 DEF PInv

\* The node takes the transaction.
LEMMA AcceptPreserves ==
    ASSUME PInv, NEW t \in Tasks, node_accept(t)
    PROVE  PInv'
<1>1. /\ pc[t] = "send" /\ Matched(t)
      /\ chain' = chain \cup {payment[t].tx} /\ payment[t].tx \in Txs
      /\ pc' = [pc EXCEPT ![t] = "sent"]
      /\ UNCHANGED <<wallet, payment, at, handed, invoices, admissions, acks, passes, crashes>>
  BY DEF node_accept, Goto, history, PInv, TaskInv, Matched
<1>2. TypeOK'
  BY <1>1 DEF PInv, TypeOK
<1>3. LedgerInv' /\ OncePerWorker' /\ InvoiceHonoured'
  BY <1>1 DEF PInv, LedgerInv, OncePerWorker, InvoiceHonoured
<1>4. TokensArePaid' /\ GateIsPaid'
  BY <1>1 DEF PInv, TokensArePaid, Pays, GateIsPaid
<1>5. TaskInv'
  BY <1>1 DEF PInv, TypeOK, TaskInv, Matched, Output, HasThread
<1> QED
  BY <1>2, <1>3, <1>4, <1>5 DEF PInv

\* The acknowledgement: the transaction is in the chain and pays for the token.
LEMMA AckPreserves ==
    ASSUME PInv, NEW t \in Tasks, send_tx(t)
    PROVE  PInv'
<1> DEFINE k == [url |-> payment[t].merchant_data, tx |-> payment[t].tx,
                 addr |-> Output(t).addr]
<1>1. CASE payment[t].merchant_data \notin Urls
  BY <1>1, FinishPreserves DEF send_tx, LocalStep, node, history
<1>2. CASE payment[t].merchant_data \in Urls
  <2>1. /\ pc[t] = "sent" /\ Matched(t) /\ payment[t].tx \in chain
        /\ acks' = acks \cup {k} /\ Finish(t)
        /\ UNCHANGED <<wallet, handed, chain, invoices, admissions, passes, crashes>>
    BY <1>2 DEF send_tx, node, PInv, TaskInv
  <2>2. k \in [url : Urls, tx : Txs, addr : Addrs] /\ k.addr \in handed /\ k.tx \in chain
    BY <1>2, <2>1 DEF Matched, PInv, TypeOK
  <2>3. Pays(k.tx, k.addr)
    <3>1. payment[t].tx[at[t]] \in Outputs
      BY <2>1, PaymentsAssumption DEF Matched
    <3> QED
      BY <2>1, <3>1 DEF Pays, Matched, Output, Outputs
  <2> HIDE DEF k
  <2>4. TypeOK' /\ TaskInv'
    BY <2>1, <2>2, FinishTasks DEF PInv, TypeOK
  <2>5. TokensArePaid' /\ GateIsPaid'
    BY <2>1, <2>2, <2>3 DEF PInv, TokensArePaid, Pays, GateIsPaid
  <2>6. LedgerInv' /\ OncePerWorker' /\ InvoiceHonoured'
    BY <2>1 DEF PInv, LedgerInv, OncePerWorker, InvoiceHonoured
  <2> QED
    BY <2>4, <2>5, <2>6 DEF PInv
<1> QED
  BY <1>1, <1>2

\* A restart loses the wallet and every task; what was paid stays paid.
LEMMA CrashPreserves ==
    ASSUME PInv, crash
    PROVE  PInv'
<1> USE DEF PInv, crash, node
<1>1. TypeOK'
  BY DEF TypeOK, NoPayment
<1>2. LedgerInv' /\ InvoiceHonoured' /\ OncePerWorker'
  BY DEF LedgerInv, InvoiceHonoured, OncePerWorker
<1>3. TaskInv'
  BY DEF TaskInv
<1>4. TokensArePaid' /\ GateIsPaid'
  BY DEF TokensArePaid, Pays, GateIsPaid
<1> QED
  BY <1>1, <1>2, <1>3, <1>4

\* PInv is inductive.
LEMMA NextPInv ==
    ASSUME PInv, [Next]_vars
    PROVE  PInv'
<1>1. ASSUME NEW t \in Tasks, Arrival(t)
      PROVE  PInv'
  <2>1. CASE call_unpaid(t)
    BY <2>1, FinishPreserves DEF call_unpaid, LocalStep
  <2> QED
    BY <1>1, <2>1, CallPreserves, HandlerPreserves DEF Arrival
<1>2. ASSUME NEW t \in Tasks, Step(t)
      PROVE  PInv'
  <2>1. CASE get_new_addr_failed(t) \/ send_tx_failed(t) \/ disconnect(t)
    BY <2>1, FinishPreserves DEF get_new_addr_failed, send_tx_failed, disconnect, LocalStep
  <2> QED
    BY <1>2, <2>1, NewAddrPreserves, LookPreserves, FlushPreserves, AcceptPreserves,
       AckPreserves DEF Step, Check
<1>3. CASE UNCHANGED vars
  BY <1>3 DEF vars, server, node, history, PInv, TypeOK, LedgerInv, TaskInv, Matched, Output,
     HasThread, TokensArePaid, Pays, GateIsPaid, OncePerWorker, InvoiceHonoured
<1> QED
  BY <1>1, <1>2, <1>3, CrashPreserves DEF Next

-----------------------------------------------------------------------------
(* The theorems.                                                           *)

\* The inductive invariant holds in every reachable state.
THEOREM PInvHolds == Spec => []PInv
  BY InitPInv, NextPInv, PTL DEF Spec

\* The variables of the payment gate keep their types.
THEOREM PaymentTypes == Spec => []TypeOK
<1>1. PInv => TypeOK
  BY DEF PInv
<1> QED
  BY <1>1, PInvHolds, PTL

\* Every token stands for an accepted transaction that pays the price to an
\* address of the server's node.
THEOREM TokensPaid == Spec => []TokensArePaid
<1>1. PInv => TokensArePaid
  BY DEF PInv
<1> QED
  BY <1>1, PInvHolds, PTL

\* No update passes the gate for a URL that nobody has paid for.
THEOREM GatePaid == Spec => []GateIsPaid
<1>1. PInv => GateIsPaid
  BY DEF PInv
<1> QED
  BY <1>1, PInvHolds, PTL

\* No worker admits two payments to one address, although the look into the
\* wallet and the removal are separate critical sections.
THEOREM AdmittedOnce == Spec => []OncePerWorker
<1>1. PInv => OncePerWorker
  BY DEF PInv
<1> QED
  BY <1>1, PInvHolds, PTL

\* Until the process restarts, an invoice can be paid if and only if no payment
\* to its address has been admitted.
THEOREM InvoicesHonoured == Spec => []InvoiceHonoured
<1>1. PInv => InvoiceHonoured
  BY DEF PInv
<1> QED
  BY <1>1, PInvHolds, PTL
=============================================================================
