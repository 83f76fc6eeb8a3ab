----------------------------- MODULE MCPayments -----------------------------
(***************************************************************************)
(* Small instances of Payments: two addresses, two URLs of which one does  *)
(* not end in an address, and transactions that pay too little, that pay   *)
(* one address, and that pay two after an output of another kind.          *)
(***************************************************************************)
EXTENDS Payments, TLC

CONSTANTS t1, t2, t3, w1, w2, a1, a2, u1, u2

OneWorker == t1 :> w1
TwoWorkers == t1 :> w1 @@ t2 :> w2
SharedWorker == t1 :> w1 @@ t2 :> w1 @@ t3 :> w2

\* Nothing but their worker tells tasks apart.
SameWorker == Permutations({t1, t2})

Out(value, addr) == [value |-> value, addr |-> addr]

PayOne == {<<Out(PRICE, a1)>>}

PayMany ==
    {<<Out(PRICE - 1, a1)>>,
     <<Out(PRICE, a1)>>,
     <<Out(0, None), Out(PRICE, a1), Out(PRICE, a2)>>}

Upload(tx, url) ==
    [content_type |-> TRUE, accept |-> TRUE, raw |-> [tx |-> tx, merchant_data |-> url]]

\* A payment that passes each check, and one that fails it.
Posted(txs) ==
    LET good == Upload(<<Out(PRICE, a1)>>, u1) IN
    {Upload(tx, u1) : tx \in txs \cup {None, Garbage}} \cup
    {[good EXCEPT !.raw.merchant_data = None],
     [good EXCEPT !.raw.merchant_data = Garbage],
     [good EXCEPT !.raw = None],
     [good EXCEPT !.raw = Garbage],
     [good EXCEPT !.content_type = FALSE],
     [good EXCEPT !.accept = FALSE]}

PostOne == Posted(PayOne)
PostMany == Posted(PayMany)
=============================================================================
