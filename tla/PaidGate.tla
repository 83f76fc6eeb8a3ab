------------------------------ MODULE PaidGate ------------------------------
(***************************************************************************)
(* What the payment gate promises: a bill can be settled once at each      *)
(* worker, a settlement yields at most one credit, and updates pass only   *)
(* for URLs that have credit.  There are no transactions, tokens, requests *)
(* or checks here, and a settlement is one step.                           *)
(***************************************************************************)
EXTENDS Integers

CONSTANTS Workers, Addrs, Urls

VARIABLES
    billed,     \* addresses that were ever put on an invoice
    open,       \* those that nobody has settled since the last start
    settled,    \* per address the workers that have settled it
    pending,    \* settlements that have not yet brought credit
    credit,     \* URLs with credit
    passed      \* updates let through, per URL

Init ==
    /\ billed = {} /\ open = {} /\ pending = {} /\ credit = {}
    /\ settled = [a \in Addrs |-> {}]
    /\ passed = [u \in Urls |-> 0]

Bill(a) ==
    /\ a \notin billed
    /\ billed' = billed \cup {a}
    /\ open' = open \cup {a}
    /\ UNCHANGED <<settled, pending, credit, passed>>

\* A worker may settle a bill that another one is settling, but no bill of an
\* earlier start that nobody has settled.
Settle(a, w) ==
    /\ a \in open \/ settled[a] # {}
    /\ w \notin settled[a]
    /\ open' = open \ {a}
    /\ settled' = [settled EXCEPT ![a] = @ \cup {w}]
    /\ pending' = pending \cup {<<a, w>>}
    /\ UNCHANGED <<billed, credit, passed>>

\* Whoever settles a bill has its credit for one URL, or loses it.
Collect(a, w, credited) ==
    /\ <<a, w>> \in pending
    /\ pending' = pending \ {<<a, w>>}
    /\ credit' = credit \cup credited
    /\ UNCHANGED <<billed, open, settled, passed>>

Pass(u) ==
    /\ u \in credit
    /\ passed' = [passed EXCEPT ![u] = @ + 1]
    /\ UNCHANGED <<billed, open, settled, pending, credit>>

Restart ==
    /\ open' = {} /\ pending' = {}
    /\ UNCHANGED <<billed, settled, credit, passed>>

Next ==
    \/ \E a \in Addrs : Bill(a)
    \/ \E a \in Addrs, w \in Workers : Settle(a, w)
    \/ \E a \in Addrs, w \in Workers : Collect(a, w, {}) \/ \E u \in Urls : Collect(a, w, {u})
    \/ \E u \in Urls : Pass(u)
    \/ Restart

Spec == Init /\ [][Next]_<<billed, open, settled, pending, credit, passed>>
=============================================================================
