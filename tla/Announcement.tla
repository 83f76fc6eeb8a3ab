---------------------------- MODULE Announcement ----------------------------
(***************************************************************************)
(* The way of an announcement: a server puts its URL and the address of an *)
(* update into the outputs of an invoice, a wallet makes a transaction of  *)
(* them, the server looks for its payment in it and another server for the *)
(* announcement.  The wallet uses the scripts as they are, or it does as   *)
(* example/peering.py: it cuts the data out of the second script and has   *)
(* the node push it again.                                                 *)
(***************************************************************************)
EXTENDS Script

CONSTANTS
    Urls,          \* base URLs of servers
    OwnUrl,        \* URL of the server that reads the announcement
    Invoiced,      \* hash of the address on the invoice
    PutBodies,     \* address bodies that updates are for, 20 bytes each
    Others         \* other outputs a transaction may have in front

\* An output that has nothing to do with the invoice: it pays the price to no address
\* and announces no update of another server.
Neutral(output) ==
    LET script == output.script IN
    /\ output.amount = PRICE => Len(script) # 25 \/ SubSeq(script, 1, 3) # <<118, 169, 20>>
    /\ SubSeq(script, 3, 11) = KEYSERVER_PREFIX => SubSeq(script, 32, Len(script)) = OwnUrl

ASSUME AnnouncementAssumption ==
    /\ Urls \subseteq Seq(Byte)
    /\ \A b \in PutBodies \cup {Invoiced} : b \in Seq(Byte) /\ Len(b) = 20
    /\ Others \subseteq Seq([amount : Nat, script : Seq(Byte)])
    /\ \A front \in Others : \A i \in DOMAIN front : Neutral(front[i])

VARIABLES
    stage,         \* "new", "invoiced", "paid", "read"
    update,        \* the URL and the address body of the update
    outputs,       \* of the invoice, then of the transaction
    rebuilt,       \* the wallet has pushed the data again
    found,         \* what the other server has read
    credited       \* the hashes the server found paid

vars == <<stage, update, outputs, rebuilt, found, credited>>

\* What the node writes in front of n bytes of data that it pushes.
push_head(n) ==
    IF n <= 75 THEN <<n>>
    ELSE IF n < 256 THEN <<76, n>>
    ELSE IF n < 256 * 256 THEN <<77, n % 256, n \div 256>>
    ELSE <<78, n % 256, (n \div 256) % 256, (n \div (256 * 256)) % 256,
           n \div (256 * 256 * 256)>>

push(data) == push_head(Len(data)) \o data

\* The script that the node makes of "data".
rebuild(script) == <<106>> \o push(SubSeq(script, 3, Len(script)))

Init ==
    /\ stage = "new"
    /\ update = None
    /\ outputs = <<>>
    /\ rebuilt = FALSE
    /\ found = None
    /\ credited = {}

\* CheckPayment answers a PUT with an invoice.
invoice(url, body) ==
    /\ stage = "new"
    /\ stage' = "invoiced"
    /\ update' = [url |-> url, body |-> body]
    /\ outputs' = generate_outputs(Invoiced, url, body)
    /\ UNCHANGED <<rebuilt, found, credited>>

\* The wallet keeps to the invoice to the byte.
pay_verbatim(front) ==
    /\ stage = "invoiced"
    /\ stage' = "paid"
    /\ outputs' = front \o outputs
    /\ UNCHANGED <<update, rebuilt, found, credited>>

pay_rebuilt(front) ==
    /\ stage = "invoiced"
    /\ stage' = "paid"
    /\ outputs' = front \o [outputs EXCEPT ![2].script = rebuild(@)]
    /\ rebuilt' = TRUE
    /\ UNCHANGED <<update, found, credited>>

\* The transaction is posted to one server and seen on the chain by the other.
read ==
    /\ stage = "paid"
    /\ stage' = "read"
    /\ found' = extract_details(outputs, OwnUrl)
    /\ credited' = PaidHashes(outputs)
    /\ UNCHANGED <<update, outputs, rebuilt>>

\* The next update.
again == stage = "read" /\ stage' = "new" /\ update' = None /\ outputs' = <<>>
         /\ rebuilt' = FALSE /\ found' = None /\ credited' = {}

Next ==
    \/ \E url \in Urls, body \in PutBodies : invoice(url, body)
    \/ \E front \in Others : pay_verbatim(front) \/ pay_rebuilt(front)
    \/ read
    \/ again

Spec == Init /\ [][Next]_vars

-----------------------------------------------------------------------------
\* What generate_outputs announces, extract_op_return reads as it was meant or not
\* at all, and it reads it exactly if the URL is valid, another server's, and of
\* a length that fits the length byte: up to 226 bytes, or 46 if the node has
\* pushed the data again.  A length that wraps never makes it read something else.
AnnouncedExactly ==
    stage = "read" =>
        IF /\ Len(update.url) \in 1 .. (IF rebuilt THEN 46 ELSE 226)
           /\ Utf8(update.url)
           /\ update.url # OwnUrl
        THEN found = update
        ELSE found = None

\* The server finds its invoice paid, and takes no other output, least of all
\* the announcement, for a payment of it.
CreditedExactly == stage = "read" => credited = {Invoiced}
=============================================================================
