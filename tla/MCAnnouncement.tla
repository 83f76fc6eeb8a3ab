--------------------------- MODULE MCAnnouncement ---------------------------
(***************************************************************************)
(* URLs of every length up to one that wraps the length byte.              *)
(***************************************************************************)
EXTENDS Announcement

Repeat(b, n) == [i \in 1 .. n |-> b]

\* Bytes above 127 stand for bytes that are not UTF-8.
MCUtf8(s) == \A i \in DOMAIN s : s[i] < 128

MCOwnUrl == Repeat(98, 21)

\* Lengths on both sides of every boundary: the short push, the length byte.
MCUrls == {Repeat(97, n) : n \in 0 .. 290} \cup {MCOwnUrl, Repeat(200, 21)}

MCInvoiced == Repeat(3, 20)
MCPutBodies == {Repeat(7, 20), Repeat(200, 20)}

\* Nothing, a change output, a memo of another protocol, an announcement of the
\* reading server itself.
MCOthers ==
    {<<>>,
     <<[amount |-> 9, script |-> p2pkh_script(Repeat(8, 20))]>>,
     <<[amount |-> PRICE, script |-> <<106, 22>> \o Repeat(109, 23)]>>,
     <<[amount |-> 0, script |-> op_return_script(MCOwnUrl, Repeat(9, 20))]>>}
=============================================================================
