------------------------------- MODULE Script -------------------------------
(***************************************************************************)
(* The output scripts of an invoice and how they are read back from the    *)
(* chain (bitcoin/mod.rs), on sequences of bytes.  Indices are one more    *)
(* than in the code.                                                       *)
(***************************************************************************)
EXTENDS Integers, Sequences

CONSTANTS
    Utf8(_),       \* the bytes are valid UTF-8
    None           \* Option::None

Byte == 0 .. 255

\* What an announcement says: where to ask, and for which address.
Details == [url : Seq(Byte), body : Seq(Byte)]

ASSUME NoneIsNoBytes == None \notin Seq(Byte) \cup Details

PRICE == 5

\* b"keyserver"
KEYSERVER_PREFIX == <<107, 101, 121, 115, 101, 114, 118, 101, 114>>

\* The slip of counting the prefix only.
op_return_len_short(base_url) == (9 + Len(base_url)) % 256

\* 9 + 20 + base_url.len() as u8, in the u8 arithmetic of the release build.
op_return_len(base_url) == (9 + 20 + (Len(base_url) % 256)) % 256

p2pkh_script(pk_hash) == <<118, 169, 20>> \o pk_hash \o <<136, 172>>

op_return_script(base_url, put_pk_hash) ==
    <<106, op_return_len(base_url)>> \o KEYSERVER_PREFIX \o put_pk_hash \o base_url

generate_outputs(pk_hash, base_url, put_pk_hash) ==
    <<[amount |-> PRICE, script |-> p2pkh_script(pk_hash)],
      [amount |-> 0, script |-> op_return_script(base_url, put_pk_hash)]>>

\* The URL and the address body that a script announces to the server whose own
\* URL is own_url, or None.
extract_op_return(script, own_url) ==
    LET url == SubSeq(script, 32, Len(script)) IN
    IF /\ Len(script) > 2 + 9 + 20
       /\ script[1] = 106
       /\ script[2] = Len(script) - 2
       /\ SubSeq(script, 3, 11) = KEYSERVER_PREFIX
       /\ Utf8(url)
       /\ url # own_url
    THEN [url |-> url, body |-> SubSeq(script, 12, 31)]
    ELSE None

\* The slip of looking at the length and the first bytes only.
extract_pubkey_hash_lax(raw_script) ==
    IF Len(raw_script) >= 25 THEN SubSeq(raw_script, 4, 23) ELSE None

extract_pubkey_hash(raw_script) ==
    IF /\ Len(raw_script) = 25
       /\ SubSeq(raw_script, 1, 3) = <<118, 169, 20>>
       /\ SubSeq(raw_script, 24, 25) = <<136, 172>>
    THEN SubSeq(raw_script, 4, 23)
    ELSE None

\* extract_details: the first output of a transaction that announces something.
extract_details(outputs, own_url) ==
    LET found == {i \in DOMAIN outputs : extract_op_return(outputs[i].script, own_url) # None}
    IN  IF found = {} THEN None
        ELSE extract_op_return(
                outputs[CHOOSE i \in found : \A j \in found : i <= j].script, own_url)

\* The hashes that a transaction pays the price to, as check_outputs sees them.
PaidHashes(outputs) ==
    {extract_pubkey_hash(outputs[i].script) : i \in {j \in DOMAIN outputs : outputs[j].amount = PRICE}}
        \ {None}
=============================================================================
