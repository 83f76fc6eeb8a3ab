---------------------------- MODULE ScriptProofs ----------------------------
(***************************************************************************)
(* What generate_outputs writes is read back as it was meant, for all      *)
(* hashes and all URLs.  Lengths stay symbolic where sequences are         *)
(* reasoned about; the numbers of the code are put in last.                *)
(***************************************************************************)
EXTENDS Script, SequenceTheorems, TLAPS

\* Where the parts of a concatenation are.
LEMMA Concatenation ==
    ASSUME NEW a \in Seq(Byte), NEW c \in Seq(Byte)
    PROVE  /\ a \o c \in Seq(Byte)
           /\ Len(a \o c) = Len(a) + Len(c)
           /\ \A i \in 1 .. Len(a) : (a \o c)[i] = a[i]
           /\ \A i \in 1 .. Len(c) : (a \o c)[i + Len(a)] = c[i]
  OBVIOUS

\* What a stretch of a sequence is.
LEMMA Stretch ==
    ASSUME NEW s \in Seq(Byte), NEW m \in Nat \ {0}, NEW n \in Nat, m <= n, n <= Len(s)
    PROVE  /\ SubSeq(s, m, n) \in Seq(Byte)
           /\ Len(SubSeq(s, m, n)) = n - m + 1
           /\ \A i \in 1 .. n - m + 1 : SubSeq(s, m, n)[i] = s[i + m - 1]
  OBVIOUS

\* The front and the back of a concatenation.
LEMMA FrontBack ==
    ASSUME NEW a \in Seq(Byte), NEW c \in Seq(Byte)
    PROVE  /\ SubSeq(a \o c, 1, Len(a)) = a
           /\ SubSeq(a \o c, Len(a) + 1, Len(a) + Len(c)) = c
<1> DEFINE s == a \o c
<1>1. /\ s \in Seq(Byte)
      /\ Len(s) = Len(a) + Len(c)
      /\ \A i \in 1 .. Len(a) : s[i] = a[i]
      /\ \A i \in 1 .. Len(c) : s[i + Len(a)] = c[i]
  BY Concatenation
<1> HIDE DEF s
<1>2. SubSeq(s, 1, Len(a)) = a
  <2>1. /\ SubSeq(s, 1, Len(a)) \in Seq(Byte)
        /\ Len(SubSeq(s, 1, Len(a))) = Len(a)
        /\ \A i \in 1 .. Len(a) : SubSeq(s, 1, Len(a))[i] = s[i]
    BY <1>1
  <2> QED
    BY <2>1, <1>1, SeqEqual
<1>3. SubSeq(s, Len(a) + 1, Len(a) + Len(c)) = c
  <2> DEFINE t == SubSeq(s, Len(a) + 1, Len(a) + Len(c))
  <2>1. /\ t \in Seq(Byte)
        /\ Len(t) = Len(c)
        /\ \A i \in 1 .. Len(c) : t[i] = s[i + Len(a)]
    BY <1>1
  <2> QED
    BY <2>1, <1>1, SeqEqual
<1> QED
  BY <1>2, <1>3 DEF s

\* A stretch within the front of a concatenation is a stretch of the front.
LEMMA WithinFront ==
    ASSUME NEW a \in Seq(Byte), NEW c \in Seq(Byte),
           NEW m \in Nat \ {0}, NEW n \in Nat, n <= Len(a)
    PROVE  SubSeq(a \o c, m, n) = SubSeq(a, m, n)
<1> DEFINE s == a \o c
<1>1. /\ s \in Seq(Byte)
      /\ Len(s) = Len(a) + Len(c)
      /\ \A i \in 1 .. Len(a) : s[i] = a[i]
  BY Concatenation
<1> HIDE DEF s
<1>2. CASE m > n
  <2>1. SubSeq(s, m, n) = <<>> /\ SubSeq(a, m, n) = <<>>
    BY <1>1, <1>2
  <2> QED
    BY <2>1 DEF s
<1>3. CASE m <= n
  <2>1. /\ SubSeq(s, m, n) \in Seq(Byte)
        /\ Len(SubSeq(s, m, n)) = n - m + 1
        /\ \A i \in 1 .. n - m + 1 : SubSeq(s, m, n)[i] = s[i + m - 1]
    <3>1. n <= Len(s)
      BY <1>1
    <3> QED
      BY <3>1, <1>1, <1>3, Stretch
  <2>2. /\ SubSeq(a, m, n) \in Seq(Byte)
        /\ Len(SubSeq(a, m, n)) = n - m + 1
        /\ \A i \in 1 .. n - m + 1 : SubSeq(a, m, n)[i] = a[i + m - 1]
    BY <1>3, Stretch, Zenon
  <2>3. \A i \in 1 .. n - m + 1 : s[i + m - 1] = a[i + m - 1]
    <3>1. \A i \in 1 .. n - m + 1 : i + m - 1 \in 1 .. Len(a)
      BY <1>3
    <3> QED
      BY <3>1, <1>1, Zenon
  <2>4. SubSeq(s, m, n) = SubSeq(a, m, n)
    BY <2>1, <2>2, <2>3, SeqEqual
  <2> QED
    BY <2>4 DEF s
<1> QED
  BY <1>2, <1>3

\* The sequence r consists of p, w and b.
InThree(r, p, w, b) ==
    /\ r \in Seq(Byte)
    /\ Len(r) = Len(p) + Len(w) + Len(b)
    /\ \A i \in 1 .. Len(p) : r[i] = p[i]
    /\ SubSeq(r, 1, Len(p)) = p
    /\ SubSeq(r, Len(p) + 1, Len(p) + Len(w)) = w
    /\ SubSeq(r, Len(p) + Len(w) + 1, Len(p) + Len(w) + Len(b)) = b

\* The sequence s consists of p, w, b and u.
InFour(s, p, w, b, u) ==
    /\ Len(s) = Len(p) + Len(w) + Len(b) + Len(u)
    /\ \A i \in 1 .. Len(p) : s[i] = p[i]
    /\ SubSeq(s, Len(p) + 1, Len(p) + Len(w)) = w
    /\ SubSeq(s, Len(p) + Len(w) + 1, Len(p) + Len(w) + Len(b)) = b
    /\ SubSeq(s, Len(p) + Len(w) + Len(b) + 1, Len(s)) = u

\* The script s announces body and url, with length byte b.
Announces(s, b, body, url) ==
    /\ Len(s) = 31 + Len(url)
    /\ s[1] = 106
    /\ s[2] = b
    /\ SubSeq(s, 3, 11) = KEYSERVER_PREFIX
    /\ SubSeq(s, 12, 31) = body
    /\ SubSeq(s, 32, Len(s)) = url

\* Three parts put together are found where they were put.
LEMMA ThreeParts ==
    ASSUME NEW p \in Seq(Byte), NEW w \in Seq(Byte), NEW b \in Seq(Byte)
    PROVE  InThree(p \o w \o b, p, w, b)
<1>1. PICK q : q = p \o w
  OBVIOUS
<1>2. PICK r : r = q \o b
  OBVIOUS
<1>3. /\ q \in Seq(Byte)
      /\ Len(q) = Len(p) + Len(w)
      /\ \A i \in 1 .. Len(p) : q[i] = p[i]
      /\ SubSeq(q, 1, Len(p)) = p
      /\ SubSeq(q, Len(p) + 1, Len(p) + Len(w)) = w
  BY <1>1, Concatenation, FrontBack
<1>4. /\ q \o b \in Seq(Byte)
      /\ Len(q \o b) = Len(q) + Len(b)
      /\ \A i \in 1 .. Len(q) : (q \o b)[i] = q[i]
  BY <1>3, Concatenation, Zenon
<1>5. SubSeq(q \o b, Len(q) + 1, Len(q) + Len(b)) = b
  BY <1>3, FrontBack, Zenon
<1>6. /\ r \in Seq(Byte)
      /\ Len(r) = Len(q) + Len(b)
      /\ \A i \in 1 .. Len(q) : r[i] = q[i]
      /\ SubSeq(r, Len(q) + 1, Len(q) + Len(b)) = b
  BY <1>2, <1>4, <1>5, Zenon
<1>7. \A i \in 1 .. Len(p) : r[i] = p[i]
  BY <1>3, <1>6
<1>8. /\ SubSeq(r, 1, Len(p)) = SubSeq(q, 1, Len(p))
      /\ SubSeq(r, Len(p) + 1, Len(p) + Len(w)) = SubSeq(q, Len(p) + 1, Len(p) + Len(w))
  BY <1>2, <1>3, WithinFront, SMTT(30)
<1>9. /\ r \in Seq(Byte)
      /\ Len(r) = Len(p) + Len(w) + Len(b)
      /\ SubSeq(r, 1, Len(p)) = p
      /\ SubSeq(r, Len(p) + 1, Len(p) + Len(w)) = w
      /\ SubSeq(r, Len(p) + Len(w) + 1, Len(p) + Len(w) + Len(b)) = b
  BY <1>3, <1>6, <1>8, Zenon
<1> QED
  BY <1>1, <1>2, <1>7, <1>9, Zenon DEF InThree

\* Four parts are three and one.
LEMMA FourParts ==
    ASSUME NEW p \in Seq(Byte), NEW w \in Seq(Byte), NEW b \in Seq(Byte), NEW u \in Seq(Byte)
    PROVE  InFour(p \o w \o b \o u, p, w, b, u)
<1>1. PICK r : r = p \o w \o b
  OBVIOUS
<1>2. PICK s : s = r \o u
  OBVIOUS
<1>3. /\ r \in Seq(Byte)
      /\ Len(r) = Len(p) + Len(w) + Len(b)
      /\ \A i \in 1 .. Len(p) : r[i] = p[i]
      /\ SubSeq(r, Len(p) + 1, Len(p) + Len(w)) = w
      /\ SubSeq(r, Len(p) + Len(w) + 1, Len(p) + Len(w) + Len(b)) = b
  <2>1. InThree(r, p, w, b)
    BY <1>1, ThreeParts, Zenon
  <2> QED
    BY <2>1, Zenon DEF InThree
<1>4. /\ r \o u \in Seq(Byte)
      /\ Len(r \o u) = Len(r) + Len(u)
      /\ \A i \in 1 .. Len(r) : (r \o u)[i] = r[i]
  BY <1>3, Concatenation, Zenon
<1>5. SubSeq(r \o u, Len(r) + 1, Len(r) + Len(u)) = u
  BY <1>3, FrontBack, Zenon
<1>6. /\ s \in Seq(Byte)
      /\ Len(s) = Len(r) + Len(u)
      /\ \A i \in 1 .. Len(r) : s[i] = r[i]
      /\ SubSeq(s, Len(r) + 1, Len(r) + Len(u)) = u
  BY <1>2, <1>4, <1>5, Zenon
<1>7. \A i \in 1 .. Len(p) : s[i] = p[i]
  BY <1>3, <1>6
<1>8. SubSeq(s, Len(p) + 1, Len(p) + Len(w)) = SubSeq(r, Len(p) + 1, Len(p) + Len(w))
  BY <1>2, <1>3, WithinFront
<1>9. SubSeq(s, Len(p) + Len(w) + 1, Len(p) + Len(w) + Len(b))
          = SubSeq(r, Len(p) + Len(w) + 1, Len(p) + Len(w) + Len(b))
  BY <1>2, <1>3, WithinFront
<1>10. /\ Len(s) = Len(p) + Len(w) + Len(b) + Len(u)
       /\ SubSeq(s, Len(p) + 1, Len(p) + Len(w)) = w
       /\ SubSeq(s, Len(p) + Len(w) + 1, Len(p) + Len(w) + Len(b)) = b
       /\ SubSeq(s, Len(p) + Len(w) + Len(b) + 1, Len(s)) = u
  BY <1>3, <1>6, <1>8, <1>9, Zenon
<1> QED
  BY <1>1, <1>2, <1>7, <1>10, Zenon DEF InFour

\* The same for the script of an announcement with length byte b.
LEMMA Parts ==
    ASSUME NEW b \in Byte, NEW body \in Seq(Byte), Len(body) = 20, NEW url \in Seq(Byte)
    PROVE  Announces(<<106, b>> \o KEYSERVER_PREFIX \o body \o url, b, body, url)
<1>1. PICK p : p = <<106, b>>
  OBVIOUS
<1>2. PICK w : w = KEYSERVER_PREFIX
  OBVIOUS
<1>3. PICK s : s = p \o w \o body \o url
  OBVIOUS
<1>4. p \in Seq(Byte) /\ Len(p) = 2 /\ p[1] = 106 /\ p[2] = b
  BY <1>1 DEF Byte
<1>5. w \in Seq(Byte) /\ Len(w) = 9
  BY <1>2 DEF KEYSERVER_PREFIX, Byte
<1>6. /\ Len(s) = Len(p) + Len(w) + Len(body) + Len(url)
      /\ \A i \in 1 .. Len(p) : s[i] = p[i]
      /\ SubSeq(s, Len(p) + 1, Len(p) + Len(w)) = w
      /\ SubSeq(s, Len(p) + Len(w) + 1, Len(p) + Len(w) + Len(body)) = body
      /\ SubSeq(s, Len(p) + Len(w) + Len(body) + 1, Len(s)) = url
  <2>1. InFour(s, p, w, body, url)
    BY <1>3, <1>4, <1>5, FourParts, Zenon
  <2> QED
    BY <2>1, Zenon DEF InFour
<1>7. /\ 2 + 1 = 3 /\ 2 + 9 = 11 /\ 11 + 1 = 12 /\ 11 + 20 = 31 /\ 31 + 1 = 32
      /\ 1 \in 1 .. 2 /\ 2 \in 1 .. 2
  OBVIOUS
<1>8. s[1] = 106 /\ s[2] = b
  BY <1>4, <1>6, <1>7, ZenonT(60)
<1>9. Len(p) + Len(w) = 11 /\ Len(p) + Len(w) + Len(body) = 31
  BY <1>4, <1>5, <1>7, ZenonT(60)
<1>10. SubSeq(s, 3, 11) = w /\ SubSeq(s, 12, 31) = body
  BY <1>4, <1>6, <1>7, <1>9, Zenon
<1>11. Len(s) = 31 + Len(url) /\ SubSeq(s, 32, Len(s)) = url
  BY <1>6, <1>7, <1>9, Zenon
<1> QED
  BY <1>1, <1>2, <1>3, <1>8, <1>10, <1>11, Zenon DEF Announces

\* The length byte is right as long as it does not wrap.
LEMMA LengthByte ==
    ASSUME NEW url \in Seq(Byte)
    PROVE  /\ op_return_len(url) \in Byte
           /\ op_return_len(url) = 29 + Len(url) <=> Len(url) <= 226
<1>1. \A n \in Nat : LET b == (9 + 20 + (n % 256)) % 256
                    IN  b \in 0 .. 255 /\ (b = 29 + n <=> n <= 226)
  OBVIOUS
<1>2. Len(url) \in Nat
  OBVIOUS
<1> QED
  BY <1>1, <1>2, Zenon DEF op_return_len, Byte

\* Another server reads the announcement of generate_outputs as it was meant or
\* not at all, and it reads it exactly if the URL is valid UTF-8, not its own, not
\* empty and no longer than 226 bytes, where the u8 of the length begins to wrap.
THEOREM AnnouncementRoundTrip ==
    ASSUME NEW body \in Seq(Byte), Len(body) = 20, NEW url \in Seq(Byte), NEW own_url
    PROVE  extract_op_return(op_return_script(url, body), own_url) =
               IF Len(url) \in 1 .. 226 /\ Utf8(url) /\ url # own_url
               THEN [url |-> url, body |-> body]
               ELSE None
<1>1. PICK b : b = op_return_len(url)
  OBVIOUS
<1>2. PICK s : s = op_return_script(url, body)
  OBVIOUS
<1>3. b \in Byte /\ (b = 29 + Len(url) <=> Len(url) <= 226)
  BY <1>1, LengthByte, Zenon
<1>4. s = <<106, b>> \o KEYSERVER_PREFIX \o body \o url
  BY <1>1, <1>2, Zenon DEF op_return_script
<1>5. /\ Len(s) = 31 + Len(url)
      /\ s[1] = 106
      /\ s[2] = b
      /\ SubSeq(s, 3, 11) = KEYSERVER_PREFIX
      /\ SubSeq(s, 12, 31) = body
      /\ SubSeq(s, 32, Len(s)) = url
  <2>1. Announces(s, b, body, url)
    BY <1>3, <1>4, Parts, Zenon
  <2> QED
    BY <2>1, Zenon DEF Announces
<1>6. Len(url) \in 1 .. 226 <=> Len(s) > 2 + 9 + 20 /\ s[2] = Len(s) - 2
  <2>1. \A n \in Nat : /\ n \in 1 .. 226 <=> 31 + n > 2 + 9 + 20 /\ n <= 226
                      /\ (31 + n) - 2 = 29 + n
    OBVIOUS
  <2>2. PICK n \in Nat : n = Len(url)
    OBVIOUS
  <2>3. Len(s) > 2 + 9 + 20 <=> 31 + n > 2 + 9 + 20
    BY <2>2, <1>5, Zenon
  <2>4. s[2] = Len(s) - 2 <=> b = 29 + n
    <3>1. Len(s) = 31 + n
      BY <2>2, <1>5, Zenon
    <3>2. (31 + n) - 2 = 29 + n
      BY <2>1, Zenon
    <3>3. Len(s) - 2 = 29 + n
      BY <3>1, <3>2, Zenon
    <3> QED
      BY <3>3, <1>5, Zenon
  <2> QED
    BY <2>1, <2>2, <2>3, <2>4, <1>3, Zenon
<1>7. extract_op_return(s, own_url) =
          IF Len(url) \in 1 .. 226 /\ Utf8(url) /\ url # own_url
          THEN [url |-> url, body |-> body]
          ELSE None
  BY <1>5, <1>6, Zenon DEF extract_op_return
<1> QED
  BY <1>2, <1>7, Zenon

\* check_p2pkh finds the address of an invoice in its first output, and takes
\* the second, the announcement, for no payment.
THEOREM PaymentRoundTrip ==
    ASSUME NEW pk_hash \in Seq(Byte), Len(pk_hash) = 20,
           NEW body \in Seq(Byte), Len(body) = 20, NEW url \in Seq(Byte)
    PROVE  /\ extract_pubkey_hash(p2pkh_script(pk_hash)) = pk_hash
           /\ extract_pubkey_hash(op_return_script(url, body)) = None
<1>1. extract_pubkey_hash(p2pkh_script(pk_hash)) = pk_hash
  <2>1. PICK p : p = <<118, 169, 20>>
    OBVIOUS
  <2>2. PICK e : e = <<136, 172>>
    OBVIOUS
  <2>3. PICK s : s = p2pkh_script(pk_hash)
    OBVIOUS
  <2>4. p \in Seq(Byte) /\ Len(p) = 3 /\ e \in Seq(Byte) /\ Len(e) = 2
    BY <2>1, <2>2 DEF Byte
  <2>5. s = p \o pk_hash \o e
    BY <2>1, <2>2, <2>3, Zenon DEF p2pkh_script
  <2>6. /\ Len(s) = Len(p) + Len(pk_hash) + Len(e)
        /\ SubSeq(s, 1, Len(p)) = p
        /\ SubSeq(s, Len(p) + 1, Len(p) + Len(pk_hash)) = pk_hash
        /\ SubSeq(s, Len(p) + Len(pk_hash) + 1, Len(p) + Len(pk_hash) + Len(e)) = e
    <3>1. InThree(s, p, pk_hash, e)
      BY <2>4, <2>5, ThreeParts, Zenon
    <3> QED
      BY <3>1, Zenon DEF InThree
  <2>7. 3 + 1 = 4 /\ 3 + 20 = 23 /\ 23 + 1 = 24 /\ 23 + 2 = 25
    OBVIOUS
  <2>8. /\ Len(s) = 25
        /\ SubSeq(s, 1, 3) = p
        /\ SubSeq(s, 4, 23) = pk_hash
        /\ SubSeq(s, 24, 25) = e
    BY <2>4, <2>6, <2>7, Zenon
  <2> QED
    BY <2>1, <2>2, <2>3, <2>8, Zenon DEF extract_pubkey_hash
<1>2. extract_pubkey_hash(op_return_script(url, body)) = None
  <2>1. PICK s : s = op_return_script(url, body)
    OBVIOUS
  <2>2. Len(s) = 31 + Len(url)
    <3>1. op_return_len(url) \in Byte
      BY LengthByte, Zenon
    <3>2. Announces(s, op_return_len(url), body, url)
      BY <3>1, <2>1, Parts, Zenon DEF op_return_script
    <3> QED
      BY <3>2, Zenon DEF Announces
  <2>3. \A n \in Nat : 31 + n # 25
    OBVIOUS
  <2>4. Len(url) \in Nat
    OBVIOUS
  <2>5. Len(s) # 25
    BY <2>2, <2>3, <2>4, Zenon
  <2> QED
    BY <2>1, <2>5, Zenon DEF extract_pubkey_hash
<1> QED
  BY <1>1, <1>2
=============================================================================
