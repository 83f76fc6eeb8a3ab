------------------------- MODULE AnnouncementProofs -------------------------
(***************************************************************************)
(* Proofs about Announcement, for all URLs, address bodies and outputs     *)
(* that are in front.                                                      *)
(***************************************************************************)
EXTENDS Announcement, ScriptProofs

-----------------------------------------------------------------------------
(* The script that a node makes of the data.                               *)

\* Where the parts of a concatenation are, over all numbers.
LEMMA Joined ==
    ASSUME NEW a \in Seq(Nat), NEW c \in Seq(Nat)
    PROVE  /\ a \o c \in Seq(Nat)
           /\ Len(a \o c) = Len(a) + Len(c)
           /\ \A i \in 1 .. Len(a) : (a \o c)[i] = a[i]
           /\ \A i \in 1 .. Len(c) : (a \o c)[i + Len(a)] = c[i]
  OBVIOUS

\* Concatenations may be regrouped.
LEMMA Regrouped ==
    ASSUME NEW a \in Seq(Byte), NEW b \in Seq(Byte), NEW c \in Seq(Byte)
    PROVE  (a \o b) \o c = a \o (b \o c)
  BY ConcatAssociative

\* Two bytes in a row.
LEMMA Pair ==
    ASSUME NEW x \in Byte, NEW y \in Byte
    PROVE  <<x>> \o <<y>> = <<x, y>>
<1>1. /\ <<x>> \in Seq(Byte) /\ <<y>> \in Seq(Byte) /\ <<x, y>> \in Seq(Byte)
      /\ Len(<<x>>) = 1 /\ Len(<<y>>) = 1 /\ Len(<<x, y>>) = 2
  OBVIOUS
<1>2. PICK s : s = <<x>> \o <<y>>
  OBVIOUS
<1>3. PICK t : t = <<x, y>>
  OBVIOUS
<1>4. s \in Seq(Byte) /\ Len(s) = 2 /\ s[1] = x /\ s[2] = y
  BY <1>1, <1>2
<1>5. t \in Seq(Byte) /\ Len(t) = 2 /\ t[1] = x /\ t[2] = y
  BY <1>1, <1>3
<1>6. s = t
  BY <1>4, <1>5, SeqEqual
<1> QED
  BY <1>2, <1>3, <1>6, Zenon

\* Four parts may be grouped from the left or around the first.
Groups(p, w, b, u) == ((p \o w) \o b) \o u = p \o ((w \o b) \o u)

\* The parts of an announcement, regrouped.
LEMMA FourRegrouped ==
    ASSUME NEW p \in Seq(Byte), NEW w \in Seq(Byte), NEW b \in Seq(Byte), NEW u \in Seq(Byte)
    PROVE  Groups(p, w, b, u)
<1>1. PICK m : m = w \o b
  OBVIOUS
<1>2. m \in Seq(Byte)
  <2>1. w \o b \in Seq(Byte)
    BY Concatenation, Zenon
  <2> QED
    BY <1>1, <2>1, Zenon
<1>3. (p \o w) \o b = p \o (w \o b)
  BY Regrouped, ZenonT(60)
<1>4. (p \o m) \o u = p \o (m \o u)
  BY <1>2, Regrouped, ZenonT(60)
<1> QED
  BY <1>1, <1>3, <1>4, Zenon DEF Groups

\* The data of an announcement is what follows its first two bytes.
LEMMA DataOf ==
    ASSUME NEW body \in Seq(Byte), Len(body) = 20, NEW url \in Seq(Byte),
           NEW s, s = op_return_script(url, body),
           NEW data, data = SubSeq(s, 3, Len(s))
    PROVE  /\ data = KEYSERVER_PREFIX \o body \o url
           /\ data \in Seq(Byte) /\ Len(data) = 29 + Len(url)
<1>1. PICK p : p = <<106, op_return_len(url)>>
  OBVIOUS
<1>2. PICK w : w = KEYSERVER_PREFIX
  OBVIOUS
<1>3. p \in Seq(Byte) /\ Len(p) = 2
  BY <1>1, LengthByte DEF Byte
<1>4. w \in Seq(Byte) /\ Len(w) = 9
  BY <1>2 DEF KEYSERVER_PREFIX, Byte
<1>5. PICK m : m = w \o body
  OBVIOUS
<1>6. m \in Seq(Byte) /\ Len(m) = 29
  <2>1. w \o body \in Seq(Byte) /\ Len(w \o body) = Len(w) + Len(body)
    BY <1>4, Concatenation, Zenon
  <2>2. 9 + 20 = 29
    OBVIOUS
  <2> QED
    BY <1>4, <1>5, <2>1, <2>2, Zenon
<1>7. PICK d : d = m \o url
  OBVIOUS
<1>8. d \in Seq(Byte) /\ Len(d) = 29 + Len(url)
  <2>1. m \o url \in Seq(Byte) /\ Len(m \o url) = Len(m) + Len(url)
    BY <1>6, Concatenation, ZenonT(60)
  <2> QED
    BY <1>6, <1>7, <2>1, Zenon
<1>9. s = p \o d
  <2>1. s = ((p \o w) \o body) \o url
    BY <1>1, <1>2, Zenon DEF op_return_script
  <2>2. Groups(p, w, body, url)
    BY <1>3, <1>4, FourRegrouped, Zenon
  <2> QED
    BY <1>5, <1>7, <2>1, <2>2, Zenon DEF Groups
<1>10. Len(p \o d) = Len(p) + Len(d)
  BY <1>3, <1>8, Concatenation, Zenon
<1>11. SubSeq(p \o d, Len(p) + 1, Len(p) + Len(d)) = d
  BY <1>3, <1>8, FrontBack, Zenon
<1>12. 2 + 1 = 3
  OBVIOUS
<1>13. data = d
  BY <1>3, <1>9, <1>10, <1>11, <1>12, Zenon
<1> QED
  BY <1>2, <1>5, <1>7, <1>8, <1>13, Zenon

\* A script of the byte 106, a head and data.
LEMMA Headed ==
    ASSUME NEW data \in Seq(Nat), NEW h \in Seq(Nat), Len(h) # 0
    PROVE  /\ Len(<<106>> \o (h \o data)) = 1 + (Len(h) + Len(data))
           /\ (<<106>> \o (h \o data))[2] = h[1]
<1>1. PICK c : c = h \o data
  OBVIOUS
<1>2. PICK o : o = <<106>>
  OBVIOUS
<1>3. o \in Seq(Nat) /\ Len(o) = 1
  BY <1>2
<1>4. /\ h \o data \in Seq(Nat) /\ Len(h \o data) = Len(h) + Len(data)
      /\ \A i \in 1 .. Len(h) : (h \o data)[i] = h[i]
  BY Joined, Zenon
<1>5. Len(h) \in Nat /\ Len(data) \in Nat
  OBVIOUS
<1>6. 1 \in 1 .. Len(h) /\ 1 \in 1 .. Len(h) + Len(data)
  BY <1>5
<1>7. c \in Seq(Nat) /\ Len(c) = Len(h) + Len(data) /\ c[1] = h[1]
  BY <1>1, <1>4, <1>6, Zenon
<1>8. /\ Len(o \o c) = Len(o) + Len(c)
      /\ \A i \in 1 .. Len(c) : (o \o c)[i + Len(o)] = c[i]
  BY <1>3, <1>7, Joined, Zenon
<1>9. 1 + 1 = 2
  OBVIOUS
<1>10. Len(o \o c) = 1 + (Len(h) + Len(data)) /\ (o \o c)[2] = h[1]
  BY <1>3, <1>6, <1>7, <1>8, <1>9, Zenon
<1> QED
  BY <1>1, <1>2, <1>10, Zenon

\* More than 75 bytes are pushed with a first byte that says how their length is given.
LEMMA LongHead ==
    ASSUME NEW n \in Nat, n > 75
    PROVE  /\ push_head(n) \in Seq(Nat)
           /\ Len(push_head(n)) \in 2 .. 5
           /\ push_head(n)[1] \in 76 .. 78
           /\ push_head(n)[1] > 76 => n > 255
<1>1. CASE n < 256
  BY <1>1 DEF push_head
<1>2. CASE n >= 256 /\ n < 256 * 256
  <2>1. n % 256 \in Nat /\ n \div 256 \in Nat
    OBVIOUS
  <2>2. push_head(n) = <<77, n % 256, n \div 256>>
    BY <1>2 DEF push_head
  <2> QED
    BY <1>2, <2>1, <2>2
<1>3. CASE n >= 256 * 256
  <2> DEFINE a == n % 256
             b == (n \div 256) % 256
             c == (n \div (256 * 256)) % 256
             d == n \div (256 * 256 * 256)
  <2>1. a \in Nat /\ b \in Nat /\ c \in Nat /\ d \in Nat
    OBVIOUS
  <2>2. ~(n <= 75) /\ ~(n < 256) /\ ~(n < 256 * 256)
    BY <1>3
  <2>3. push_head(n) = <<78, a, b, c, d>>
    BY <2>2, ZenonT(60) DEF push_head
  <2> HIDE DEF a, b, c, d
  <2> QED
    BY <1>3, <2>1, <2>3
<1> QED
  BY <1>1, <1>2, <1>3

\* So the second byte of the script is no length of the rest.
LEMMA LongPush ==
    ASSUME NEW data \in Seq(Byte), Len(data) > 75
    PROVE  /\ Len(<<106>> \o push(data)) > 31
           /\ (<<106>> \o push(data))[2] # Len(<<106>> \o push(data)) - 2
<1>1. PICK n \in Nat : n = Len(data)
  OBVIOUS
<1>2. data \in Seq(Nat)
  <2>1. Byte \subseteq Nat
    BY DEF Byte
  <2> QED
    BY <2>1, SeqMonotonic, Zenon
<1>3. PICK h : h = push_head(n)
  OBVIOUS
<1>4. h \in Seq(Nat) /\ Len(h) \in 2 .. 5 /\ h[1] \in 76 .. 78 /\ (h[1] > 76 => n > 255)
  BY <1>1, <1>3, LongHead
<1>5. Len(h) # 0
  BY <1>4
<1>6. push(data) = h \o data
  BY <1>1, <1>3, Zenon DEF push
<1>7. /\ Len(<<106>> \o (h \o data)) = 1 + (Len(h) + Len(data))
      /\ (<<106>> \o (h \o data))[2] = h[1]
  BY <1>2, <1>4, <1>5, Headed, Zenon
<1>8. PICK m \in 2 .. 5 : m = Len(h)
  BY <1>4
<1>9. PICK e \in 76 .. 78 : e = h[1]
  BY <1>4
<1>10. n > 75 /\ (e > 76 => n > 255)
  BY <1>1, <1>4, <1>9
<1>11. 1 + (m + n) > 31 /\ e # (1 + (m + n)) - 2
  BY <1>10
<1> QED
  BY <1>1, <1>6, <1>7, <1>8, <1>9, <1>11, Zenon

\* What the node puts together is what the server does.
SameScript(n, w, body, url) ==
    <<106>> \o (<<n>> \o ((w \o body) \o url)) = ((<<106, n>> \o w) \o body) \o url

\* A rebuilt script, regrouped as the server has it.
LEMMA RebuiltRegrouped ==
    ASSUME NEW n \in Byte, NEW w \in Seq(Byte), NEW body \in Seq(Byte), NEW url \in Seq(Byte)
    PROVE  SameScript(n, w, body, url)
<1>1. PICK p : p = <<106, n>>
  OBVIOUS
<1>2. 106 \in Byte
  BY DEF Byte
<1>3. p \in Seq(Byte)
  BY <1>1, <1>2
<1>4. ((p \o w) \o body) \o url = p \o ((w \o body) \o url)
  <2>1. Groups(p, w, body, url)
    BY <1>3, FourRegrouped, Zenon
  <2> QED
    BY <2>1, Zenon DEF Groups
<1>5. <<106>> \o <<n>> = p
  BY <1>1, <1>2, Pair, Zenon
<1>6. PICK d : d = (w \o body) \o url
  OBVIOUS
<1>7. d \in Seq(Byte)
  <2>1. PICK m : m = w \o body
    OBVIOUS
  <2>2. w \o body \in Seq(Byte)
    BY Concatenation, Zenon
  <2>3. m \in Seq(Byte)
    BY <2>1, <2>2, Zenon
  <2>4. m \o url \in Seq(Byte)
    BY <2>3, Concatenation, Zenon
  <2> QED
    BY <1>6, <2>1, <2>4, Zenon
<1>8. PICK o : o = <<106>>
  OBVIOUS
<1>9. PICK l : l = <<n>>
  OBVIOUS
<1>10. o \in Seq(Byte)
  BY <1>2, <1>8
<1>11. l \in Seq(Byte)
  BY <1>9
<1>12. (o \o l) \o d = o \o (l \o d)
  BY <1>7, <1>10, <1>11, Regrouped, ZenonT(60)
<1> QED
  BY <1>1, <1>4, <1>5, <1>6, <1>8, <1>9, <1>12, Zenon DEF SameScript

\* Shorter data gets the same script as from the server, with the right length.
LEMMA ShortPush ==
    ASSUME NEW body \in Seq(Byte), Len(body) = 20, NEW url \in Seq(Byte), Len(url) <= 46,
           NEW data, data = KEYSERVER_PREFIX \o body \o url, Len(data) = 29 + Len(url)
    PROVE  Announces(<<106>> \o push(data), 29 + Len(url), body, url)
<1>1. PICK n \in Nat : n = 29 + Len(url)
  OBVIOUS
<1>2. n \in Byte /\ n <= 75
  <2>1. PICK u \in Nat : u = Len(url)
    OBVIOUS
  <2>2. u <= 46 /\ n = 29 + u
    BY <1>1, <2>1, Zenon
  <2> QED
    BY <2>2 DEF Byte
<1>3. KEYSERVER_PREFIX \in Seq(Byte)
  BY DEF KEYSERVER_PREFIX, Byte
<1>4. push(data) = <<n>> \o data
  <2>1. Len(data) <= 75 /\ Len(data) = n
    BY <1>1, <1>2, Zenon
  <2>2. push_head(Len(data)) = <<n>>
    BY <2>1, Zenon DEF push_head
  <2> QED
    BY <2>2, Zenon DEF push
<1>5. <<106>> \o (<<n>> \o ((KEYSERVER_PREFIX \o body) \o url))
          = ((<<106, n>> \o KEYSERVER_PREFIX) \o body) \o url
  <2>1. SameScript(n, KEYSERVER_PREFIX, body, url)
    BY <1>2, <1>3, RebuiltRegrouped, Zenon
  <2> QED
    BY <2>1, Zenon DEF SameScript
<1>6. Announces(<<106, n>> \o KEYSERVER_PREFIX \o body \o url, n, body, url)
  BY <1>2, Parts, Zenon
<1> QED
  BY <1>1, <1>4, <1>5, <1>6, Zenon

\* A script that announces, with the length it has, is read back, and no other.
LEMMA ReadBack ==
    ASSUME NEW url \in Seq(Byte), NEW body \in Seq(Byte), NEW own_url, NEW s,
           Announces(s, 29 + Len(url), body, url)
    PROVE  extract_op_return(s, own_url) =
               IF Len(url) # 0 /\ Utf8(url) /\ url # own_url
               THEN [url |-> url, body |-> body]
               ELSE None
<1>1. PICK n \in Nat : n = Len(url)
  OBVIOUS
<1>2. /\ Len(s) = 31 + n /\ s[1] = 106 /\ s[2] = 29 + n
      /\ SubSeq(s, 3, 11) = KEYSERVER_PREFIX
      /\ SubSeq(s, 12, 31) = body /\ SubSeq(s, 32, Len(s)) = url
  BY <1>1, Zenon DEF Announces
<1>3. /\ 31 + n > 2 + 9 + 20 <=> n # 0
      /\ 29 + n = (31 + n) - 2
  OBVIOUS
<1>4. (Len(s) > 2 + 9 + 20 <=> n # 0) /\ s[2] = Len(s) - 2
  BY <1>2, <1>3, Zenon
<1> QED
  BY <1>1, <1>2, <1>4, Zenon DEF extract_op_return

\* An announcement whose data the node pushed again is read as it was meant or not at
\* all, and exactly if the URL is valid, another server's, not empty and of at most 46
\* bytes; the rebuilt script is never taken for a payment.
THEOREM RebuiltRoundTrip ==
    ASSUME NEW body \in Seq(Byte), Len(body) = 20, NEW url \in Seq(Byte), NEW own_url
    PROVE  /\ extract_op_return(rebuild(op_return_script(url, body)), own_url) =
                  IF Len(url) \in 1 .. 46 /\ Utf8(url) /\ url # own_url
                  THEN [url |-> url, body |-> body]
                  ELSE None
           /\ extract_pubkey_hash(rebuild(op_return_script(url, body))) = None
<1>1. PICK s : s = op_return_script(url, body)
  OBVIOUS
<1>2. PICK data : data = SubSeq(s, 3, Len(s))
  OBVIOUS
<1>3. /\ data = KEYSERVER_PREFIX \o body \o url
      /\ data \in Seq(Byte) /\ Len(data) = 29 + Len(url)
  BY <1>1, <1>2, DataOf, ZenonT(60)
<1>4. PICK t : t = <<106>> \o push(data)
  OBVIOUS
<1>5. rebuild(op_return_script(url, body)) = t
  BY <1>1, <1>2, <1>4, Zenon DEF rebuild
<1>6. PICK n \in Nat : n = Len(url)
  OBVIOUS
<1>7. CASE n <= 46
  <2>1. Announces(<<106>> \o push(data), 29 + Len(url), body, url)
    BY <1>3, <1>6, <1>7, ShortPush, Zenon
  <2>2. Announces(t, 29 + Len(url), body, url)
    BY <1>4, <2>1, Zenon
  <2>3. extract_op_return(t, own_url) =
            IF Len(url) # 0 /\ Utf8(url) /\ url # own_url
            THEN [url |-> url, body |-> body]
            ELSE None
    BY <2>2, ReadBack, Zenon
  <2>4. Len(url) # 0 <=> Len(url) \in 1 .. 46
    <3>1. n # 0 <=> n \in 1 .. 46
      BY <1>7
    <3> QED
      BY <1>6, <3>1, Zenon
  <2>5. Len(t) = 31 + Len(url)
    BY <2>2, Zenon DEF Announces
  <2>6. Len(t) # 25
    BY <1>6, <2>5
  <2> QED
    BY <1>5, <2>3, <2>4, <2>6, Zenon DEF extract_pubkey_hash
<1>8. CASE n > 46
  <2>1. Len(data) > 75
    BY <1>3, <1>6, <1>8
  <2>2. Len(t) > 31 /\ t[2] # Len(t) - 2
    BY <1>3, <1>4, <2>1, LongPush, Zenon
  <2>3. extract_op_return(t, own_url) = None
    BY <2>2, Zenon DEF extract_op_return
  <2>4. ~(25 > 31)
    OBVIOUS
  <2>5. Len(t) # 25
    BY <2>2, <2>4, Zenon
  <2>6. Len(url) \notin 1 .. 46
    <3>1. n \notin 1 .. 46
      BY <1>8
    <3> QED
      BY <1>6, <3>1, Zenon
  <2> QED
    BY <1>5, <2>3, <2>5, <2>6, Zenon DEF extract_pubkey_hash
<1> QED
  BY <1>7, <1>8

-----------------------------------------------------------------------------
(* The outputs of a transaction.                                           *)

\* The outputs o are those in front, then a and c.
Behind(o, front, a, c) ==
    /\ Len(front) \in Nat
    /\ DOMAIN o = 1 .. Len(front) + 2
    /\ \A i \in 1 .. Len(front) : o[i] = front[i]
    /\ o[Len(front) + 1] = a
    /\ o[Len(front) + 2] = c

\* Two outputs put behind others are found there.
LEMMA TwoBehind ==
    ASSUME NEW S, NEW front \in Seq(S), NEW a \in S, NEW c \in S
    PROVE  Behind(front \o <<a, c>>, front, a, c)
<1>1. PICK t : t = <<a, c>>
  OBVIOUS
<1>2. t \in Seq(S) /\ Len(t) = 2 /\ t[1] = a /\ t[2] = c
  BY <1>1
<1>3. PICK n \in Nat : n = Len(front)
  OBVIOUS
<1>4. PICK o : o = front \o t
  OBVIOUS
<1>5. /\ o \in Seq(S) /\ Len(o) = n + 2
      /\ \A i \in 1 .. n + 2 : o[i] = IF i <= n THEN front[i] ELSE t[i - n]
  <2>1. /\ front \o t \in Seq(S) /\ Len(front \o t) = Len(front) + Len(t)
        /\ \A i \in 1 .. Len(front) + Len(t) :
              (front \o t)[i] = IF i <= Len(front) THEN front[i] ELSE t[i - Len(front)]
    BY <1>2, ConcatProperties, Zenon
  <2> QED
    BY <1>2, <1>3, <1>4, <2>1, Zenon
<1>6. DOMAIN o = 1 .. n + 2
  BY <1>5
<1>7. \A i \in 1 .. n : o[i] = front[i]
  BY <1>5
<1>8. o[n + 1] = a /\ o[n + 2] = c
  <2>1. n + 1 \in 1 .. n + 2 /\ n + 2 \in 1 .. n + 2 /\ ~(n + 1 <= n) /\ ~(n + 2 <= n)
        /\ (n + 1) - n = 1 /\ (n + 2) - n = 2
    OBVIOUS
  <2> QED
    BY <1>2, <1>5, <2>1
<1> QED
  BY <1>1, <1>3, <1>4, <1>6, <1>7, <1>8, Zenon DEF Behind

\* The outputs in front announce nothing and pay the price to nobody.
LEMMA NeutralRead ==
    ASSUME NEW o, Neutral(o)
    PROVE  /\ extract_op_return(o.script, OwnUrl) = None
           /\ o.amount = PRICE => extract_pubkey_hash(o.script) = None
  BY Zenon DEF Neutral, extract_op_return, extract_pubkey_hash

\* What is read from a transaction is what its last output announces and what the one
\* before it pays.
LEMMA TransactionRead ==
    ASSUME NEW front \in Others, NEW a, NEW c,
           extract_op_return(a.script, OwnUrl) = None,
           a.amount = PRICE, extract_pubkey_hash(a.script) # None, c.amount # PRICE
    PROVE  /\ extract_details(front \o <<a, c>>, OwnUrl) = extract_op_return(c.script, OwnUrl)
           /\ PaidHashes(front \o <<a, c>>) = {extract_pubkey_hash(a.script)}
<1> DEFINE S == [amount : Nat, script : Seq(Byte)] \cup {a, c}
<1>1. PICK outs : outs = front \o <<a, c>>
  OBVIOUS
<1>2. PICK n : n = Len(front)
  OBVIOUS
<1>3. front \in Seq(S) /\ DOMAIN front = 1 .. n
  <2>1. front \in Seq([amount : Nat, script : Seq(Byte)])
    BY AnnouncementAssumption
  <2>2. DOMAIN front = 1 .. Len(front)
    BY <2>1, LenProperties, Zenon
  <2>3. [amount : Nat, script : Seq(Byte)] \subseteq S
    OBVIOUS
  <2>4. front \in Seq(S)
    BY <2>1, <2>3, SeqMonotonic, Zenon
  <2> QED
    BY <1>2, <2>2, <2>4, Zenon
<1>4. a \in S /\ c \in S
  OBVIOUS
<1> HIDE DEF S
<1>5. /\ n \in Nat /\ DOMAIN outs = 1 .. n + 2
      /\ \A i \in 1 .. n : outs[i] = front[i]
      /\ outs[n + 1] = a /\ outs[n + 2] = c
  <2>1. Behind(front \o <<a, c>>, front, a, c)
    BY <1>3, <1>4, TwoBehind, Zenon
  <2> QED
    BY <1>1, <1>2, <2>1, Zenon DEF Behind
<1>6. \A i \in 1 .. n : /\ extract_op_return(outs[i].script, OwnUrl) = None
                        /\ outs[i].amount = PRICE => extract_pubkey_hash(outs[i].script) = None
  BY <1>3, <1>5, NeutralRead, AnnouncementAssumption, Zenon
<1>7. \A i \in 1 .. n + 2 : i \in 1 .. n \/ i = n + 1 \/ i = n + 2
  BY <1>5
<1>8. n + 1 \in 1 .. n + 2 /\ n + 2 \in 1 .. n + 2 /\ n + 2 <= n + 2
  BY <1>5
<1> DEFINE found0 == {i \in DOMAIN outs : extract_op_return(outs[i].script, OwnUrl) # None}
<1>9. extract_details(outs, OwnUrl) = extract_op_return(c.script, OwnUrl)
  <2>1. CASE extract_op_return(c.script, OwnUrl) = None
    <3>1. found0 = {}
      BY <1>5, <1>6, <1>7, <2>1, Zenon
    <3> QED
      BY <2>1, <3>1, Zenon DEF extract_details
  <2>2. CASE extract_op_return(c.script, OwnUrl) # None
    <3>1. \A i : i \in found0 <=> i = n + 2
      BY <1>5, <1>6, <1>7, <1>8, <2>2, Zenon
    <3>2. found0 # {}
      BY <3>1, Zenon
    <3>3. (CHOOSE i \in found0 : \A j \in found0 : i <= j) = n + 2
      <4>1. PICK F : F = found0
        OBVIOUS
      <4>2. \A i : i \in F <=> i = n + 2
        BY <3>1, <4>1, Zenon
      <4>3. \E i \in F : \A j \in F : i <= j
        <5>1. n + 2 \in F
          BY <4>2, Zenon
        <5>2. \A j \in F : n + 2 <= j
          BY <1>5, <4>2
        <5> QED
          BY <5>1, <5>2, Zenon
      <4>4. (CHOOSE i \in F : \A j \in F : i <= j) \in F
        BY <4>3, Zenon
      <4>5. (CHOOSE i \in F : \A j \in F : i <= j) = n + 2
        BY <4>2, <4>4, Zenon
      <4> QED
        BY <4>1, <4>5, Zenon
    <3>4. extract_details(outs, OwnUrl) = extract_op_return(outs[n + 2].script, OwnUrl)
      BY <3>2, <3>3, Zenon DEF extract_details
    <3> QED
      BY <1>5, <3>4, Zenon
  <2> QED
    BY <2>1, <2>2, Zenon
<1>10. PaidHashes(outs) = {extract_pubkey_hash(a.script)}
  <2> DEFINE h == extract_pubkey_hash(a.script)
  <2>1. ASSUME NEW x \in PaidHashes(outs)
        PROVE  x = h
    <3>1. PICK i \in DOMAIN outs : /\ outs[i].amount = PRICE
                                   /\ x = extract_pubkey_hash(outs[i].script) /\ x # None
      BY <2>1, Zenon DEF PaidHashes
    <3> QED
      BY <1>5, <1>6, <1>7, <3>1, Zenon
  <2>2. h \in PaidHashes(outs)
    BY <1>5, <1>8, Zenon DEF PaidHashes
  <2> QED
    BY <2>1, <2>2, Zenon
<1> QED
  BY <1>1, <1>9, <1>10, Zenon

-----------------------------------------------------------------------------
(* The specification.                                                      *)

\* The outputs that carry the invoice for update u, rebuilt or not.
Written(u, r) ==
    <<[amount |-> PRICE, script |-> p2pkh_script(Invoiced)],
      [amount |-> 0, script |-> IF r THEN rebuild(op_return_script(u.url, u.body))
                                ELSE op_return_script(u.url, u.body)]>>

\* What is on the invoice and on the chain, and what has been read from it.
CarriedInv ==
    /\ rebuilt \in BOOLEAN
    /\ stage \in {"new", "invoiced", "paid", "read"}
    /\ stage \in {"new", "invoiced"} => ~rebuilt
    /\ stage # "new" => update \in [url : Urls, body : PutBodies]
    /\ stage = "invoiced" => outputs = Written(update, FALSE)
    /\ stage \in {"paid", "read"} => \E front \in Others : outputs = front \o Written(update, rebuilt)
    /\ stage = "read" => found = extract_details(outputs, OwnUrl) /\ credited = PaidHashes(outputs)

\* The invoice is carried to the chain and read from there.
LEMMA NextCarried ==
    ASSUME CarriedInv, [Next]_vars
    PROVE  CarriedInv'
<1>1. ASSUME NEW url \in Urls, NEW body \in PutBodies, invoice(url, body)
      PROVE  CarriedInv'
  <2>1. /\ stage' = "invoiced" /\ ~rebuilt /\ rebuilt' = rebuilt
        /\ update' = [url |-> url, body |-> body]
        /\ outputs' = generate_outputs(Invoiced, url, body)
    BY <1>1 DEF invoice, CarriedInv
  <2>2. /\ update' \in [url : Urls, body : PutBodies]
        /\ update'.url = url /\ update'.body = body
    BY <2>1
  <2>3. outputs' = Written(update', FALSE)
    BY <2>1, <2>2 DEF generate_outputs, Written
  <2> QED
    BY <2>1, <2>2, <2>3 DEF CarriedInv
<1>2. ASSUME NEW front \in Others, pay_verbatim(front)
      PROVE  CarriedInv'
  <2>1. /\ stage = "invoiced" /\ stage' = "paid" /\ update' = update /\ rebuilt' = rebuilt
        /\ outputs' = front \o outputs
    BY <1>2 DEF pay_verbatim
  <2>2. /\ update \in [url : Urls, body : PutBodies] /\ outputs = Written(update, FALSE)
        /\ rebuilt = FALSE
    BY <2>1 DEF CarriedInv
  <2>3. outputs' = front \o Written(update', rebuilt')
    BY <2>1, <2>2, Zenon
  <2> QED
    BY <2>1, <2>2, <2>3 DEF CarriedInv
<1>3. ASSUME NEW front \in Others, pay_rebuilt(front)
      PROVE  CarriedInv'
  <2>1. /\ stage = "invoiced" /\ stage' = "paid" /\ update' = update /\ rebuilt' = TRUE
        /\ outputs' = front \o [outputs EXCEPT ![2].script = rebuild(@)]
    BY <1>3 DEF pay_rebuilt
  <2>2. update \in [url : Urls, body : PutBodies] /\ outputs = Written(update, FALSE)
    BY <2>1 DEF CarriedInv
  <2>3. [outputs EXCEPT ![2].script = rebuild(@)] = Written(update, TRUE)
    BY <2>2 DEF Written
  <2>4. outputs' = front \o Written(update', rebuilt')
    BY <2>1, <2>3, Zenon
  <2> QED
    BY <2>1, <2>2, <2>4 DEF CarriedInv
<1>4. CASE read
  <2>1. /\ stage = "paid" /\ stage' = "read" /\ update' = update /\ rebuilt' = rebuilt
        /\ outputs' = outputs
        /\ found' = extract_details(outputs, OwnUrl) /\ credited' = PaidHashes(outputs)
    BY <1>4 DEF read
  <2> QED
    BY <2>1 DEF CarriedInv
<1>5. CASE again
  BY <1>5 DEF again, CarriedInv
<1>6. CASE UNCHANGED vars
  BY <1>6 DEF vars, CarriedInv
<1> QED
  BY <1>1, <1>2, <1>3, <1>4, <1>5, <1>6 DEF Next

\* The reading d of what announces u.
Reads(d, u, r) ==
    d = IF Len(u.url) \in 1 .. (IF r THEN 46 ELSE 226) /\ Utf8(u.url) /\ u.url # OwnUrl
        THEN u ELSE None

\* What is read from a carried invoice.
LEMMA CarriedRead ==
    ASSUME NEW front \in Others, NEW u \in [url : Urls, body : PutBodies], NEW r \in BOOLEAN
    PROVE  /\ Reads(extract_details(front \o Written(u, r), OwnUrl), u, r)
           /\ PaidHashes(front \o Written(u, r)) = {Invoiced}
<1>1. PICK s : s = IF r THEN rebuild(op_return_script(u.url, u.body))
                   ELSE op_return_script(u.url, u.body)
  OBVIOUS
<1>2. PICK a : a = [amount |-> PRICE, script |-> p2pkh_script(Invoiced)]
  OBVIOUS
<1>3. PICK c : c = [amount |-> 0, script |-> s]
  OBVIOUS
<1>4. /\ u.url \in Seq(Byte) /\ u.body \in Seq(Byte) /\ Len(u.body) = 20
      /\ Invoiced \in Seq(Byte) /\ Len(Invoiced) = 20
  BY AnnouncementAssumption
<1>5. u = [url |-> u.url, body |-> u.body]
  OBVIOUS
<1>6. extract_op_return(s, OwnUrl) =
             IF Len(u.url) \in 1 .. (IF r THEN 46 ELSE 226) /\ Utf8(u.url) /\ u.url # OwnUrl
             THEN u ELSE None
  <2>1. CASE r
    BY <1>1, <1>4, <1>5, <2>1, RebuiltRoundTrip, ZenonT(60)
  <2>2. CASE ~r
    BY <1>1, <1>4, <1>5, <2>2, AnnouncementRoundTrip, ZenonT(60)
  <2> QED
    BY <2>1, <2>2, Zenon
<1>7. extract_pubkey_hash(p2pkh_script(Invoiced)) = Invoiced
  BY <1>4, PaymentRoundTrip, Zenon
<1>8. Invoiced # None
  BY <1>4, NoneIsNoBytes, Zenon
<1>9. extract_op_return(p2pkh_script(Invoiced), OwnUrl) = None
  <2>1. Len(p2pkh_script(Invoiced)) = 25
    BY <1>7, <1>8, Zenon DEF extract_pubkey_hash
  <2>2. ~(25 > 2 + 9 + 20)
    OBVIOUS
  <2> QED
    BY <2>1, <2>2, Zenon DEF extract_op_return
<1>10. a.amount = PRICE /\ a.script = p2pkh_script(Invoiced) /\ c.amount = 0 /\ c.script = s
  BY <1>2, <1>3
<1>11. 0 # PRICE
  BY DEF PRICE
<1>12. /\ extract_details(front \o <<a, c>>, OwnUrl) = extract_op_return(c.script, OwnUrl)
       /\ PaidHashes(front \o <<a, c>>) = {extract_pubkey_hash(a.script)}
  BY <1>7, <1>8, <1>9, <1>10, <1>11, TransactionRead, Zenon
<1>13. Written(u, r) = <<a, c>>
  BY <1>1, <1>2, <1>3, Zenon DEF Written
<1>14. Reads(extract_op_return(s, OwnUrl), u, r)
  BY <1>6, Zenon DEF Reads
<1> QED
  BY <1>7, <1>10, <1>12, <1>13, <1>14, Zenon

\* The invariant holds throughout.
LEMMA Carried == Spec => []CarriedInv
<1>1. Init => CarriedInv
  BY DEF Init, CarriedInv
<1>2. CarriedInv /\ [Next]_vars => CarriedInv'
  BY NextCarried
<1> QED
  BY <1>1, <1>2, PTL DEF Spec

\* For every URL, address and transaction, what generate_outputs announces is read by
\* the other server exactly if it is valid and fits its length byte, and is otherwise
\* not read at all.
THEOREM AnnouncementExact == Spec => []AnnouncedExactly
<1>1. CarriedInv => AnnouncedExactly
  <2> SUFFICES ASSUME CarriedInv, stage = "read"
               PROVE  IF /\ Len(update.url) \in 1 .. (IF rebuilt THEN 46 ELSE 226)
                         /\ Utf8(update.url)
                         /\ update.url # OwnUrl
                      THEN found = update
                      ELSE found = None
    BY Zenon DEF AnnouncedExactly
  <2>1. /\ rebuilt \in BOOLEAN /\ update \in [url : Urls, body : PutBodies]
        /\ \E front \in Others : outputs = front \o Written(update, rebuilt)
        /\ found = extract_details(outputs, OwnUrl)
    BY DEF CarriedInv
  <2>2. Reads(extract_details(outputs, OwnUrl), update, rebuilt)
    BY <2>1, CarriedRead, Zenon
  <2>3. Reads(found, update, rebuilt)
    BY <2>1, <2>2, Zenon
  <2> QED
    BY <2>3, Zenon DEF Reads
<1> QED
  BY <1>1, Carried, PTL

\* And the server credits exactly the address of the invoice.
THEOREM CreditExact == Spec => []CreditedExactly
<1>1. CarriedInv => CreditedExactly
  <2> SUFFICES ASSUME CarriedInv, stage = "read"
               PROVE  credited = {Invoiced}
    BY DEF CreditedExactly
  <2>1. /\ rebuilt \in BOOLEAN /\ update \in [url : Urls, body : PutBodies]
        /\ \E front \in Others : outputs = front \o Written(update, rebuilt)
        /\ credited = PaidHashes(outputs)
    BY DEF CarriedInv
  <2> QED
    BY <2>1, CarriedRead, Zenon
<1> QED
  BY <1>1, Carried, PTL
=============================================================================
