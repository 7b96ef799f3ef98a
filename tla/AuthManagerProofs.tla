------------------------- MODULE AuthManagerProofs -------------------------
(***************************************************************************)
(* Proofs about AuthManager: base64url loses nothing, and the token names  *)
(* the device, whatever the alias.                                         *)
(***************************************************************************)
EXTENDS AuthManager, SequenceTheorems, TLAPS

Bytes == 0..255

-----------------------------------------------------------------------------
(* base64url. *)

(* Division undoes a multiplication with a remainder. *)
LEMMA DivRem ==
  ASSUME NEW d \in Nat \ {0}, NEW q \in Nat, NEW r \in Nat, r < d
  PROVE  (d * q + r) \div d = q /\ (d * q + r) % d = r
OBVIOUS

(* A byte is cut between any two of its bits that base64url cuts at. *)
LEMMA Parts ==
  ASSUME NEW n \in Bytes
  PROVE  /\ \E q \in 0..63, r \in 0..3 : n = 4 * q + r
         /\ \E q \in 0..15, r \in 0..15 : n = 16 * q + r
         /\ \E q \in 0..3, r \in 0..63 : n = 64 * q + r
<1>1. n = 4 * (n \div 4) + (n % 4) /\ n \div 4 \in 0..63 /\ n % 4 \in 0..3
  BY DEF Bytes
<1>2. n = 16 * (n \div 16) + (n % 16) /\ n \div 16 \in 0..15 /\ n % 16 \in 0..15
  BY DEF Bytes
<1>3. n = 64 * (n \div 64) + (n % 64) /\ n \div 64 \in 0..3 /\ n % 64 \in 0..63
  BY DEF Bytes
<1> QED
  BY <1>1, <1>2, <1>3

(* The four sextets of a group hold its three bytes. *)
LEMMA GroupBytes ==
  ASSUME NEW x \in Bytes, NEW y \in Bytes, NEW z \in Bytes,
         NEW b, b = 65536 * x + 256 * y + z
  PROVE  /\ 4 * Sextet(b, 0) + Sextet(b, 1) \div 16 = x
         /\ 16 * (Sextet(b, 1) % 16) + Sextet(b, 2) \div 4 = y
         /\ 64 * (Sextet(b, 2) % 4) + Sextet(b, 3) = z
<1>1. PICK x1 \in 0..63, x2 \in 0..3 : x = 4 * x1 + x2
  BY Parts
<1>2. PICK y1 \in 0..15, y2 \in 0..15 : y = 16 * y1 + y2
  BY Parts
<1>3. PICK z1 \in 0..3, z2 \in 0..63 : z = 64 * z1 + z2
  BY Parts
<1>4. (b \div 262144) % 64 = x1
  <2>1. b = 262144 * x1 + (65536 * x2 + 256 * y + z)
    BY <1>1 DEF Bytes
  <2>2. 65536 * x2 + 256 * y + z \in Nat /\ 65536 * x2 + 256 * y + z < 262144
    BY <1>1 DEF Bytes
  <2>3. b \div 262144 = x1
    BY <2>1, <2>2, DivRem
  <2> QED
    BY <2>3
<1>5. (b \div 4096) % 64 = 16 * x2 + y1
  <2>1. b = 4096 * (64 * x1 + (16 * x2 + y1)) + (256 * y2 + z)
    BY <1>1, <1>2 DEF Bytes
  <2>2. 256 * y2 + z \in Nat /\ 256 * y2 + z < 4096
    BY <1>2 DEF Bytes
  <2>3. b \div 4096 = 64 * x1 + (16 * x2 + y1)
    <3>1. 64 * x1 + (16 * x2 + y1) \in Nat
      OBVIOUS
    <3> QED
      BY <2>1, <2>2, <3>1, DivRem
  <2>4. 16 * x2 + y1 \in Nat /\ 16 * x2 + y1 < 64
    OBVIOUS
  <2> QED
    BY <2>3, <2>4, DivRem
<1>6. (b \div 64) % 64 = 4 * y2 + z1
  <2>1. b = 64 * (64 * (64 * x1 + 16 * x2 + y1) + (4 * y2 + z1)) + z2
    BY <1>1, <1>2, <1>3 DEF Bytes
  <2>2. b \div 64 = 64 * (64 * x1 + 16 * x2 + y1) + (4 * y2 + z1)
    <3>1. 64 * (64 * x1 + 16 * x2 + y1) + (4 * y2 + z1) \in Nat
      OBVIOUS
    <3> QED
      BY <2>1, <3>1, DivRem
  <2>3. 4 * y2 + z1 \in Nat /\ 4 * y2 + z1 < 64 /\ 64 * x1 + 16 * x2 + y1 \in Nat
    OBVIOUS
  <2> QED
    BY <2>2, <2>3, DivRem
<1>7. b % 64 = z2
  <2>1. b = 64 * (1024 * x + 4 * y + z1) + z2
    BY <1>3 DEF Bytes
  <2>2. 1024 * x + 4 * y + z1 \in Nat
    BY DEF Bytes
  <2> QED
    BY <2>1, <2>2, DivRem
<1>8. /\ (16 * x2 + y1) \div 16 = x2 /\ (16 * x2 + y1) % 16 = y1
      /\ (4 * y2 + z1) \div 4 = y2 /\ (4 * y2 + z1) % 4 = z1
  BY DivRem
<1>9. /\ Sextet(b, 0) = x1 /\ Sextet(b, 1) = 16 * x2 + y1
      /\ Sextet(b, 2) = 4 * y2 + z1 /\ Sextet(b, 3) = z2
  BY <1>4, <1>5, <1>6, <1>7 DEF Sextet
<1>10. 4 * Sextet(b, 0) + Sextet(b, 1) \div 16 = x
  BY <1>1, <1>8, <1>9
<1>11. 16 * (Sextet(b, 1) % 16) + Sextet(b, 2) \div 4 = y
  BY <1>2, <1>8, <1>9
<1>12. 64 * (Sextet(b, 2) % 4) + Sextet(b, 3) = z
  BY <1>3, <1>8, <1>9
<1> QED
  BY <1>10, <1>11, <1>12
LEMMA ByteAtType ==
  ASSUME NEW data \in Seq(Bytes), NEW i \in Nat \ {0}
  PROVE  ByteAt(data, i) \in Bytes
<1>1. CASE i <= Len(data)
  <2>1. i \in 1..Len(data)
    BY <1>1
  <2>2. data[i] \in Bytes
    BY <2>1
  <2> QED
    BY <1>1, <2>2 DEF ByteAt
<1>2. CASE ~(i <= Len(data))
  BY <1>2 DEF ByteAt, Bytes
<1> QED
  BY <1>1, <1>2

(* Without its "=" the text has the length from which Decode finds that of  *)
(* the data, whatever that is modulo 3.                                    *)
LEMMA TextLength ==
  ASSUME NEW data \in Seq(Bytes)
  PROVE  /\ Len(base64url(data)) = (4 * Len(data) + 2) \div 3
         /\ (3 * Len(base64url(data))) \div 4 = Len(data)
<1> DEFINE n == Len(data)
           m == (4 * n + 2) \div 3
<1>1. n \in Nat /\ m \in Nat
  OBVIOUS
<1>2. Len(base64url(data)) = m
  BY <1>1 DEF base64url
<1>3. (3 * m) \div 4 = n
  BY <1>1
<1> QED
  BY <1>2, <1>3

(* No byte is lost or changed by base64url (AuthManager.cpp:16-35): the    *)
(* data are read back from the text, for every length and every byte.      *)
THEOREM DecodeInverts ==
  ASSUME NEW data \in Seq(Bytes)
  PROVE  /\ Len(Decode(base64url(data))) = Len(data)
         /\ \A j \in 1..Len(data) : Decode(base64url(data))[j] = data[j]
<1> DEFINE text == base64url(data)
           n == Len(data)
           m == (4 * n + 2) \div 3
<1>1. n \in Nat /\ m \in Nat /\ Len(text) = m /\ (3 * Len(text)) \div 4 = n
  BY TextLength
<1>2. Len(Decode(text)) = n
  BY <1>1 DEF Decode
<1>3. ASSUME NEW g \in Nat, NEW s \in 0..3, NEW k \in 1..m, k = 4 * g + s + 1
      PROVE  text[k] = Sextet(Group(data, g), s)
  <2>1. k - 1 = 4 * g + s
    BY <1>3
  <2>2. (4 * g + s) \div 4 = g /\ (4 * g + s) % 4 = s
    BY DivRem
  <2> QED
    BY <2>1, <2>2 DEF base64url
<1>4. ASSUME NEW j \in 1..n
      PROVE  Decode(text)[j] = data[j]
  <2> DEFINE g == (j - 1) \div 3
             p == (j - 1) % 3
             b == Group(data, g)
  <2>1. g \in Nat /\ p \in 0..2 /\ j = 3 * g + p + 1
    BY <1>1
  <2>2. /\ ByteAt(data, 3 * g + 1) \in Bytes
        /\ ByteAt(data, 3 * g + 2) \in Bytes
        /\ ByteAt(data, 3 * g + 3) \in Bytes
    BY <2>1, ByteAtType
  <2>3. /\ 4 * Sextet(b, 0) + Sextet(b, 1) \div 16 = ByteAt(data, 3 * g + 1)
        /\ 16 * (Sextet(b, 1) % 16) + Sextet(b, 2) \div 4 = ByteAt(data, 3 * g + 2)
        /\ 64 * (Sextet(b, 2) % 4) + Sextet(b, 3) = ByteAt(data, 3 * g + 3)
    BY <2>2, GroupBytes DEF Group
  <2>4. 4 * g + p + 2 <= m
    BY <1>1, <2>1
  <2>5. ByteAt(data, j) = data[j]
    BY DEF ByteAt
  <2>6. Decode(text)[j] = CASE p = 0 -> 4 * text[4 * g + 1] + text[4 * g + 2] \div 16
           [] p = 1 -> 16 * (text[4 * g + 2] % 16) + text[4 * g + 3] \div 4
           [] p = 2 -> 64 * (text[4 * g + 3] % 4) + text[4 * g + 4]
    BY <1>1 DEF Decode
  <2>10. b = Group(data, g)
    OBVIOUS
  <2> HIDE DEF g, p, b, text, n, m
  <2>7. CASE p = 0
    <3>0. 4 * g + 1 \in 1..m /\ 4 * g + 2 \in 1..m
      BY <1>1, <2>1, <2>4, <2>7
    <3>1. text[4 * g + 1] = Sextet(b, 0) /\ text[4 * g + 2] = Sextet(b, 1)
      BY <1>3, <2>1, <2>10, <3>0
    <3>2. Decode(text)[j] = 4 * text[4 * g + 1] + text[4 * g + 2] \div 16
      BY <2>6, <2>7
    <3>3. Decode(text)[j] = ByteAt(data, 3 * g + 1)
      BY <2>3, <3>1, <3>2
    <3> QED
      BY <2>1, <2>5, <2>7, <3>3
  <2>8. CASE p = 1
    <3>0. 4 * g + 2 \in 1..m /\ 4 * g + 3 \in 1..m
      BY <1>1, <2>1, <2>4, <2>8
    <3>1. text[4 * g + 2] = Sextet(b, 1) /\ text[4 * g + 3] = Sextet(b, 2)
      BY <1>3, <2>1, <2>10, <3>0
    <3>2. Decode(text)[j] = 16 * (text[4 * g + 2] % 16) + text[4 * g + 3] \div 4
      BY <2>6, <2>8
    <3>3. Decode(text)[j] = ByteAt(data, 3 * g + 2)
      BY <2>3, <3>1, <3>2
    <3> QED
      BY <2>1, <2>5, <2>8, <3>3
  <2>9. CASE p = 2
    <3>0. 4 * g + 3 \in 1..m /\ 4 * g + 4 \in 1..m
      BY <1>1, <2>1, <2>4, <2>9
    <3>1. text[4 * g + 3] = Sextet(b, 2) /\ text[4 * g + 4] = Sextet(b, 3)
      BY <1>3, <2>1, <2>10, <3>0
    <3>2. Decode(text)[j] = 64 * (text[4 * g + 3] % 4) + text[4 * g + 4]
      BY <2>6, <2>9
    <3>3. Decode(text)[j] = ByteAt(data, 3 * g + 3)
      BY <2>3, <3>1, <3>2
    <3> QED
      BY <2>1, <2>5, <2>9, <3>3
  <2> QED
    BY <2>1, <2>7, <2>8, <2>9
<1> QED
  BY <1>2, <1>4

-----------------------------------------------------------------------------
(* The token. *)

LEMMA ClaimsShape ==
  ASSUME KeyAlias \in Seq(Bytes)
  PROVE  /\ Claims \in Seq(Bytes) /\ Len(Claims) = Len(KeyAlias) + 15
         /\ LET whole == Before \o KeyAlias \o <<After[1]>>
            IN  /\ Len(whole) = Len(KeyAlias) + 13
                /\ \A i \in 1..Len(whole) : whole[i] = Claims[i]
<1> DEFINE head == Before \o KeyAlias
           whole == head \o <<After[1]>>
<1>1. /\ Before \in Seq(Bytes) /\ Len(Before) = 12
      /\ After \in Seq(Bytes) /\ Len(After) = 3
      /\ <<After[1]>> \in Seq(Bytes) /\ Len(<<After[1]>>) = 1
      /\ <<After[1]>>[1] = After[1]
  BY DEF Before, After, Bytes
<1>2. head \in Seq(Bytes) /\ Len(head) = Len(KeyAlias) + 12 /\ Len(KeyAlias) \in Nat
  <2>1. Len(KeyAlias) \in Nat
    OBVIOUS
  <2>2. head \in Seq(Bytes)
    BY <1>1, ConcatProperties
  <2>3. Len(head) = Len(Before) + Len(KeyAlias)
    BY <1>1, ConcatProperties, Zenon
  <2> QED
    BY <1>1, <2>1, <2>2, <2>3
<1> HIDE DEF head
<1>3. Claims = head \o After
  BY DEF Claims, head
<1>4. Claims \in Seq(Bytes) /\ Len(Claims) = Len(KeyAlias) + 15
  <2>1. Claims \in Seq(Bytes)
    BY <1>1, <1>2, <1>3, ConcatProperties, Zenon
  <2>2. Len(Claims) = Len(head) + Len(After)
    BY <1>1, <1>2, <1>3, ConcatProperties, Zenon
  <2> QED
    BY <1>1, <1>2, <2>1, <2>2
<1>5. Len(whole) = Len(KeyAlias) + 13
  BY <1>1, <1>2
<1>6. ASSUME NEW i \in 1..Len(whole)
      PROVE  whole[i] = Claims[i]
  <2>1. CASE i <= Len(head)
    BY <1>1, <1>2, <1>3, <1>5, <2>1
  <2>2. CASE i = Len(head) + 1
    <3>1. whole[i] = After[1]
      BY <1>1, <1>2, <2>2, ConcatProperties
    <3>2. Claims[i] = After[1]
      BY <1>1, <1>2, <1>3, <2>2, ConcatProperties
    <3> QED
      BY <3>1, <3>2
  <2> QED
    BY <1>2, <1>5, <2>1, <2>2
<1> QED
  BY <1>4, <1>5, <1>6 DEF head

(* The token names the device, whatever the alias: the byte that init()    *)
(* does not count is the last one, after the alias (AuthManager.cpp:141).  *)
THEOREM TokenHoldsAlias ==
  ASSUME KeyAlias \in Seq(Bytes), auth.token = TokenPayload
  PROVE  TokenNamesDevice
<1> DEFINE data  == SubSeq(Claims, 1, Len(KeyAlias) + 14)
           whole == Before \o KeyAlias \o <<After[1]>>
           text  == Decode(auth.token)
<1>1. /\ Claims \in Seq(Bytes) /\ Len(Claims) = Len(KeyAlias) + 15
      /\ Len(whole) = Len(KeyAlias) + 13
      /\ \A i \in 1..Len(whole) : whole[i] = Claims[i]
  BY ClaimsShape
<1>2. /\ data \in Seq(Bytes) /\ Len(data) = Len(KeyAlias) + 14
      /\ \A i \in 1..Len(data) : data[i] = Claims[i]
  BY <1>1
<1>3. Len(text) = Len(data) /\ \A i \in 1..Len(data) : text[i] = data[i]
  <2>1. text = Decode(base64url(data))
    BY DEF TokenPayload
  <2> HIDE DEF text, data
  <2> QED
    BY <1>2, <2>1, DecodeInverts
<1> HIDE DEF data, whole, text
<1>4. Len(whole) <= Len(text) /\ \A i \in 1..Len(whole) : text[i] = whole[i]
  BY <1>1, <1>2, <1>3
<1> QED
  BY <1>4 DEF TokenNamesDevice, whole, text
=============================================================================
