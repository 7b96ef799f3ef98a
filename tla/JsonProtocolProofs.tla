-------------------------- MODULE JsonProtocolProofs --------------------------
(***************************************************************************)
(* Proofs about JsonProtocol, for texts of every length: what jsonEscape   *)
(* writes, the loop of extractString reads back; the search for a key in   *)
(* quotes finds the key it looks for; and so the messages of the engine    *)
(* can be read, and those of the server are understood.                    *)
(***************************************************************************)
EXTENDS JsonProtocol, SequenceTheorems, NaturalsInduction,
        WellFoundedInduction, TLAPS

(* Induction, for the set of the numbers that have a property. *)
LEMMA SetInduction ==
  ASSUME NEW T, 0 \in T, \A n \in Nat : n \in T => n + 1 \in T
  PROVE  Nat \subseteq T
<1> SUFFICES ASSUME Nat \ T # {} PROVE FALSE
  OBVIOUS
<1>1. PICK m \in Nat \ T : \A y \in Nat \ T : <<y, m>> \notin OpToRel(<, Nat)
  BY WFMin, NatLessThanWellFounded
<1>2. m # 0
  OBVIOUS
<1>3. m - 1 \in Nat /\ m - 1 < m /\ (m - 1) + 1 = m
  BY <1>2
<1>4. m - 1 \in T
  BY <1>1, <1>3 DEF OpToRel
<1>5. m \in T
  BY <1>3, <1>4
<1> QED
  BY <1>5

(* The quantified forms of library theorems that long texts need.          *)
LEMMA Associative ==
  \A a, b, c \in Text : (a \o b) \o c = a \o (b \o c)
BY ConcatAssociative DEF Text

LEMMA Concatenated ==
  \A a, b \in Text :
    /\ a \o b \in Text
    /\ Len(a \o b) = Len(a) + Len(b)
    /\ \A i \in 1..Len(a) : (a \o b)[i] = a[i]
    /\ \A i \in 1..Len(b) : (a \o b)[Len(a) + i] = b[i]
BY DEF Text

LEMMA Extended ==
  \A a, b \in Text : \A c :
    c = a \o b => /\ Len(a) <= Len(c)
                  /\ \A i \in 1..Len(a) : c[i] = a[i]
BY DEF Text

-----------------------------------------------------------------------------
(* A text that is put together from pieces, as jsonEscape and Object do:    *)
(* f[k] is what there is of it after k pieces.                             *)

Joined(n, piece, f) ==
  f = [k \in 0..n |-> IF k = 0 THEN <<>> ELSE f[k - 1] \o piece[k]]

LEMMA JoinDefined ==
  ASSUME NEW n \in Nat, NEW piece
  PROVE  \E f : Joined(n, piece, f)
<1> DEFINE T == {m \in Nat : \E f : Joined(m, piece, f)}
<1>1. 0 \in T
  <2>1. Joined(0, piece, [k \in 0..0 |-> <<>>])
    BY DEF Joined
  <2> QED
    BY <2>1
<1>2. ASSUME NEW m \in Nat, m \in T PROVE m + 1 \in T
  <2>1. PICK g : Joined(m, piece, g)
    BY <1>2
  <2> DEFINE h == [k \in 0..m + 1 |->
                     IF k = 0 THEN <<>> ELSE g[k - 1] \o piece[k]]
  <2>2. \A k \in 0..m : h[k] = g[k]
    BY <2>1 DEF Joined
  <2>3. ASSUME NEW k \in 0..m + 1
        PROVE  (IF k = 0 THEN <<>> ELSE g[k - 1] \o piece[k])
                 = (IF k = 0 THEN <<>> ELSE h[k - 1] \o piece[k])
    <3>1. CASE k = 0
      BY <3>1
    <3>2. CASE k # 0
      <4>1. k - 1 \in 0..m
        BY <3>2
      <4> HIDE DEF h
      <4> QED
        BY <4>1, <2>2
    <3> QED
      BY <3>1, <3>2
  <2>4. Joined(m + 1, piece, h)
    BY <2>3 DEF Joined
  <2> HIDE DEF h
  <2> QED
    BY <2>4
<1> HIDE DEF T
<1>3. Nat \subseteq T
  BY <1>1, <1>2, SetInduction
<1> QED
  BY <1>3 DEF T

LEMMA JoinStep ==
  ASSUME NEW n \in Nat, NEW piece, NEW f, Joined(n, piece, f)
  PROVE  /\ f[0] = <<>>
         /\ \A k \in 1..n : f[k] = f[k - 1] \o piece[k]
BY DEF Joined

LEMMA JoinTyped ==
  ASSUME NEW n \in Nat, NEW piece, NEW f, Joined(n, piece, f),
         \A k \in 1..n : piece[k] \in Text
  PROVE  \A k \in 0..n : f[k] \in Text
<1>0. f[0] = <<>> /\ \A k \in 1..n : f[k] = f[k - 1] \o piece[k]
  BY JoinStep
<1> DEFINE T == {m \in Nat : m <= n => f[m] \in Text}
<1>1. 0 \in T
  <2>1. <<>> \in Text
    BY DEF Text
  <2> QED
    BY <1>0, <2>1
<1>2. ASSUME NEW m \in Nat, m \in T PROVE m + 1 \in T
  <2> SUFFICES ASSUME m + 1 <= n PROVE f[m + 1] \in Text
    OBVIOUS
  <2>1. m + 1 \in 1..n /\ (m + 1) - 1 = m
    OBVIOUS
  <2>2. f[m + 1] = f[m] \o piece[m + 1] /\ piece[m + 1] \in Text
    BY <1>0, <2>1
  <2>3. f[m] \in Text
    BY <1>2
  <2> QED
    BY <2>2, <2>3, Concatenated
<1> HIDE DEF T
<1>3. Nat \subseteq T
  BY <1>1, <1>2, SetInduction
<1> QED
  BY <1>3 DEF T

(* The text begins with what there is of it after k pieces ... *)
LEMMA JoinKept ==
  ASSUME NEW n \in Nat, NEW piece, NEW f, Joined(n, piece, f),
         \A k \in 1..n : piece[k] \in Text, NEW k \in 0..n
  PROVE  /\ Len(f[k]) <= Len(f[n])
         /\ \A i \in 1..Len(f[k]) : f[n][i] = f[k][i]
<1> DEFINE Kept(m) == /\ Len(f[k]) <= Len(f[m])
                      /\ \A i \in 1..Len(f[k]) : f[m][i] = f[k][i]
           T == {d \in Nat : k + d <= n => Kept(k + d)}
<1>steps. f[0] = <<>> /\ \A j \in 1..n : f[j] = f[j - 1] \o piece[j]
  BY JoinStep
<1>0. \A m \in 0..n : f[m] \in Text
  BY JoinTyped
<1>1. 0 \in T
  BY <1>0 DEF Text
<1>2. ASSUME NEW d \in Nat, d \in T PROVE d + 1 \in T
  <2> SUFFICES ASSUME k + (d + 1) <= n PROVE Kept(k + (d + 1))
    OBVIOUS
  <2>1. PICK m : m = k + d
    OBVIOUS
  <2>2. m \in 0..n /\ m + 1 \in 1..n /\ (m + 1) - 1 = m
    BY <2>1
  <2>3. Kept(m)
    BY <1>2, <2>1, <2>2
  <2>4. f[m + 1] = f[m] \o piece[m + 1] /\ piece[m + 1] \in Text
    BY <1>steps, <2>2
  <2>5. f[m] \in Text /\ f[k] \in Text
    BY <1>0, <2>2
  <2>6. /\ Len(f[m]) <= Len(f[m + 1])
        /\ \A i \in 1..Len(f[m]) : f[m + 1][i] = f[m][i]
    <3>1. PICK a \in Text, b \in Text, c \in {f[m + 1]} :
               a = f[m] /\ b = piece[m + 1] /\ c = f[m + 1]
      BY <2>4, <2>5
    <3>2. c = a \o b
      BY <2>4, <3>1
    <3>3. Len(a) <= Len(c) /\ \A i \in 1..Len(a) : c[i] = a[i]
      BY <3>2, Extended
    <3> QED
      BY <3>1, <3>3
  <2>7. Kept(m + 1)
    <3>1. f[m + 1] \in Text
      BY <1>0, <2>2
    <3> QED
      BY <2>3, <2>5, <2>6, <3>1 DEF Text
  <2> QED
    BY <2>1, <2>7
<1> HIDE DEF T
<1>3. Nat \subseteq T
  BY <1>1, <1>2, SetInduction
<1>4. n - k \in Nat /\ k + (n - k) = n
  OBVIOUS
<1>5. n - k \in T
  BY <1>3, <1>4
<1> QED
  BY <1>4, <1>5 DEF T

(* ... and has every piece after the ones before it.  Holds says that a    *)
(* text has another one after its first `at` tokens.                       *)
Holds(text, at, t) ==
  /\ at + Len(t) <= Len(text)
  /\ \A i \in 1..Len(t) : text[at + i] = t[i]

LEMMA JoinHolds ==
  ASSUME NEW n \in Nat, NEW piece, NEW f, Joined(n, piece, f),
         \A k \in 1..n : piece[k] \in Text, NEW k \in 1..n
  PROVE  /\ Len(f[k]) = Len(f[k - 1]) + Len(piece[k])
         /\ Holds(f[n], Len(f[k - 1]), piece[k])
<1>1. PICK a, b, c, whole :
        a = f[k - 1] /\ b = piece[k] /\ c = f[k] /\ whole = f[n]
  OBVIOUS
<1>2. a \in Text /\ b \in Text /\ c \in Text /\ whole \in Text
  <2>1. k - 1 \in 0..n /\ k \in 0..n /\ n \in 0..n
    OBVIOUS
  <2> QED
    BY <1>1, <2>1, JoinTyped
<1>3. c = a \o b
  BY <1>1, JoinStep
<1>4. Len(c) <= Len(whole) /\ \A i \in 1..Len(c) : whole[i] = c[i]
  <2>1. k \in 0..n
    OBVIOUS
  <2> QED
    BY <1>1, <2>1, JoinKept
<1>5. /\ Len(c) = Len(a) + Len(b)
      /\ \A i \in 1..Len(b) : c[Len(a) + i] = b[i]
  BY <1>2, <1>3, Concatenated
<1>6. Holds(whole, Len(a), b)
  BY <1>2, <1>4, <1>5 DEF Holds, Text
<1> QED
  BY <1>1, <1>5, <1>6

LEMMA HoldsConcatenated ==
  ASSUME NEW text \in Text, NEW at \in Nat, NEW a \in Text, NEW b \in Text
  PROVE  Holds(text, at, a \o b) <=> /\ Holds(text, at, a)
                                    /\ Holds(text, at + Len(a), b)
<1> DEFINE c == a \o b
<1>1. /\ c \in Text /\ Len(c) = Len(a) + Len(b)
      /\ \A i \in 1..Len(a) : c[i] = a[i]
      /\ \A i \in 1..Len(b) : c[Len(a) + i] = b[i]
  BY Concatenated
<1> HIDE DEF c
<1>2. Holds(text, at, c) => Holds(text, at, a) /\ Holds(text, at + Len(a), b)
  <2> SUFFICES ASSUME Holds(text, at, c)
               PROVE  Holds(text, at, a) /\ Holds(text, at + Len(a), b)
    OBVIOUS
  <2>1. Holds(text, at, a)
    BY <1>1 DEF Holds, Text
  <2>2. Holds(text, at + Len(a), b)
    <3>1. at + Len(a) + Len(b) <= Len(text)
      BY <1>1 DEF Holds, Text
    <3>2. ASSUME NEW i \in 1..Len(b) PROVE text[at + Len(a) + i] = b[i]
      <4>1. Len(a) + i \in 1..Len(c) /\ at + (Len(a) + i) = at + Len(a) + i
        BY <1>1 DEF Text
      <4> QED
        BY <1>1, <4>1 DEF Holds
    <3> QED
      BY <3>1, <3>2 DEF Holds
  <2> QED
    BY <2>1, <2>2
<1>3. Holds(text, at, a) /\ Holds(text, at + Len(a), b) => Holds(text, at, c)
  <2> SUFFICES ASSUME Holds(text, at, a), Holds(text, at + Len(a), b)
               PROVE  Holds(text, at, c)
    OBVIOUS
  <2>1. at + Len(c) <= Len(text)
    BY <1>1 DEF Holds, Text
  <2>2. ASSUME NEW i \in 1..Len(c) PROVE text[at + i] = c[i]
    <3>1. CASE i <= Len(a)
      BY <1>1, <3>1 DEF Holds, Text
    <3>2. CASE i > Len(a)
      <4>1. PICK j \in 1..Len(b) : i = Len(a) + j
        <5>1. i - Len(a) \in 1..Len(b) /\ i = Len(a) + (i - Len(a))
          BY <1>1, <3>2 DEF Text
        <5> QED
          BY <5>1
      <4>2. at + Len(a) + j = at + i
        BY <4>1 DEF Text
      <4> QED
        BY <1>1, <4>1, <4>2 DEF Holds
    <3> QED
      BY <1>1, <3>1, <3>2 DEF Text
  <2> QED
    BY <2>1, <2>2 DEF Holds
<1> QED
  BY <1>2, <1>3 DEF c

(* The same, for a text that has a name of its own.                        *)
LEMMA Joint ==
  \A a, b \in Text : \A c :
    c = a \o b => /\ c \in Text /\ Len(c) = Len(a) + Len(b)
                  /\ Len(a) \in Nat /\ Len(b) \in Nat
BY Concatenated DEF Text

LEMMA HoldsJoint ==
  \A text, a, b \in Text : \A at \in Nat : \A c :
    c = a \o b /\ Holds(text, at, c) =>
      Holds(text, at, a) /\ Holds(text, at + Len(a), b)
BY HoldsConcatenated

-----------------------------------------------------------------------------
(* Writing a value: jsonEscape. *)

LEMMA EscapedTyped ==
  ASSUME NEW c \in Tokens
  PROVE  /\ Escaped(c) \in Text
         /\ c \in Special => Escaped(c) = <<BS, Letter(c)>>
         /\ c \notin Special => Escaped(c) = <<c>>
<1>1. BS \in Tokens /\ Letter(c) \in Tokens
  BY TokensAssumption DEF Letter, BS
<1>2. CASE c \in Special
  BY <1>1, <1>2 DEF Escaped, Text
<1>3. CASE c \notin Special
  BY <1>3 DEF Escaped, Text
<1> QED
  BY <1>2, <1>3

(* f[k] is what has been written of s after k characters. *)
Escapes(s) == [k \in 1..Len(s) |-> Escaped(s[k])]

LEMMA EscapesTyped ==
  ASSUME NEW s \in Text
  PROVE  /\ Len(s) \in Nat
         /\ \A k \in 1..Len(s) : /\ s[k] \in Tokens
                                  /\ Escapes(s)[k] = Escaped(s[k])
                                  /\ Escapes(s)[k] \in Text
BY EscapedTyped DEF Escapes, Text

LEMMA EscapeDefined ==
  ASSUME NEW s \in Text
  PROVE  \E f : Joined(Len(s), Escapes(s), f) /\ jsonEscape(s) = f[Len(s)]
<1> DEFINE Out(f) ==
      f = [k \in 0..Len(s) |-> IF k = 0 THEN <<>> ELSE f[k - 1] \o Escaped(s[k])]
<1>1. \A f : Out(f) <=> Joined(Len(s), Escapes(s), f)
  <2> TAKE f
  <2>1. \A k \in 0..Len(s) :
          (IF k = 0 THEN <<>> ELSE f[k - 1] \o Escaped(s[k]))
            = (IF k = 0 THEN <<>> ELSE f[k - 1] \o Escapes(s)[k])
    BY DEF Escapes, Text
  <2> QED
    BY <2>1 DEF Joined
<1>2. \E f : Out(f)
  BY <1>1, JoinDefined, EscapesTyped
<1>3. Out(CHOOSE f : Out(f)) /\ jsonEscape(s) = (CHOOSE f : Out(f))[Len(s)]
  BY <1>2 DEF jsonEscape
<1> HIDE DEF Out
<1> QED
  BY <1>1, <1>3

(* Every quote in a text that is escaped comes after a backslash. *)
QuotesEscaped(t) == \A i \in 1..Len(t) : t[i] = Q => i > 1 /\ t[i - 1] = BS

LEMMA EscapeQuotes ==
  ASSUME NEW s \in Text
  PROVE  jsonEscape(s) \in Text /\ QuotesEscaped(jsonEscape(s))
<1>1. PICK f : Joined(Len(s), Escapes(s), f) /\ jsonEscape(s) = f[Len(s)]
  BY EscapeDefined
<1>2. \A k \in 0..Len(s) : f[k] \in Text
  BY <1>1, EscapesTyped, JoinTyped
<1>steps. f[0] = <<>> /\ \A k \in 1..Len(s) : f[k] = f[k - 1] \o Escapes(s)[k]
  BY <1>1, EscapesTyped, JoinStep
<1> DEFINE T == {n \in Nat : n <= Len(s) => QuotesEscaped(f[n])}
<1>3. 0 \in T
  BY <1>steps DEF QuotesEscaped, Text
<1>4. ASSUME NEW n \in Nat, n \in T PROVE n + 1 \in T
  <2> SUFFICES ASSUME n + 1 <= Len(s) PROVE QuotesEscaped(f[n + 1])
    OBVIOUS
  <2>1. n + 1 \in 1..Len(s) /\ n \in 0..Len(s) /\ (n + 1) - 1 = n
    BY DEF Text
  <2> DEFINE a == f[n]
             b == Escaped(s[n + 1])
  <2>2. s[n + 1] \in Tokens /\ f[n + 1] = a \o b
    BY <1>steps, <2>1, EscapesTyped
  <2>3. a \in Text /\ b \in Text /\ QuotesEscaped(a)
    BY <1>2, <1>4, <2>1, <2>2, EscapedTyped DEF Text
  <2>4. QuotesEscaped(b)
    <3>1. CASE s[n + 1] \in Special
      <4>1. b = <<BS, Letter(s[n + 1])>>
        BY <2>2, <3>1, EscapedTyped
      <4>2. Len(b) = 2 /\ b[1] = BS /\ BS # Q
        BY <4>1 DEF BS, Q
      <4> HIDE DEF b
      <4> QED
        BY <4>2 DEF QuotesEscaped
    <3>2. CASE s[n + 1] \notin Special
      BY <2>2, <3>2, EscapedTyped DEF Special, QuotesEscaped
    <3> QED
      BY <3>1, <3>2
  <2> HIDE DEF a, b
  <2>5. ASSUME NEW i \in 1..Len(a \o b), (a \o b)[i] = Q
        PROVE  i > 1 /\ (a \o b)[i - 1] = BS
    <3>1. CASE i <= Len(a)
      BY <2>3, <2>5, <3>1, Concatenated DEF QuotesEscaped, Text
    <3>2. CASE i > Len(a)
      <4>1. i - Len(a) \in 1..Len(b) /\ Len(a) + (i - Len(a)) = i
        BY <2>3, <3>2, Concatenated DEF Text
      <4>2. b[i - Len(a)] = Q
        BY <2>3, <2>5, <4>1, Concatenated
      <4>3. i - Len(a) > 1 /\ b[i - Len(a) - 1] = BS
        BY <2>4, <4>1, <4>2 DEF QuotesEscaped
      <4>4. /\ i - Len(a) - 1 \in 1..Len(b)
            /\ Len(a) + (i - Len(a) - 1) = i - 1
        BY <2>3, <4>1, <4>3 DEF Text
      <4> QED
        BY <2>3, <4>3, <4>4, Concatenated DEF Text
    <3> QED
      BY <2>3, <3>1, <3>2 DEF Text
  <2> QED
    BY <2>2, <2>5 DEF QuotesEscaped
<1> HIDE DEF T
<1>5. Nat \subseteq T
  BY <1>3, <1>4, SetInduction
<1> QED
  BY <1>1, <1>2, <1>5 DEF T, Text

-----------------------------------------------------------------------------
(* Reading a value: the loop of extractString. *)

(* What is read from the i-th token on, when read[j] is read from the j-th. *)
ReadFrom(json, read, i) ==
  CASE i > Len(json)                 -> <<>>
    [] json[i] = BS /\ i < Len(json) -> <<Unescaped(json[i + 1])>> \o read[i + 2]
    [] json[i] = Q                   -> <<>>
    [] OTHER                         -> <<json[i]>> \o read[i + 1]

Reads(json, start, read) ==
  read = [i \in start..Len(json) + 2 |-> ReadFrom(json, read, i)]

LEMMA ReadDefined ==
  ASSUME NEW json \in Text, NEW start \in 1..Len(json) + 2
  PROVE  \E read : Reads(json, start, read) /\ ReadValue(json, start) = read[start]
<1> DEFINE end == Len(json) + 2
           T == {d \in Nat : d <= end - start => \E g : Reads(json, end - d, g)}
<1>0. Len(json) \in Nat /\ end \in Nat
  BY DEF Text
<1>1. 0 \in T
  <2>1. \A i \in end - 0..Len(json) + 2 : \A g : ReadFrom(json, g, i) = <<>>
    BY <1>0 DEF ReadFrom
  <2>2. Reads(json, end - 0, [i \in end - 0..Len(json) + 2 |-> <<>>])
    BY <2>1 DEF Reads
  <2> QED
    BY <2>2
<1>2. ASSUME NEW d \in Nat, d \in T PROVE d + 1 \in T
  <2> SUFFICES ASSUME d + 1 <= end - start
               PROVE  \E g : Reads(json, end - (d + 1), g)
    OBVIOUS
  <2>1. PICK at : at = end - (d + 1)
    OBVIOUS
  <2>2. at \in start..Len(json) + 1 /\ at + 1 = end - d /\ d <= end - start
    BY <1>0, <2>1
  <2>3. PICK g : Reads(json, at + 1, g)
    BY <1>2, <2>2
  <2> DEFINE h == [i \in at..Len(json) + 2 |-> ReadFrom(json, g, i)]
  <2>4. \A i \in at + 1..Len(json) + 2 : h[i] = g[i]
    BY <1>0, <2>2, <2>3 DEF Reads
  <2>5. ASSUME NEW i \in at..Len(json) + 2
        PROVE  ReadFrom(json, g, i) = ReadFrom(json, h, i)
    <3>1. i \in Nat
      BY <1>0, <2>2
    <3>2. CASE i > Len(json)
      BY <1>0, <3>1, <3>2 DEF ReadFrom
    <3>3. CASE i <= Len(json)
      <4>1. i + 1 \in at + 1..Len(json) + 2 /\ i + 2 \in at + 1..Len(json) + 2
        BY <1>0, <2>2, <3>1, <3>3
      <4>2. h[i + 1] = g[i + 1] /\ h[i + 2] = g[i + 2]
        BY <2>4, <4>1
      <4> HIDE DEF h
      <4> QED
        BY <4>2 DEF ReadFrom
    <3> QED
      BY <1>0, <3>1, <3>2, <3>3
  <2>6. Reads(json, at, h)
    BY <2>5 DEF Reads
  <2> HIDE DEF h
  <2> QED
    BY <2>1, <2>6
<1>3. \E read : Reads(json, start, read)
  <2> HIDE DEF T
  <2>1. Nat \subseteq T
    BY <1>1, <1>2, SetInduction
  <2>2. end - start \in Nat /\ end - (end - start) = start
    BY <1>0
  <2>3. end - start \in T
    BY <2>1, <2>2
  <2> QED
    BY <2>2, <2>3 DEF T
<1> QED
  BY <1>3 DEF ReadValue, Reads, ReadFrom

(* A letter stands for the character it was made from. *)
LEMMA Unescape == \A c \in Special : Unescaped(Letter(c)) = c
BY DEF Special, Unescaped, Letter, Q, BS, LF, CR, TAB

(* What jsonEscape has written, up to the quote after it, is read back.    *)
LEMMA ReadBack ==
  ASSUME NEW json \in Text, NEW at \in Nat, NEW s \in Text,
         Holds(json, at, jsonEscape(s)),
         Holds(json, at + Len(jsonEscape(s)), <<Q>>)
  PROVE  ReadValue(json, at + 1) = s
<1>1. PICK f : Joined(Len(s), Escapes(s), f) /\ jsonEscape(s) = f[Len(s)]
  BY EscapeDefined
<1> DEFINE n == Len(s)
           At(k) == at + Len(f[k]) + 1
<1>2. /\ n \in Nat
      /\ \A k \in 1..n : /\ s[k] \in Tokens
                         /\ Escapes(s)[k] = Escaped(s[k])
                         /\ Escapes(s)[k] \in Text
  BY EscapesTyped
<1>3. \A k \in 0..n : f[k] \in Text
  BY <1>1, <1>2, JoinTyped
<1>4. /\ at + Len(f[n]) + 1 <= Len(json)
      /\ json[at + Len(f[n]) + 1] = Q
  BY <1>1 DEF Holds
<1>5. at + 1 \in 1..Len(json) + 2
  BY <1>2, <1>3, <1>4 DEF Text
<1>6. PICK read : /\ Reads(json, at + 1, read)
                  /\ ReadValue(json, at + 1) = read[at + 1]
  BY <1>5, ReadDefined
<1>7. \A i \in at + 1..Len(json) : read[i] = ReadFrom(json, read, i)
  <2> TAKE i \in at + 1..Len(json)
  <2>1. i \in at + 1..Len(json) + 2
    BY DEF Text
  <2> QED
    BY <1>6, <2>1 DEF Reads
<1>8. Len(f[0]) = 0
  <2>1. f[0] = <<>>
    BY <1>1, <1>2, JoinStep
  <2> QED
    BY <2>1
<1> DEFINE T == {d \in Nat : d <= n => read[At(n - d)] = SubSeq(s, n - d + 1, n)}
<1>9. 0 \in T
  <2>1. PICK i : i = At(n)
    OBVIOUS
  <2>2. i \in at + 1..Len(json) /\ json[i] = Q /\ Q # BS
    <3>1. Len(f[n]) \in Nat /\ Len(json) \in Nat
      BY <1>2, <1>3 DEF Text
    <3>2. Q # BS
      BY DEF Q, BS
    <3> QED
      BY <1>4, <2>1, <3>1, <3>2
  <2>3. read[i] = <<>>
    BY <1>7, <2>2 DEF ReadFrom, Text
  <2>4. SubSeq(s, n - 0 + 1, n) = <<>> /\ n - 0 = n
    BY <1>2, SubSeqEmpty
  <2> QED
    BY <2>1, <2>3, <2>4
<1>10. ASSUME NEW d \in Nat, d \in T PROVE d + 1 \in T
  <2> SUFFICES ASSUME d + 1 <= n
               PROVE  read[At(n - (d + 1))] = SubSeq(s, n - (d + 1) + 1, n)
    OBVIOUS
  <2>1. PICK k : k = n - d
    OBVIOUS
  <2>2. k \in 1..n /\ n - (d + 1) = k - 1 /\ (k - 1) + 1 = k /\ d <= n
    BY <1>2, <2>1
  <2>3. read[At(k)] = SubSeq(s, k + 1, n)
    BY <1>10, <2>1, <2>2
  <2>4. SubSeq(s, k, n) = <<s[k]>> \o SubSeq(s, k + 1, n)
    BY <2>2, SubSeqRecursiveFirst DEF Text
  <2>5. /\ Len(f[k]) = Len(f[k - 1]) + Len(Escapes(s)[k])
        /\ Holds(f[n], Len(f[k - 1]), Escapes(s)[k])
    BY <1>1, <1>2, <2>2, JoinHolds
  <2>6. f[k - 1] \in Text /\ f[k] \in Text /\ f[n] \in Text
    BY <1>2, <1>3, <2>2
  <2>7. PICK i, e : i = At(k - 1) /\ e = Escapes(s)[k]
    OBVIOUS
  <2>8. /\ i \in at + 1..Len(json)
        /\ At(k) = i + Len(e)
        /\ i + Len(e) <= Len(json)
        /\ \A j \in 1..Len(e) : json[i + j - 1] = e[j]
    <3>1. PICK a, w : a = Len(f[k - 1]) /\ w = f[n]
      OBVIOUS
    <3>2. a \in Nat /\ Len(w) \in Nat /\ Len(e) \in Nat /\ Len(json) \in Nat
      <4>1. f[k - 1] \in Text /\ w \in Text /\ e \in Text
        BY <1>2, <2>2, <2>6, <2>7, <3>1
      <4> QED
        BY <3>1, <4>1 DEF Text
    <3>3. /\ a + Len(e) <= Len(w)
          /\ \A j \in 1..Len(e) : w[a + j] = e[j]
      BY <2>5, <2>7, <3>1 DEF Holds
    <3>4. \A j \in 1..Len(w) : json[at + j] = w[j]
      BY <1>1, <3>1 DEF Holds
    <3>5. /\ i = at + a + 1
          /\ At(k) = at + (a + Len(e)) + 1
          /\ at + Len(w) + 1 <= Len(json)
      BY <1>4, <2>5, <2>7, <3>1
    <3>6. ASSUME NEW j \in 1..Len(e) PROVE json[i + j - 1] = e[j]
      <4>1. a + j \in 1..Len(w) /\ at + (a + j) = i + j - 1
        BY <3>2, <3>3, <3>5
      <4> QED
        BY <3>3, <3>4, <4>1
    <3> HIDE DEF At
    <3> QED
      BY <3>2, <3>3, <3>5, <3>6
  <2>9. read[i] = <<s[k]>> \o read[At(k)]
    <3> HIDE DEF At
    <3>0. s[k] \in Tokens /\ e = Escaped(s[k]) /\ Len(json) \in Nat /\ Q # BS
      <4>1. Q # BS
        BY DEF Q, BS
      <4>2. Len(json) \in Nat
        BY DEF Text
      <4> QED
        BY <1>2, <2>2, <2>7, <4>1, <4>2
    <3>1. CASE s[k] \in Special
      <4>1. e = <<BS, Letter(s[k])>>
        BY <3>0, <3>1, EscapedTyped
      <4>2. Len(e) = 2 /\ e[1] = BS /\ e[2] = Letter(s[k])
        BY <4>1
      <4>3. json[i] = BS /\ json[i + 1] = Letter(s[k]) /\ i < Len(json)
        <5>1. i + 1 - 1 = i /\ i + 2 - 1 = i + 1
          BY <2>8
        <5>2. 1 \in 1..Len(e) /\ 2 \in 1..Len(e)
          BY <4>2
        <5>3. json[i + 1 - 1] = e[1] /\ json[i + 2 - 1] = e[2]
          BY <2>8, <5>2
        <5>4. i < Len(json)
          BY <2>8, <3>0, <4>2
        <5> QED
          BY <4>2, <5>1, <5>3, <5>4
      <4>4. read[i] = <<Unescaped(json[i + 1])>> \o read[i + 2]
        <5>1. ~(i > Len(json))
          BY <2>8, <3>0
        <5>2. read[i] = ReadFrom(json, read, i)
          BY <1>7, <2>8
        <5> QED
          BY <3>0, <4>3, <5>1, <5>2 DEF ReadFrom
      <4> QED
        BY <2>8, <3>1, <4>2, <4>3, <4>4, Unescape
    <3>2. CASE s[k] \notin Special
      <4>1. e = <<s[k]>>
        BY <3>0, <3>2, EscapedTyped
      <4>2. Len(e) = 1 /\ e[1] = s[k]
        BY <4>1
      <4>3. json[i] = s[k]
        <5>1. 1 \in 1..Len(e) /\ i + 1 - 1 = i
          BY <2>8, <4>2
        <5>2. json[i + 1 - 1] = e[1]
          BY <2>8, <5>1
        <5> QED
          BY <4>2, <5>1, <5>2
      <4>4. s[k] # BS /\ s[k] # Q
        BY <3>2 DEF Special
      <4>5. read[i] = <<s[k]>> \o read[i + 1]
        <5>1. ~(i > Len(json))
          BY <2>8, <3>0
        <5>2. read[i] = ReadFrom(json, read, i)
          BY <1>7, <2>8
        <5> QED
          BY <4>3, <4>4, <5>1, <5>2 DEF ReadFrom
      <4> QED
        BY <2>8, <4>2, <4>5
    <3> QED
      BY <3>1, <3>2
  <2> QED
    BY <2>2, <2>3, <2>4, <2>7, <2>9
<1> QED
  <2> HIDE DEF T
  <2>1. Nat \subseteq T
    BY <1>9, <1>10, SetInduction
  <2>2. n \in T /\ n - n = 0
    BY <1>2, <2>1
  <2>3. read[At(0)] = SubSeq(s, 1, n)
    BY <1>2, <2>2 DEF T
  <2>4. At(0) = at + 1
    BY <1>8
  <2>5. SubSeq(s, 1, n) = s
    BY SubSeqFull DEF Text
  <2> QED
    BY <1>6, <2>3, <2>4, <2>5

-----------------------------------------------------------------------------
(* Searching: std::string::find. *)

LEMMA Occurs ==
  ASSUME NEW text \in Text, NEW needle \in Text,
         NEW i \in 1..Len(text) - Len(needle) + 1
  PROVE  SubSeq(text, i, i + Len(needle) - 1) = needle
           <=> Holds(text, i - 1, needle)
<1> DEFINE m == Len(needle)
           t == SubSeq(text, i, i + m - 1)
<1>0. /\ m \in Nat /\ Len(text) \in Nat /\ i \in Nat
      /\ i + m - 1 <= Len(text)
  BY DEF Text
<1>1. \A j \in i..i + m - 1 : text[j] \in Tokens
  BY <1>0 DEF Text
<1>2. /\ t \in Seq(Tokens)
      /\ Len(t) = IF i <= i + m - 1 THEN i + m - 1 - i + 1 ELSE 0
      /\ \A j \in 1..i + m - 1 - i + 1 : t[j] = text[i + j - 1]
  <2>1. PICK j : j = i + m - 1
    OBVIOUS
  <2>2. i \in Int /\ j \in Int /\ \A k \in i..j : text[k] \in Tokens
    BY <1>0, <1>1, <2>1
  <2>3. /\ SubSeq(text, i, j) \in Seq(Tokens)
        /\ Len(SubSeq(text, i, j)) = IF i <= j THEN j - i + 1 ELSE 0
        /\ \A k \in 1..j - i + 1 : SubSeq(text, i, j)[k] = text[i + k - 1]
    BY <2>2, SubSeqProperties
  <2> QED
    BY <2>1, <2>3
<1>3. Len(t) = m /\ \A j \in 1..m : t[j] = text[(i - 1) + j]
  <2>1. i + m - 1 - i + 1 = m
    BY <1>0
  <2>2. \A j \in 1..m : i + j - 1 = (i - 1) + j
    BY <1>0
  <2> HIDE DEF t
  <2> QED
    BY <1>0, <1>2, <2>1, <2>2
<1> HIDE DEF t
<1>4. t = needle => Holds(text, i - 1, needle)
  BY <1>0, <1>3 DEF Holds
<1>5. Holds(text, i - 1, needle) => t = needle
  <2> SUFFICES ASSUME Holds(text, i - 1, needle) PROVE t = needle
    OBVIOUS
  <2>1. \A j \in 1..m : t[j] = needle[j]
    BY <1>3 DEF Holds
  <2> QED
    BY <1>2, <1>3, <2>1, SeqEqual DEF Text
<1> QED
  BY <1>4, <1>5 DEF t

(* The first place is found, when there is one. *)
LEMMA FindFirst ==
  ASSUME NEW text \in Text, NEW needle \in Text, NEW start \in Nat \ {0},
         NEW p \in Nat, start <= p, Holds(text, p - 1, needle)
  PROVE  LET at == Find(text, needle, start)
         IN  /\ at \in start..p
             /\ Holds(text, at - 1, needle)
             /\ \A j \in start..at - 1 : ~Holds(text, j - 1, needle)
<1> DEFINE last == Len(text) - Len(needle) + 1
           At   == {i \in start..last :
                      SubSeq(text, i, i + Len(needle) - 1) = needle}
<1>0. Len(needle) \in Nat /\ Len(text) \in Nat /\ p <= last
  BY DEF Text, Holds
<1>1. \A i \in start..last : i \in At <=> Holds(text, i - 1, needle)
  BY <1>0, Occurs
<1>2. p \in At
  BY <1>0, <1>1
<1> HIDE DEF At
<1>3. At \subseteq Nat /\ At \subseteq start..last
  BY <1>0 DEF At
<1>4. \E i \in At : \A j \in At : i <= j
  <2>1. PICK i \in At : \A j \in At : <<j, i>> \notin OpToRel(<, Nat)
    BY <1>2, <1>3, WFMin, NatLessThanWellFounded
  <2>2. \A j \in At : ~(j < i)
    BY <1>3, <2>1 DEF OpToRel
  <2> QED
    BY <1>3, <2>2
<1>5. PICK at : at = CHOOSE i \in At : \A j \in At : i <= j
  OBVIOUS
<1>6. at \in At /\ \A j \in At : at <= j
  BY <1>4, <1>5
<1>7. Find(text, needle, start) = at
  BY <1>2, <1>5 DEF Find, At
<1>8. at \in start..p /\ at \in start..last
  BY <1>0, <1>2, <1>3, <1>6
<1>9. Holds(text, at - 1, needle)
  BY <1>1, <1>6, <1>8
<1>10. ASSUME NEW j \in start..at - 1 PROVE ~Holds(text, j - 1, needle)
  <2>1. j \in start..last /\ ~(at <= j)
    BY <1>0, <1>8
  <2> QED
    BY <1>1, <1>6, <2>1
<1> QED
  BY <1>7, <1>8, <1>9, <1>10

LEMMA FindToken ==
  ASSUME NEW text \in Text, NEW c \in Tokens, NEW start \in Nat \ {0},
         NEW p \in start..Len(text), text[p] = c,
         \A j \in start..p - 1 : text[j] # c
  PROVE  Find(text, <<c>>, start) = p
<1>1. <<c>> \in Text /\ Len(<<c>>) = 1 /\ <<c>>[1] = c
  BY DEF Text
<1>2. \A i \in 1..Len(text) : Holds(text, i - 1, <<c>>) <=> text[i] = c
  <2> TAKE i \in 1..Len(text)
  <2>1. Len(text) \in Nat /\ i - 1 + 1 = i /\ (i - 1) + 1 <= Len(text)
    BY DEF Text
  <2>2. 1..Len(<<c>>) = {1}
    BY <1>1
  <2>3. Holds(text, i - 1, <<c>>) <=> text[(i - 1) + 1] = <<c>>[1]
    BY <1>1, <2>1, <2>2 DEF Holds
  <2> QED
    BY <1>1, <2>1, <2>3
<1>3. p \in Nat /\ start <= p /\ p \in 1..Len(text)
  BY DEF Text
<1>4. Holds(text, p - 1, <<c>>)
  BY <1>2, <1>3
<1>5. PICK at : at = Find(text, <<c>>, start)
  OBVIOUS
<1>6. at \in start..p /\ Holds(text, at - 1, <<c>>)
  BY <1>1, <1>3, <1>4, <1>5, FindFirst
<1>7. at \in 1..Len(text)
  BY <1>3, <1>6
<1>8. at \notin start..p - 1
  BY <1>2, <1>6, <1>7
<1> QED
  BY <1>3, <1>5, <1>6, <1>8

(* The first place where a key stands in quotes is not after p. *)
KeyAt(text, key, i) ==
  /\ i + 2 <= Len(text)
  /\ text[i] = Q /\ text[i + 1] = key /\ text[i + 2] = Q

LEMMA FindKey ==
  ASSUME NEW text \in Text, NEW key \in Tokens, NEW p \in Nat \ {0},
         KeyAt(text, key, p)
  PROVE  LET at == Find(text, Quoted(<<key>>), 1)
         IN  at \in 1..p /\ KeyAt(text, key, at)
<1>1. PICK needle : needle = Quoted(<<key>>)
  OBVIOUS
<1>2. /\ needle \in Text /\ Len(needle) = 3
      /\ needle[1] = Q /\ needle[2] = key /\ needle[3] = Q
  <2>1. PICK a, b : a = <<Q>> /\ b = <<key>>
    OBVIOUS
  <2>0. Q \in Tokens
    BY TokensAssumption
  <2>2. a \in Text /\ Len(a) = 1 /\ a[1] = Q
    BY <2>0, <2>1 DEF Text
  <2>3. b \in Text /\ Len(b) = 1 /\ b[1] = key
    BY <2>1 DEF Text
  <2>4. PICK c : c = a \o b
    OBVIOUS
  <2>5. c \in Text /\ Len(c) = 2 /\ c[1] = Q /\ c[2] = key
    <3>1. /\ c \in Text /\ Len(c) = Len(a) + Len(b)
          /\ \A i \in 1..Len(a) : c[i] = a[i]
          /\ \A i \in 1..Len(b) : c[Len(a) + i] = b[i]
      BY <2>2, <2>3, <2>4, Concatenated
    <3>2. 1 \in 1..Len(a) /\ 1 \in 1..Len(b) /\ Len(a) + 1 = 2
      BY <2>2, <2>3
    <3> QED
      BY <2>2, <2>3, <3>1, <3>2
  <2>6. needle = c \o a
    BY <1>1, <2>1, <2>4 DEF Quoted
  <2>7. /\ needle \in Text /\ Len(needle) = Len(c) + Len(a)
        /\ \A i \in 1..Len(c) : needle[i] = c[i]
        /\ \A i \in 1..Len(a) : needle[Len(c) + i] = a[i]
    BY <2>2, <2>5, <2>6, Concatenated
  <2>8. /\ 1 \in 1..Len(c) /\ 2 \in 1..Len(c) /\ 1 \in 1..Len(a)
        /\ Len(c) + 1 = 3
    BY <2>2, <2>5
  <2> QED
    BY <2>2, <2>5, <2>7, <2>8
<1>3. \A i \in Nat \ {0} : Holds(text, i - 1, needle) <=> KeyAt(text, key, i)
  <2> TAKE i \in Nat \ {0}
  <2>1. /\ (i - 1) + 1 = i /\ (i - 1) + 2 = i + 1 /\ (i - 1) + 3 = i + 2
        /\ 1..Len(needle) = {1, 2, 3}
    BY <1>2
  <2>2. Holds(text, i - 1, needle)
          <=> /\ (i - 1) + 3 <= Len(text)
              /\ text[(i - 1) + 1] = needle[1]
              /\ text[(i - 1) + 2] = needle[2]
              /\ text[(i - 1) + 3] = needle[3]
    BY <1>2, <2>1 DEF Holds
  <2> QED
    BY <1>2, <2>1, <2>2 DEF KeyAt
<1>4. Holds(text, p - 1, needle)
  BY <1>3
<1>5. PICK at : at = Find(text, needle, 1)
  OBVIOUS
<1>6. at \in 1..p /\ Holds(text, at - 1, needle)
  BY <1>2, <1>4, <1>5, FindFirst
<1>7. KeyAt(text, key, at)
  BY <1>3, <1>6
<1> QED
  BY <1>1, <1>5, <1>6, <1>7

-----------------------------------------------------------------------------
(* What the text of an object looks like. *)

Keys   == SdpKeys \cup IceKeys
Blanks == {<<>>, <<Space>>}

LEMMA KeysTyped ==
  /\ Keys \subseteq Tokens
  /\ {Q, Colon, Space, Comma, Open, Close} \subseteq Tokens
  /\ \A K \in Keys : K \notin {Q, BS, Colon, Space, Comma, Open, "n", "r", "t"} \cup Special
  /\ Q # BS /\ Q \notin {Colon, Space, Comma, Open} /\ Colon \notin {Space, Comma, Open}
<1>1. Keys \subseteq Tokens
  BY TokensAssumption DEF Keys
<1>2. {Q, Colon, Space, Comma, Open, Close} \subseteq Tokens
  BY TokensAssumption
<1>3. \A K \in Keys : K \notin {Q, BS, Colon, Space, Comma, Open, "n", "r", "t"} \cup Special
  BY DEF Keys, SdpKeys, IceKeys, Special, Q, BS, LF, CR, TAB, Colon, Space, Comma,
         Open
<1>4. Q # BS /\ Q \notin {Colon, Space, Comma, Open} /\ Colon \notin {Space, Comma, Open}
  BY DEF Q, BS, Colon, Space, Comma, Open
<1> QED
  BY <1>1, <1>2, <1>3, <1>4

LEMMA BlanksTyped ==
  ASSUME NEW blank \in Blanks
  PROVE  /\ blank \in Text /\ Len(blank) \in {0, 1}
         /\ \A i \in 1..Len(blank) : blank[i] = Space
<1>1. CASE blank = <<>>
  BY <1>1 DEF Text
<1>2. CASE blank = <<Space>>
  <2>1. Space \in Tokens
    BY KeysTyped
  <2> QED
    BY <1>2, <2>1 DEF Text
<1> QED
  BY <1>1, <1>2 DEF Blanks

LEMMA HoldsToken ==
  ASSUME NEW text \in Text, NEW at \in Nat, NEW c \in Tokens
  PROVE  /\ <<c>> \in Text /\ Len(<<c>>) = 1
         /\ Holds(text, at, <<c>>) <=> at + 1 <= Len(text) /\ text[at + 1] = c
<1>1. <<c>> \in Text /\ Len(<<c>>) = 1 /\ <<c>>[1] = c /\ 1..Len(<<c>>) = {1}
  BY DEF Text
<1>2. Holds(text, at, <<c>>) <=> /\ at + 1 <= Len(text)
                                 /\ text[at + 1] = <<c>>[1]
  BY <1>1 DEF Holds
<1> QED
  BY <1>1, <1>2

LEMMA HoldsQuoted ==
  ASSUME NEW text \in Text, NEW at \in Nat, NEW s \in Text
  PROVE  /\ Quoted(s) \in Text /\ Len(Quoted(s)) = Len(s) + 2
         /\ Holds(text, at, Quoted(s)) =>
              /\ text[at + 1] = Q
              /\ Holds(text, at + 1, s)
              /\ at + 2 + Len(s) <= Len(text)
              /\ text[at + 2 + Len(s)] = Q
<1>1. PICK q : q = <<Q>>
  OBVIOUS
<1>2. PICK a : a = q \o s
  OBVIOUS
<1>3. PICK t : t = a \o q
  OBVIOUS
<1>4. Quoted(s) = t
  BY <1>1, <1>2, <1>3 DEF Quoted
<1>5. Q \in Tokens
  BY KeysTyped
<1>6. /\ q \in Text /\ Len(q) = 1
      /\ \A k \in Nat : Holds(text, k, q) <=> k + 1 <= Len(text) /\ text[k + 1] = Q
  BY <1>1, <1>5, HoldsToken
<1>7. a \in Text /\ Len(a) = 1 + Len(s) /\ Len(s) \in Nat
  <2>1. a \in Text /\ Len(a) = Len(q) + Len(s) /\ Len(s) \in Nat
    BY <1>2, <1>6, Joint
  <2> QED
    BY <1>6, <2>1
<1>8. t \in Text /\ Len(t) = Len(s) + 2
  <2>1. t \in Text /\ Len(t) = Len(a) + Len(q)
    BY <1>3, <1>6, <1>7, Joint
  <2> QED
    BY <1>6, <1>7, <2>1
<1>9. ASSUME Holds(text, at, t)
      PROVE  /\ text[at + 1] = Q
             /\ Holds(text, at + 1, s)
             /\ at + 2 + Len(s) <= Len(text)
             /\ text[at + 2 + Len(s)] = Q
  <2>1. Holds(text, at, a) /\ Holds(text, at + Len(a), q)
    BY <1>3, <1>6, <1>7, <1>9, HoldsJoint
  <2>2. Holds(text, at, q) /\ Holds(text, at + Len(q), s)
    BY <1>2, <1>6, <2>1, HoldsJoint
  <2>3. at + Len(a) \in Nat /\ at + Len(a) + 1 = at + 2 + Len(s)
    BY <1>7
  <2>4. /\ at + Len(a) + 1 <= Len(text)
        /\ text[at + Len(a) + 1] = Q
    BY <1>6, <2>1, <2>3
  <2>5. text[at + 1] = Q
    BY <1>6, <2>2
  <2> QED
    BY <1>6, <2>2, <2>3, <2>4, <2>5
<1> QED
  BY <1>4, <1>8, <1>9

(* A member begins after `at`: a separator, blanks, its key in quotes, the  *)
(* colon and blanks.  Its value comes next.                                *)
Begins(json, at, b, key) ==
  /\ json[at + 1] \in {Open, Comma}
  /\ \A i \in at + 2..at + b + 1 : json[i] = Space
  /\ KeyAt(json, key, at + b + 2)
  /\ json[at + b + 5] = Colon
  /\ \A i \in at + b + 6..at + 2 * b + 5 : json[i] = Space

LEMMA MemberLayout ==
  ASSUME NEW json \in Text, NEW at \in Nat, NEW c \in {Open, Comma},
         NEW blank \in Blanks, NEW key \in Keys, NEW value \in Text
  PROVE  LET piece == <<c>> \o blank \o Member(key, value, blank)
         IN  /\ piece \in Text
             /\ Len(piece) = 2 * Len(blank) + 5 + Len(value)
             /\ Holds(json, at, piece) =>
                  /\ Begins(json, at, Len(blank), key)
                  /\ Holds(json, at + 2 * Len(blank) + 5, value)
<1>0. PICK piece : piece = <<c>> \o blank \o Member(key, value, blank)
  OBVIOUS
<1>1. PICK b : b = Len(blank)
  OBVIOUS
<1>2. b \in Nat /\ b <= 1 /\ Len(value) \in Nat
  BY <1>1, BlanksTyped DEF Text
<1>3. c \in Tokens /\ key \in Tokens /\ Colon \in Tokens
  BY KeysTyped
<1>4. PICK C : C = <<c>>
  OBVIOUS
<1>5. PICK K : K = Quoted(<<key>>)
  OBVIOUS
<1>6. PICK L : L = <<Colon>>
  OBVIOUS
<1>7. PICK H : H = C \o blank
  OBVIOUS
<1>8. PICK M1 : M1 = K \o L
  OBVIOUS
<1>9. PICK M2 : M2 = M1 \o blank
  OBVIOUS
<1>10. PICK M3 : M3 = M2 \o value
  OBVIOUS
<1>11. piece = H \o M3
  BY <1>0, <1>4, <1>5, <1>6, <1>7, <1>8, <1>9, <1>10 DEF Member
<1>12. /\ C \in Text /\ Len(C) = 1
       /\ \A k \in Nat : Holds(json, k, C) => json[k + 1] = c
  BY <1>3, <1>4, HoldsToken
<1>13. /\ L \in Text /\ Len(L) = 1
       /\ \A k \in Nat : Holds(json, k, L) => json[k + 1] = Colon
  BY <1>3, <1>6, HoldsToken
<1>14. /\ K \in Text /\ Len(K) = 3
       /\ \A k \in Nat : Holds(json, k, K) => KeyAt(json, key, k + 1)
  <2>1. PICK word : word = <<key>>
    OBVIOUS
  <2>2. /\ word \in Text /\ Len(word) = 1
        /\ \A k \in Nat : Holds(json, k, word) => json[k + 1] = key
    BY <1>3, <2>1, HoldsToken
  <2>3. K = Quoted(word)
    BY <1>5, <2>1
  <2>4. K \in Text /\ Len(K) = Len(word) + 2
    BY <2>2, <2>3, HoldsQuoted
  <2>5. ASSUME NEW k \in Nat, Holds(json, k, K) PROVE KeyAt(json, key, k + 1)
    <3>1. /\ json[k + 1] = Q /\ Holds(json, k + 1, word)
          /\ k + 2 + Len(word) <= Len(json) /\ json[k + 2 + Len(word)] = Q
      BY <2>2, <2>3, <2>5, HoldsQuoted
    <3>2. k + 1 \in Nat /\ k + 2 + Len(word) = k + 1 + 2
      BY <2>2
    <3>3. json[k + 1 + 1] = key
      BY <2>2, <3>1, <3>2
    <3> QED
      BY <3>1, <3>2, <3>3 DEF KeyAt
  <2> QED
    BY <2>2, <2>4, <2>5
<1>15. /\ blank \in Text /\ Len(blank) = b
       /\ \A k \in Nat : Holds(json, k, blank) =>
                          \A i \in 1..b : json[k + i] = Space
  BY <1>1, BlanksTyped DEF Holds
<1>16. H \in Text /\ Len(H) = 1 + b
  <2>1. H \in Text /\ Len(H) = Len(C) + Len(blank)
    BY <1>7, <1>12, <1>15, Joint
  <2> QED
    BY <1>12, <1>15, <2>1
<1>17. M1 \in Text /\ Len(M1) = 4
  <2>1. M1 \in Text /\ Len(M1) = Len(K) + Len(L)
    BY <1>8, <1>13, <1>14, Joint
  <2> QED
    BY <1>13, <1>14, <2>1
<1>18. M2 \in Text /\ Len(M2) = 4 + b
  BY <1>9, <1>15, <1>17, Joint
<1>19. M3 \in Text /\ Len(M3) = 4 + b + Len(value)
  BY <1>10, <1>18, Joint
<1>20. piece \in Text /\ Len(piece) = 2 * Len(blank) + 5 + Len(value)
  <2>1. piece \in Text /\ Len(piece) = Len(H) + Len(M3)
    BY <1>11, <1>16, <1>19, Joint
  <2> QED
    BY <1>1, <1>2, <1>16, <1>19, <2>1
<1>21. ASSUME Holds(json, at, piece)
       PROVE  /\ Begins(json, at, Len(blank), key)
              /\ Holds(json, at + 2 * Len(blank) + 5, value)
  <2>1. PICK k : k = at + (1 + b)
    OBVIOUS
  <2>2. k \in Nat /\ k + 3 \in Nat /\ k + 4 \in Nat /\ at + 1 \in Nat
    BY <1>2, <2>1
  <2>3. Holds(json, at, H) /\ Holds(json, k, M3)
    BY <1>11, <1>16, <1>19, <1>21, <2>1, HoldsJoint
  <2>4. Holds(json, at, C) /\ Holds(json, at + 1, blank)
    BY <1>7, <1>12, <1>15, <2>3, HoldsJoint
  <2>5. Holds(json, k, M2) /\ Holds(json, k + (4 + b), value)
    BY <1>10, <1>18, <2>2, <2>3, HoldsJoint
  <2>6. Holds(json, k, M1) /\ Holds(json, k + 4, blank)
    BY <1>9, <1>15, <1>17, <2>2, <2>5, HoldsJoint
  <2>7. Holds(json, k, K) /\ Holds(json, k + 3, L)
    BY <1>8, <1>13, <1>14, <2>2, <2>6, HoldsJoint
  <2>8. json[at + 1] = c
    BY <1>12, <2>4
  <2>9. json[k + 3 + 1] = Colon
    BY <1>13, <2>2, <2>7
  <2>10. KeyAt(json, key, k + 1)
    BY <1>14, <2>2, <2>7
  <2>11. \A i \in 1..b : json[at + 1 + i] = Space /\ json[k + 4 + i] = Space
    BY <1>15, <2>2, <2>4, <2>6
  <2>12. \A i \in at + 2..at + b + 1 : json[i] = Space
    <3> TAKE i \in at + 2..at + b + 1
    <3>1. i - (at + 1) \in 1..b /\ at + 1 + (i - (at + 1)) = i
      BY <1>2
    <3> QED
      BY <2>11, <3>1
  <2>13. \A i \in at + b + 6..at + 2 * b + 5 : json[i] = Space
    <3> TAKE i \in at + b + 6..at + 2 * b + 5
    <3>1. i - (k + 4) \in 1..b /\ k + 4 + (i - (k + 4)) = i
      BY <1>2, <2>1
    <3> QED
      BY <2>11, <3>1
  <2>14. /\ k + 1 = at + b + 2 /\ k + 3 + 1 = at + b + 5
         /\ k + (4 + b) = at + 2 * b + 5
    BY <1>2, <2>1
  <2>15. Begins(json, at, b, key)
    BY <2>8, <2>9, <2>10, <2>12, <2>13, <2>14 DEF Begins
  <2> QED
    BY <1>1, <2>5, <2>14, <2>15
<1> QED
  BY <1>0, <1>20, <1>21

-----------------------------------------------------------------------------
(* Where the code finds a key.  Clean says that no quote among the tokens  *)
(* from lo + 1 to hi comes after the key K; Near that only the last of     *)
(* them can, as it does when the value of a member ends with K.            *)
Clean(json, lo, hi, K) ==
  \A e \in lo + 1..hi : e > 1 /\ json[e] = Q => json[e - 1] # K

Near(json, lo, hi, K) ==
  \A e \in lo + 1..hi : e > 1 /\ json[e] = Q /\ json[e - 1] = K => e = hi

LEMMA CleanNear ==
  ASSUME NEW json, NEW K, NEW lo \in Nat, NEW mid \in Nat, NEW hi \in Nat,
         lo <= mid, mid <= hi, Clean(json, lo, mid, K)
  PROVE  /\ Clean(json, mid, hi, K) => Clean(json, lo, hi, K)
         /\ Near(json, mid, hi, K) => Near(json, lo, hi, K)
<1>1. \A e \in lo + 1..hi : e \in lo + 1..mid \/ e \in mid + 1..hi
  OBVIOUS
<1> QED
  BY <1>1 DEF Clean, Near

(* The tokens of a member up to its value.                                 *)
LEMMA BeginsTokens ==
  ASSUME NEW json \in Text, NEW at \in Nat, NEW b \in {0, 1}, NEW key \in Keys,
         Begins(json, at, b, key)
  PROVE  /\ b \in Nat /\ b <= 1
         /\ at + 2 * b + 5 \in Nat
         /\ \A e \in at + 1..at + b + 1 : json[e] \in {Open, Comma, Space}
         /\ json[at + b + 2] = Q /\ json[at + b + 3] = key /\ json[at + b + 4] = Q
         /\ json[at + b + 5] = Colon
         /\ \A e \in at + b + 6..at + 2 * b + 5 : json[e] = Space
         /\ KeyAt(json, key, at + b + 2)
<1>1. b \in Nat /\ b <= 1 /\ at + 2 * b + 5 \in Nat
  OBVIOUS
<1>2. ASSUME NEW e \in at + 1..at + b + 1 PROVE json[e] \in {Open, Comma, Space}
  <2>1. e = at + 1 \/ e \in at + 2..at + b + 1
    BY <1>1
  <2> QED
    BY <2>1 DEF Begins
<1>3. json[at + b + 2] = Q /\ json[at + b + 3] = key /\ json[at + b + 4] = Q
  <2>1. at + b + 2 + 1 = at + b + 3 /\ at + b + 2 + 2 = at + b + 4
    BY <1>1
  <2> QED
    BY <2>1 DEF Begins, KeyAt
<1> QED
  BY <1>1, <1>2, <1>3 DEF Begins

LEMMA KeyFound ==
  ASSUME NEW json \in Text, NEW at \in Nat, NEW b \in {0, 1}, NEW key \in Keys,
         Begins(json, at, b, key), at + b + 5 <= Len(json),
         Near(json, 0, at, key)
  PROVE  ColonAfter(json, key) = at + b + 5
<1>1. PICK p : p = at + b + 2
  OBVIOUS
<1>2. PICK place : place = Find(json, Quoted(<<key>>), 1)
  OBVIOUS
<1>3. /\ b \in Nat /\ p \in Nat \ {0} /\ at + b + 5 = p + 3
      /\ at + b + 3 = p + 1 /\ at + b + 4 = p + 2 /\ at + b + 1 = p - 1
      /\ Len(json) \in Nat
  BY <1>1 DEF Text
<1>4. /\ \A e \in at + 1..p - 1 : json[e] \in {Open, Comma, Space}
      /\ json[p] = Q /\ json[p + 1] = key /\ json[p + 2] = Q
      /\ json[p + 3] = Colon
      /\ KeyAt(json, key, p)
  BY <1>1, <1>3, BeginsTokens
<1>5. /\ key \in Tokens /\ Colon \in Tokens /\ key # Q /\ key # Colon
      /\ Q # Colon
      /\ \A t \in {Open, Comma, Space} : t # Q /\ t # Colon /\ t # key
  BY KeysTyped
<1>6. place \in 1..p /\ KeyAt(json, key, place)
  BY <1>2, <1>3, <1>4, <1>5, FindKey
<1>7. PICK e : e = place + 2
  OBVIOUS
<1>8. /\ e \in 3..p + 2 /\ e > 1
      /\ json[e] = Q /\ json[e - 1] = key
  <2>1. e \in 3..p + 2 /\ e > 1 /\ e - 1 = place + 1
    BY <1>3, <1>6, <1>7
  <2> QED
    BY <1>6, <1>7, <2>1 DEF KeyAt
<1>9. e = at \/ e = p + 2
  <2>1. e \in 0 + 1..at \/ e \in at + 1..p - 1 \/ e = p \/ e = p + 1 \/ e = p + 2
    BY <1>1, <1>3, <1>8
  <2>2. CASE e \in 0 + 1..at
    BY <1>8, <2>2 DEF Near
  <2>3. CASE e \in at + 1..p - 1
    BY <1>4, <1>5, <1>8, <2>3
  <2>4. e # p
    <3> SUFFICES ASSUME e = p PROVE FALSE
      OBVIOUS
    <3>1. p - 1 \in at + 1..p - 1
      BY <1>1, <1>3
    <3>2. json[p - 1] # key
      BY <1>4, <1>5, <3>1
    <3> QED
      BY <1>8, <3>2
  <2>5. e # p + 1
    BY <1>4, <1>5, <1>8
  <2> QED
    BY <2>1, <2>2, <2>3, <2>4, <2>5
<1>10. ASSUME NEW j \in e + 1..p + 2 PROVE json[j] # Colon
  <2>1. j \in at + 1..p - 1 \/ j = p \/ j = p + 1 \/ j = p + 2
    BY <1>1, <1>3, <1>8, <1>9
  <2> QED
    BY <1>4, <1>5, <2>1
<1>11. /\ e + 1 \in Nat \ {0} /\ p + 3 \in e + 1..Len(json) /\ p + 3 - 1 = p + 2
       /\ place + 3 = e + 1 /\ place # 0
  BY <1>3, <1>6, <1>7, <1>8
<1>12. Find(json, <<Colon>>, e + 1) = p + 3
  <2>1. PICK start, q : start = e + 1 /\ q = p + 3
    OBVIOUS
  <2>2. /\ start \in Nat \ {0} /\ q \in start..Len(json) /\ json[q] = Colon
        /\ q - 1 = p + 2
    <3>1. start \in Nat \ {0} /\ q \in start..Len(json) /\ q - 1 = p + 2
      BY <1>3, <1>11, <2>1
    <3>2. json[q] = Colon
      BY <1>4, <2>1
    <3> QED
      BY <3>1, <3>2
  <2>3. \A j \in start..q - 1 : json[j] # Colon
    BY <1>10, <2>1, <2>2
  <2>4. Find(json, <<Colon>>, start) = q
    BY <1>5, <2>2, <2>3, FindToken
  <2> QED
    BY <2>1, <2>4
<1> QED
  BY <1>2, <1>3, <1>11, <1>12 DEF ColonAfter

(* A string is read back, when the code finds its key ...                  *)
LEMMA ReadMember ==
  ASSUME NEW json \in Text, NEW at \in Nat, NEW b \in {0, 1}, NEW key \in Keys,
         Begins(json, at, b, key), Near(json, 0, at, key), NEW s \in Text,
         Holds(json, at + 2 * b + 5, Quoted(jsonEscape(s)))
  PROVE  extractString(json, key) = s
<1>1. PICK v, E : v = at + 2 * b + 5 /\ E = jsonEscape(s)
  OBVIOUS
<1>2. b \in Nat /\ v \in Nat /\ v + 1 \in Nat /\ v + 1 > 0 /\ Len(json) \in Nat
  BY <1>1 DEF Text
<1>3. E \in Text /\ Len(E) \in Nat
  BY <1>1, EscapeQuotes DEF Text
<1>4. /\ json[v + 1] = Q
      /\ Holds(json, v + 1, E)
      /\ v + 2 + Len(E) <= Len(json)
      /\ json[v + 2 + Len(E)] = Q
  BY <1>1, <1>2, <1>3, HoldsQuoted
<1>5. PICK colon : colon = at + b + 5
  OBVIOUS
<1>6. /\ colon \in Nat \ {0} /\ colon <= Len(json) /\ colon <= v
      /\ v + 1 \in colon..Len(json) /\ v + 1 - 1 = v
  BY <1>1, <1>2, <1>3, <1>4, <1>5
<1>7. ColonAfter(json, key) = colon
  BY <1>5, <1>6, KeyFound
<1>8. \A j \in colon..v : json[j] # Q
  <2>1. \A j \in colon..v : j = colon \/ j \in at + b + 6..at + 2 * b + 5
    BY <1>1, <1>2, <1>5
  <2>2. \A j \in colon..v : json[j] \in {Colon, Space}
    BY <1>5, <2>1, BeginsTokens
  <2> QED
    BY <2>2, KeysTyped
<1>9. Find(json, <<Q>>, colon) = v + 1
  <2>1. PICK q : q = v + 1
    OBVIOUS
  <2>2. Q \in Tokens /\ q \in colon..Len(json) /\ json[q] = Q /\ q - 1 = v
    <3>1. Q \in Tokens
      BY KeysTyped
    <3>2. q \in colon..Len(json) /\ q - 1 = v
      BY <1>2, <1>6, <2>1
    <3>3. json[q] = Q
      BY <1>4, <2>1
    <3> QED
      BY <3>1, <3>2, <3>3
  <2>3. \A j \in colon..q - 1 : json[j] # Q
    BY <1>8, <2>2
  <2>4. Find(json, <<Q>>, colon) = q
    BY <1>6, <2>2, <2>3, FindToken
  <2> QED
    BY <2>1, <2>4
<1>10. ReadValue(json, (v + 1) + 1) = s
  <2>1. Holds(json, v + 1 + Len(E), <<Q>>)
    <3>1. /\ v + 1 + Len(E) \in Nat /\ v + 1 + Len(E) + 1 = v + 2 + Len(E)
          /\ Q \in Tokens
      BY <1>2, <1>3, KeysTyped
    <3> QED
      BY <1>4, <3>1, HoldsToken
  <2> QED
    BY <1>1, <1>2, <1>4, <2>1, ReadBack
<1>11. colon # 0 /\ v + 1 # 0
  BY <1>2, <1>6
<1> QED
  BY <1>7, <1>9, <1>10, <1>11 DEF extractString

(* ... and so is a number.                                                 *)
LEMMA ReadNumber ==
  ASSUME NEW json \in Text, NEW at \in Nat, NEW b \in {0, 1}, NEW key \in Keys,
         Begins(json, at, b, key), Near(json, 0, at, key), NEW k \in Indexes,
         Holds(json, at + 2 * b + 5, <<Decimal[k]>>)
  PROVE  extractInt(json, key) = k
<1>1. PICK v, d : v = at + 2 * b + 5 /\ d = Decimal[k]
  OBVIOUS
<1>2. b \in Nat /\ v \in Nat /\ v + 1 \in Nat /\ Len(json) \in Nat
  BY <1>1 DEF Text
<1>3. d \in Tokens /\ d \notin {Space, TAB}
  BY <1>1, DecimalAssumption
<1>4. v + 1 <= Len(json) /\ json[v + 1] = d
  BY <1>1, <1>2, <1>3, HoldsToken
<1>5. PICK colon : colon = at + b + 5
  OBVIOUS
<1>6. colon \in Nat \ {0} /\ colon <= Len(json) /\ colon <= v
  BY <1>1, <1>2, <1>4, <1>5
<1>7. ColonAfter(json, key) = colon
  BY <1>5, <1>6, KeyFound
<1>8. \A j \in colon + 1..v : json[j] = Space
  <2>1. \A j \in colon + 1..v : j \in at + b + 6..at + 2 * b + 5
    BY <1>1, <1>2, <1>5
  <2>2. \A e \in at + b + 6..at + 2 * b + 5 : json[e] = Space
    BY BeginsTokens
  <2> QED
    BY <2>1, <2>2
<1> DEFINE First(i) == /\ i <= Len(json) => json[i] \notin {Space, TAB}
                       /\ \A j \in colon + 1..i - 1 : json[j] \in {Space, TAB}
<1>9. v + 1 \in colon + 1..Len(json) + 1 /\ First(v + 1)
  <2>1. v + 1 - 1 = v /\ v + 1 \in colon + 1..Len(json) + 1
    BY <1>2, <1>4, <1>6
  <2>2. \A j \in colon + 1..v + 1 - 1 : json[j] \in {Space, TAB}
    BY <1>8, <2>1
  <2>3. v + 1 <= Len(json) => json[v + 1] \notin {Space, TAB}
    BY <1>3, <1>4
  <2>4. First(v + 1)
    BY <1>2, <2>2, <2>3
  <2> HIDE DEF First
  <2> QED
    BY <2>1, <2>4
<1>10. ASSUME NEW i \in colon + 1..Len(json) + 1, First(i) PROVE i = v + 1
  <2>1. CASE i < v + 1
    <3>1. i \in colon + 1..v /\ i <= Len(json)
      BY <1>2, <1>4, <1>6, <2>1
    <3> QED
      BY <1>8, <1>10, <3>1
  <2>2. CASE i > v + 1
    <3>1. v + 1 \in colon + 1..i - 1
      BY <1>2, <1>6, <2>2
    <3> QED
      BY <1>3, <1>4, <1>10, <3>1
  <2> QED
    BY <1>2, <1>6, <2>1, <2>2
<1>11. (CHOOSE i \in colon + 1..Len(json) + 1 : First(i)) = v + 1
  <2> HIDE DEF First
  <2> QED
    BY <1>9, <1>10
<1>12. (CHOOSE i \in ColonAfter(json, key) + 1..Len(json) + 1 :
          /\ i <= Len(json) => json[i] \notin {Space, TAB}
          /\ \A j \in ColonAfter(json, key) + 1..i - 1 :
               json[j] \in {Space, TAB}) = v + 1
  BY <1>7, <1>11
<1>13. {l \in Indexes : Decimal[l] = json[v + 1]} = {k}
  BY <1>1, <1>4, DecimalAssumption
<1>14. ColonAfter(json, key) # 0 /\ ~(v + 1 > Len(json))
  BY <1>2, <1>4, <1>6, <1>7
<1>15. {k} # {} /\ (CHOOSE l \in {k} : TRUE) = k
  OBVIOUS
<1> QED
  BY <1>12, <1>13, <1>14, <1>15 DEF extractInt

-----------------------------------------------------------------------------
(* A member does not look like another one. *)

LEMMA EscapeLast ==
  ASSUME NEW s \in Text, NEW K \in Keys, s = <<>> \/ s[Len(s)] # K
  PROVE  LET E == jsonEscape(s)
         IN  Len(E) > 0 => E[Len(E)] # K
<1>1. PICK f : Joined(Len(s), Escapes(s), f) /\ jsonEscape(s) = f[Len(s)]
  BY EscapeDefined
<1>2. PICK n, E : n = Len(s) /\ E = jsonEscape(s)
  OBVIOUS
<1>3. /\ n \in Nat
      /\ \A k \in 1..n : /\ s[k] \in Tokens
                         /\ Escapes(s)[k] = Escaped(s[k])
                         /\ Escapes(s)[k] \in Text
  BY <1>2, EscapesTyped
<1>4. \A k \in 0..n : f[k] \in Text
  BY <1>1, <1>2, <1>3, JoinTyped
<1>5. CASE n = 0
  <2>1. f[0] = <<>>
    BY <1>1, <1>2, <1>3, JoinStep
  <2>2. Len(E) = 0
    BY <1>1, <1>2, <1>5, <2>1
  <2> QED
    BY <1>2, <2>2
<1>6. CASE n # 0
  <2>1. n \in 1..n /\ n - 1 \in 0..n
    BY <1>3, <1>6
  <2>2. PICK c, a, t : c = s[n] /\ a = f[n - 1] /\ t = Escapes(s)[n]
    OBVIOUS
  <2>3. c \in Tokens /\ t = Escaped(c) /\ t \in Text /\ a \in Text /\ c # K
    <3>1. s # <<>>
      BY <1>2, <1>6
    <3> QED
      BY <1>2, <1>3, <1>4, <2>1, <2>2, <3>1
  <2>4. E = a \o t
    BY <1>1, <1>2, <1>3, <2>1, <2>2, JoinStep
  <2>5. Len(t) > 0 /\ t[Len(t)] # K
    <3>1. CASE c \in Special
      <4>1. t = <<BS, Letter(c)>>
        BY <2>3, <3>1, EscapedTyped
      <4>2. Len(t) = 2 /\ t[2] = Letter(c)
        BY <4>1
      <4>3. Letter(c) \in {"n", "r", "t"} \cup Special
        BY <3>1 DEF Letter
      <4>4. Letter(c) # K
        BY <4>3, KeysTyped
      <4> QED
        BY <4>2, <4>4
    <3>2. CASE c \notin Special
      <4>1. t = <<c>>
        BY <2>3, <3>2, EscapedTyped
      <4>2. Len(t) = 1 /\ t[1] = c
        BY <4>1
      <4> QED
        BY <2>3, <4>2
    <3> QED
      BY <3>1, <3>2
  <2>6. /\ Len(E) = Len(a) + Len(t)
        /\ \A i \in 1..Len(t) : E[Len(a) + i] = t[i]
    BY <2>3, <2>4, Concatenated
  <2>7. Len(t) \in 1..Len(t)
    BY <2>3, <2>5 DEF Text
  <2>8. E[Len(E)] # K
    BY <2>5, <2>6, <2>7
  <2> QED
    BY <1>2, <2>8
<1> QED
  BY <1>5, <1>6

LEMMA BeginsClean ==
  ASSUME NEW json \in Text, NEW at \in Nat, NEW b \in {0, 1}, NEW key \in Keys,
         Begins(json, at, b, key), NEW K \in Keys, key # K
  PROVE  Clean(json, at, at + 2 * b + 5, K) /\ json[at + 2 * b + 5] # K
<1>1. PICK p : p = at + b + 2
  OBVIOUS
<1>2. /\ b \in Nat /\ b <= 1 /\ p \in Nat /\ at + 2 * b + 5 = p + 3 + b
      /\ at + b + 5 = p + 3 /\ at + b + 6 = p + 4
      /\ at + b + 3 = p + 1 /\ at + b + 4 = p + 2 /\ at + b + 1 = p - 1
      /\ at + 1 <= p - 1
  BY <1>1
<1>3. /\ \A e \in at + 1..p - 1 : json[e] \in {Open, Comma, Space}
      /\ json[p] = Q /\ json[p + 1] = key /\ json[p + 2] = Q
      /\ json[p + 3] = Colon
      /\ \A e \in p + 4..p + 3 + b : json[e] = Space
  BY <1>1, <1>2, BeginsTokens
<1>4. /\ key # Q /\ K # Colon /\ K # Space /\ Q # Colon /\ Q # Space
      /\ \A t \in {Open, Comma, Space} : t # Q /\ t # K
  BY KeysTyped
<1>5. ASSUME NEW e \in at + 1..p + 3 + b, json[e] = Q PROVE json[e - 1] # K
  <2>1. /\ e \notin at + 1..p - 1
        /\ e # p + 1
        /\ e # p + 3
        /\ e \notin p + 4..p + 3 + b
    BY <1>3, <1>4, <1>5
  <2>2. e = p \/ e = p + 2
    BY <1>2, <2>1
  <2>3. CASE e = p
    <3>1. p - 1 \in at + 1..p - 1
      BY <1>2
    <3> QED
      BY <1>3, <1>4, <2>3, <3>1
  <2>4. CASE e = p + 2
    <3>1. e - 1 = p + 1
      BY <1>2, <2>4
    <3> QED
      BY <1>3, <3>1
  <2> QED
    BY <2>2, <2>3, <2>4
<1>6. json[p + 3 + b] # K
  <2>1. CASE b = 0
    <3>1. p + 3 + b = p + 3
      BY <1>2, <2>1
    <3> QED
      BY <1>3, <1>4, <3>1
  <2>2. CASE b = 1
    <3>1. p + 3 + b \in p + 4..p + 3 + b
      BY <1>2, <2>2
    <3> QED
      BY <1>3, <1>4, <3>1
  <2> QED
    BY <2>1, <2>2
<1> QED
  BY <1>2, <1>5, <1>6 DEF Clean

LEMMA StringNear ==
  ASSUME NEW json \in Text, NEW at \in Nat, NEW b \in {0, 1}, NEW key \in Keys,
         Begins(json, at, b, key), NEW K \in Keys, key # K, NEW s \in Text,
         Holds(json, at + 2 * b + 5, Quoted(jsonEscape(s)))
  PROVE  LET end == at + 2 * b + 5 + Len(Quoted(jsonEscape(s)))
         IN  /\ Near(json, at, end, K)
             /\ s = <<>> \/ s[Len(s)] # K => Clean(json, at, end, K)
<1>1. PICK v, E : v = at + 2 * b + 5 /\ E = jsonEscape(s)
  OBVIOUS
<1>2. b \in Nat /\ v \in Nat /\ at <= v
  BY <1>1
<1>3. E \in Text /\ Len(E) \in Nat /\ QuotesEscaped(E)
  BY <1>1, EscapeQuotes DEF Text
<1>4. PICK end : end = v + 2 + Len(E)
  OBVIOUS
<1>5. end = at + 2 * b + 5 + Len(Quoted(jsonEscape(s)))
  <2>1. Len(Quoted(E)) = Len(E) + 2
    BY <1>2, <1>3, HoldsQuoted
  <2> QED
    BY <1>1, <1>2, <1>3, <1>4, <2>1
<1>6. json[v + 1] = Q /\ json[end] = Q /\ Holds(json, v + 1, E)
  BY <1>1, <1>2, <1>3, <1>4, HoldsQuoted
<1>7. \A j \in 1..Len(E) : json[v + 1 + j] = E[j]
  BY <1>6 DEF Holds
<1>8. Clean(json, at, v, K) /\ json[v] # K
  BY <1>1, BeginsClean
<1>9. K # Q /\ K # BS
  BY KeysTyped
<1>10. ASSUME NEW e \in v + 1..end, json[e] = Q, json[e - 1] = K
       PROVE  e = end
  <2>1. e # v + 1
    <3> SUFFICES ASSUME e = v + 1 PROVE FALSE
      OBVIOUS
    <3>1. e - 1 = v
      BY <1>2
    <3> QED
      BY <1>8, <1>10, <3>1
  <2>2. ~(e \in v + 2..v + 1 + Len(E))
    <3> SUFFICES ASSUME e \in v + 2..v + 1 + Len(E) PROVE FALSE
      OBVIOUS
    <3>1. PICK j \in 1..Len(E) : e = v + 1 + j
      <4>1. e - (v + 1) \in 1..Len(E) /\ e = v + 1 + (e - (v + 1))
        BY <1>2, <1>3
      <4> QED
        BY <4>1
    <3>2. j > 1 /\ E[j - 1] = BS
      BY <1>3, <1>7, <1>10, <3>1 DEF QuotesEscaped
    <3>3. j - 1 \in 1..Len(E) /\ e - 1 = v + 1 + (j - 1)
      BY <1>2, <1>3, <3>1, <3>2
    <3>4. json[e - 1] = BS
      BY <1>7, <3>2, <3>3
    <3> QED
      BY <1>9, <1>10, <3>4
  <2> QED
    BY <1>2, <1>3, <1>4, <2>1, <2>2
<1>11. Near(json, at, end, K)
  <2>1. Near(json, v, end, K)
    BY <1>10 DEF Near
  <2>2. end \in Nat /\ v <= end
    BY <1>2, <1>3, <1>4
  <2> QED
    BY <1>2, <1>8, <2>1, <2>2, CleanNear
<1>12. ASSUME s = <<>> \/ s[Len(s)] # K PROVE Clean(json, at, end, K)
  <2>1. Len(E) > 0 => E[Len(E)] # K
    BY <1>1, <1>12, EscapeLast
  <2>2. json[end - 1] # K
    <3>1. CASE Len(E) = 0
      <4>1. end - 1 = v + 1
        BY <1>2, <1>4, <3>1
      <4> QED
        BY <1>6, <1>9, <4>1
    <3>2. CASE Len(E) # 0
      <4>1. Len(E) \in 1..Len(E) /\ end - 1 = v + 1 + Len(E) /\ Len(E) > 0
        BY <1>2, <1>3, <1>4, <3>2
      <4> QED
        BY <1>7, <2>1, <4>1
    <3> QED
      BY <3>1, <3>2
  <2> QED
    BY <1>11, <2>2 DEF Near, Clean
<1> QED
  BY <1>5, <1>11, <1>12

LEMMA NumberClean ==
  ASSUME NEW json \in Text, NEW at \in Nat, NEW b \in {0, 1}, NEW key \in Keys,
         Begins(json, at, b, key), NEW K \in Keys, key # K,
         NEW d \in Tokens \ {Q}, Holds(json, at + 2 * b + 5, <<d>>)
  PROVE  Clean(json, at, at + 2 * b + 5 + Len(<<d>>), K)
<1>1. PICK v : v = at + 2 * b + 5
  OBVIOUS
<1>2. v \in Nat /\ at <= v
  BY <1>1
<1>3. Len(<<d>>) = 1 /\ json[v + 1] = d
  BY <1>1, <1>2, HoldsToken
<1>4. Clean(json, at, v, K)
  BY <1>1, BeginsClean
<1>5. Clean(json, v, v + 1, K)
  <2>1. \A e \in v + 1..v + 1 : e = v + 1
    BY <1>2
  <2> QED
    BY <1>3, <2>1 DEF Clean
<1>6. Clean(json, at, v + 1, K)
  BY <1>2, <1>4, <1>5, CleanNear
<1> QED
  BY <1>1, <1>3, <1>6

-----------------------------------------------------------------------------
(* Objects. *)

Pieces(members, order, blank) ==
  [i \in 1..Len(order) |->
     <<IF i = 1 THEN Open ELSE Comma>> \o blank \o members[order[i]]]

LEMMA ObjectDefined ==
  ASSUME NEW members, NEW order, NEW blank, Len(order) \in Nat
  PROVE  \E f : /\ Joined(Len(order), Pieces(members, order, blank), f)
                /\ Object(members, order, blank)
                     = f[Len(order)] \o (blank \o <<Close>>)
<1> DEFINE n == Len(order)
           UpTo(f) ==
             f = [i \in 0..n |->
                    IF i = 0 THEN <<>>
                    ELSE f[i - 1]
                           \o (<<IF i = 1 THEN Open ELSE Comma>> \o blank
                                 \o members[order[i]])]
<1>1. \A f : UpTo(f) <=> Joined(n, Pieces(members, order, blank), f)
  <2> TAKE f
  <2>1. \A i \in 0..n :
          (IF i = 0 THEN <<>>
           ELSE f[i - 1] \o (<<IF i = 1 THEN Open ELSE Comma>> \o blank
                               \o members[order[i]]))
            = (IF i = 0 THEN <<>>
               ELSE f[i - 1] \o Pieces(members, order, blank)[i])
    BY DEF Pieces
  <2> QED
    BY <2>1 DEF Joined
<1>2. \E f : UpTo(f)
  BY <1>1, JoinDefined
<1>3. /\ UpTo(CHOOSE f : UpTo(f))
      /\ Object(members, order, blank)
           = (CHOOSE f : UpTo(f))[n] \o (blank \o <<Close>>)
  BY <1>2 DEF Object
<1> HIDE DEF UpTo
<1> QED
  BY <1>1, <1>3

(* The members a text is made of: their keys and the texts of their values. *)
Spelled(members, order, blank, value) ==
  /\ Len(order) \in Nat
  /\ \A i \in 1..Len(order) :
       /\ order[i] \in Keys
       /\ value[i] \in Text
       /\ members[order[i]] = Member(order[i], value[i], blank)

(* a[i] is where the i-th member ends and the next one begins.             *)
Layout(json, order, b, value, a) ==
  /\ a[0] = 0
  /\ \A i \in 1..Len(order) :
       /\ a[i - 1] \in Nat
       /\ Begins(json, a[i - 1], b, order[i])
       /\ Holds(json, a[i - 1] + 2 * b + 5, value[i])
       /\ a[i] = a[i - 1] + 2 * b + 5 + Len(value[i])

LEMMA ObjectLayout ==
  ASSUME NEW members, NEW order, NEW blank \in Blanks, NEW value,
         Spelled(members, order, blank, value),
         NEW json, json = Object(members, order, blank)
  PROVE  json \in Text /\ \E a : Layout(json, order, Len(blank), value, a)
<1>1. PICK n, piece : n = Len(order) /\ piece = Pieces(members, order, blank)
  OBVIOUS
<1>2. n \in Nat
  BY <1>1 DEF Spelled
<1>3. PICK f : Joined(n, piece, f) /\ json = f[n] \o (blank \o <<Close>>)
  BY <1>1, <1>2, ObjectDefined
<1>4. ASSUME NEW text \in Text, NEW at \in Nat, NEW i \in 1..n
      PROVE  /\ piece[i] \in Text
             /\ Len(piece[i]) = 2 * Len(blank) + 5 + Len(value[i])
             /\ Holds(text, at, piece[i]) =>
                  /\ Begins(text, at, Len(blank), order[i])
                  /\ Holds(text, at + 2 * Len(blank) + 5, value[i])
  <2>1. PICK c : c = IF i = 1 THEN Open ELSE Comma
    OBVIOUS
  <2>2. c \in {Open, Comma}
    BY <2>1
  <2>3. PICK key, val : key = order[i] /\ val = value[i]
    OBVIOUS
  <2>4. key \in Keys /\ val \in Text /\ members[order[i]] = Member(key, val, blank)
    BY <1>1, <2>3 DEF Spelled
  <2>5. PICK p : p = piece[i]
    OBVIOUS
  <2>6. p = <<c>> \o blank \o Member(key, val, blank)
    BY <1>1, <2>1, <2>4, <2>5 DEF Pieces
  <2>7. /\ p \in Text
        /\ Len(p) = 2 * Len(blank) + 5 + Len(val)
        /\ Holds(text, at, p) =>
             /\ Begins(text, at, Len(blank), key)
             /\ Holds(text, at + 2 * Len(blank) + 5, val)
    BY <2>2, <2>4, <2>6, MemberLayout
  <2> QED
    BY <2>3, <2>5, <2>7
<1>5. \A i \in 1..n : /\ piece[i] \in Text
                      /\ Len(piece[i]) = 2 * Len(blank) + 5 + Len(value[i])
  <2>1. <<>> \in Text /\ 0 \in Nat
    BY DEF Text
  <2> QED
    BY <1>4, <2>1
<1>6. \A i \in 0..n : f[i] \in Text
  BY <1>2, <1>3, <1>5, JoinTyped
<1>7. PICK t : t = blank \o <<Close>>
  OBVIOUS
<1>8. t \in Text
  <2>1. PICK q : q = <<Close>>
    OBVIOUS
  <2>2. q \in Text
    <3>1. Close \in Tokens
      BY KeysTyped
    <3> QED
      BY <2>1, <3>1 DEF Text
  <2>3. blank \in Text /\ t = blank \o q
    BY <1>7, <2>1, BlanksTyped
  <2> QED
    BY <2>2, <2>3, Joint
<1>9. PICK w : w = f[n]
  OBVIOUS
<1>10. w \in Text /\ json = w \o t
  BY <1>2, <1>3, <1>6, <1>7, <1>9
<1>11. json \in Text
  BY <1>8, <1>10, Joint
<1>12. /\ Len(w) <= Len(json)
       /\ \A i \in 1..Len(w) : json[i] = w[i]
  BY <1>8, <1>10, Extended
<1> DEFINE a == [i \in 0..n |-> Len(f[i])]
<1>13. a[0] = 0
  <2>1. f[0] = <<>>
    BY <1>2, <1>3, JoinStep
  <2>2. 0 \in 0..n
    BY <1>2
  <2> QED
    BY <2>1, <2>2
<1>14. ASSUME NEW i \in 1..n
       PROVE  /\ a[i - 1] \in Nat
              /\ Begins(json, a[i - 1], Len(blank), order[i])
              /\ Holds(json, a[i - 1] + 2 * Len(blank) + 5, value[i])
              /\ a[i] = a[i - 1] + 2 * Len(blank) + 5 + Len(value[i])
  <2>1. i - 1 \in 0..n /\ i \in 0..n
    BY <1>2
  <2>2. PICK at, p : at = Len(f[i - 1]) /\ p = piece[i]
    OBVIOUS
  <2>3. a[i - 1] = at /\ a[i] = Len(f[i])
    BY <2>1, <2>2
  <2> HIDE DEF a
  <2>4. at \in Nat /\ p \in Text /\ Len(value[i]) \in Nat /\ Len(blank) \in Nat
    <3>1. f[i - 1] \in Text /\ p \in Text /\ value[i] \in Text /\ blank \in Text
      BY <1>1, <1>5, <1>6, <2>1, <2>2, BlanksTyped DEF Spelled
    <3> QED
      BY <2>2, <3>1 DEF Text
  <2>5. Len(f[i]) = at + Len(p) /\ Holds(w, at, p)
    BY <1>2, <1>3, <1>5, <1>9, <2>2, JoinHolds
  <2>6. Holds(json, at, p)
    <3>1. Len(w) \in Nat /\ Len(json) \in Nat /\ Len(p) \in Nat
      BY <1>10, <1>11, <2>4 DEF Text
    <3>2. at + Len(p) <= Len(json)
      BY <1>12, <2>4, <2>5, <3>1 DEF Holds
    <3>3. ASSUME NEW j \in 1..Len(p) PROVE json[at + j] = p[j]
      <4>1. at + j \in 1..Len(w)
        BY <2>4, <2>5, <3>1 DEF Holds
      <4> QED
        BY <1>12, <2>5, <4>1 DEF Holds
    <3> QED
      BY <3>2, <3>3 DEF Holds
  <2>7. /\ Begins(json, at, Len(blank), order[i])
        /\ Holds(json, at + 2 * Len(blank) + 5, value[i])
    BY <1>4, <1>11, <2>2, <2>4, <2>6
  <2>8. Len(f[i]) = at + 2 * Len(blank) + 5 + Len(value[i])
    <3>1. Len(p) = 2 * Len(blank) + 5 + Len(value[i])
      BY <1>5, <2>2
    <3>2. PICK b, l : b = Len(blank) /\ l = Len(value[i])
      OBVIOUS
    <3>3. b \in Nat /\ l \in Nat /\ Len(p) = 2 * b + 5 + l
      BY <2>4, <3>1, <3>2
    <3>4. at + Len(p) = at + 2 * b + 5 + l
      BY <2>4, <3>3
    <3> QED
      BY <2>5, <3>2, <3>4
  <2> QED
    BY <2>3, <2>4, <2>7, <2>8
<1>15. Layout(json, order, Len(blank), value, a)
  <2> HIDE DEF a
  <2> QED
    BY <1>1, <1>13, <1>14 DEF Layout
<1> QED
  BY <1>11, <1>15

(* The text of a value: a string, or a number.  Plain is one that does not *)
(* end with the key K.                                                     *)
Value(t) == \/ \E s \in Text : t = Quoted(jsonEscape(s))
            \/ \E k \in Indexes : t = <<Decimal[k]>>

Plain(t, K) == \/ \E s \in Text : /\ t = Quoted(jsonEscape(s))
                                  /\ s = <<>> \/ s[Len(s)] # K
               \/ \E k \in Indexes : t = <<Decimal[k]>>

LEMMA MembersClean ==
  ASSUME NEW json \in Text, NEW order, NEW b \in {0, 1}, NEW value, NEW a,
         Layout(json, order, b, value, a), NEW m \in Nat, m <= Len(order),
         Len(order) \in Nat, NEW K \in Keys,
         \A i \in 1..m : order[i] \in Keys \ {K} /\ Plain(value[i], K)
  PROVE  a[m] \in Nat /\ Clean(json, 0, a[m], K)
<1> DEFINE T == {i \in Nat : i <= m => a[i] \in Nat /\ Clean(json, 0, a[i], K)}
<1>1. 0 \in T
  <2>1. a[0] = 0
    BY DEF Layout
  <2>2. \A e : e \notin 0 + 1..0
    OBVIOUS
  <2> QED
    BY <2>1, <2>2 DEF Clean
<1>2. ASSUME NEW i \in Nat, i \in T PROVE i + 1 \in T
  <2> SUFFICES ASSUME i + 1 <= m
               PROVE  a[i + 1] \in Nat /\ Clean(json, 0, a[i + 1], K)
    OBVIOUS
  <2>1. PICK l : l = i + 1
    OBVIOUS
  <2>2. l \in 1..m /\ l \in 1..Len(order) /\ l - 1 = i
    BY <2>1
  <2>3. PICK at, end, v, key : /\ at = a[i] /\ end = a[l]
                               /\ v = value[l] /\ key = order[l]
    OBVIOUS
  <2>4. /\ at \in Nat
        /\ Begins(json, at, b, key)
        /\ Holds(json, at + 2 * b + 5, v)
        /\ end = at + 2 * b + 5 + Len(v)
    BY <2>2, <2>3 DEF Layout
  <2>5. Clean(json, 0, at, K)
    BY <1>2, <2>1, <2>3
  <2>6. key \in Keys /\ key # K /\ Plain(v, K)
    BY <2>2, <2>3
  <2>7. b \in Nat
    OBVIOUS
  <2>8. Len(v) \in Nat /\ Clean(json, at, end, K)
    <3>1. CASE \E s \in Text : /\ v = Quoted(jsonEscape(s))
                               /\ s = <<>> \/ s[Len(s)] # K
      <4>1. PICK s \in Text : /\ v = Quoted(jsonEscape(s))
                              /\ s = <<>> \/ s[Len(s)] # K
        BY <3>1
      <4>2. Clean(json, at, at + 2 * b + 5 + Len(Quoted(jsonEscape(s))), K)
        BY <2>4, <2>6, <4>1, StringNear
      <4>3. v \in Text
        <5>1. jsonEscape(s) \in Text
          BY EscapeQuotes
        <5> QED
          BY <2>4, <4>1, <5>1, HoldsQuoted
      <4> QED
        BY <2>4, <4>1, <4>2, <4>3 DEF Text
    <3>2. CASE \E k \in Indexes : v = <<Decimal[k]>>
      <4>1. PICK d \in Tokens \ {Q} : v = <<d>>
        BY <3>2, DecimalAssumption
      <4>2. Clean(json, at, at + 2 * b + 5 + Len(<<d>>), K)
        BY <2>4, <2>6, <4>1, NumberClean
      <4>3. Len(v) = 1
        BY <4>1
      <4> QED
        BY <2>4, <4>1, <4>2, <4>3
    <3> QED
      BY <2>6, <3>1, <3>2 DEF Plain
  <2>9. end \in Nat /\ at <= end
    BY <2>4, <2>7, <2>8
  <2>10. Clean(json, 0, end, K)
    BY <2>4, <2>5, <2>8, <2>9, CleanNear
  <2> QED
    BY <2>1, <2>3, <2>9, <2>10
<1> HIDE DEF T
<1>3. Nat \subseteq T
  BY <1>1, <1>2, SetInduction
<1> QED
  BY <1>3 DEF T

(* The value of a key is read, when no member before it has that key, and  *)
(* only the member just before it may have a value that ends with it.      *)
LEMMA ReadObject ==
  ASSUME NEW members, NEW order, NEW blank \in Blanks, NEW value,
         Spelled(members, order, blank, value),
         NEW j \in 1..Len(order), NEW key, key = order[j],
         \A i \in 1..j - 1 : order[i] # key /\ Value(value[i]),
         \A i \in 1..j - 2 : Plain(value[i], key),
         NEW json, json = Object(members, order, blank)
  PROVE  /\ \A s \in Text : value[j] = Quoted(jsonEscape(s)) =>
                              extractString(json, key) = s
         /\ \A k \in Indexes : value[j] = <<Decimal[k]>> =>
                                 extractInt(json, key) = k
<1>1. PICK b : b = Len(blank)
  OBVIOUS
<1>2. b \in {0, 1} /\ b \in Nat
  BY <1>1, BlanksTyped
<1>3. json \in Text /\ \E a : Layout(json, order, b, value, a)
  BY <1>1, ObjectLayout
<1>4. PICK a : Layout(json, order, b, value, a)
  BY <1>3
<1>5. Len(order) \in Nat /\ j \in Nat /\ 1 <= j /\ j <= Len(order)
  BY DEF Spelled
<1>6. \A i \in 1..Len(order) : order[i] \in Keys
  BY DEF Spelled
<1>7. PICK at : at = a[j - 1]
  OBVIOUS
<1>8. /\ at \in Nat /\ key \in Keys
      /\ Begins(json, at, b, key)
      /\ Holds(json, at + 2 * b + 5, value[j])
  <2>1. /\ a[j - 1] \in Nat
        /\ Begins(json, a[j - 1], b, order[j])
        /\ Holds(json, a[j - 1] + 2 * b + 5, value[j])
    BY <1>4 DEF Layout
  <2> QED
    BY <1>6, <1>7, <2>1
<1>9. Near(json, 0, at, key)
  <2>1. CASE j = 1
    <3>1. at = 0
      <4>1. j - 1 = 0
        BY <2>1
      <4> QED
        BY <1>4, <1>7, <4>1 DEF Layout
    <3>2. \A e : e \notin 0 + 1..0
      OBVIOUS
    <3> QED
      BY <3>1, <3>2 DEF Near
  <2>2. CASE j # 1
    <3>1. PICK m, l : m = j - 2 /\ l = j - 1
      OBVIOUS
    <3>2. /\ m \in Nat /\ m <= Len(order) /\ l \in 1..Len(order) /\ l - 1 = m
          /\ l \in 1..j - 1 /\ \A i \in 1..m : i \in 1..j - 1 /\ i \in 1..Len(order)
      BY <1>5, <2>2, <3>1
    <3>3. PICK mid, v, before : mid = a[m] /\ v = value[l] /\ before = order[l]
      OBVIOUS
    <3>4. mid \in Nat /\ Clean(json, 0, mid, key)
      <4>1. \A i \in 1..m : order[i] \in Keys \ {key} /\ Plain(value[i], key)
        BY <1>6, <3>1, <3>2
      <4> QED
        <5>1. b \in {0, 1} /\ json \in Text /\ key \in Keys
          BY <1>2, <1>3, <1>8
        <5>2. m \in Nat /\ m <= Len(order) /\ Len(order) \in Nat
          BY <1>5, <3>2
        <5>3. a[m] \in Nat /\ Clean(json, 0, a[m], key)
          BY <1>4, <4>1, <5>1, <5>2, MembersClean
        <5> QED
          BY <3>3, <5>3
    <3>5. /\ Begins(json, mid, b, before)
          /\ Holds(json, mid + 2 * b + 5, v)
          /\ at = mid + 2 * b + 5 + Len(v)
      BY <1>4, <1>7, <3>1, <3>2, <3>3 DEF Layout
    <3>6. before \in Keys /\ before # key /\ Value(v)
      BY <1>6, <3>2, <3>3
    <3>7. Len(v) \in Nat
      <4>1. v \in Text
        BY <3>2, <3>3 DEF Spelled
      <4> QED
        BY <4>1 DEF Text
    <3>8. mid <= at
      BY <1>2, <3>4, <3>5, <3>7
    <3>9. Near(json, mid, at, key)
      <4>1. CASE \E s \in Text : v = Quoted(jsonEscape(s))
        <5>1. PICK s \in Text : v = Quoted(jsonEscape(s))
          BY <4>1
        <5>2. Near(json, mid, mid + 2 * b + 5 + Len(Quoted(jsonEscape(s))), key)
          BY <1>2, <1>3, <1>8, <3>4, <3>5, <3>6, <5>1, StringNear
        <5> QED
          BY <3>5, <5>1, <5>2
      <4>2. CASE \E k \in Indexes : v = <<Decimal[k]>>
        <5>1. PICK d \in Tokens \ {Q} : v = <<d>>
          BY <4>2, DecimalAssumption
        <5>2. Clean(json, mid, mid + 2 * b + 5 + Len(<<d>>), key)
          BY <1>2, <1>3, <1>8, <3>4, <3>5, <3>6, <5>1, NumberClean
        <5>3. Clean(json, mid, at, key)
          BY <3>5, <5>1, <5>2
        <5> QED
          BY <5>3 DEF Clean, Near
      <4> QED
        BY <3>6, <4>1, <4>2 DEF Value
    <3> QED
      BY <1>8, <3>4, <3>8, <3>9, CleanNear
  <2> QED
    BY <2>1, <2>2
<1>10. ASSUME NEW s \in Text, value[j] = Quoted(jsonEscape(s))
       PROVE  extractString(json, key) = s
  BY <1>2, <1>3, <1>8, <1>9, <1>10, ReadMember
<1>11. ASSUME NEW k \in Indexes, value[j] = <<Decimal[k]>>
       PROVE  extractInt(json, key) = k
  BY <1>2, <1>3, <1>8, <1>9, <1>11, ReadNumber
<1> QED
  BY <1>10, <1>11

-----------------------------------------------------------------------------
(* The messages. *)

LEMMA EscapeWord ==
  ASSUME NEW w \in Tokens \ Special
  PROVE  <<w>> \in Text /\ jsonEscape(<<w>>) = <<w>>
<1>1. PICK s : s = <<w>>
  OBVIOUS
<1>2. s \in Text /\ Len(s) = 1 /\ s[1] = w
  BY <1>1 DEF Text
<1>3. PICK f : Joined(Len(s), Escapes(s), f) /\ jsonEscape(s) = f[Len(s)]
  BY <1>2, EscapeDefined
<1>4. 1 \in 1..Len(s) /\ 1 - 1 = 0 /\ Len(s) \in Nat
  BY <1>2
<1>5. f[0] = <<>> /\ f[1] = f[0] \o Escapes(s)[1]
  <2>1. f[0] = <<>> /\ \A k \in 1..Len(s) : f[k] = f[k - 1] \o Escapes(s)[k]
    BY <1>3, <1>4, JoinStep
  <2> QED
    BY <1>4, <2>1
<1>6. Escapes(s)[1] = s
  BY <1>1, <1>2, <1>4, EscapesTyped, EscapedTyped
<1>7. <<>> \o s = s
  BY <1>2, ConcatEmptySeq DEF Text
<1> QED
  BY <1>1, <1>2, <1>3, <1>5, <1>6, <1>7

LEMMA OrdersTyped ==
  ASSUME NEW n \in Nat, NEW order \in [1..n -> Keys]
  PROVE  Len(order) = n
<1>1. order \in Seq(Keys)
  BY SeqDef
<1>2. Len(order) \in Nat /\ DOMAIN order = 1..Len(order)
  BY <1>1, LenProperties
<1>3. 1..Len(order) = 1..n
  BY <1>2
<1> QED
  BY <1>2, <1>3

(* A description is read back, in either order of its members.             *)
LEMMA SdpRead ==
  ASSUME NEW sdp \in SdpMessage, NEW blank \in Blanks,
         NEW order \in {<<"type", "sdp">>, <<"sdp", "type">>},
         NEW json, json = Object(SdpMembers(sdp, blank), order, blank)
  PROVE  decodeSdp(json) = sdp
<1> DEFINE value == [i \in 1..2 |-> Quoted(jsonEscape(sdp[order[i]]))]
<1>1. /\ Len(order) = 2 /\ order[1] \in SdpKeys /\ order[2] \in SdpKeys
      /\ order[1] # order[2]
      /\ \/ order[1] = "type" /\ order[2] = "sdp"
         \/ order[1] = "sdp" /\ order[2] = "type"
  <2>1. CASE order = <<"type", "sdp">>
    BY <2>1 DEF SdpKeys
  <2>2. CASE order = <<"sdp", "type">>
    BY <2>2 DEF SdpKeys
  <2> QED
    BY <2>1, <2>2
<1>2. sdp["type"] \in Text /\ sdp["sdp"] \in Text
  <2>1. sdp["type"] \in {<<"offer">>, <<"answer">>} /\ sdp["sdp"] \in Sdps
    BY DEF SdpMessage
  <2>2. "offer" \in Tokens /\ "answer" \in Tokens
    BY TokensAssumption
  <2>3. <<"offer">> \in Text /\ <<"answer">> \in Text
    BY <2>2 DEF Text
  <2> QED
    BY <2>1, <2>3, TextsAssumption
<1>3. ASSUME NEW i \in 1..Len(order)
      PROVE  /\ order[i] \in Keys
             /\ sdp[order[i]] \in Text
             /\ value[i] = Quoted(jsonEscape(sdp[order[i]]))
             /\ value[i] \in Text
             /\ SdpMembers(sdp, blank)[order[i]]
                  = Member(order[i], value[i], blank)
  <2>1. i = 1 \/ i = 2
    BY <1>1
  <2>2. order[i] \in SdpKeys
    BY <1>1, <2>1
  <2>3. order[i] \in Keys
    BY <2>2 DEF Keys
  <2>4. sdp[order[i]] \in Text
    BY <1>2, <2>2 DEF SdpKeys
  <2>5. value[i] = Quoted(jsonEscape(sdp[order[i]]))
    BY <2>1
  <2> HIDE DEF value
  <2>6. value[i] \in Text
    <3>1. jsonEscape(sdp[order[i]]) \in Text
      BY <2>4, EscapeQuotes
    <3>2. <<>> \in Text /\ 0 \in Nat
      BY DEF Text
    <3> QED
      BY <2>5, <3>1, <3>2, HoldsQuoted
  <2>7. SdpMembers(sdp, blank)[order[i]] = Member(order[i], value[i], blank)
    BY <2>2, <2>5 DEF SdpMembers
  <2> QED
    BY <2>3, <2>4, <2>5, <2>6, <2>7
<1> HIDE DEF value
<1>4. Spelled(SdpMembers(sdp, blank), order, blank, value)
  BY <1>1, <1>3 DEF Spelled
<1>5. ASSUME NEW j \in 1..Len(order)
      PROVE  extractString(json, order[j]) = sdp[order[j]]
  <2>1. \A i \in 1..j - 1 : order[i] # order[j] /\ Value(value[i])
    <3> TAKE i \in 1..j - 1
    <3>1. i = 1 /\ j = 2 /\ i \in 1..Len(order)
      BY <1>1
    <3> QED
      BY <1>1, <1>3, <3>1 DEF Value
  <2>2. \A i \in 1..j - 2 : Plain(value[i], order[j])
    BY <1>1
  <2>3. PICK key : key = order[j]
    OBVIOUS
  <2>4. PICK members : members = SdpMembers(sdp, blank)
    OBVIOUS
  <2>5. \A s \in Text : value[j] = Quoted(jsonEscape(s)) =>
                           extractString(json, key) = s
    BY <1>4, <2>1, <2>2, <2>3, <2>4, ReadObject
  <2> QED
    BY <1>3, <2>3, <2>5
<1>6. /\ extractString(json, "type") = sdp["type"]
      /\ extractString(json, "sdp") = sdp["sdp"]
  <2>1. 1 \in 1..Len(order) /\ 2 \in 1..Len(order)
    BY <1>1
  <2> QED
    BY <1>1, <1>5, <2>1
<1>7. sdp = [type |-> sdp["type"], sdp |-> sdp["sdp"]]
  BY DEF SdpMessage
<1> QED
  BY <1>6, <1>7 DEF decodeSdp, extractType

(* A candidate is read back, in every order that is Known.                 *)
LEMMA IceRead ==
  ASSUME NEW ice \in IceCandidate, NEW blank \in Blanks,
         NEW order \in [1..4 -> IceKeys],
         \A i, j \in 1..4 : order[i] = order[j] => i = j, Known(order),
         NEW json, json = Object(IceMembers(ice, blank), order, blank)
  PROVE  extractType(json) = <<"candidate">> /\ decodeIce(json) = ice
<1> DEFINE text(key) == CASE key = "type"          -> Quoted(<<"candidate">>)
                          [] key = "sdpMLineIndex" -> <<Decimal[ice[key]]>>
                          [] OTHER                 -> Quoted(jsonEscape(ice[key]))
           value == [i \in 1..4 |-> text(order[i])]
           word == <<"candidate">>
           members == IceMembers(ice, blank)
<1>1. Len(order) = 4 /\ \A i \in 1..4 : order[i] \in IceKeys /\ order[i] \in Keys
  <2>1. order \in [1..4 -> Keys]
    BY DEF Keys
  <2> QED
    BY <2>1, OrdersTyped DEF Keys
<1>2. word \in Text /\ jsonEscape(word) = word /\ word[Len(word)] = "candidate"
  <2>1. "candidate" \in Tokens \ Special
    <3>1. "candidate" \in Keys
      BY DEF Keys, IceKeys
    <3> QED
      BY <3>1, KeysTyped
  <2>2. word[Len(word)] = "candidate"
    OBVIOUS
  <2> QED
    BY <2>1, <2>2, EscapeWord
<1>3. /\ ice["candidate"] \in Candidates /\ ice["sdpMid"] \in Mids
      /\ ice["sdpMLineIndex"] \in Indexes
      /\ ice = [candidate |-> ice["candidate"], sdpMid |-> ice["sdpMid"],
                sdpMLineIndex |-> ice["sdpMLineIndex"]]
  BY DEF IceCandidate
<1>4. ASSUME NEW v \in Candidates \cup Mids
      PROVE  v \in Text /\ (v = <<>> \/ v[Len(v)] \notin IceKeys)
  BY TextsAssumption, ValuesAssumption
<1> HIDE DEF word
<1>5. /\ text("type") = Quoted(jsonEscape(word))
      /\ text("candidate") = Quoted(jsonEscape(ice["candidate"]))
      /\ text("sdpMid") = Quoted(jsonEscape(ice["sdpMid"]))
      /\ text("sdpMLineIndex") = <<Decimal[ice["sdpMLineIndex"]]>>
  BY <1>2 DEF word
<1>6. \A key \in IceKeys : members[key] = Member(key, text(key), blank)
  BY DEF IceMembers
<1>7. \A i \in 1..4 : value[i] = text(order[i])
  OBVIOUS
<1>8. \A key \in IceKeys :
        key \in {"type", "candidate", "sdpMid", "sdpMLineIndex"}
  BY DEF IceKeys
<1> HIDE DEF text, value, members
<1>9. ASSUME NEW key \in IceKeys
      PROVE  text(key) \in Text /\ Value(text(key))
  <2>1. <<>> \in Text /\ 0 \in Nat
    BY DEF Text
  <2>2. ASSUME NEW s \in Text PROVE Quoted(jsonEscape(s)) \in Text
    <3>1. jsonEscape(s) \in Text
      BY EscapeQuotes
    <3> QED
      BY <2>1, <3>1, HoldsQuoted
  <2>3. <<Decimal[ice["sdpMLineIndex"]]>> \in Text
    <3>1. Decimal[ice["sdpMLineIndex"]] \in Tokens
      BY <1>3, DecimalAssumption
    <3> QED
      BY <2>1, <3>1, HoldsToken
  <2>4. ice["candidate"] \in Text /\ ice["sdpMid"] \in Text
    BY <1>3, <1>4
  <2>5. CASE key = "type"
    BY <1>2, <1>5, <2>2, <2>5 DEF Value
  <2>6. CASE key = "candidate"
    BY <1>5, <2>2, <2>4, <2>6 DEF Value
  <2>7. CASE key = "sdpMid"
    BY <1>5, <2>2, <2>4, <2>7 DEF Value
  <2>8. CASE key = "sdpMLineIndex"
    BY <1>3, <1>5, <2>3, <2>8 DEF Value
  <2> QED
    BY <1>8, <2>5, <2>6, <2>7, <2>8
<1>10. Spelled(members, order, blank, value)
  BY <1>1, <1>6, <1>7, <1>9 DEF Spelled
<1>11. ASSUME NEW key \in IceKeys, NEW K \in IceKeys,
              ~(key = "type" /\ K = "candidate")
       PROVE  Plain(text(key), K)
  <2>1. CASE key = "type"
    <3>1. K # "candidate"
      BY <1>11, <2>1
    <3>2. word[Len(word)] # K
      BY <1>2, <3>1
    <3> QED
      BY <1>2, <1>5, <2>1, <3>2 DEF Plain
  <2>2. CASE key = "candidate" \/ key = "sdpMid"
    <3>1. PICK v \in Candidates \cup Mids : text(key) = Quoted(jsonEscape(v))
      BY <1>3, <1>5, <2>2
    <3>2. v \in Text /\ (v = <<>> \/ v[Len(v)] # K)
      BY <1>4
    <3> QED
      BY <3>1, <3>2 DEF Plain
  <2>3. CASE key = "sdpMLineIndex"
    BY <1>3, <1>5, <2>3 DEF Plain
  <2> QED
    BY <1>8, <2>1, <2>2, <2>3
<1>12. ASSUME NEW key \in IceKeys
       PROVE  /\ \A s \in Text : text(key) = Quoted(jsonEscape(s)) =>
                                   extractString(json, key) = s
              /\ \A k \in Indexes : text(key) = <<Decimal[k]>> =>
                                      extractInt(json, key) = k
  <2>1. PICK j \in 1..4 : order[j] = key
    <3> SUFFICES ASSUME \A j \in 1..4 : order[j] # key PROVE FALSE
      OBVIOUS
    <3>1. PICK o1, o2, o3, o4 :
            o1 = order[1] /\ o2 = order[2] /\ o3 = order[3] /\ o4 = order[4]
      OBVIOUS
    <3>2. /\ o1 \in IceKeys \ {key} /\ o2 \in IceKeys \ {key}
          /\ o3 \in IceKeys \ {key} /\ o4 \in IceKeys \ {key}
      BY <3>1
    <3>3. o1 # o2 /\ o1 # o3 /\ o1 # o4 /\ o2 # o3 /\ o2 # o4 /\ o3 # o4
      BY <3>1
    <3> QED
      BY <1>8, <3>2, <3>3
  <2>2. j \in 1..Len(order) /\ value[j] = text(key)
    BY <1>1, <1>7, <2>1
  <2>3. \A i \in 1..j - 1 : order[i] # key /\ Value(value[i])
    <3> TAKE i \in 1..j - 1
    <3>1. i \in 1..4 /\ i # j
      BY <2>1
    <3>2. order[i] # order[j]
      BY <2>1, <3>1
    <3> QED
      BY <1>1, <1>7, <1>9, <2>1, <3>1, <3>2
  <2>4. \A i \in 1..j - 2 : Plain(value[i], key)
    <3> TAKE i \in 1..j - 2
    <3>1. i \in 1..4 /\ ~(j <= i + 1)
      BY <2>1
    <3>2. DOMAIN order = 1..4
      OBVIOUS
    <3>3. ~(order[i] = "type" /\ key = "candidate")
      BY <2>1, <3>1, <3>2 DEF Known
    <3> QED
      BY <1>1, <1>7, <1>11, <3>1, <3>3
  <2>5. json = Object(members, order, blank)
    BY DEF members
  <2>6. /\ \A s \in Text : value[j] = Quoted(jsonEscape(s)) =>
                             extractString(json, key) = s
        /\ \A k \in Indexes : value[j] = <<Decimal[k]>> =>
                                extractInt(json, key) = k
    BY <1>10, <2>1, <2>2, <2>3, <2>4, <2>5, ReadObject
  <2> QED
    BY <2>2, <2>6
<1>13. /\ extractString(json, "type") = word
       /\ extractString(json, "candidate") = ice["candidate"]
       /\ extractString(json, "sdpMid") = ice["sdpMid"]
       /\ extractInt(json, "sdpMLineIndex") = ice["sdpMLineIndex"]
  <2>1. /\ "type" \in IceKeys /\ "candidate" \in IceKeys
        /\ "sdpMid" \in IceKeys /\ "sdpMLineIndex" \in IceKeys
    BY DEF IceKeys
  <2>2. ice["candidate"] \in Text /\ ice["sdpMid"] \in Text
    BY <1>3, <1>4
  <2> QED
    BY <1>2, <1>3, <1>5, <1>12, <2>1, <2>2
<1> QED
  BY <1>3, <1>13 DEF decodeIce, extractType, word

-----------------------------------------------------------------------------
(* The theorems. *)

(* The text on the wire is the message its writer had in mind, and what    *)
(* reaches the engine is what dispatchMessage makes of that text.          *)
ServerOrders == {<<"type", "sdp">>, <<"sdp", "type">>}

Written ==
  /\ writer \in {"nobody", "engine", "server"}
  /\ writer = "engine" =>
       \/ meant \in SdpMessage /\ wire = encodeSdp(meant)
       \/ meant \in IceCandidate /\ wire = encodeIce(meant)
  /\ writer = "server" =>
       \E blank \in Blanks :
         \/ /\ meant \in SdpMessage
            /\ \E order \in ServerOrders :
                 wire = Object(SdpMembers(meant, blank), order, blank)
         \/ /\ meant \in IceCandidate
            /\ \E order \in Orders :
                 wire = Object(IceMembers(meant, blank), order, blank)
  /\ writer = "server" /\ delivered # Pending => delivered = dispatchMessage(wire)
  /\ writer = "nobody" => delivered = Pending

LEMMA WrittenInvariant == Spec => []Written
<1>1. Init => Written
  BY DEF Init, Written
<1>2. Written /\ [Next]_vars => Written'
  <2> SUFFICES ASSUME Written, [Next]_vars PROVE Written'
    OBVIOUS
  <2>1. CASE sendSdp
    BY <2>1 DEF sendSdp, Written
  <2>2. CASE sendIce
    BY <2>2 DEF sendIce, Written
  <2>3. CASE ServerSdp
    BY <2>3 DEF ServerSdp, Written, Blanks, ServerOrders
  <2>4. CASE ServerIce
    BY <2>4 DEF ServerIce, Written, Blanks
  <2>5. CASE Dispatch
    BY <2>5 DEF Dispatch, Written
  <2>6. CASE Done
    BY <2>6 DEF Done, Written
  <2>7. CASE UNCHANGED vars
    BY <2>7 DEF vars, Written
  <2> QED
    BY <2>1, <2>2, <2>3, <2>4, <2>5, <2>6, <2>7 DEF Next
<1> QED
  BY <1>1, <1>2, PTL DEF Spec

(* A candidate is no description. *)
LEMMA Apart == \A ice \in IceCandidate : ice \notin SdpMessage
<1> SUFFICES ASSUME NEW ice \in IceCandidate, ice \in SdpMessage PROVE FALSE
  OBVIOUS
<1>1. DOMAIN ice = {"candidate", "sdpMid", "sdpMLineIndex"}
  BY DEF IceCandidate
<1>2. DOMAIN ice = {"type", "sdp"}
  BY DEF SdpMessage
<1> QED
  BY <1>1, <1>2

(* encodeSdp and encodeIce write what decodeSdp and decodeIce read back,   *)
(* whatever the texts of the description or of the candidate are.          *)
THEOREM MessagesRoundTrip == Spec => []RoundTrip
<1>1. Written => RoundTrip
  <2> SUFFICES ASSUME Written, writer = "engine"
               PROVE  IF meant \in SdpMessage THEN decodeSdp(wire) = meant
                                             ELSE decodeIce(wire) = meant
    BY DEF RoundTrip
  <2>1. <<>> \in Blanks
    BY DEF Blanks
  <2>2. CASE meant \in SdpMessage /\ wire = encodeSdp(meant)
    <3>1. SdpOrder \in {<<"type", "sdp">>, <<"sdp", "type">>}
      BY DEF SdpOrder
    <3>2. wire = Object(SdpMembers(meant, <<>>), SdpOrder, <<>>)
      BY <2>2 DEF encodeSdp
    <3> QED
      BY <2>1, <2>2, <3>1, <3>2, SdpRead
  <2>3. CASE meant \in IceCandidate /\ wire = encodeIce(meant)
    <3>1. /\ IceOrder \in [1..4 -> IceKeys]
          /\ \A i, j \in 1..4 : IceOrder[i] = IceOrder[j] => i = j
          /\ \A i, j \in 1..4 :
               IceOrder[i] = "type" /\ IceOrder[j] = "candidate" => j <= i + 1
      BY DEF IceOrder, IceKeys
    <3>2. Known(IceOrder)
      BY <3>1 DEF Known
    <3>3. wire = Object(IceMembers(meant, <<>>), IceOrder, <<>>)
      BY <2>3 DEF encodeIce
    <3>4. decodeIce(wire) = meant
      BY <2>1, <2>3, <3>1, <3>2, <3>3, IceRead
    <3> QED
      BY <2>3, <3>4, Apart
  <2> QED
    BY <2>2, <2>3 DEF Written
<1> QED
  BY <1>1, WrittenInvariant, PTL

(* A server that writes its members in the orders that are Known, and any  *)
(* blanks, is understood: every answer and every candidate reaches the     *)
(* engine as it was meant, and no offer does.                              *)
THEOREM ServerIsUnderstood ==
  ASSUME \A order \in Orders : Known(order)
  PROVE  Spec => []ServerUnderstood
<1>1. Written => ServerUnderstood
  <2> SUFFICES ASSUME Written, writer = "server", delivered # Pending
               PROVE  delivered =
                        IF meant \in IceCandidate
                        THEN [callback |-> "onRemoteIce", message |-> meant]
                        ELSE IF meant.type = <<"answer">>
                        THEN [callback |-> "onRemoteSdp", message |-> meant]
                        ELSE [callback |-> "none"]
    BY DEF ServerUnderstood
  <2>1. delivered = dispatchMessage(wire)
    BY DEF Written
  <2>2. PICK blank \in Blanks :
          \/ /\ meant \in SdpMessage
             /\ \E order \in ServerOrders :
                  wire = Object(SdpMembers(meant, blank), order, blank)
          \/ /\ meant \in IceCandidate
             /\ \E order \in Orders :
                  wire = Object(IceMembers(meant, blank), order, blank)
    BY DEF Written
  <2>3. /\ <<"answer">> # <<"candidate">> /\ <<"answer">> # <<"offer">>
        /\ <<"candidate">> # <<"offer">>
    OBVIOUS
  <2>4. CASE /\ meant \in SdpMessage
             /\ \E order \in ServerOrders :
                  wire = Object(SdpMembers(meant, blank), order, blank)
    <3>1. PICK order \in {<<"type", "sdp">>, <<"sdp", "type">>} :
            wire = Object(SdpMembers(meant, blank), order, blank)
      BY <2>4 DEF ServerOrders
    <3>2. decodeSdp(wire) = meant
      BY <2>4, <3>1, SdpRead
    <3>3. extractType(wire) = meant.type
      BY <3>2 DEF decodeSdp
    <3>4. meant.type \in {<<"offer">>, <<"answer">>}
      BY <2>4 DEF SdpMessage
    <3>5. meant \notin IceCandidate
      BY <2>4, Apart
    <3>6. CASE meant.type = <<"answer">>
      BY <2>1, <2>3, <3>2, <3>3, <3>5, <3>6 DEF dispatchMessage
    <3>7. CASE meant.type = <<"offer">>
      BY <2>1, <2>3, <3>3, <3>5, <3>7 DEF dispatchMessage
    <3> QED
      BY <3>4, <3>6, <3>7
  <2>5. CASE /\ meant \in IceCandidate
             /\ \E order \in Orders :
                  wire = Object(IceMembers(meant, blank), order, blank)
    <3>1. PICK order \in Orders :
            wire = Object(IceMembers(meant, blank), order, blank)
      BY <2>5
    <3>2. /\ order \in [1..4 -> IceKeys] /\ Known(order)
          /\ \A i, j \in 1..4 : order[i] = order[j] => i = j
      BY OrdersAssumption
    <3>3. extractType(wire) = <<"candidate">> /\ decodeIce(wire) = meant
      BY <2>5, <3>1, <3>2, IceRead
    <3> QED
      BY <2>1, <2>3, <2>5, <3>3 DEF dispatchMessage
  <2> QED
    BY <2>2, <2>4, <2>5
<1> QED
  BY <1>1, WrittenInvariant, PTL
=============================================================================
