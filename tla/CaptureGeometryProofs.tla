------------------------ MODULE CaptureGeometryProofs ------------------------
(***************************************************************************)
(* Proofs about CaptureGeometry, for windows and camera sizes of up to     *)
(* 8191 pixels a side and for every width of the float's significand that  *)
(* has room for them.                                                      *)
(***************************************************************************)
EXTENDS CaptureGeometry, PixelConversionProofs

Dimensions == Side \X Side

LEMMA SideType == \A n \in Side : n \in Nat \ {0} /\ 4 * n < Bits
BY SMT DEF Side

LEMMA SideShort == \A n \in Side : n <= 8191
BY SMT DEF Side

LEMMA ProductOrder ==
  ASSUME NEW x \in Int, NEW y \in Int, NEW s \in Nat, x <= y
  PROVE  s * x <= s * y
  OBVIOUS

LEMMA ProductCancel ==
  ASSUME NEW x \in Int, NEW y \in Int, NEW s \in Nat \ {0}, s * x <= s * y
  PROVE  x <= y
  OBVIOUS

-----------------------------------------------------------------------------
(* Rounding to a float.                                                    *)

LEMMA NearestWithinHalf ==
  ASSUME NEW n \in Nat, NEW d \in Nat \ {0}
  PROVE  /\ Nearest(n, d) \in Nat
         /\ 2 * (Nearest(n, d) * d) <= 2 * n + d
         /\ 2 * n <= 2 * (Nearest(n, d) * d) + d
<1> DEFINE q == n \div d
           r == n % d
<1>1. q \in Nat /\ r \in 0..d - 1 /\ n = q * d + r
  OBVIOUS
<1>2. Nearest(n, d) = IF 2 * r > d \/ (2 * r = d /\ q % 2 = 1) THEN q + 1 ELSE q
  BY DEF Nearest
<1> HIDE DEF q, r
<1>3. q * d \in Nat /\ (q + 1) * d = q * d + d
  BY <1>1
<1>4. CASE Nearest(n, d) = q
  BY <1>1, <1>2, <1>3, <1>4
<1>5. CASE Nearest(n, d) = q + 1
  BY <1>1, <1>2, <1>3, <1>5
<1> QED
  BY <1>2, <1>4, <1>5

(* Some power of two brings a fraction into 1..2. *)
LastPower == 67108864

LEMMA PowerUp ==
  ASSUME NEW n \in Nat \ {0}, NEW d \in Nat \ {0}, n < d, d <= LastPower * n
  PROVE  \E k \in Powers : d <= n * k /\ n * k < 2 * d
BY SMTT(60) DEF Powers, LastPower

LEMMA PowerDown ==
  ASSUME NEW n \in Nat \ {0}, NEW d \in Nat \ {0}, d <= n, n < 2 * (LastPower * d)
  PROVE  \E k \in Powers : d * k <= n /\ n < 2 * (d * k)
BY SMTT(60) DEF Powers, LastPower

(* f is n / d up to one part in 2 * Bits. *)
Below(f, n, d) == (2 * Bits - 1) * (n * f.den) <= 2 * Bits * (f.num * d)
Above(f, n, d) == 2 * Bits * (f.num * d) <= (2 * Bits + 1) * (n * f.den)

LEMMA RoundedNear ==
  ASSUME NEW n \in Nat \ {0}, NEW d \in Nat \ {0}, Bits \in Nat \ {0},
         d <= LastPower * n, n < 2 * (LastPower * d)
  PROVE  /\ Rounded(n, d).num \in Nat /\ Rounded(n, d).den \in Nat \ {0}
         /\ Below(Rounded(n, d), n, d) /\ Above(Rounded(n, d), n, d)
<1>1. PICK up : up = IF n < d THEN CHOOSE k \in Powers : d <= n * k /\ n * k < 2 * d ELSE 1
  OBVIOUS
<1>2. PICK down : down = IF n < d THEN 1 ELSE CHOOSE k \in Powers : d * k <= n /\ n < 2 * (d * k)
  OBVIOUS
<1>3. Powers \subseteq Nat \ {0}
  BY SMT DEF Powers
<1>4. /\ up \in Nat \ {0} /\ down \in Nat \ {0}
      /\ d * down <= n * up
  <2>1. CASE n < d
    <3>1. up \in Powers /\ d <= n * up
      BY <1>1, <2>1, PowerUp
    <3>2. down = 1
      BY <1>2, <2>1
    <3> QED
      BY <1>3, <3>1, <3>2
  <2>2. CASE ~(n < d)
    <3>1. down \in Powers /\ d * down <= n
      BY <1>2, <2>2, PowerDown
    <3>2. up = 1
      BY <1>1, <2>2
    <3> QED
      BY <1>3, <3>1, <3>2
  <2> QED
    BY <2>1, <2>2
<1>5. PICK a \in Nat \ {0} : a = n * up
  BY <1>4
<1>6. PICK b \in Nat \ {0} : b = d * down
  BY <1>4
<1>7. PICK m : m = Nearest(a * Bits, b)
  OBVIOUS
<1>8. Rounded(n, d) = [num |-> m * down, den |-> up * Bits]
  BY <1>1, <1>2, <1>5, <1>6, <1>7 DEF Rounded
<1>9. PICK whole \in Nat : whole = a * Bits
  BY <1>5
<1>10. m \in Nat /\ 2 * (m * b) <= 2 * whole + b /\ 2 * whole <= 2 * (m * b) + b
  BY <1>6, <1>7, <1>9, NearestWithinHalf
<1>11. PICK got \in Nat : got = m * b
  BY <1>6, <1>10
<1>12. Bits * b <= whole
  BY <1>4, <1>5, <1>6, <1>9
<1>13. /\ (2 * Bits - 1) * whole <= 2 * Bits * got
       /\ 2 * Bits * got <= (2 * Bits + 1) * whole
  <2>1. /\ Bits * (2 * got) <= Bits * (2 * whole + b)
        /\ Bits * (2 * whole) <= Bits * (2 * got + b)
    BY <1>6, <1>9, <1>10, <1>11
  <2>2. /\ Bits * (2 * got) = 2 * Bits * got
        /\ Bits * (2 * whole + b) = 2 * Bits * whole + Bits * b
        /\ Bits * (2 * whole) = 2 * Bits * whole
        /\ Bits * (2 * got + b) = 2 * Bits * got + Bits * b
        /\ (2 * Bits - 1) * whole = 2 * Bits * whole - whole
        /\ (2 * Bits + 1) * whole = 2 * Bits * whole + whole
    BY <1>6, <1>9, <1>11
  <2>3. /\ Bits * b \in Nat /\ 2 * Bits * got \in Nat /\ 2 * Bits * whole \in Nat
    BY <1>6, <1>9, <1>11
  <2> QED
    BY <1>9, <1>12, <2>1, <2>2, <2>3
<1>14. (m * down) * d = got /\ n * (up * Bits) = whole
  BY <1>4, <1>5, <1>6, <1>9, <1>10, <1>11
<1>15. m * down \in Nat /\ up * Bits \in Nat \ {0}
  BY <1>4, <1>10
<1> QED
  BY <1>8, <1>13, <1>14, <1>15 DEF Below, Above

(* The larger of two rounded ratios is as near to the larger ratio. *)
LEMMA LargerNear ==
  ASSUME Bits \in Nat \ {0},
         NEW a, NEW b, a.num \in Nat, a.den \in Nat \ {0}, b.num \in Nat, b.den \in Nat \ {0},
         NEW s \in Nat \ {0}, NEW q \in Nat \ {0}, NEW t \in Nat \ {0}, NEW r \in Nat \ {0},
         t * q <= s * r, Below(a, s, q), Above(a, s, q), Above(b, t, r),
         a.num * b.den <= b.num * a.den
  PROVE  Below(b, s, q) /\ Above(b, s, q)
<1> DEFINE an == a.num  ad == a.den  bn == b.num  bd == b.den
           lo == 2 * Bits - 1
           hi == 2 * Bits + 1
           two == 2 * Bits
<1>1. /\ an \in Nat /\ ad \in Nat \ {0} /\ bn \in Nat /\ bd \in Nat \ {0}
      /\ lo \in Nat /\ hi \in Nat /\ two \in Nat
  OBVIOUS
<1>2. /\ lo * (s * ad) <= two * (an * q)
      /\ two * (bn * r) <= hi * (t * bd)
      /\ an * bd <= bn * ad
  BY DEF Below, Above
<1> SUFFICES lo * (s * bd) <= two * (bn * q) /\ two * (bn * q) <= hi * (s * bd)
  BY DEF Below, Above
<1> HIDE DEF an, ad, bn, bd, lo, hi, two
<1>3. lo * (s * bd) <= two * (bn * q)
  <2>1. bd * (lo * (s * ad)) <= bd * (two * (an * q))
    BY <1>1, <1>2, ProductOrder
  <2>2. (two * q) * (an * bd) <= (two * q) * (bn * ad)
    BY <1>1, <1>2, ProductOrder
  <2>3. /\ bd * (lo * (s * ad)) = ad * (lo * (s * bd))
        /\ bd * (two * (an * q)) = (two * q) * (an * bd)
        /\ (two * q) * (bn * ad) = ad * (two * (bn * q))
    BY <1>1
  <2>4. /\ bd * (two * (an * q)) \in Int /\ (two * q) * (bn * ad) \in Int
        /\ lo * (s * bd) \in Int /\ two * (bn * q) \in Int
        /\ ad * (lo * (s * bd)) \in Int
    BY <1>1
  <2>5. ad * (lo * (s * bd)) <= ad * (two * (bn * q))
    BY <2>1, <2>2, <2>3, <2>4
  <2> QED
    BY <1>1, <2>4, <2>5, ProductCancel
<1>4. two * (bn * q) <= hi * (s * bd)
  <2>1. q * (two * (bn * r)) <= q * (hi * (t * bd))
    BY <1>1, <1>2, ProductOrder
  <2>2. (hi * bd) * (t * q) <= (hi * bd) * (s * r)
    BY <1>1, ProductOrder
  <2>3. /\ q * (two * (bn * r)) = r * (two * (bn * q))
        /\ q * (hi * (t * bd)) = (hi * bd) * (t * q)
        /\ (hi * bd) * (s * r) = r * (hi * (s * bd))
    BY <1>1
  <2>4. /\ q * (hi * (t * bd)) \in Int /\ (hi * bd) * (s * r) \in Int
        /\ two * (bn * q) \in Int /\ hi * (s * bd) \in Int
        /\ r * (two * (bn * q)) \in Int
    BY <1>1
  <2>5. r * (two * (bn * q)) <= r * (hi * (s * bd))
    BY <2>1, <2>2, <2>3, <2>4
  <2> QED
    BY <1>1, <2>4, <2>5, ProductCancel
<1> QED
  BY <1>3, <1>4

LEMMA SidesInReach ==
  ASSUME NEW n \in Side, NEW d \in Side
  PROVE  d <= LastPower * n /\ n < 2 * (LastPower * d)
BY SideType, SideShort, SMT DEF LastPower

(* The scale is near the larger of the two ratios. *)
LEMMA ScaleNear ==
  ASSUME Bits \in Nat \ {0}, NEW src \in Dimensions, NEW dst \in Dimensions
  PROVE  /\ Scale(src, dst).num \in Nat /\ Scale(src, dst).den \in Nat \ {0}
         /\ src[2] * dst[1] <= src[1] * dst[2] =>
              Below(Scale(src, dst), src[1], dst[1]) /\ Above(Scale(src, dst), src[1], dst[1])
         /\ src[1] * dst[2] <= src[2] * dst[1] =>
              Below(Scale(src, dst), src[2], dst[2]) /\ Above(Scale(src, dst), src[2], dst[2])
<1>1. /\ src[1] \in Side /\ src[2] \in Side
      /\ dst[1] \in Side /\ dst[2] \in Side
  BY DEF Dimensions
<1>2. PICK sw, sh, dw, dh \in Nat \ {0} :
        /\ sw = src[1] /\ sh = src[2] /\ dw = dst[1] /\ dh = dst[2]
        /\ sw \in Side /\ sh \in Side /\ dw \in Side /\ dh \in Side
  BY <1>1, SideType
<1>3. /\ dw <= LastPower * sw /\ sw < 2 * (LastPower * dw)
      /\ dh <= LastPower * sh /\ sh < 2 * (LastPower * dh)
  BY <1>2, SidesInReach
<1>4. PICK a : a = Rounded(sw, dw)
  OBVIOUS
<1>5. PICK b : b = Rounded(sh, dh)
  OBVIOUS
<1>6. a.num \in Nat /\ a.den \in Nat \ {0} /\ Below(a, sw, dw) /\ Above(a, sw, dw)
  BY <1>3, <1>4, RoundedNear
<1>7. b.num \in Nat /\ b.den \in Nat \ {0} /\ Below(b, sh, dh) /\ Above(b, sh, dh)
  BY <1>3, <1>5, RoundedNear
<1>8. Scale(src, dst) = IF a.num * b.den < b.num * a.den THEN b ELSE a
  BY <1>2, <1>4, <1>5 DEF Scale, Larger
<1>9. a.num * b.den \in Nat /\ b.num * a.den \in Nat
  BY <1>6, <1>7
<1>10. CASE a.num * b.den < b.num * a.den
  <2>1. a.num * b.den <= b.num * a.den
    BY <1>9, <1>10
  <2>2. sh * dw <= sw * dh => Below(b, sw, dw) /\ Above(b, sw, dw)
    BY <1>6, <1>7, <2>1, LargerNear
  <2> QED
    BY <1>2, <1>7, <1>8, <1>10, <2>2
<1>11. CASE ~(a.num * b.den < b.num * a.den)
  <2>1. b.num * a.den <= a.num * b.den
    BY <1>9, <1>11
  <2>2. sw * dh <= sh * dw => Below(a, sh, dh) /\ Above(a, sh, dh)
    BY <1>6, <1>7, <2>1, LargerNear
  <2> QED
    BY <1>2, <1>6, <1>8, <1>11, <2>2
<1> QED
  BY <1>10, <1>11

LEMMA ProductInReach ==
  ASSUME Bits \in Nat \ {0}, NEW scale, scale.num \in Nat, scale.den \in Nat \ {0},
         NEW s \in Side, NEW q \in Side, NEW n \in Side,
         Below(scale, s, q), Above(scale, s, q)
  PROVE  /\ n * scale.num \in Nat \ {0}
         /\ scale.den <= LastPower * (n * scale.num)
         /\ n * scale.num < 2 * (LastPower * scale.den)
<1>1. PICK a \in Nat, b \in Nat \ {0} : a = scale.num /\ b = scale.den
  OBVIOUS
<1> s \in Nat \ {0} /\ q \in Nat \ {0} /\ n \in Nat \ {0}
  BY SideType
<1>2. PICK sb \in Nat \ {0} : sb = s * b
  BY <1>1
<1>3. PICK aq \in Nat : aq = a * q
  BY <1>1
<1>4. b <= sb /\ sb <= 8191 * b /\ a <= aq /\ aq <= 8191 * a
  <2>1. b * 1 <= b * s /\ b * s <= b * 8191
    BY <1>1, SideShort, ProductOrder
  <2>2. a * 1 <= a * q /\ a * q <= a * 8191
    BY <1>1, SideShort, ProductOrder
  <2> QED
    BY <1>1, <1>2, <1>3, <2>1, <2>2
<1>5. (2 * Bits - 1) * sb <= 2 * Bits * aq /\ 2 * Bits * aq <= (2 * Bits + 1) * sb
  BY <1>1, <1>2, <1>3 DEF Below, Above
<1>6. Bits * sb <= Bits * (2 * aq) /\ Bits * (2 * aq) <= Bits * (3 * sb)
  <2>1. PICK x \in Nat : x = Bits * sb
    BY <1>2
  <2>2. PICK y \in Nat : y = Bits * aq
    BY <1>3
  <2>3. sb <= x
    <3>1. sb * 1 <= sb * Bits
      BY ProductOrder
    <3> QED
      BY <2>1, <3>1
  <2>4. /\ (2 * Bits - 1) * sb = 2 * x - sb /\ (2 * Bits + 1) * sb = 2 * x + sb
        /\ 2 * Bits * aq = 2 * y
        /\ Bits * (2 * aq) = 2 * y /\ Bits * (3 * sb) = 3 * x
    BY <2>1, <2>2
  <2> QED
    BY <1>5, <2>1, <2>2, <2>3, <2>4
<1>7. sb <= 2 * aq /\ 2 * aq <= 3 * sb
  BY <1>6, ProductCancel
<1>8. b <= 16382 * a /\ 2 * a <= 24573 * b
  BY <1>1, <1>4, <1>7, SMT
<1>9. a <= n * a /\ n * a <= 8191 * a
  <2>1. a * 1 <= a * n /\ a * n <= a * 8191
    BY <1>1, SideShort, ProductOrder
  <2> QED
    BY <1>1, <2>1
<1>10. PICK na \in Nat : na = n * a
  BY <1>1
<1> HIDE DEF LastPower
<1>11. na \in Nat \ {0} /\ b <= LastPower * na /\ na < 2 * (LastPower * b)
  BY <1>1, <1>8, <1>9, <1>10, SMT DEF LastPower
<1> QED
  BY <1>1, <1>10, <1>11

(* The product, rounded once more, before it is cut to an int. *)
LEMMA CutNear ==
  ASSUME Bits \in Nat \ {0}, NEW scale, scale.num \in Nat, scale.den \in Nat \ {0},
         NEW s \in Side, NEW q \in Side, NEW n \in Side,
         Below(scale, s, q), Above(scale, s, q)
  PROVE  \E c \in Nat, e \in Nat, f \in Nat \ {0} :
           /\ c = ScaledCut(n, scale)
           /\ c * f <= e /\ e < (c + 1) * f
           /\ (Bits - 1) * ((n * s) * f) <= Bits * (e * q)
           /\ (4 * (Bits * Bits)) * (e * q)
                <= (4 * (Bits * Bits) + 4 * Bits + 1) * ((n * s) * f)
<1> s \in Nat \ {0} /\ q \in Nat \ {0} /\ n \in Nat \ {0}
  BY SideType
<1>1. PICK p : p = Rounded(n * scale.num, scale.den)
  OBVIOUS
<1>2. PICK a \in Nat, b \in Nat \ {0} : a = scale.num /\ b = scale.den
  OBVIOUS
<1>3. PICK na \in Nat \ {0} : na = n * a
  BY <1>2, ProductInReach
<1>4. p.num \in Nat /\ p.den \in Nat \ {0} /\ Below(p, na, b) /\ Above(p, na, b)
  BY <1>1, <1>2, <1>3, ProductInReach, RoundedNear
<1>5. PICK e \in Nat, f \in Nat \ {0} : e = p.num /\ f = p.den
  BY <1>4
<1>6. PICK c \in Nat : c = e \div f /\ c * f <= e /\ e < (c + 1) * f
  <2>1. e \div f \in Nat /\ (e \div f) * f <= e /\ e < ((e \div f) + 1) * f
    OBVIOUS
  <2> QED
    BY <2>1
<1>7. c = ScaledCut(n, scale)
  BY <1>1, <1>5, <1>6 DEF ScaledCut
<1> DEFINE lo == 2 * Bits - 1
           hi == 2 * Bits + 1
           two == 2 * Bits
           exact == (n * s) * f
           got == e * q
<1>8. /\ lo * ((n * a) * f) <= two * (e * b) /\ two * (e * b) <= hi * ((n * a) * f)
      /\ lo * (s * b) <= two * (a * q) /\ two * (a * q) <= hi * (s * b)
  BY <1>2, <1>3, <1>4, <1>5 DEF Below, Above
<1>9. lo \in Nat /\ hi \in Nat /\ two \in Nat /\ exact \in Nat /\ got \in Nat
  OBVIOUS
<1>10. /\ lo * lo = 4 * (Bits * Bits) - 4 * Bits + 1
       /\ hi * hi = 4 * (Bits * Bits) + 4 * Bits + 1
       /\ two * two = 4 * (Bits * Bits)
  OBVIOUS
<1> HIDE DEF lo, hi, two
<1> /\ lo * (n * f) \in Nat /\ hi * (n * f) \in Nat /\ two * q \in Nat
    /\ lo * (s * b) \in Int /\ two * (a * q) \in Int /\ hi * (s * b) \in Int
    /\ lo * ((n * a) * f) \in Int /\ two * (e * b) \in Int /\ hi * ((n * a) * f) \in Int
  BY <1>2, <1>9
<1>11. b * ((lo * lo) * exact) <= b * ((two * two) * got)
  <2>1. (lo * (n * f)) * (lo * (s * b)) <= (lo * (n * f)) * (two * (a * q))
    BY <1>8, ProductOrder
  <2>2. (two * q) * (lo * ((n * a) * f)) <= (two * q) * (two * (e * b))
    BY <1>8, ProductOrder
  <2>3. /\ (lo * (n * f)) * (lo * (s * b)) = b * ((lo * lo) * exact)
        /\ (lo * (n * f)) * (two * (a * q)) = (two * q) * (lo * ((n * a) * f))
        /\ (two * q) * (two * (e * b)) = b * ((two * two) * got)
    BY <1>2, <1>9
  <2>4. /\ b * ((lo * lo) * exact) \in Int /\ b * ((two * two) * got) \in Int
        /\ (lo * (n * f)) * (two * (a * q)) \in Int
    BY <1>2, <1>9
  <2> QED
    BY <2>1, <2>2, <2>3, <2>4
<1>12. b * ((two * two) * got) <= b * ((hi * hi) * exact)
  <2>1. (hi * (n * f)) * (two * (a * q)) <= (hi * (n * f)) * (hi * (s * b))
    BY <1>8, ProductOrder
  <2>2. (two * q) * (two * (e * b)) <= (two * q) * (hi * ((n * a) * f))
    BY <1>8, ProductOrder
  <2>3. /\ (hi * (n * f)) * (hi * (s * b)) = b * ((hi * hi) * exact)
        /\ (hi * (n * f)) * (two * (a * q)) = (two * q) * (hi * ((n * a) * f))
        /\ (two * q) * (two * (e * b)) = b * ((two * two) * got)
    BY <1>2, <1>9
  <2>4. /\ b * ((hi * hi) * exact) \in Int /\ b * ((two * two) * got) \in Int
        /\ (hi * (n * f)) * (two * (a * q)) \in Int
    BY <1>2, <1>9
  <2> QED
    BY <2>1, <2>2, <2>3, <2>4
<1> HIDE DEF exact, got
<1>13. (lo * lo) * exact <= (two * two) * got /\ (two * two) * got <= (hi * hi) * exact
  <2>1. (lo * lo) * exact \in Int /\ (two * two) * got \in Int /\ (hi * hi) * exact \in Int
    BY <1>9
  <2> QED
    BY <1>11, <1>12, <2>1, ProductCancel
<1>14. (Bits - 1) * exact <= Bits * got
  <2>1. PICK be \in Nat : be = Bits * exact
    BY <1>9
  <2>2. PICK bg \in Nat : bg = Bits * got
    BY <1>9
  <2>3. /\ (4 * (Bits * Bits) - 4 * Bits + 1) * exact = Bits * (4 * (be - exact)) + exact
        /\ (4 * (Bits * Bits)) * got = Bits * (4 * bg)
    BY <1>9, <2>1, <2>2
  <2>4. Bits * (4 * (be - exact)) <= Bits * (4 * bg)
    <3>1. Bits * (4 * (be - exact)) \in Int /\ Bits * (4 * bg) \in Int
      BY <1>9, <2>1, <2>2
    <3> QED
      BY <1>9, <1>10, <1>13, <2>3, <3>1
  <2>5. 4 * (be - exact) <= 4 * bg
    BY <1>9, <2>1, <2>2, <2>4, ProductCancel
  <2>6. (Bits - 1) * exact = be - exact
    BY <1>9, <2>1
  <2> QED
    BY <1>9, <2>1, <2>2, <2>5, <2>6
<1>15. (4 * (Bits * Bits)) * got <= (4 * (Bits * Bits) + 4 * Bits + 1) * exact
  BY <1>10, <1>13, Zenon
<1>16. /\ (Bits - 1) * ((n * s) * f) <= Bits * (e * q)
       /\ (4 * (Bits * Bits)) * (e * q)
            <= (4 * (Bits * Bits) + 4 * Bits + 1) * ((n * s) * f)
  BY <1>14, <1>15, Zenon DEF exact, got
<1> WITNESS c \in Nat, e \in Nat, f \in Nat \ {0}
<1> QED
  BY <1>6, <1>7, <1>16, Zenon

LEMMA ProductCancelStrict ==
  ASSUME NEW x \in Int, NEW y \in Int, NEW s \in Nat \ {0}, s * x < s * y
  PROVE  x < y
  OBVIOUS

(* Along one side: `whole` is the side of the frame, p/q that of the exact *)
(* crop, and c the one that is computed, by way of e/f.                    *)
LEMMA CropSide ==
  ASSUME NEW whole \in Side, NEW q \in Side, NEW p \in Nat, whole * q <= p,
         Bits \in Nat \ {0}, NEW c \in Nat, NEW e \in Nat, NEW f \in Nat \ {0},
         c * f <= e, e < (c + 1) * f,
         (Bits - 1) * (p * f) <= Bits * (e * q),
         (4 * (Bits * Bits)) * (e * q) <= (4 * (Bits * Bits) + 4 * Bits + 1) * (p * f)
  PROVE  /\ whole - 1 <= c
         /\ p = whole * q => c <= whole
         /\ p - whole * q <= q => c <= whole + 1
         /\ p - whole * q > 2 * q + p \div Bits => whole + 2 <= c
<1> /\ whole \in Nat \ {0} /\ q \in Nat \ {0} /\ 4 * whole < Bits
  BY SideType
<1>1. PICK g \in Nat \ {0} : g = q * f
  <2>1. q * f \in Nat \ {0}
    OBVIOUS
  <2> QED
    BY <2>1
<1>2. PICK eq \in Nat : eq = e * q
  OBVIOUS
<1>3. PICK pf \in Nat : pf = p * f
  OBVIOUS
<1>4. g * c <= eq /\ eq < g * (c + 1)
  <2>1. q * (c * f) <= q * e
    BY ProductOrder
  <2>2. ASSUME q * ((c + 1) * f) <= q * e PROVE FALSE
    <3>1. (c + 1) * f <= e
      BY <2>2, ProductCancel
    <3> QED
      BY <3>1
  <2>3. q * (c * f) = g * c /\ q * e = eq /\ q * ((c + 1) * f) = g * (c + 1)
    BY <1>1, <1>2
  <2>4. g * c \in Nat /\ g * (c + 1) \in Nat
    BY <1>1
  <2> QED
    BY <1>2, <2>1, <2>2, <2>3, <2>4
<1>5. (Bits - 1) * pf < g * (Bits * (c + 1))
  <2>1. (Bits - 1) * pf <= Bits * eq
    BY <1>2, <1>3
  <2>2. Bits * (eq + 1) <= Bits * (g * (c + 1))
    <3>1. eq + 1 <= g * (c + 1) /\ g * (c + 1) \in Int
      BY <1>1, <1>2, <1>4
    <3> QED
      BY <1>2, <3>1, ProductOrder
  <2>3. Bits * (eq + 1) = Bits * eq + Bits /\ Bits * (g * (c + 1)) = g * (Bits * (c + 1))
    BY <1>1, <1>2
  <2>4. (Bits - 1) * pf \in Int /\ Bits * eq \in Int /\ g * (Bits * (c + 1)) \in Int
    BY <1>1, <1>2, <1>3
  <2> QED
    BY <2>1, <2>2, <2>3, <2>4
<1>6. whole - 1 <= c
  <2>1. g * whole <= pf
    <3>1. f * (whole * q) <= f * p
      BY ProductOrder
    <3>2. f * (whole * q) = g * whole /\ f * p = pf
      BY <1>1, <1>3
    <3> QED
      BY <3>1, <3>2
  <2>2. (Bits - 1) * (g * whole) <= (Bits - 1) * pf
    <3>1. g * whole \in Int /\ Bits - 1 \in Nat
      BY <1>1
    <3> QED
      BY <1>3, <2>1, <3>1, ProductOrder
  <2>3. (Bits - 1) * (g * whole) = g * ((Bits - 1) * whole)
    BY <1>1
  <2>4. (Bits - 1) * whole < Bits * (c + 1)
    <3>1. /\ (Bits - 1) * whole \in Int /\ Bits * (c + 1) \in Int /\ (Bits - 1) * pf \in Int
          /\ g * ((Bits - 1) * whole) \in Int /\ g * (Bits * (c + 1)) \in Int
      BY <1>1, <1>3
    <3>2. g * ((Bits - 1) * whole) < g * (Bits * (c + 1))
      BY <1>5, <2>2, <2>3, <3>1
    <3> QED
      BY <1>1, <3>1, <3>2, ProductCancelStrict
  <2>5. ASSUME c + 1 <= whole - 1 PROVE FALSE
    <3>1. Bits * (c + 1) <= Bits * (whole - 1)
      BY <2>5, ProductOrder
    <3>2. /\ Bits * (whole - 1) = Bits * whole - Bits
          /\ (Bits - 1) * whole = Bits * whole - whole
      OBVIOUS
    <3>3. Bits * whole \in Int /\ Bits * (c + 1) \in Int
      OBVIOUS
    <3> QED
      BY <2>4, <3>1, <3>2, <3>3
  <2> QED
    BY <2>5
<1>7. ASSUME NEW k \in Nat, k <= whole + 1, p <= k * q PROVE c <= k
  <2>1. pf <= g * k
    <3>1. f * p <= f * (k * q)
      BY <1>7, ProductOrder
    <3>2. f * p = pf /\ f * (k * q) = g * k
      BY <1>1, <1>3
    <3> QED
      BY <3>1, <3>2
  <2>2. PICK bb \in Nat : bb = Bits * Bits
    OBVIOUS
  <2>3. (4 * bb) * (g * c) <= (4 * bb) * eq
    <3>1. 4 * bb \in Nat /\ g * c \in Int
      BY <1>1, <2>2
    <3> QED
      BY <1>2, <1>4, <3>1, ProductOrder
  <2>4. (4 * bb + 4 * Bits + 1) * pf <= (4 * bb + 4 * Bits + 1) * (g * k)
    <3>1. 4 * bb + 4 * Bits + 1 \in Nat /\ g * k \in Int
      BY <1>1, <2>2
    <3> QED
      BY <1>3, <2>1, <3>1, ProductOrder
  <2>5. (4 * bb) * eq <= (4 * bb + 4 * Bits + 1) * pf
    BY <1>2, <1>3, <2>2
  <2>6. (4 * bb) * c <= (4 * bb + 4 * Bits + 1) * k
    <3>1. /\ (4 * bb) * (g * c) = g * ((4 * bb) * c)
          /\ (4 * bb + 4 * Bits + 1) * (g * k) = g * ((4 * bb + 4 * Bits + 1) * k)
      BY <1>1, <2>2
    <3>2. /\ (4 * bb) * c \in Int /\ (4 * bb + 4 * Bits + 1) * k \in Int
          /\ (4 * bb) * eq \in Int /\ (4 * bb + 4 * Bits + 1) * pf \in Int
          /\ g * ((4 * bb) * c) \in Int
          /\ g * ((4 * bb + 4 * Bits + 1) * k) \in Int
      BY <1>1, <1>2, <1>3, <2>2
    <3>3. g * ((4 * bb) * c) <= g * ((4 * bb + 4 * Bits + 1) * k)
      BY <2>3, <2>4, <2>5, <3>1, <3>2
    <3> QED
      BY <1>1, <3>2, <3>3, ProductCancel
  <2>7. ASSUME k + 1 <= c PROVE FALSE
    <3>1. (4 * bb) * (k + 1) <= (4 * bb) * c
      BY <2>2, <2>7, ProductOrder
    <3>2. PICK bk \in Nat : bk = Bits * k
      OBVIOUS
    <3>3. PICK bbk \in Nat : bbk = bb * k
      BY <2>2
    <3>4. /\ (4 * bb) * (k + 1) = 4 * bbk + 4 * bb
          /\ (4 * bb + 4 * Bits + 1) * k = 4 * bbk + 4 * bk + k
      BY <2>2, <3>2, <3>3
    <3>5. 4 * bb <= 4 * bk + k
      <4>1. (4 * bb) * c \in Int
        BY <2>2
      <4> QED
        BY <2>2, <2>6, <3>1, <3>2, <3>3, <3>4, <4>1
    <3>6. 2 * k <= Bits
      BY <1>7
    <3>7. 2 * bk <= bb
      <4>1. Bits * (2 * k) <= Bits * Bits
        BY <3>6, ProductOrder
      <4>2. Bits * (2 * k) = 2 * bk
        BY <3>2
      <4> QED
        BY <2>2, <4>1, <4>2
    <3>8. Bits <= bb
      <4>1. Bits * 1 <= Bits * Bits
        BY ProductOrder
      <4> QED
        BY <2>2, <4>1
    <3> QED
      BY <2>2, <3>2, <3>5, <3>6, <3>7, <3>8
  <2> QED
    BY <2>7
<1>8. ASSUME p - whole * q > 2 * q + p \div Bits, c <= whole + 1 PROVE FALSE
  <2>1. PICK m \in Nat : m = p \div Bits /\ p < Bits * (m + 1)
    <3>1. p \div Bits \in Nat /\ p < Bits * ((p \div Bits) + 1)
      OBVIOUS
    <3> QED
      BY <3>1
  <2>2. PICK wq \in Nat : wq = whole * q
    OBVIOUS
  <2>3. wq + 2 * q + m + 1 <= p
    BY <1>8, <2>1, <2>2
  <2>4. g * (Bits * (c + 1)) <= g * (Bits * (whole + 2))
    <3>1. Bits * (c + 1) <= Bits * (whole + 2)
      BY <1>8, ProductOrder
    <3> QED
      BY <1>1, <3>1, ProductOrder
  <2>5. (Bits - 1) * pf = f * ((Bits - 1) * p)
    BY <1>3
  <2>6. g * (Bits * (whole + 2)) = f * (Bits * (wq + 2 * q))
    BY <1>1, <2>2
  <2>7. (Bits - 1) * p < Bits * (wq + 2 * q)
    <3>1. /\ (Bits - 1) * p \in Int /\ Bits * (wq + 2 * q) \in Int
          /\ f * ((Bits - 1) * p) \in Int /\ f * (Bits * (wq + 2 * q)) \in Int
          /\ g * (Bits * (c + 1)) \in Int
      BY <1>1, <2>2
    <3>2. f * ((Bits - 1) * p) < f * (Bits * (wq + 2 * q))
      BY <1>5, <2>4, <2>5, <2>6, <3>1
    <3> QED
      BY <3>1, <3>2, ProductCancelStrict
  <2>8. Bits * (wq + 2 * q + m + 1) <= Bits * p
    BY <2>1, <2>2, <2>3, ProductOrder
  <2>9. /\ (Bits - 1) * p = Bits * p - p
        /\ Bits * (wq + 2 * q + m + 1) = Bits * (wq + 2 * q) + Bits * (m + 1)
    BY <2>1, <2>2
  <2>10. Bits * p \in Int /\ Bits * (wq + 2 * q) \in Int /\ Bits * (m + 1) \in Int
    BY <2>1, <2>2
  <2> QED
    BY <2>1, <2>7, <2>8, <2>9, <2>10
<1>9. p = whole * q => c <= whole
  BY <1>7
<1>10. p - whole * q <= q => c <= whole + 1
  <2>1. (whole + 1) * q = whole * q + q /\ whole * q \in Nat
    OBVIOUS
  <2>2. ASSUME p - whole * q <= q PROVE p <= (whole + 1) * q
    BY <2>1, <2>2
  <2> QED
    BY <1>7, <2>2
<1>11. p - whole * q > 2 * q + p \div Bits => whole + 2 <= c
  BY <1>8
<1> QED
  BY <1>6, <1>9, <1>10, <1>11

(* The side the scale comes from, and the other one. *)
LEMMA CropSides ==
  ASSUME Bits \in Nat \ {0}, NEW scale, scale.num \in Nat, scale.den \in Nat \ {0},
         NEW s \in Side, NEW q \in Side, NEW t \in Side, NEW r \in Side,
         NEW p \in Nat, p = r * s, t * q <= p, Below(scale, s, q), Above(scale, s, q)
  PROVE  /\ ScaledCut(q, scale) \in Nat /\ ScaledCut(r, scale) \in Nat
         /\ ScaledCut(q, scale) \in {s - 1, s}
         /\ t - 1 <= ScaledCut(r, scale)
         /\ p = t * q => ScaledCut(r, scale) <= t
         /\ p - t * q <= q => ScaledCut(r, scale) <= t + 1
         /\ p - t * q > 2 * q + p \div Bits => t + 2 <= ScaledCut(r, scale)
<1>1. /\ s \in Nat \ {0} /\ q \in Nat \ {0} /\ t \in Nat \ {0} /\ r \in Nat \ {0}
  BY SideType
<1>2. ScaledCut(q, scale) \in Nat /\ ScaledCut(q, scale) \in {s - 1, s}
  <2>1. PICK own \in Nat : own = q * s
    BY <1>1
  <2>2. PICK c \in Nat, e \in Nat, f \in Nat \ {0} :
          /\ c = ScaledCut(q, scale)
          /\ c * f <= e /\ e < (c + 1) * f
          /\ (Bits - 1) * (own * f) <= Bits * (e * q)
          /\ (4 * (Bits * Bits)) * (e * q)
                <= (4 * (Bits * Bits) + 4 * Bits + 1) * (own * f)
    BY <2>1, CutNear
  <2>3. s * q = own /\ s * q <= own
    BY <1>1, <2>1
  <2>4. s - 1 <= c /\ c <= s
    BY <2>2, <2>3, CropSide
  <2>5. c \in {s - 1, s}
    BY <1>1, <2>4
  <2> QED
    BY <2>2, <2>5
<1>3. PICK c \in Nat, e \in Nat, f \in Nat \ {0} :
        /\ c = ScaledCut(r, scale)
        /\ c * f <= e /\ e < (c + 1) * f
        /\ (Bits - 1) * (p * f) <= Bits * (e * q)
        /\ (4 * (Bits * Bits)) * (e * q)
              <= (4 * (Bits * Bits) + 4 * Bits + 1) * (p * f)
  BY CutNear
<1>4. /\ t - 1 <= c
      /\ p = t * q => c <= t
      /\ p - t * q <= q => c <= t + 1
      /\ p - t * q > 2 * q + p \div Bits => t + 2 <= c
  BY <1>3, CropSide
<1> QED
  BY <1>2, <1>3, <1>4

(* Where the region begins along a side, and how far it goes. *)
LEMMA RegionSide ==
  ASSUME NEW whole \in Nat \ {0}, NEW c \in Nat
  PROVE  LET off == HalfCut(whole - c)
             len == Smaller(c, whole - off)
         IN  /\ off \in Int /\ len \in Int
             /\ whole - 1 <= c /\ c <= whole + 1 => off = 0 /\ len \in {whole - 1, whole}
             /\ whole + 2 <= c => off < 0
<1> PICK off \in Int : off = HalfCut(whole - c)
  BY DEF HalfCut
<1>1. Smaller(c, whole - off) \in Int
  BY DEF Smaller
<1>2. ASSUME whole - 1 <= c, c <= whole + 1 PROVE off = 0
  BY <1>2 DEF HalfCut
<1>3. ASSUME whole - 1 <= c, c <= whole + 1 PROVE Smaller(c, whole - off) \in {whole - 1, whole}
  BY <1>2, <1>3 DEF Smaller
<1>4. whole + 2 <= c => off < 0
  BY DEF HalfCut
<1> QED
  BY <1>1, <1>2, <1>3, <1>4

LEMMA BitsType == ASSUME NEW n \in Side PROVE Bits \in Nat \ {0}
  BY BitsAssumption, SideType

(* What is cut out of a frame that is at least as wide as the buffer, and  *)
(* of one that is at least as high.                                        *)
LEMMA CropWide ==
  ASSUME NEW sw \in Side, NEW sh \in Side, NEW dw \in Side, NEW dh \in Side,
         NEW p \in Nat, p = dh * sw, sh * dw <= p,
         NEW rect, rect = CenterCrop(<<sw, sh>>, <<dw, dh>>)
  PROVE  /\ rect.x = 0 /\ rect.w \in {sw - 1, sw}
         /\ rect.y \in Int /\ rect.h \in Int
         /\ p - sh * dw <= dw => rect.y = 0 /\ rect.h \in {sh - 1, sh}
         /\ p - sh * dw > 2 * dw + p \div Bits => rect.y < 0
<1> DEFINE scale == Scale(<<sw, sh>>, <<dw, dh>>)
<1>1. Bits \in Nat \ {0} /\ sw \in Nat \ {0} /\ sh \in Nat \ {0} /\ dw \in Nat \ {0} /\ dh \in Nat \ {0}
  BY BitsType, SideType
<1>2. /\ scale.num \in Nat /\ scale.den \in Nat \ {0}
      /\ Below(scale, sw, dw) /\ Above(scale, sw, dw)
  <2>1. <<sw, sh>> \in Dimensions /\ <<dw, dh>> \in Dimensions
    BY DEF Dimensions
  <2>2. sh * dw <= sw * dh
    BY <1>1
  <2> QED
    BY <1>1, <2>1, <2>2, ScaleNear
<1>3. /\ CropWidth(<<sw, sh>>, <<dw, dh>>) = ScaledCut(dw, scale)
      /\ CropHeight(<<sw, sh>>, <<dw, dh>>) = ScaledCut(dh, scale)
  BY DEF CropWidth, CropHeight
<1> HIDE DEF scale
<1>4. /\ ScaledCut(dw, scale) \in Nat /\ ScaledCut(dh, scale) \in Nat
      /\ ScaledCut(dw, scale) \in {sw - 1, sw}
      /\ sh - 1 <= ScaledCut(dh, scale)
      /\ p - sh * dw <= dw => ScaledCut(dh, scale) <= sh + 1
      /\ p - sh * dw > 2 * dw + p \div Bits => sh + 2 <= ScaledCut(dh, scale)
  BY <1>1, <1>2, CropSides
<1>5. PICK c \in Nat, d \in Nat : c = ScaledCut(dw, scale) /\ d = ScaledCut(dh, scale)
  BY <1>4
<1>6. /\ rect.x = HalfCut(sw - c) /\ rect.w = Smaller(c, sw - HalfCut(sw - c))
      /\ rect.y = HalfCut(sh - d) /\ rect.h = Smaller(d, sh - HalfCut(sh - d))
  BY <1>3, <1>5 DEF CenterCrop
<1>7. sw - 1 <= c /\ c <= sw + 1
  BY <1>1, <1>4, <1>5
<1>8. rect.x = 0 /\ rect.w \in {sw - 1, sw}
  BY <1>1, <1>6, <1>7, RegionSide
<1>9. /\ rect.y \in Int /\ rect.h \in Int
      /\ d <= sh + 1 => rect.y = 0 /\ rect.h \in {sh - 1, sh}
      /\ sh + 2 <= d => rect.y < 0
  BY <1>1, <1>4, <1>5, <1>6, RegionSide
<1> QED
  BY <1>4, <1>5, <1>8, <1>9

LEMMA CropHigh ==
  ASSUME NEW sw \in Side, NEW sh \in Side, NEW dw \in Side, NEW dh \in Side,
         NEW p \in Nat, p = dw * sh, sw * dh <= p,
         NEW rect, rect = CenterCrop(<<sw, sh>>, <<dw, dh>>)
  PROVE  /\ rect.y = 0 /\ rect.h \in {sh - 1, sh}
         /\ rect.x \in Int /\ rect.w \in Int
         /\ p - sw * dh <= dh => rect.x = 0 /\ rect.w \in {sw - 1, sw}
         /\ p - sw * dh > 2 * dh + p \div Bits => rect.x < 0
<1> DEFINE scale == Scale(<<sw, sh>>, <<dw, dh>>)
<1>1. Bits \in Nat \ {0} /\ sw \in Nat \ {0} /\ sh \in Nat \ {0} /\ dw \in Nat \ {0} /\ dh \in Nat \ {0}
  BY BitsType, SideType
<1>2. /\ scale.num \in Nat /\ scale.den \in Nat \ {0}
      /\ Below(scale, sh, dh) /\ Above(scale, sh, dh)
  <2>1. <<sw, sh>> \in Dimensions /\ <<dw, dh>> \in Dimensions
    BY DEF Dimensions
  <2>2. sw * dh <= sh * dw
    BY <1>1
  <2> QED
    BY <1>1, <2>1, <2>2, ScaleNear
<1>3. /\ CropWidth(<<sw, sh>>, <<dw, dh>>) = ScaledCut(dw, scale)
      /\ CropHeight(<<sw, sh>>, <<dw, dh>>) = ScaledCut(dh, scale)
  BY DEF CropWidth, CropHeight
<1> HIDE DEF scale
<1>4. /\ ScaledCut(dw, scale) \in Nat /\ ScaledCut(dh, scale) \in Nat
      /\ ScaledCut(dh, scale) \in {sh - 1, sh}
      /\ sw - 1 <= ScaledCut(dw, scale)
      /\ p - sw * dh <= dh => ScaledCut(dw, scale) <= sw + 1
      /\ p - sw * dh > 2 * dh + p \div Bits => sw + 2 <= ScaledCut(dw, scale)
  BY <1>1, <1>2, CropSides
<1>5. PICK c \in Nat, d \in Nat : c = ScaledCut(dw, scale) /\ d = ScaledCut(dh, scale)
  BY <1>4
<1>6. /\ rect.x = HalfCut(sw - c) /\ rect.w = Smaller(c, sw - HalfCut(sw - c))
      /\ rect.y = HalfCut(sh - d) /\ rect.h = Smaller(d, sh - HalfCut(sh - d))
  BY <1>3, <1>5 DEF CenterCrop
<1>7. sh - 1 <= d /\ d <= sh + 1
  BY <1>1, <1>4, <1>5
<1>8. rect.y = 0 /\ rect.h \in {sh - 1, sh}
  BY <1>1, <1>6, <1>7, RegionSide
<1>9. /\ rect.x \in Int /\ rect.w \in Int
      /\ c <= sw + 1 => rect.x = 0 /\ rect.w \in {sw - 1, sw}
      /\ sw + 2 <= c => rect.x < 0
  BY <1>1, <1>4, <1>5, <1>6, RegionSide
<1> QED
  BY <1>4, <1>5, <1>8, <1>9

(* What a frame is drawn from and on. *)
Drawn ==
  /\ phase # "idle" => screen \in Dimensions
  /\ best = NoSize \/ best \in Dimensions
  /\ phase \in {"preview", "drawn"} => view \in Dimensions
  /\ phase = "drawn" =>
       /\ roi = CenterCrop(Turned(view), screen)
       /\ sample \in Samples
       /\ Within(roi, Source) =>
            pixel = InMemory(YUV2RGB(sample[1], sample[2], sample[3]))

LEMMA DrawnInvariant == Spec => []Drawn
<1> USE ScreensAssumption, SizesAssumption, FullHDAssumption DEF Dimensions, Drawn
<1>1. Init => Drawn
  BY DEF Init
<1>2. Drawn /\ [Next]_vars => Drawn'
  <2> SUFFICES ASSUME Drawn, [Next]_vars PROVE Drawn'
    OBVIOUS
  <2>1. CASE Begin
    BY <2>1 DEF Begin
  <2>2. CASE Consider
    BY <2>2 DEF Consider
  <2>3. CASE Choose
    BY <2>3 DEF Choose, Turned
  <2>4. CASE DisplayImage
    BY <2>4 DEF DisplayImage, Source
  <2>5. CASE Reset
    BY <2>5 DEF Reset
  <2>6. CASE UNCHANGED vars
    BY <2>6 DEF vars, Source
  <2> QED
    BY <2>1, <2>2, <2>3, <2>4, <2>5, <2>6 DEF Next
<1> QED
  BY <1>1, <1>2, PTL DEF Spec

(* Both cases of a frame that is drawn, side by side. *)
LEMMA RegionOfDrawn ==
  ASSUME Drawn, phase = "drawn"
  PROVE  \E sw \in Side, sh \in Side, dw \in Side, dh \in Side :
           /\ Source = <<sw, sh>> /\ screen = <<dw, dh>>
           /\ roi = CenterCrop(<<sw, sh>>, <<dw, dh>>)
<1>1. Source \in Dimensions /\ screen \in Dimensions /\ roi = CenterCrop(Source, screen)
  BY DEF Drawn, Source, Turned, Dimensions
<1>2. PICK sw \in Side, sh \in Side : Source = <<sw, sh>>
  BY <1>1 DEF Dimensions
<1>3. PICK dw \in Side, dh \in Side : screen = <<dw, dh>>
  BY <1>1 DEF Dimensions
<1> QED
  BY <1>1, <1>2, <1>3

(* Whatever the sizes, a frame of the shape of the window loses at most a  *)
(* column and a row to the rounding, the last ones.                        *)
THEOREM SameShapeIsShown == Spec => []SameShapeShown
<1>1. Drawn => SameShapeShown
  <2> SUFFICES ASSUME Drawn, phase = "drawn",
                      Source[1] * screen[2] = Source[2] * screen[1]
               PROVE  /\ roi.x = 0 /\ roi.y = 0
                      /\ roi.w \in {Source[1] - 1, Source[1]}
                      /\ roi.h \in {Source[2] - 1, Source[2]}
    BY DEF SameShapeShown
  <2>1. PICK sw \in Side, sh \in Side, dw \in Side, dh \in Side :
          /\ Source = <<sw, sh>> /\ screen = <<dw, dh>>
          /\ roi = CenterCrop(<<sw, sh>>, <<dw, dh>>)
    BY RegionOfDrawn
  <2>2. /\ sw \in Nat \ {0} /\ sh \in Nat \ {0} /\ dw \in Nat \ {0} /\ dh \in Nat \ {0}
    BY SideType
  <2>3. PICK p \in Nat : p = dh * sw
    BY <2>2
  <2>4. sh * dw = p
    BY <2>1, <2>2, <2>3
  <2>5. sh * dw <= p /\ p - sh * dw <= dw
    BY <2>2, <2>4
  <2>6. /\ roi.x = 0 /\ roi.w \in {sw - 1, sw}
        /\ roi.y = 0 /\ roi.h \in {sh - 1, sh}
    BY <2>1, <2>3, <2>5, CropWide
  <2> QED
    BY <2>1, <2>6
<1> QED
  BY DrawnInvariant, <1>1, PTL

(* Whatever the sizes, the region is one of the frame when the shape of    *)
(* the frame is that of the window up to a pixel, and leaves the frame     *)
(* when it is off by more than two (Image_Reader.cpp:196-204).             *)
THEOREM FrameFitsWhenClose == Spec => []FitsWhenClose
<1>1. Drawn => FitsWhenClose
  <2> SUFFICES ASSUME Drawn, phase = "drawn" PROVE FitsWhenClose
    BY DEF FitsWhenClose
  <2>1. PICK sw \in Side, sh \in Side, dw \in Side, dh \in Side :
          /\ Source = <<sw, sh>> /\ screen = <<dw, dh>>
          /\ roi = CenterCrop(<<sw, sh>>, <<dw, dh>>)
    BY RegionOfDrawn
  <2>2. /\ sw \in Nat \ {0} /\ sh \in Nat \ {0} /\ dw \in Nat \ {0} /\ dh \in Nat \ {0}
    BY SideType
  <2>3. PICK wide \in Nat : wide = sw * dh
    BY <2>2
  <2>4. PICK high \in Nat : high = sh * dw
    BY <2>2
  <2>5. wide = dh * sw /\ high = dw * sh
    BY <2>2, <2>3, <2>4
  <2>6. /\ Source[1] = sw /\ Source[2] = sh /\ screen[1] = dw /\ screen[2] = dh
        /\ Source[1] * screen[2] = wide /\ Source[2] * screen[1] = high
    BY <2>1, <2>3, <2>4
  <2>7. CASE high <= wide
    <3>1. /\ roi.x = 0 /\ roi.w \in {sw - 1, sw}
          /\ roi.y \in Int /\ roi.h \in Int
          /\ wide - high <= dw => roi.y = 0 /\ roi.h \in {sh - 1, sh}
          /\ wide - high > 2 * dw + wide \div Bits => roi.y < 0
      BY <2>1, <2>4, <2>5, <2>7, CropWide
    <3>2. wide - high <= dw => Within(roi, Source)
      BY <2>2, <2>6, <3>1 DEF Within
    <3>3. wide - high > 2 * dw + wide \div Bits => ~Within(roi, Source)
      BY <3>1 DEF Within
    <3>4. wide - high >= 0
      BY <2>7
    <3> QED
      BY <2>6, <3>2, <3>3, <3>4 DEF FitsWhenClose
  <2>8. CASE ~(high <= wide)
    <3>1. /\ roi.y = 0 /\ roi.h \in {sh - 1, sh}
          /\ roi.x \in Int /\ roi.w \in Int
          /\ high - wide <= dh => roi.x = 0 /\ roi.w \in {sw - 1, sw}
          /\ high - wide > 2 * dh + high \div Bits => roi.x < 0
      <4>1. wide <= high
        BY <2>8
      <4> QED
        BY <2>1, <2>3, <2>5, <4>1, CropHigh
    <3>2. high - wide <= dh => Within(roi, Source)
      BY <2>2, <2>6, <3>1 DEF Within
    <3>3. high - wide > 2 * dh + high \div Bits => ~Within(roi, Source)
      BY <3>1 DEF Within
    <3>4. ~(wide - high >= 0) /\ 0 - (wide - high) = high - wide
      BY <2>8
    <3> QED
      BY <2>6, <3>2, <3>3, <3>4 DEF FitsWhenClose
  <2> QED
    BY <2>7, <2>8
<1> QED
  BY DrawnInvariant, <1>1, PTL

(* The preview has the colours of the standard, in the order of the word.  *)
THEOREM ColoursShown == Spec => []ColourNearReference
<1>1. Drawn => ColourNearReference
  <2> SUFFICES ASSUME Drawn, phase = "drawn", Within(roi, Source)
               PROVE  /\ Near(pixel[3], Shown.red)
                      /\ Near(pixel[2], Shown.green)
                      /\ Near(pixel[1], Shown.blue)
    BY DEF ColourNearReference
  <2> DEFINE y == sample[1]
             u == sample[2]
             v == sample[3]
  <2>1. y \in Byte /\ u \in Byte /\ v \in Byte
    BY SamplesAssumption DEF Drawn
  <2>2. pixel = InMemory(YUV2RGB(y, u, v))
    BY DEF Drawn
  <2>3. Shown = Reference(y, u, v)
    BY DEF Shown
  <2> HIDE DEF y, u, v
  <2>4. /\ pixel[3] = YUV2RGB(y, u, v)[2]
        /\ pixel[2] = YUV2RGB(y, u, v)[3]
        /\ pixel[1] = YUV2RGB(y, u, v)[4]
    BY <2>2 DEF InMemory
  <2> QED
    BY <2>1, <2>3, <2>4, ColourClose
<1> QED
  BY DrawnInvariant, <1>1, PTL

-----------------------------------------------------------------------------
LEMMA CropIsRect ==
  ASSUME NEW src \in Dimensions, NEW dst \in Dimensions
  PROVE  CenterCrop(src, dst) \in [x : Int, y : Int, w : Int, h : Int]
<1>1. PICK sw \in Side, sh \in Side, dw \in Side, dh \in Side :
        src = <<sw, sh>> /\ dst = <<dw, dh>>
  BY DEF Dimensions
<1>2. /\ sw \in Nat \ {0} /\ sh \in Nat \ {0} /\ dw \in Nat \ {0} /\ dh \in Nat \ {0}
  BY SideType
<1>3. PICK wide \in Nat : wide = dh * sw
  BY <1>2
<1>4. PICK high \in Nat : high = dw * sh
  BY <1>2
<1>5. wide = sw * dh /\ high = sh * dw
  BY <1>2, <1>3, <1>4
<1>6. PICK rect : rect = CenterCrop(<<sw, sh>>, <<dw, dh>>)
  OBVIOUS
<1>7. rect.x \in Int /\ rect.y \in Int /\ rect.w \in Int /\ rect.h \in Int
  <2>1. CASE sh * dw <= wide
    BY <1>2, <1>3, <1>6, <2>1, CropWide
  <2>2. CASE ~(sh * dw <= wide)
    <3>1. sw * dh <= high
      BY <1>5, <2>2
    <3> QED
      BY <1>2, <1>4, <1>6, <3>1, CropHigh
  <2> QED
    BY <2>1, <2>2
<1> QED
  BY <1>1, <1>6, <1>7 DEF CenterCrop

(* Every variable keeps its type: the size asked of the Image_Reader is    *)
(* one the camera offers, or Full HD, and each byte of a pixel is one.     *)
THEOREM Typing == Spec => []TypeOK
<1> USE ScreensAssumption, SizesAssumption, FullHDAssumption, EntriesAssumption,
        SamplesAssumption
<1>1. Init => TypeOK
  BY DEF Init, TypeOK, NoRect, Blank, Byte
<1>2. Drawn /\ TypeOK /\ [Next]_vars => TypeOK'
  <2> SUFFICES ASSUME Drawn, TypeOK, [Next]_vars PROVE TypeOK'
    OBVIOUS
  <2> USE DEF TypeOK
  <2>1. CASE Begin
    BY <2>1 DEF Begin
  <2>2. CASE Consider
    <3> PICK s \in Sizes : /\ offered' = Append(offered, s)
                           /\ best' = IF Better(s, screen) THEN s ELSE best
      BY <2>2 DEF Consider
    <3>1. best' \in Sizes \cup {NoSize}
      OBVIOUS
    <3>2. offered' \in Seq(Sizes) /\ Len(offered') = Len(offered) + 1
      OBVIOUS
    <3>3. Len(offered') <= MaxEntries
      BY <2>2, <3>2 DEF Consider
    <3> QED
      BY <2>2, <3>1, <3>2, <3>3 DEF Consider
  <2>3. CASE Choose
    BY <2>3 DEF Choose
  <2>4. CASE DisplayImage
    <3>1. view \in Dimensions /\ screen \in Dimensions
      BY <2>4 DEF DisplayImage, Drawn
    <3>2. roi' \in [x : Int, y : Int, w : Int, h : Int]
      BY <2>4, <3>1, CropIsRect DEF DisplayImage, Turned, Dimensions
    <3>3. sample' \in Samples
      BY <2>4 DEF DisplayImage
    <3>4. InMemory(YUV2RGB(sample'[1], sample'[2], sample'[3]))
            \in Byte \X Byte \X Byte \X Byte
      BY <3>3, PixelIsFourBytes
    <3>5. pixel' \in Byte \X Byte \X Byte \X Byte
      BY <2>4, <3>4 DEF DisplayImage
    <3> QED
      BY <2>4, <3>2, <3>3, <3>5 DEF DisplayImage
  <2>5. CASE Reset
    BY <2>5 DEF Reset, NoRect, Blank, Byte
  <2>6. CASE UNCHANGED vars
    BY <2>6 DEF vars
  <2> QED
    BY <2>1, <2>2, <2>3, <2>4, <2>5, <2>6 DEF Next
<1> QED
  BY DrawnInvariant, <1>1, <1>2, PTL DEF Spec

-----------------------------------------------------------------------------
(* The choice of the capture size.                                         *)

Fractions == [num : Nat, den : Nat \ {0}]

(* a is at most k hundredths above b. *)
OffBy(a, b, k) == 100 * (a.num * b.den - b.num * a.den) <= k * a.den * b.den

(* Hundredths add up. *)
LEMMA OffByAdds ==
  ASSUME NEW a \in Fractions, NEW b \in Fractions, NEW c \in Fractions,
         NEW k \in Nat, OffBy(a, b, 1), OffBy(b, c, k)
  PROVE  OffBy(a, c, k + 1)
<1> DEFINE p == a.num  q == a.den  r == b.num  s == b.den  t == c.num  u == c.den
<1>1. p \in Nat /\ q \in Nat \ {0} /\ r \in Nat /\ s \in Nat \ {0}
      /\ t \in Nat /\ u \in Nat \ {0}
  BY DEF Fractions
<1>2. 100 * (p * s - r * q) <= q * s
  BY <1>1 DEF OffBy
<1>3. 100 * (r * u - t * s) <= k * s * u
  BY DEF OffBy
<1> SUFFICES 100 * (p * u - t * q) <= (k + 1) * q * u
  BY DEF OffBy
<1> HIDE DEF p, q, r, s, t, u
<1>4. p * s \in Nat /\ r * q \in Nat /\ r * u \in Nat /\ t * s \in Nat
      /\ q * s \in Nat /\ k * s * u \in Nat /\ p * u \in Nat /\ t * q \in Nat
      /\ (k + 1) * q * u \in Nat
  BY <1>1
<1>5. u * (100 * (p * s - r * q)) <= u * (q * s)
  BY <1>1, <1>2, <1>4, ProductOrder
<1>6. q * (100 * (r * u - t * s)) <= q * (k * s * u)
  BY <1>1, <1>3, <1>4, ProductOrder
<1>7. u * (100 * (p * s - r * q)) + q * (100 * (r * u - t * s))
        = s * (100 * (p * u - t * q))
  BY <1>1
<1>8. u * (q * s) + q * (k * s * u) = s * ((k + 1) * q * u)
  BY <1>1
<1>9. s * (100 * (p * u - t * q)) <= s * ((k + 1) * q * u)
  <2>1. u * (100 * (p * s - r * q)) \in Int /\ q * (100 * (r * u - t * s)) \in Int
        /\ u * (q * s) \in Int /\ q * (k * s * u) \in Int
    BY <1>1, <1>4
  <2> QED
    BY <2>1, <1>5, <1>6, <1>7, <1>8
<1> QED
  BY <1>1, <1>4, <1>9, ProductCancel

LEMMA OffByGrows ==
  ASSUME NEW a \in Fractions, NEW b \in Fractions, NEW k \in Nat, OffBy(a, b, k)
  PROVE  OffBy(a, b, k + 1)
<1>1. a.num \in Nat /\ a.den \in Nat /\ b.num \in Nat /\ b.den \in Nat
  BY DEF Fractions
<1>2. k * a.den * b.den <= (k + 1) * a.den * b.den
  <2>1. ASSUME NEW d \in Nat, NEW e \in Nat
        PROVE  (k + 1) * d * e = k * d * e + d * e /\ k * d * e \in Nat
    OBVIOUS
  <2>2. a.den * b.den \in Nat
    BY <1>1
  <2> QED
    BY <1>1, <2>1, <2>2
<1>3. a.num * b.den \in Nat /\ b.num * a.den \in Nat
      /\ k * a.den * b.den \in Nat /\ (k + 1) * a.den * b.den \in Nat
  BY <1>1
<1> QED
  BY <1>2, <1>3 DEF OffBy

LEMMA OffByNone ==
  ASSUME NEW a \in Fractions, NEW b \in Fractions, ~Less(b, a)
  PROVE  OffBy(a, b, 0)
<1>1. a.num * b.den \in Nat /\ b.num * a.den \in Nat
      /\ a.den \in Nat /\ b.den \in Nat
  BY DEF Fractions
<1>2. a.num * b.den <= b.num * a.den
  BY <1>1 DEF Less
<1>3. 0 * a.den * b.den = 0
  BY <1>1
<1> QED
  BY <1>1, <1>2, <1>3 DEF OffBy

(* An entry that replaces the best one is less than a hundredth above it. *)
LEMMA OffByOne ==
  ASSUME NEW a \in Fractions, NEW b \in Fractions, Less(a, b) \/ Close(a, b)
  PROVE  OffBy(a, b, 1)
<1>1. a.num * b.den \in Nat /\ b.num * a.den \in Nat
      /\ a.den \in Nat /\ b.den \in Nat /\ a.den * b.den \in Nat
  BY DEF Fractions
<1>2. 1 * a.den * b.den = a.den * b.den
  BY <1>1
<1>3. CASE Less(a, b)
  <2>1. a.num * b.den < b.num * a.den
    BY <1>3 DEF Less
  <2> QED
    BY <2>1, <1>1, <1>2 DEF OffBy
<1>4. CASE Close(a, b)
  <2> DEFINE n == a.num * b.den - b.num * a.den
  <2>1. 100 * (IF n < 0 THEN 0 - n ELSE n) < a.den * b.den
    BY <1>4 DEF Close
  <2>2. n \in Int
    BY <1>1
  <2> HIDE DEF n
  <2>3. 100 * n <= a.den * b.den
    BY <2>1, <2>2, <1>1
  <2> QED
    BY <2>3, <1>2 DEF OffBy, n
<1> QED
  BY <1>3, <1>4

LEMMA OffByZero ==
  ASSUME NEW a \in Fractions, NEW b \in Fractions, NEW k \in Nat, OffBy(a, b, 0)
  PROVE  OffBy(a, b, k)
<1>1. a.num * b.den \in Nat /\ b.num * a.den \in Nat
      /\ a.den \in Nat /\ b.den \in Nat
  BY DEF Fractions
<1>2. 0 * a.den * b.den = 0 /\ k * a.den * b.den \in Nat
  BY <1>1
<1> QED
  BY <1>1, <1>2 DEF OffBy

(* What is below 100 is below what is not. *)
LEMMA HundredBetween ==
  ASSUME NEW a \in Fractions, NEW b \in Fractions,
         Less(a, [num |-> 100, den |-> 1]), ~Less(b, [num |-> 100, den |-> 1])
  PROVE  ~Less(b, a)
<1> DEFINE p == a.num  q == a.den  r == b.num  s == b.den
<1>1. p \in Nat /\ q \in Nat \ {0} /\ r \in Nat /\ s \in Nat \ {0}
  BY DEF Fractions
<1>2. p <= 100 * q /\ 100 * s <= r
  BY <1>1 DEF Less
<1> SUFFICES ~(r * q < p * s)
  BY DEF Less
<1> HIDE DEF p, q, r, s
<1>3. s * p <= s * (100 * q)
  BY <1>1, <1>2, ProductOrder
<1>4. q * (100 * s) <= q * r
  BY <1>1, <1>2, ProductOrder
<1>5. s * (100 * q) = q * (100 * s) /\ s * p = p * s /\ q * r = r * q
  BY <1>1
<1>6. p * s \in Nat /\ r * q \in Nat /\ s * (100 * q) \in Nat
  BY <1>1
<1> QED
  BY <1>3, <1>4, <1>5, <1>6

(* What the loop knows of the entries it has gone over: without a best one *)
(* none came within 100 of the ratio, and a best one is off by at most a   *)
(* hundredth for each entry that came later.                               *)
Drift ==
  /\ phase = "idle" => offered = <<>>
  /\ best = NoSize =>
       \A i \in 1..Len(offered) :
         ~Less(Diff(offered[i], screen), [num |-> 100, den |-> 1])
  /\ best # NoSize =>
       \A i \in 1..Len(offered) :
         OffBy(Diff(best, screen), Diff(offered[i], screen), Len(offered) - i)

LEMMA DiffIsFraction ==
  ASSUME NEW s \in Dimensions, NEW d \in Dimensions
  PROVE  Diff(s, d) \in Fractions
<1>1. /\ s[1] \in Nat \ {0} /\ s[2] \in Nat \ {0}
      /\ d[1] \in Nat \ {0} /\ d[2] \in Nat \ {0}
  BY SideType DEF Dimensions
<1>2. Short(d) \in Nat \ {0} /\ Long(d) \in Nat \ {0}
  BY <1>1 DEF Short, Long
<1> DEFINE n == s[1] * Short(d) - Long(d) * s[2]
<1>3. n \in Int /\ s[2] * Short(d) \in Nat \ {0}
  <2>1. \A x, y \in Nat \ {0} : x * y \in Nat \ {0}
    OBVIOUS
  <2> QED
    BY <1>1, <1>2, <2>1
<1> HIDE DEF n
<1>4. (IF n < 0 THEN 0 - n ELSE n) \in Nat
  BY <1>3
<1> QED
  BY <1>3, <1>4 DEF Diff, Fractions, n

LEMMA ConsiderDrifts ==
  ASSUME Drawn, Drift, TypeOK, Consider
  PROVE  Drift'
<1> USE SizesAssumption DEF Drift
<1>1. PICK s \in Sizes : /\ offered' = Append(offered, s)
                        /\ best' = IF Better(s, screen) THEN s ELSE best
  BY DEF Consider
<1> DEFINE D(x) == Diff(x, screen)
<1>2. /\ screen \in Dimensions /\ screen' = screen /\ phase' = "match"
      /\ offered \in Seq(Sizes) /\ best \in Sizes \cup {NoSize}
  BY DEF Consider, Drawn, TypeOK
<1>3. /\ Len(offered) \in Nat /\ Len(offered') = Len(offered) + 1
      /\ offered'[Len(offered')] = s
      /\ \A i \in 1..Len(offered) : offered'[i] = offered[i] /\ offered[i] \in Sizes
  BY <1>1, <1>2
<1>4. \A i \in 1..Len(offered') :
         i # Len(offered') => /\ i \in 1..Len(offered)
                              /\ offered'[i] = offered[i]
                              /\ offered'[i] \in Sizes
  <2> SUFFICES ASSUME NEW i \in 1..Len(offered'), i # Len(offered')
               PROVE  i \in 1..Len(offered)
    BY <1>3
  <2> QED
    BY <1>3
<1>5. \A x \in Sizes : D(x) \in Fractions
  BY <1>2, DiffIsFraction DEF Dimensions
<1>6. NoSize \notin Sizes
  <2>1. 0 \notin Side
    BY SideType
  <2> QED
    BY <2>1 DEF NoSize
<1> HIDE DEF D
<1>7. CASE best = NoSize /\ Better(s, screen)
  <2>1. best' = s /\ s # NoSize
    BY <1>1, <1>6, <1>7
  <2>2. Less(D(s), [num |-> 100, den |-> 1])
    BY <1>7 DEF Better, D
  <2>3. ASSUME NEW i \in 1..Len(offered')
        PROVE  OffBy(D(s), D(offered'[i]), Len(offered') - i)
    <3>1. CASE i = Len(offered')
      BY <3>1, <1>3, <1>5, OffByNone DEF Less, Fractions
    <3>2. CASE i # Len(offered')
      <4>1. /\ i \in 1..Len(offered) /\ offered'[i] \in Sizes
            /\ offered'[i] = offered[i]
        BY <3>2, <1>4
      <4>2. ~Less(D(offered'[i]), [num |-> 100, den |-> 1])
        BY <4>1, <1>7 DEF D
      <4>3. ~Less(D(offered'[i]), D(s))
        BY <2>2, <4>1, <4>2, <1>5, HundredBetween
      <4>4. OffBy(D(s), D(offered'[i]), 0)
        BY <4>1, <4>3, <1>5, OffByNone
      <4> QED
        BY <4>1, <4>4, <1>3, <1>5, OffByZero
    <3> QED
      BY <3>1, <3>2
  <2> QED
    BY <1>2, <2>1, <2>3 DEF D
<1>8. CASE best = NoSize /\ ~Better(s, screen)
  <2>1. best' = NoSize
    BY <1>1, <1>8
  <2>2. ~Less(D(s), [num |-> 100, den |-> 1])
    BY <1>8 DEF Better, D
  <2>3. ASSUME NEW i \in 1..Len(offered')
        PROVE  ~Less(D(offered'[i]), [num |-> 100, den |-> 1])
    <3>1. CASE i = Len(offered')
      BY <3>1, <1>3, <2>2
    <3>2. CASE i # Len(offered')
      <4>1. i \in 1..Len(offered) /\ offered'[i] = offered[i]
        BY <3>2, <1>4
      <4> QED
        BY <4>1, <1>8 DEF D
    <3> QED
      BY <3>1, <3>2
  <2> QED
    BY <1>2, <2>1, <2>3 DEF D
<1>9. CASE best # NoSize /\ Better(s, screen)
  <2>1. best' = s /\ best \in Sizes /\ s # NoSize
    BY <1>1, <1>2, <1>6, <1>9
  <2>2. OffBy(D(s), D(best), 1)
    BY <1>5, <1>9, <2>1, OffByOne DEF Better, D
  <2>3. ASSUME NEW i \in 1..Len(offered')
        PROVE  OffBy(D(s), D(offered'[i]), Len(offered') - i)
    <3>1. CASE i = Len(offered')
      BY <3>1, <1>3, <1>5, OffByNone DEF Less, Fractions
    <3>2. CASE i # Len(offered')
      <4>1. /\ i \in 1..Len(offered) /\ offered'[i] \in Sizes
            /\ offered'[i] = offered[i]
        BY <3>2, <1>4
      <4>2. OffBy(D(best), D(offered'[i]), Len(offered) - i)
        BY <4>1, <1>9 DEF D
      <4>3. /\ Len(offered) - i \in Nat
            /\ Len(offered') - i = (Len(offered) - i) + 1
        BY <4>1, <1>3
      <4> QED
        BY <4>1, <4>2, <4>3, <2>1, <2>2, <1>5, OffByAdds
    <3> QED
      BY <3>1, <3>2
  <2> QED
    BY <1>2, <2>1, <2>3 DEF D
<1>10. CASE best # NoSize /\ ~Better(s, screen)
  <2>1. best' = best /\ best \in Sizes
    BY <1>1, <1>2, <1>10
  <2>2. ~Less(D(s), D(best))
    BY <1>10 DEF Better, D
  <2>3. ASSUME NEW i \in 1..Len(offered')
        PROVE  OffBy(D(best), D(offered'[i]), Len(offered') - i)
    <3>1. CASE i = Len(offered')
      BY <3>1, <1>3, <1>5, <2>1, <2>2, OffByNone
    <3>2. CASE i # Len(offered')
      <4>1. /\ i \in 1..Len(offered) /\ offered'[i] \in Sizes
            /\ offered'[i] = offered[i]
        BY <3>2, <1>4
      <4>2. OffBy(D(best), D(offered'[i]), Len(offered) - i)
        BY <4>1, <1>10 DEF D
      <4>3. /\ Len(offered) - i \in Nat
            /\ Len(offered') - i = (Len(offered) - i) + 1
        BY <4>1, <1>3
      <4> QED
        BY <4>1, <4>2, <4>3, <2>1, <1>5, OffByGrows
    <3> QED
      BY <3>1, <3>2
  <2> QED
    BY <1>2, <1>10, <2>1, <2>3 DEF D
<1> QED
  BY <1>7, <1>8, <1>9, <1>10

(* The closest ratio can be missed by a hundredth for each entry that came *)
(* later, and by no more (Native_Camera.cpp:112-118).                      *)
THEOREM DriftBounded == Spec => []DriftBound
<1>1. Init => Drift
  BY DEF Init, Drift
<1>2. Drawn /\ TypeOK /\ Drift /\ [Next]_vars => Drift'
  <2> SUFFICES ASSUME Drawn, TypeOK, Drift, [Next]_vars PROVE Drift'
    OBVIOUS
  <2>1. CASE Begin
    BY <2>1 DEF Begin, Drift
  <2>2. CASE Consider
    BY <2>2, ConsiderDrifts
  <2>3. CASE Choose
    BY <2>3 DEF Choose, Drift
  <2>4. CASE DisplayImage
    BY <2>4 DEF DisplayImage, Drift
  <2>5. CASE Reset
    BY <2>5 DEF Reset, Drift
  <2>6. CASE UNCHANGED vars
    BY <2>6 DEF vars, Drift
  <2> QED
    BY <2>1, <2>2, <2>3, <2>4, <2>5, <2>6 DEF Next
<1>3. Drawn /\ TypeOK /\ Drift => DriftBound
  <2> SUFFICES ASSUME Drawn, TypeOK, Drift, NEW i \in 1..Len(offered)
               PROVE  OffBy(Diff(best, screen), Diff(offered[i], screen),
                            Len(offered) - i)
    BY DEF DriftBound, OffBy
  <2>1. CASE best # NoSize
    BY <2>1 DEF Drift
  <2>2. CASE best = NoSize
    <3>1. screen \in Dimensions /\ offered[i] \in Dimensions
      BY SizesAssumption DEF Drawn, Drift, TypeOK, Dimensions
    <3>2. Short(screen) \in Nat /\ Long(screen) \in Nat
      BY <3>1, SideType DEF Dimensions, Short, Long
    <3>3. Diff(best, screen) = [num |-> 0, den |-> 0]
      BY <2>2, <3>2 DEF Diff, NoSize
    <3>4. Diff(offered[i], screen) \in Fractions
      BY <3>1, DiffIsFraction
    <3> QED
      BY <3>3, <3>4 DEF OffBy, Fractions
  <2> QED
    BY <2>1, <2>2
<1> QED
  BY <1>1, <1>2, <1>3, DrawnInvariant, Typing, PTL DEF Spec
=============================================================================
