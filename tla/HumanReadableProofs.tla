--------------------------- MODULE HumanReadableProofs ---------------------------
(***************************************************************************)
(* What is printed is right to the rounding, for ints and long longs of any width.   *)
(* A turn of the loops that divide keeps three facts: what is left of the number is    *)
(* its value in the unit, cut off (Part), it has not been divided more often than it   *)
(* had to be (Exact), and the tenths are those of what the last turn cut off           *)
(* (Rounded).  Six turns leave less than the bound (Left), and of two numbers the       *)
(* smaller is never a unit ahead (Behind), which keeps their order.                      *)
(***************************************************************************)
EXTENDS HumanReadable, TLAPS

USE HumanReadableAssumption

--------------------------------------------------------------------------------
(* Arithmetic.                                                                  *)

LEMMA Quotient ==
  ASSUME NEW a \in Nat
  PROVE  /\ a \div K \in Nat /\ (a % K) \in 0..(K - 1)
         /\ (a \div K) * K + (a % K) = a
BY DEF K

LEMMA QuotientGrows ==
  ASSUME NEW a \in Nat, NEW b \in Nat, a <= b
  PROVE  a \div K <= b \div K
BY DEF K

LEMMA ProductGrows ==
  ASSUME NEW a \in Int, NEW b \in Int, NEW c \in Nat, a <= b
  PROVE  a * c <= b * c
OBVIOUS

(* The tenth nearest to so many K-ths. *)
LEMMA TenthOf ==
  ASSUME NEW m \in 0..(K - 1)
  PROVE  LET f == (m * 10 + K \div 2) \div K
         IN  f \in 0..10 /\ K * f <= 10 * m + 512 /\ 10 * m <= K * f + 511
<1> DEFINE x == m * 10 + 512
<1>1. x \in Nat /\ x <= 10742
  BY DEF K
<1>2. K \div 2 = 512
  BY DEF K
<1> HIDE DEF x
<1>3. (x \div K) * K + (x % K) = x /\ x \div K \in Nat /\ (x % K) \in 0..(K - 1)
  BY <1>1, Quotient
<1>4. ASSUME NEW f \in Nat, NEW r \in 0..(K - 1), f * K + r = x
      PROVE  f \in 0..10 /\ K * f <= x /\ x <= K * f + 1023
  BY <1>1, <1>4 DEF K
<1> DEFINE f == x \div K
<1>5. f \in 0..10 /\ K * f <= x /\ x <= K * f + 1023
  BY <1>3, <1>4
<1> HIDE DEF f
<1>6. f \in 0..10 /\ K * f <= 10 * m + 512 /\ 10 * m <= K * f + 511
  BY <1>5 DEF x, K
<1> QED
  BY <1>2, <1>6 DEF f, x

(* The digits of a number in decimal: the last one and the rest. *)
LEMMA Decimal ==
  ASSUME NEW a \in Nat
  PROVE  a \div 10 \in Nat /\ (a % 10) \in 0..9 /\ 10 * (a \div 10) + (a % 10) = a
OBVIOUS

--------------------------------------------------------------------------------
(* The loops that divide.                                                        *)

(* What is left of a number is its value in the unit, cut off. *)
Part(d, n) == d.unit \in Nat \ {0} /\ \E r \in 0..(d.unit - 1) : n = d.val * d.unit + r

(* No number is divided more often than it has to be. *)
Exact(d, n) == d.unit # 1 => d.unit >= K /\ d.val >= 1

(* The tenths are those of what the last turn cut off. *)
Rounded(d, n) ==
  \/ d.unit = 1 /\ d.frac = 0 /\ d.val = n
  \/ \E w \in Nat \ {0}, m \in 0..(K - 1) : \E r \in 0..(w - 1) :
       /\ d.unit = K * w /\ n = (d.val * K + m) * w + r
       /\ d.frac = (m * 10 + K \div 2) \div K

LEMMA OneTurn ==
  ASSUME NEW d \in Number, NEW max \in Nat
  PROVE  /\ Turn(max)[d] \in Number
         /\ d.val < max => Turn(max)[d] = d
         /\ d.val >= max => Turn(max)[d] = Divided(d)
<1>1. d.val \in Nat /\ d.unit \in Nat
  BY DEF Number
<1>2. (d.val % K) \in 0..(K - 1) /\ d.val \div K \in Nat
  BY <1>1, Quotient
<1>3. ((d.val % K) * 10 + K \div 2) \div K \in 0..10
  BY <1>2, TenthOf
<1>4. d.unit * K \in Nat
  BY <1>1 DEF K
<1>5. Divided(d) \in Number
  BY <1>2, <1>3, <1>4 DEF Divided, Number
<1> QED
  BY <1>1, <1>5 DEF Turn

LEMMA TurnPart ==
  ASSUME NEW d \in Number, NEW max \in Nat, NEW n \in Nat, Part(d, n)
  PROVE  Part(Turn(max)[d], n)
<1> DEFINE e == Turn(max)[d]
<1>1. CASE d.val < max
  BY <1>1, OneTurn
<1>2. CASE d.val >= max
  <2>1. PICK r \in 0..(d.unit - 1) : n = d.val * d.unit + r
    BY DEF Part
  <2>2. d.val \in Nat /\ d.unit \in Nat \ {0}
    BY DEF Part, Number
  <2>3. PICK q \in Nat, m \in 0..(K - 1) : q = d.val \div K /\ d.val = q * K + m
    BY <2>2, Quotient
  <2>4. e.val = q /\ e.unit = d.unit * K
    <3>1. e = Divided(d)
      BY <1>2, OneTurn
    <3> HIDE DEF e
    <3> QED
      BY <2>3, <3>1 DEF Divided
  <2>5. m * d.unit + r \in 0..(d.unit * K - 1)
    <3>1. m * d.unit <= (K - 1) * d.unit /\ m * d.unit \in Nat
      BY <2>2, <2>3, ProductGrows DEF K
    <3> QED
      BY <2>1, <2>2, <3>1 DEF K
  <2>6. n = q * (d.unit * K) + (m * d.unit + r)
    BY <2>1, <2>2, <2>3 DEF K
  <2>7. d.unit * K \in Nat \ {0}
    BY <2>2 DEF K
  <2> QED
    BY <2>4, <2>5, <2>6, <2>7 DEF Part
<1> QED
  BY <1>1, <1>2 DEF Number

LEMMA TurnRounded ==
  ASSUME NEW d \in Number, NEW n \in Nat, Part(d, n), Rounded(d, n)
  PROVE  Rounded(Turn(K)[d], n)
<1> DEFINE e == Turn(K)[d]
<1>1. K \in Nat /\ d.val \in Nat
  BY DEF K, Number
<1>2. CASE d.val < K
  BY <1>1, <1>2, OneTurn
<1>3. CASE d.val >= K
  <2>1. e = Divided(d)
    BY <1>1, <1>3, OneTurn
  <2> HIDE DEF e
  <2>2. PICK r \in 0..(d.unit - 1) : n = d.val * d.unit + r
    BY DEF Part
  <2>3. d.unit \in Nat \ {0}
    BY DEF Part
  <2>4. PICK q \in Nat, m \in 0..(K - 1) : q = d.val \div K /\ m = d.val % K /\ d.val = q * K + m
    BY <1>1, Quotient
  <2>5. e.val = q /\ e.unit = d.unit * K /\ e.frac = (m * 10 + K \div 2) \div K
    BY <2>1, <2>4 DEF Divided
  <2>6. n = (q * K + m) * d.unit + r
    BY <2>2, <2>4
  <2>7. e.unit = K * d.unit
    BY <2>3, <2>5 DEF K
  <2>8. Rounded(e, n)
    BY <2>2, <2>3, <2>4, <2>5, <2>6, <2>7 DEF Rounded
  <2> QED
    BY <2>8 DEF e
<1> QED
  BY <1>1, <1>2, <1>3

LEMMA TurnExact ==
  ASSUME NEW d \in Number, NEW max \in Nat, max >= K, NEW n \in Nat, Part(d, n), Exact(d, n)
  PROVE  Exact(Turn(max)[d], n)
<1> DEFINE e == Turn(max)[d]
<1>1. d.val \in Nat /\ d.unit \in Nat \ {0}
  BY DEF Number, Part
<1>2. CASE d.val < max
  BY <1>2, OneTurn
<1>3. CASE d.val >= max
  <2>1. e = Divided(d)
    BY <1>3, OneTurn
  <2> HIDE DEF e
  <2>2. e.val = d.val \div K /\ e.unit = d.unit * K
    BY <2>1 DEF Divided
  <2>3. d.val >= K
    BY <1>1, <1>3 DEF K
  <2>4. d.val \div K >= 1
    BY <1>1, <2>3 DEF K
  <2>5. d.unit * K >= K
    BY <1>1 DEF K
  <2> QED
    BY <2>2, <2>4, <2>5 DEF Exact, e
<1> QED
  BY <1>1, <1>2, <1>3

(* A number below a bound is below the bound divided, or small enough, after a turn. *)
Left(d, max, b) == d.val < max \/ d.val <= b

LEMMA TurnLeft ==
  ASSUME NEW d \in Number, NEW max \in Nat, NEW b \in Nat, Left(d, max, b)
  PROVE  Left(Turn(max)[d], max, b \div K) /\ b \div K \in Nat
<1> DEFINE e == Turn(max)[d]
<1>1. d.val \in Nat /\ b \div K \in Nat
  BY Quotient DEF Number
<1>2. CASE d.val < max
  BY <1>1, <1>2, OneTurn DEF Left
<1>3. CASE d.val >= max
  <2>1. e = Divided(d)
    BY <1>3, OneTurn
  <2> HIDE DEF e
  <2>2. e.val = d.val \div K
    BY <2>1 DEF Divided
  <2>3. d.val \div K <= b \div K
    BY <1>1, <1>3, QuotientGrows DEF Left
  <2> QED
    BY <1>1, <2>2, <2>3 DEF Left, e
<1> QED
  BY <1>1, <1>2, <1>3

(* Of two numbers the smaller is never divided more often. *)
Behind(d, e) ==
  \/ d.unit = e.unit /\ d.val <= e.val
  \/ d.unit * K <= e.unit /\ d.val < K

LEMMA TurnBehind ==
  ASSUME NEW d \in Number, NEW e \in Number, Behind(d, e)
  PROVE  Behind(Turn(K)[d], Turn(K)[e])
<1> DEFINE d1 == Turn(K)[d]  e1 == Turn(K)[e]
<1>1. /\ K \in Nat /\ d.val \in Nat /\ d.unit \in Nat /\ e.val \in Nat /\ e.unit \in Nat
  BY DEF Number, K
<1>2. /\ d.val < K => d1 = d
      /\ d.val >= K => d1 = Divided(d)
      /\ e.val < K => e1 = e
      /\ e.val >= K => e1 = Divided(e)
  BY <1>1, OneTurn
<1> HIDE DEF d1, e1
<1>3. /\ d.val >= K => d1.val = d.val \div K /\ d1.unit = d.unit * K
      /\ e.val >= K => e1.val = e.val \div K /\ e1.unit = e.unit * K
  BY <1>2 DEF Divided
<1>4. CASE d.val < K /\ e.val < K
  BY <1>2, <1>4 DEF d1, e1
<1>5. CASE d.val < K /\ e.val >= K
  <2>1. e.unit * K >= e.unit /\ (d.unit = e.unit => d.unit * K <= e.unit * K)
    BY <1>1 DEF K
  <2>2. d1 = d /\ e1.unit = e.unit * K
    BY <1>2, <1>3, <1>5
  <2>3. d.unit * K \in Nat /\ e.unit * K \in Nat
    BY <1>1 DEF K
  <2>4. Behind(d1, e1)
    BY <1>1, <1>5, <2>1, <2>2, <2>3 DEF Behind
  <2> QED
    BY <2>4 DEF d1, e1
<1>6. CASE d.val >= K
  <2>1. d.unit = e.unit /\ d.val <= e.val /\ e.val >= K
    BY <1>1, <1>6 DEF Behind
  <2>2. d.val \div K <= e.val \div K
    BY <1>1, <2>1, QuotientGrows
  <2>3. Behind(d1, e1)
    BY <1>3, <1>6, <2>1, <2>2 DEF Behind
  <2> QED
    BY <2>3 DEF d1, e1
<1> QED
  BY <1>1, <1>4, <1>5, <1>6

LEMMA Turns ==
  ASSUME NEW d \in Number, NEW max \in Nat
  PROVE  \E d1, d2, d3, d4, d5, d6 \in Number :
           /\ d1 = Turn(max)[d] /\ d2 = Turn(max)[d1] /\ d3 = Turn(max)[d2]
           /\ d4 = Turn(max)[d3] /\ d5 = Turn(max)[d4] /\ d6 = Turn(max)[d5]
           /\ Divide(d, max) = d6
<1> DEFINE t == Turn(max)
<1>1. \A e \in Number : t[e] \in Number
  BY OneTurn
<1>2. Divide(d, max) = t[t[t[t[t[t[d]]]]]]
  BY DEF Divide
<1> HIDE DEF t
<1>3. \E d1, d2, d3, d4, d5, d6 \in Number :
        d1 = t[d] /\ d2 = t[d1] /\ d3 = t[d2] /\ d4 = t[d3] /\ d5 = t[d4] /\ d6 = t[d5]
        /\ Divide(d, max) = d6
  BY <1>1, <1>2
<1> QED
  BY <1>3 DEF t

CutOff(d, n) == d \in Number /\ Part(d, n) /\ Exact(d, n)

(* Six turns are enough. *)
LEMMA DivideCuts ==
  ASSUME NEW d, NEW max \in Nat, max >= K, NEW n \in Nat, CutOff(d, n), d.val < ULLONG
  PROVE  CutOff(Divide(d, max), n) /\ Divide(d, max).val < max
<1>1. d \in Number
  BY DEF CutOff
<1>2. PICK d1, d2, d3, d4, d5, d6 \in Number :
        /\ d1 = Turn(max)[d] /\ d2 = Turn(max)[d1] /\ d3 = Turn(max)[d2]
        /\ d4 = Turn(max)[d3] /\ d5 = Turn(max)[d4] /\ d6 = Turn(max)[d5]
        /\ Divide(d, max) = d6
  BY <1>1, Turns
<1>3. ASSUME NEW e, CutOff(e, n) PROVE CutOff(Turn(max)[e], n)
  BY <1>3, OneTurn, TurnPart, TurnExact DEF CutOff
<1>4. CutOff(d3, n)
  BY <1>2, <1>3
<1>5. CutOff(d6, n)
  BY <1>2, <1>3, <1>4
<1>6. PICK b1, b2, b3, b4, b5, b6 \in Nat :
        /\ b1 = ULLONG \div K /\ b2 = b1 \div K /\ b3 = b2 \div K
        /\ b4 = b3 \div K /\ b5 = b4 \div K /\ b6 = b5 \div K
        /\ b6 < K
  <2>1. \A b \in Nat : b \div K \in Nat
    BY Quotient
  <2> QED
    BY <2>1
<1>7. \A e, f \in Number : \A b, c \in Nat :
        Left(e, max, b) /\ f = Turn(max)[e] /\ c = b \div K => Left(f, max, c)
  BY TurnLeft
<1>8. Left(d1, max, b1)
  <2>1. Left(d, max, ULLONG)
    BY <1>1 DEF Left, Number
  <2> QED
    BY <1>1, <1>2, <1>6, <1>7, <2>1
<1>9. Left(d2, max, b2)
  BY <1>2, <1>6, <1>7, <1>8
<1>10. Left(d3, max, b3)
  BY <1>2, <1>6, <1>7, <1>9
<1>11. Left(d4, max, b4)
  BY <1>2, <1>6, <1>7, <1>10
<1>12. Left(d5, max, b5)
  BY <1>2, <1>6, <1>7, <1>11
<1>13. Left(d6, max, b6)
  BY <1>2, <1>6, <1>7, <1>12
<1>14. d6.val < max
  BY <1>6, <1>13 DEF Left, Number, K
<1> QED
  BY <1>2, <1>5, <1>14

LEMMA DivideRounds ==
  ASSUME NEW d \in Number, NEW n \in Nat, Part(d, n), Rounded(d, n)
  PROVE  Rounded(Divide(d, K), n)
<1>1. K \in Nat
  BY DEF K
<1>2. PICK d1, d2, d3, d4, d5, d6 \in Number :
        /\ d1 = Turn(K)[d] /\ d2 = Turn(K)[d1] /\ d3 = Turn(K)[d2]
        /\ d4 = Turn(K)[d3] /\ d5 = Turn(K)[d4] /\ d6 = Turn(K)[d5]
        /\ Divide(d, K) = d6
  BY <1>1, Turns
<1>3. ASSUME NEW e \in Number, Part(e, n), Rounded(e, n)
      PROVE  Part(Turn(K)[e], n) /\ Rounded(Turn(K)[e], n)
  BY <1>1, <1>3, TurnPart, TurnRounded
<1>4. Part(d3, n) /\ Rounded(d3, n)
  BY <1>2, <1>3
<1>5. Rounded(d6, n)
  BY <1>2, <1>3, <1>4
<1> QED
  BY <1>2, <1>5

LEMMA DivideKeepsOrder ==
  ASSUME NEW d \in Number, NEW e \in Number, Behind(d, e)
  PROVE  Behind(Divide(d, K), Divide(e, K))
<1>1. K \in Nat
  BY DEF K
<1>2. PICK d1, d2, d3, d4, d5, d6 \in Number :
        /\ d1 = Turn(K)[d] /\ d2 = Turn(K)[d1] /\ d3 = Turn(K)[d2]
        /\ d4 = Turn(K)[d3] /\ d5 = Turn(K)[d4] /\ d6 = Turn(K)[d5]
        /\ Divide(d, K) = d6
  BY <1>1, Turns
<1>3. PICK e1, e2, e3, e4, e5, e6 \in Number :
        /\ e1 = Turn(K)[e] /\ e2 = Turn(K)[e1] /\ e3 = Turn(K)[e2]
        /\ e4 = Turn(K)[e3] /\ e5 = Turn(K)[e4] /\ e6 = Turn(K)[e5]
        /\ Divide(e, K) = e6
  BY <1>1, Turns
<1>4. Behind(d3, e3)
  <2>1. Behind(d1, e1)
    BY <1>2, <1>3, TurnBehind
  <2>2. Behind(d2, e2)
    BY <1>2, <1>3, <2>1, TurnBehind
  <2> QED
    BY <1>2, <1>3, <2>2, TurnBehind
<1>5. Behind(d6, e6)
  <2>1. Behind(d4, e4)
    BY <1>2, <1>3, <1>4, TurnBehind
  <2>2. Behind(d5, e5)
    BY <1>2, <1>3, <2>1, TurnBehind
  <2> QED
    BY <1>2, <1>3, <2>2, TurnBehind
<1> QED
  BY <1>2, <1>3, <1>5

--------------------------------------------------------------------------------
(* make_human_readable_str.                                                      *)

Start(n) == [val |-> n, frac |-> 0, unit |-> 1]

LEMMA StartCut ==
  ASSUME NEW n \in Nat
  PROVE  CutOff(Start(n), n) /\ Rounded(Start(n), n) /\ Start(n).val = n
<1>1. /\ Start(n) \in Number /\ Start(n).val = n /\ Start(n).frac = 0 /\ Start(n).unit = 1
  BY DEF Start, Number
<1>2. n = n * 1 + 0 /\ 0 \in 0..(1 - 1)
  OBVIOUS
<1>3. Part(Start(n), n)
  BY <1>1, <1>2 DEF Part
<1> QED
  BY <1>1, <1>3 DEF CutOff, Exact, Rounded

LEMMA Converted ==
  ASSUME NEW n \in Nat, n < ULLONG
  PROVE  LET d == Divide(Start(n), K)
         IN  d \in Number /\ d.val < K /\ Exact(d, n) /\ Rounded(d, n)
<1>1. K \in Nat /\ K >= K
  BY DEF K
<1>2. CutOff(Divide(Start(n), K), n) /\ Divide(Start(n), K).val < K
  BY <1>1, StartCut, DivideCuts
<1>3. Rounded(Divide(Start(n), K), n)
  BY StartCut, DivideRounds DEF CutOff
<1> QED
  BY <1>2, <1>3 DEF CutOff

(* How far the tenths are from the number: half a tenth of the unit, and what is left of  *)
(* the unit below.                                                                         *)
LEMMA RoundedTo ==
  ASSUME NEW d \in Number, NEW n \in Nat, Rounded(d, n), d.unit # 1
  PROVE  \E w \in Nat \ {0}, m \in 0..(K - 1) :
           /\ d.unit = K * w /\ d.frac = (m * 10 + K \div 2) \div K
           /\ Tenths(d) \in Nat
           /\ Tenths(d) <= 10 * n + 512 * w /\ 10 * n <= Tenths(d) + 521 * w
           /\ d.frac >= 5 => 10 * (d.val + 1) * d.unit <= 10 * n + 5632 * w
           /\ d.frac < 5 => 10 * n <= 10 * d.val * d.unit + 5632 * w
<1>1. PICK w \in Nat \ {0}, m \in 0..(K - 1) : \E r \in 0..(w - 1) :
        /\ d.unit = K * w /\ n = (d.val * K + m) * w + r
        /\ d.frac = (m * 10 + K \div 2) \div K
  BY DEF Rounded
<1>2. PICK r \in 0..(w - 1) : n = (d.val * K + m) * w + r
  BY <1>1
<1>3. d.frac \in 0..10 /\ K * d.frac <= 10 * m + 512 /\ 10 * m <= K * d.frac + 511
  BY <1>1, TenthOf
<1>4. PICK v \in Nat, f \in 0..10 : v = d.val /\ f = d.frac
  BY <1>3 DEF Number
<1>5. PICK p, q, s \in Nat : p = v * w /\ q = m * w /\ s = f * w
  BY DEF K
<1>6. 10 * n = 10240 * p + 10 * q + 10 * r
  BY <1>2, <1>4, <1>5 DEF K
<1>7. Tenths(d) = 10240 * p + 1024 * s
  BY <1>1, <1>4, <1>5 DEF Tenths, K
<1>8. 1024 * s <= 10 * q + 512 * w
  <2>1. (1024 * f) * w <= (10 * m + 512) * w
    BY <1>3, <1>4, ProductGrows DEF K
  <2> QED
    BY <1>5, <2>1 DEF K
<1>9. 10 * q <= 1024 * s + 511 * w
  <2>1. (10 * m) * w <= (1024 * f + 511) * w
    BY <1>3, <1>4, ProductGrows DEF K
  <2> QED
    BY <1>5, <2>1 DEF K
<1>10. Tenths(d) <= 10 * n + 512 * w /\ 10 * n <= Tenths(d) + 521 * w
  BY <1>6, <1>7, <1>8, <1>9
<1>11. 10 * d.val * d.unit = 10240 * p /\ 10 * (d.val + 1) * d.unit = 10240 * p + 10240 * w
  BY <1>1, <1>4, <1>5 DEF K
<1>12. ASSUME d.frac >= 5 PROVE 10 * (d.val + 1) * d.unit <= 10 * n + 5632 * w
  <2>1. 4609 <= 10 * m
    BY <1>3, <1>4, <1>12 DEF K
  <2>2. 4609 * w <= (10 * m) * w
    BY <2>1, ProductGrows DEF K
  <2>3. 4609 * w <= 10 * q
    BY <1>5, <2>2 DEF K
  <2> QED
    BY <1>6, <1>11, <2>3
<1>13. ASSUME d.frac < 5 PROVE 10 * n <= 10 * d.val * d.unit + 5632 * w
  <2>1. 10 * m <= 4607
    BY <1>3, <1>4, <1>13 DEF K
  <2>2. (10 * m) * w <= 4607 * w
    BY <2>1, ProductGrows DEF K
  <2>3. 10 * q <= 4607 * w
    BY <1>5, <2>2 DEF K
  <2> QED
    BY <1>6, <1>11, <2>3
<1> QED
  BY <1>1, <1>7, <1>10, <1>12, <1>13

(* Where ten tenths are made a whole, the number stays the same. *)
LEMMA CarriedIs ==
  ASSUME NEW d \in Number
  PROVE  /\ Carried(d).val \in {d.val, d.val + 1} /\ Carried(d).frac \in 0..9
         /\ Carried(d).unit = d.unit /\ Tenths(Carried(d)) = Tenths(d)
         /\ d.frac < 10 => Carried(d) = d
         /\ d.frac = 10 => Carried(d).val = d.val + 1 /\ Carried(d).frac = 0
<1> DEFINE c == Carried(d)
<1>1. d.val \in Nat /\ d.frac \in 0..10 /\ d.unit \in Nat /\ d = [val |-> d.val, frac |-> d.frac, unit |-> d.unit]
  BY DEF Number
<1>2. CASE d.frac < 10
  <2>1. Carried(d) = d
    BY <1>1, <1>2 DEF Carried
  <2> QED
    BY <1>1, <1>2, <2>1
<1>3. CASE d.frac = 10
  <2>1. c.val = d.val + 1 /\ c.frac = 0 /\ c.unit = d.unit
    BY <1>1, <1>3 DEF Carried
  <2> HIDE DEF c
  <2>2. Tenths(c) = (10 * (d.val + 1) + 0) * d.unit /\ Tenths(d) = (10 * d.val + 10) * d.unit
    BY <1>3, <2>1 DEF Tenths
  <2>3. 10 * (d.val + 1) + 0 = 10 * d.val + 10
    BY <1>1
  <2>4. Tenths(c) = Tenths(d)
    BY <2>2, <2>3
  <2> QED
    BY <1>3, <2>1, <2>4 DEF c
<1> QED
  BY <1>1, <1>2, <1>3

--------------------------------------------------------------------------------
(* The counter.                                                                  *)

LEMMA Remainder ==
  ASSUME NEW b \in Nat \ {0}, NEW a \in Int
  PROVE  (a % b) \in 0..(b - 1)
OBVIOUS

LEMMA SmallRemainder ==
  ASSUME NEW b \in Nat \ {0}, NEW a \in 0..(b - 1)
  PROVE  a % b = a
OBVIOUS

(* An int holds what fits in it. *)
LEMMA IntIs ==
  ASSUME NEW x \in Int
  PROVE  /\ ToInt(x) \in -(INT_MAX + 1)..INT_MAX
         /\ x \in 0..INT_MAX => ToInt(x) = x
<1>1. PICK m \in Nat \ {0} : m = INT_MAX + 1 /\ 2 * m \in Nat \ {0}
  OBVIOUS
<1>2. ((x + m) % (2 * m)) \in 0..(2 * m - 1)
  BY <1>1, Remainder
<1>3. ASSUME x \in 0..INT_MAX PROVE (x + m) % (2 * m) = x + m
  <2>1. PICK b \in Nat \ {0}, a \in Nat : b = 2 * m /\ a = x + m /\ a \in 0..(b - 1)
    BY <1>1, <1>3
  <2>2. a % b = a
    BY <2>1, SmallRemainder
  <2> QED
    BY <2>1, <2>2
<1>4. ToInt(x) = ((x + m) % (2 * m)) - m
  BY <1>1 DEF ToInt
<1> QED
  BY <1>1, <1>2, <1>3, <1>4

SizesInv == SizesTypeOK /\ (InRange => blocks = total)

LEMMA InitSizes == Init => SizesInv
BY DEF Init, SizesInv, SizesTypeOK

LEMMA NextSizes ==
  ASSUME SizesInv, [Next]_sizeVars
  PROVE  SizesInv' /\ total <= total'
<1>1. CASE UNCHANGED sizeVars
  BY <1>1 DEF sizeVars, SizesInv, SizesTypeOK, InRange
<1>2. ASSUME NEW b \in StBlocks, CountBlocks(b) PROVE SizesInv' /\ total <= total'
  <2>1. b \in Nat /\ blocks \in Int /\ total \in Nat /\ blocks + b \in Int
    BY DEF SizesInv, SizesTypeOK
  <2>2. total' = total + b /\ blocks' = ToInt(blocks + b)
    BY <1>2 DEF CountBlocks
  <2>3. SizesTypeOK'
    BY <2>1, <2>2, IntIs DEF SizesTypeOK
  <2>4. InRange' => blocks' = total'
    <3>1. ASSUME InRange' PROVE blocks + b = total' /\ total' \in 0..INT_MAX
      BY <2>1, <2>2, <3>1 DEF InRange, SizesInv
    <3> QED
      BY <2>1, <2>2, <3>1, IntIs
  <2> QED
    BY <2>1, <2>2, <2>3, <2>4 DEF SizesInv
<1> QED
  BY <1>1, <1>2 DEF Next, SizesInv, SizesTypeOK

--------------------------------------------------------------------------------
(* What is printed of a counter that has not wrapped.                            *)

LEMMA BytesAre ==
  ASSUME SizesInv, InRange
  PROVE  /\ blocks = total /\ total \in 0..INT_MAX
         /\ Bytes \in Nat /\ Bytes + 512 < ULLONG
BY DEF SizesInv, SizesTypeOK, InRange, Bytes, K

LEMMA WithoutOverflow ==
  ASSUME NEW a \in Nat, a < ULLONG
  PROVE  a % ULLONG = a
<1>1. PICK b \in Nat \ {0} : b = ULLONG /\ a \in 0..(b - 1)
  OBVIOUS
<1>2. a % b = a
  BY <1>1, SmallRemainder
<1> QED
  BY <1>1, <1>2

LEMMA FreedIs ==
  ASSUME SizesInv, InRange
  PROVE  Freed = Carried(Divide(Start(Bytes), K))
<1>1. blocks % ULLONG = total
  <2>1. total \in Nat /\ total < ULLONG
    BY BytesAre DEF K
  <2> QED
    BY <2>1, BytesAre, WithoutOverflow
<1>2. total * 512 = Bytes /\ Bytes \in Nat /\ Bytes < ULLONG
  BY BytesAre DEF Bytes
<1>3. (total * 512) % ULLONG = Bytes
  BY <1>2, WithoutOverflow
<1>4. MakeHumanReadable(total, 512, 0) = Carried(Divide(Start(Bytes), K))
  BY <1>3 DEF MakeHumanReadable, Start
<1> QED
  BY <1>1, <1>4 DEF Freed

LEMMA FreedRight ==
  ASSUME SizesInv
  PROVE  FreedIsRight
<1> SUFFICES ASSUME InRange PROVE FreedIsRight
  BY DEF FreedIsRight
<1>1. Bytes \in Nat /\ Bytes + 512 < ULLONG
  BY BytesAre
<1> DEFINE d == Divide(Start(Bytes), K)
           f == Freed
           g == MakeHumanReadable(Bytes, 0, 0)
           k == MakeHumanReadable(Bytes, 1, K)
<1>2. d \in Number /\ d.val < K /\ Exact(d, Bytes) /\ Rounded(d, Bytes)
  BY <1>1, Converted
<1>3. d.val \in Nat /\ d.frac \in 0..10 /\ d.unit \in Nat
  BY <1>2 DEF Number
<1>4. f = Carried(d)
  BY FreedIs
<1>5. /\ f.val \in {d.val, d.val + 1} /\ f.frac \in 0..9 /\ f.unit = d.unit /\ Tenths(f) = Tenths(d)
      /\ d.frac < 10 => f = d
      /\ d.frac = 10 => f.val = d.val + 1 /\ f.frac = 0
  BY <1>2, <1>4, CarriedIs
<1>6. f.frac \in 0..9 /\ f.val <= K
  BY <1>2, <1>3, <1>5 DEF K
<1>7. /\ Bytes * 1 = Bytes /\ Bytes % ULLONG = Bytes
      /\ K \div 2 = 512 /\ K # 0 /\ ~(K = 0) /\ (Bytes + 512) % ULLONG = Bytes + 512
  <2>1. Bytes < ULLONG /\ Bytes + 512 \in Nat
    BY <1>1
  <2> QED
    BY <1>1, <2>1, WithoutOverflow DEF K
<1>8. /\ g.unit = f.unit /\ g.frac = 0
      /\ g.val = IF f.frac >= 5 THEN f.val + 1 ELSE f.val
  BY <1>4, <1>7 DEF MakeHumanReadable, Start
<1>9. k.val = (Bytes + 512) \div K /\ k.frac = 0 /\ k.unit = 1
  BY <1>7 DEF MakeHumanReadable, Start
<1> HIDE DEF d, f, g, k
<1>10. Off(k, Bytes \div K) <= 10
  <2>1. PICK a \in Nat, r \in 0..(K - 1) : a = Bytes \div K /\ a * K + r = Bytes
    BY <1>1, Quotient
  <2>2. PICK b \in Nat, s \in 0..(K - 1) : b = (Bytes + 512) \div K /\ b * K + s = Bytes + 512
    BY <1>1, Quotient
  <2>3. b \in a..(a + 1)
    BY <2>1, <2>2 DEF K
  <2>4. Tenths(k) = 10 * b
    BY <1>9, <2>2 DEF Tenths
  <2> QED
    BY <2>1, <2>3, <2>4 DEF Off
<1>11. CASE d.unit = 1
  <2>1. d.frac = 0 /\ d.val = Bytes
    <3>1. \A w \in Nat \ {0} : K * w # 1
      BY DEF K
    <3> QED
      BY <1>2, <1>11, <3>1 DEF Rounded
  <2>2. Tenths(f) = 10 * Bytes /\ Tenths(g) = 10 * Bytes
    BY <1>1, <1>3, <1>5, <1>8, <1>11, <2>1 DEF Tenths
  <2>3. Off(f, Bytes) <= 0 /\ Off(g, Bytes) <= 0
    BY <1>1, <2>2 DEF Off
  <2> QED
    BY <1>5, <1>6, <1>8, <1>10, <1>11, <2>3 DEF FreedIsRight, f, g, k
<1>12. CASE d.unit # 1
  <2>1. PICK w \in Nat \ {0}, m \in 0..(K - 1) :
          /\ d.unit = K * w /\ d.frac = (m * 10 + K \div 2) \div K
          /\ Tenths(d) \in Nat
          /\ Tenths(d) <= 10 * Bytes + 512 * w /\ 10 * Bytes <= Tenths(d) + 521 * w
          /\ d.frac >= 5 => 10 * (d.val + 1) * d.unit <= 10 * Bytes + 5632 * w
          /\ d.frac < 5 => 10 * Bytes <= 10 * d.val * d.unit + 5632 * w
    BY <1>1, <1>2, <1>12, RoundedTo
  <2>2. /\ d.unit \div 2 = 512 * w /\ d.unit \div K = w /\ (11 * d.unit) \div 2 = 5632 * w
    BY <2>1 DEF K
  <2>3. Off(f, Bytes) <= d.unit \div 2 + 10 * (d.unit \div K)
    BY <1>1, <1>5, <2>1, <2>2 DEF Off
  <2>4. Off(g, Bytes) <= (11 * d.unit) \div 2
    <3>1. Tenths(g) = 10 * g.val * d.unit
      BY <1>3, <1>5, <1>8 DEF Tenths
    <3>2. PICK u \in Nat, q \in Nat : u = d.unit /\ q = d.val * u
      BY <1>3
    <3>3. Tenths(d) = 10 * q + d.frac * u /\ 10 * (d.val + 1) * d.unit = 10 * q + 10 * u
          /\ 10 * d.val * d.unit = 10 * q
      BY <1>3, <3>2 DEF Tenths
    <3>4. CASE d.frac = 10
      <4>1. g.val = d.val + 1
        BY <1>3, <1>5, <1>8, <3>4
      <4>2. Tenths(g) = Tenths(d)
        BY <3>1, <3>3, <3>4, <4>1, <3>2, <1>3
      <4> QED
        BY <1>1, <2>1, <2>2, <4>2 DEF Off
    <3>5. CASE d.frac \in 5..9
      <4>1. g.val = d.val + 1
        BY <1>3, <1>5, <1>8, <3>5
      <4>2. Tenths(g) = 10 * (d.val + 1) * d.unit
        BY <3>1, <4>1
      <4>3. d.frac * u <= 10 * u
        BY <3>2, <3>5, ProductGrows
      <4>4. Tenths(d) <= Tenths(g)
        BY <3>3, <4>2, <4>3, <3>2, <1>3
      <4>5. Tenths(g) \in Int
        BY <3>2, <3>3, <4>2
      <4> QED
        BY <1>1, <2>1, <2>2, <3>5, <4>2, <4>4, <4>5 DEF Off
    <3>6. CASE d.frac < 5
      <4>1. g.val = d.val
        BY <1>3, <1>5, <1>8, <3>6
      <4>2. Tenths(g) = 10 * d.val * d.unit
        BY <3>1, <4>1
      <4>3. 0 * u <= d.frac * u
        BY <1>3, <3>2, ProductGrows
      <4>4. Tenths(g) <= Tenths(d)
        BY <1>3, <3>2, <3>3, <4>2, <4>3
      <4>5. Tenths(g) \in Int
        BY <3>2, <3>3, <4>2
      <4> QED
        BY <1>1, <2>1, <2>2, <3>6, <4>2, <4>4, <4>5 DEF Off
    <3> QED
      BY <1>3, <3>4, <3>5, <3>6
  <2> QED
    BY <1>5, <1>6, <1>8, <1>10, <1>12, <2>3, <2>4 DEF FreedIsRight, f, g, k
<1> QED
  BY <1>11, <1>12

(* The larger of two numbers is never printed as the smaller. *)
LEMMA PrintedKeepsOrder ==
  ASSUME NEW m \in Nat, NEW n \in Nat, m <= n, n < ULLONG
  PROVE  Tenths(Carried(Divide(Start(m), K))) <= Tenths(Carried(Divide(Start(n), K)))
<1> DEFINE d == Divide(Start(m), K)
           e == Divide(Start(n), K)
<1>1. /\ d \in Number /\ d.val < K /\ Exact(d, m) /\ Rounded(d, m)
      /\ e \in Number /\ e.val < K /\ Exact(e, n) /\ Rounded(e, n)
  BY Converted
<1>2. Tenths(Carried(d)) = Tenths(d) /\ Tenths(Carried(e)) = Tenths(e)
  BY <1>1, CarriedIs
<1>3. Behind(d, e)
  <2>1. Start(m) \in Number /\ Start(n) \in Number /\ Behind(Start(m), Start(n))
    BY StartCut DEF CutOff, Behind, Start
  <2> QED
    BY <2>1, DivideKeepsOrder
<1> HIDE DEF d, e
<1>4. /\ d.val \in Nat /\ d.frac \in 0..10 /\ d.unit \in Nat
      /\ e.val \in Nat /\ e.frac \in 0..10 /\ e.unit \in Nat
  BY <1>1 DEF Number
<1>5. Tenths(d) <= Tenths(e)
  <2>1. CASE d.unit # e.unit
    <3>1. d.unit * K <= e.unit
      BY <1>3, <2>1 DEF Behind
    <3>2. e.unit # 1 \/ d.unit = 0
      BY <1>4, <3>1 DEF K
    <3>3. e.val >= 1 \/ d.unit = 0
      BY <1>1, <3>2 DEF Exact
    <3>4. (10 * d.val + d.frac) * d.unit <= (10 * K) * d.unit
      BY <1>1, <1>4, ProductGrows DEF K
    <3>5. (10 * 1) * e.unit <= (10 * e.val + e.frac) * e.unit \/ d.unit = 0
      BY <1>4, <3>3, ProductGrows
    <3>6. (10 * K) * d.unit <= (10 * 1) * e.unit
      BY <1>4, <3>1 DEF K
    <3>7. (10 * e.val + e.frac) * e.unit \in Nat
      <4>1. PICK a \in Nat : a = 10 * e.val + e.frac
        BY <1>4
      <4>2. a * e.unit \in Nat
        BY <1>4
      <4> QED
        BY <4>1, <4>2
    <3>8. (10 * d.val + d.frac) * d.unit <= (10 * e.val + e.frac) * e.unit \/ d.unit = 0
      <4>1. PICK x, y, z, u \in Nat : /\ x = (10 * d.val + d.frac) * d.unit /\ y = (10 * K) * d.unit
                                     /\ z = (10 * 1) * e.unit /\ u = (10 * e.val + e.frac) * e.unit
        <5>1. PICK a \in Nat : a = 10 * d.val + d.frac
          BY <1>4
        <5>2. a * d.unit \in Nat /\ (10 * K) * d.unit \in Nat /\ (10 * 1) * e.unit \in Nat
          BY <1>4 DEF K
        <5> QED
          BY <3>7, <5>1, <5>2
      <4> QED
        BY <3>4, <3>5, <3>6, <4>1
    <3>9. d.unit = 0 => (10 * d.val + d.frac) * d.unit = 0
      BY <1>4
    <3> QED
      BY <3>7, <3>8, <3>9 DEF Tenths
  <2>2. CASE d.unit = e.unit /\ d.unit = 1
    <3>1. \A w \in Nat \ {0} : K * w # 1
      BY DEF K
    <3>2. d.frac = 0 /\ e.frac = 0 /\ d.val = m /\ e.val = n
      BY <1>1, <2>2, <3>1 DEF Rounded
    <3> QED
      BY <2>2, <3>2 DEF Tenths
  <2>3. CASE d.unit = e.unit /\ d.unit # 1
    <3>1. PICK w \in Nat \ {0}, i \in 0..(K - 1) : \E r \in 0..(w - 1) :
            /\ d.unit = K * w /\ m = (d.val * K + i) * w + r
            /\ d.frac = (i * 10 + K \div 2) \div K
      BY <1>1, <2>3 DEF Rounded
    <3>2. PICK z \in Nat \ {0}, j \in 0..(K - 1) : \E r \in 0..(z - 1) :
            /\ e.unit = K * z /\ n = (e.val * K + j) * z + r
            /\ e.frac = (j * 10 + K \div 2) \div K
      BY <1>1, <2>3 DEF Rounded
    <3>3. w = z
      <4>1. K * w = K * z
        BY <2>3, <3>1, <3>2
      <4> QED
        BY <4>1 DEF K
    <3>4. d.val * K + i <= e.val * K + j
      <4>1. PICK x \in Nat, y \in Nat : x = d.val * K + i /\ y = e.val * K + j
        BY <1>4 DEF K
      <4>2. x * w <= m /\ n < y * w + w
        BY <3>1, <3>2, <3>3, <4>1
      <4>3. x * w < (y + 1) * w
        BY <4>2
      <4>4. ~((y + 1) * w <= x * w)
        BY <4>3
      <4>5. ~(y + 1 <= x)
        BY <4>4, ProductGrows
      <4> QED
        BY <4>1, <4>5
    <3>5. 10 * d.val + d.frac <= 10 * e.val + e.frac
      <4>1. (d.val = e.val /\ i <= j) \/ d.val < e.val
        BY <1>4, <3>4 DEF K
      <4>2. CASE d.val = e.val /\ i <= j
        <5>1. /\ i * 10 + K \div 2 \in Nat /\ j * 10 + K \div 2 \in Nat
              /\ i * 10 + K \div 2 <= j * 10 + K \div 2
          BY <4>2 DEF K
        <5> QED
          BY <1>4, <3>1, <3>2, <4>2, <5>1, QuotientGrows
      <4>3. CASE d.val < e.val
        BY <1>4, <4>3
      <4> QED
        BY <4>1, <4>2, <4>3
    <3>6. PICK x, y \in Nat : x = 10 * d.val + d.frac /\ y = 10 * e.val + e.frac
      BY <1>4
    <3>7. x * d.unit <= y * d.unit
      BY <1>4, <3>5, <3>6, ProductGrows
    <3> QED
      BY <2>3, <3>6, <3>7 DEF Tenths
  <2> QED
    BY <2>1, <2>2, <2>3
<1> QED
  BY <1>2, <1>5 DEF d, e

--------------------------------------------------------------------------------
(* smart_ulltoa5 and smart_ulltoa4.                                              *)

LEMMA SmartCut ==
  ASSUME NEW n \in Nat, 10 * n < ULLONG, NEW c \in Nat, 10 * c >= K, NEW tens \in Nat
  PROVE  Cut(Smart(n, 10 * c, tens), n, 10 * c, tens)
<1> DEFINE max == 10 * c
           r == Smart(n, max, tens)
           s == [val |-> ((n * 10) % ULLONG) \div K, frac |-> 0, unit |-> K]
           d == Divide(s, max)
<1>1. max \in Nat /\ max >= K /\ max \div 10 = c
  OBVIOUS
<1>2. CASE n < max
  <2>1. r.val = n /\ r.frac = 0 /\ r.unit = 1
    BY <1>2 DEF Smart
  <2> HIDE DEF r
  <2>2. Tenths(r) = 10 * n
    BY <2>1 DEF Tenths
  <2>3. Cut(r, n, max, tens)
    BY <1>2, <2>1, <2>2 DEF Cut
  <2> QED
    BY <2>3 DEF r
<1>3. CASE n >= max
  <2>1. (n * 10) % ULLONG = 10 * n
    <3>1. n * 10 = 10 * n /\ 10 * n \in Nat
      OBVIOUS
    <3> QED
      BY <3>1, WithoutOverflow
  <2>2. PICK v \in Nat, m \in 0..(K - 1) : v = (10 * n) \div K /\ v * K + m = 10 * n
    <3>1. 10 * n \in Nat
      OBVIOUS
    <3> QED
      BY <3>1, Quotient
  <2>3. s.val = v /\ s.frac = 0 /\ s.unit = K /\ s \in Number
    BY <2>1, <2>2 DEF Number, K
  <2> HIDE DEF s
  <2>4. v >= 1 /\ v < ULLONG
    BY <1>1, <1>3, <2>2 DEF K
  <2>5. CutOff(s, 10 * n)
    <3>1. K \in Nat \ {0} /\ 10 * n = s.val * s.unit + m
      BY <2>2, <2>3 DEF K
    <3>2. Part(s, 10 * n)
      BY <2>2, <2>3, <3>1 DEF Part
    <3> QED
      BY <2>3, <2>4, <3>1, <3>2 DEF CutOff, Exact
  <2>6. CutOff(d, 10 * n) /\ d.val < max
    <3>1. 10 * n \in Nat
      OBVIOUS
    <3> QED
      BY <1>1, <2>3, <2>4, <2>5, <3>1, DivideCuts
  <2>7. r = [val |-> d.val \div 10, frac |-> IF d.val \div 10 < tens THEN d.val % 10 ELSE 0,
             unit |-> d.unit]
    BY <1>3 DEF Smart, s
  <2> HIDE DEF d, r
  <2>8. PICK w \in Nat \ {0}, x \in Nat, l \in Nat : w = d.unit /\ x = d.val /\ l < w /\ 10 * n = x * w + l
    <3>1. d.val \in Nat /\ d.unit \in Nat /\ Part(d, 10 * n)
      BY <2>6 DEF CutOff, Number
    <3>2. PICK r0 \in 0..(d.unit - 1) : 10 * n = d.val * d.unit + r0
      BY <3>1 DEF Part
    <3>3. r0 \in Nat /\ r0 < d.unit /\ d.unit \in Nat \ {0}
      BY <3>1, <3>2
    <3> QED
      BY <3>1, <3>2, <3>3, Zenon
  <2>9. PICK q \in Nat, t \in 0..9 : q = x \div 10 /\ t = x % 10 /\ 10 * q + t = x
    BY Decimal
  <2>10. r.val = q /\ r.unit = w /\ r.frac = IF q < tens THEN t ELSE 0
    BY <2>7, <2>8, <2>9
  <2>11. q < c
    BY <2>6, <2>8, <2>9
  <2>12. CASE q < tens
    <3>1. Tenths(r) = x * w
      BY <2>9, <2>10, <2>12 DEF Tenths
    <3>2. x * w \in Nat
      OBVIOUS
    <3> QED
      BY <1>1, <2>8, <2>10, <2>11, <2>12, <3>1, <3>2 DEF Cut, r
  <2>13. CASE ~(q < tens)
    <3>1. Tenths(r) = (10 * q) * w
      BY <2>9, <2>10, <2>13 DEF Tenths
    <3>2. (10 * q) * w <= x * w /\ x * w <= (10 * q + 9) * w
      BY <2>9, ProductGrows
    <3>3. PICK y, z \in Nat : y = q * w /\ z = x * w
      OBVIOUS
    <3>4. 10 * y <= z /\ z <= 10 * y + 9 * w
      BY <3>2, <3>3
    <3>5. Tenths(r) = 10 * y
      BY <3>1, <3>3
    <3> QED
      BY <1>1, <2>8, <2>10, <2>11, <2>13, <3>3, <3>4, <3>5 DEF Cut, r
  <2> QED
    BY <2>12, <2>13
<1> QED
  BY <1>1, <1>2, <1>3

LEMMA SmartFits ==
  ASSUME total \in Nat
  PROVE  CompactFits
<1>1. ASSUME NEW n \in Nat, 10 * n < ULLONG
      PROVE  Cut(SmartUlltoa5(n), n, 100000, 100) /\ Cut(SmartUlltoa4(n), n, 10000, 10)
  <2>1. Cut(Smart(n, 10 * 10000, 100), n, 10 * 10000, 100)
    BY <1>1, SmartCut DEF K
  <2>2. Cut(Smart(n, 10 * 1000, 10), n, 10 * 1000, 10)
    BY <1>1, SmartCut DEF K
  <2>3. 10 * 10000 = 100000 /\ 10 * 1000 = 10000
    OBVIOUS
  <2> QED
    BY <2>1, <2>2, <2>3 DEF SmartUlltoa5, SmartUlltoa4
<1>2. total \in Nat /\ Bytes \in Nat
  BY DEF Bytes
<1> QED
  BY <1>1, <1>2 DEF CompactFits

--------------------------------------------------------------------------------
(* The theorems.                                                                 *)

LEMMA Sizes == Spec => []SizesInv
BY InitSizes, NextSizes, PTL DEF Spec

(* The counter is an int whatever the sizes of inodes (undup.c:128). *)
THEOREM SizesTypesHold == Spec => []SizesTypeOK
<1>1. SizesInv => SizesTypeOK
  BY DEF SizesInv
<1> QED
  BY <1>1, Sizes, PTL

(* As long as it has not wrapped, the storage printed is right to what is documented, and   *)
(* so are sizes in the other forms (human_readable.c:41-90), for ints and long longs of      *)
(* any width: tenths carry, and no unit is skipped.                                            *)
THEOREM FreedStorageIsRight == Spec => []FreedIsRight
BY FreedRight, Sizes, PTL

(* A compact number has room for its digits and is the number cut off                          *)
(* (human_readable.c:97-149, 154-199).                                                          *)
THEOREM CompactNumbersFit == Spec => []CompactFits
<1>1. SizesInv => CompactFits
  BY SmartFits DEF SizesInv, SizesTypeOK
<1> QED
  BY <1>1, Sizes, PTL

(* Rounding never turns more storage into less: not where a tenth is carried, nor where the     *)
(* unit changes (human_readable.c:66-77).                                                         *)
THEOREM FreedOnlyGrows == Spec => FreedNeverShrinks
<1>1. InRange /\ SizesInv => Freed = Carried(Divide(Start(Bytes), K)) /\ Bytes \in Nat /\ Bytes < ULLONG
  BY FreedIs, BytesAre
<1>2. (InRange /\ SizesInv => Freed = Carried(Divide(Start(Bytes), K)) /\ Bytes \in Nat /\ Bytes < ULLONG)'
  BY <1>1, PTL
<1>3. ASSUME SizesInv, SizesInv', total <= total', InRange'
      PROVE  Tenths(Freed') >= Tenths(Freed)
  <2>1. InRange
    BY <1>3 DEF InRange, SizesInv, SizesTypeOK
  <2>2. PICK m \in Nat, n \in Nat :
          /\ m < ULLONG /\ n < ULLONG /\ m = Bytes /\ n = Bytes'
          /\ Freed = Carried(Divide(Start(m), K)) /\ Freed' = Carried(Divide(Start(n), K))
    BY <1>1, <1>2, <1>3, <2>1, Zenon
  <2>3. m <= n
    <3>1. m = 512 * total /\ n = 512 * total' /\ total \in Nat /\ total' \in Nat /\ total <= total'
      BY <1>3, <2>2, Zenon DEF Bytes, SizesInv, SizesTypeOK
    <3>2. ASSUME NEW a \in Nat, NEW b \in Nat, a <= b PROVE 512 * a <= 512 * b
      BY <3>2
    <3> QED
      BY <3>1, <3>2, Zenon
  <2> QED
    BY <2>2, <2>3, PrintedKeepsOrder
<1>4. SizesInv /\ SizesInv' /\ [Next]_sizeVars => total <= total'
  BY DEF SizesInv, SizesTypeOK, Next, CountBlocks, sizeVars
<1> QED
  BY <1>3, <1>4, Sizes, PTL DEF Spec, FreedNeverShrinks
================================================================================
