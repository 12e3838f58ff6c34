----------------------------- MODULE WireProofs -----------------------------
(***************************************************************************)
(* Proofs about Wire, with the codecs of Frame and Payload: for any values *)
(* of a byte, any limits and track arguments, any frames of other senders  *)
(* and any number of edits.                                                *)
(***************************************************************************)
EXTENDS Wire, TLAPS, SequenceTheorems, FiniteSetTheorems, WellFoundedInduction

-----------------------------------------------------------------------------
(* Least numbers, induction and recursion, over sets.                      *)

LEMMA Least ==
    ASSUME NEW S \in SUBSET Nat, S # {}
    PROVE  \E d \in S : \A e \in S : d <= e
<1> DEFINE R == {ss \in Nat \X Nat : ss[1] < ss[2]}
<1>1. IsWellFoundedOn(R, Nat)
    BY NatLessThanWellFounded, Zenon DEF OpToRel
<1> HIDE DEF R
<1>2. PICK d \in S : \A e \in S : ~(<<e, d>> \in R)
    BY <1>1, WFMin
<1>3. \A x, y \in Nat : x < y => <<x, y>> \in R
    BY DEF R
<1>4. \A e \in S : d <= e
  <2> SUFFICES ASSUME NEW e \in S PROVE d <= e
    OBVIOUS
  <2>1. d \in Nat /\ e \in Nat
    BY <1>2
  <2>2. ~(e < d)
    BY <1>2, <1>3, <2>1, Zenon
  <2>3. QED
    BY <2>1, <2>2
<1>5. QED
    BY <1>4

LEMMA Induction ==
    ASSUME NEW n \in Nat, NEW P \in SUBSET Nat, 0 \in P,
           \A i \in Nat : i < n /\ i \in P => i + 1 \in P
    PROVE  \A i \in 0..n : i \in P
<1> SUFFICES ASSUME (0..n) \ P # {} PROVE FALSE
    OBVIOUS
<1>1. PICK d \in (0..n) \ P : \A e \in (0..n) \ P : d <= e
  <2>1. (0..n) \ P \in SUBSET Nat
    OBVIOUS
  <2>2. QED
    BY <2>1, Least
<1>2. d # 0 /\ d - 1 \in 0..n /\ d - 1 < n /\ d - 1 \in Nat
    BY <1>1
<1>3. d - 1 \in P
    BY <1>1, <1>2
<1>4. d - 1 + 1 = d
    BY <1>1
<1>5. QED
    BY <1>1, <1>2, <1>3, <1>4

\* A recursive function on 0..n exists when its step stays in a set.
IsRec(g, n, a, step) ==
    g = [i \in 0..n |-> IF i = 0 THEN a ELSE step[<<g[i - 1], i>>]]
LEMMA Recursion ==
    ASSUME NEW n \in Nat, NEW S, NEW a \in S, NEW step \in [S \X (1..n) -> S]
    PROVE  \E g \in [0..n -> S] : IsRec(g, n, a, step)
<1> DEFINE Rec(g, k) == g = [i \in 0..k |-> IF i = 0 THEN a ELSE step[<<g[i - 1], i>>]]
           P == {k \in 0..n : \E g \in [0..k -> S] : Rec(g, k)}
<1>1. 0 \in P
  <2> DEFINE g == [i \in 0..0 |-> a]
  <2>1. g \in [0..0 -> S]
    OBVIOUS
  <2>2. Rec(g, 0)
    OBVIOUS
  <2>3. 0 \in 0..n
    OBVIOUS
  <2> HIDE DEF g, Rec
  <2>4. QED
    BY <2>1, <2>2, <2>3, Zenon
<1>2. ASSUME NEW k \in Nat, k < n, k \in P PROVE k + 1 \in P
  <2>1. PICK g \in [0..k -> S] : Rec(g, k)
    BY <1>2
  <2> DEFINE h == [i \in 0..(k + 1) |-> IF i = k + 1 THEN step[<<g[k], k + 1>>] ELSE g[i]]
  <2>2. g[k] \in S /\ k + 1 \in 1..n
    BY <1>2
  <2>3. step[<<g[k], k + 1>>] \in S
    BY <2>2
  <2>4. h \in [0..(k + 1) -> S]
    BY <1>2, <2>3
  <2>5. ASSUME NEW i \in 0..(k + 1)
        PROVE  h[i] = IF i = 0 THEN a ELSE step[<<h[i - 1], i>>]
    <3>1. CASE i = k + 1
      <4>1. h[i - 1] = g[k] /\ i # 0
        BY <1>2, <3>1
      <4>2. QED
        BY <3>1, <4>1
    <3>2. CASE i # k + 1 /\ i # 0
      <4>1. i \in 1..k /\ i - 1 \in 0..k /\ h[i - 1] = g[i - 1] /\ h[i] = g[i]
        BY <1>2, <3>2
      <4>2. QED
        BY <2>1, <3>2, <4>1
    <3>3. CASE i = 0
      <4>1. h[0] = g[0] /\ 0 \in 0..k
        BY <1>2, <3>3
      <4>2. QED
        BY <2>1, <3>3, <4>1
    <3>4. QED
      BY <3>1, <3>2, <3>3
  <2>6. Rec(h, k + 1)
    BY <2>5
  <2>7. k + 1 \in 0..n
    BY <2>2
  <2> HIDE DEF h, Rec
  <2>8. QED
    BY <2>4, <2>6, <2>7, Zenon
<1>3. P \in SUBSET Nat
    OBVIOUS
<1> HIDE DEF P
<1>4. n \in 0..n /\ \A i \in 0..n : i \in P
    BY <1>1, <1>2, <1>3, Induction
<1>5. PICK g \in [0..n -> S] : Rec(g, n)
    BY <1>4 DEF P
<1>6. IsRec(g, n, a, step)
    BY <1>5 DEF IsRec
<1>7. QED
    BY <1>6, Zenon

\* A set of numbers up to n, 0 among them, has a largest one.
LEMMA Largest ==
    ASSUME NEW n \in Nat, NEW P \in SUBSET (0..n), P # {}
    PROVE  Max(P) \in P /\ \A i \in P : i <= Max(P)
<1> DEFINE D == {n - i : i \in P}
<1>1. D \in SUBSET Nat /\ D # {}
  <2>1. \A i \in P : n - i \in Nat
    OBVIOUS
  <2>2. QED
    BY <2>1
<1>2. PICK d \in D : \A e \in D : d <= e
  <2> HIDE DEF D
  <2>1. QED
    BY <1>1, Least
<1>3. PICK i \in P : d = n - i
    BY <1>2
<1>4. \A j \in P : n - j \in D /\ j \in Int
    OBVIOUS
<1> HIDE DEF D
<1>5. \A j \in P : i >= j
  <2> SUFFICES ASSUME NEW j \in P PROVE i >= j
    OBVIOUS
  <2>1. n - i <= n - j /\ i \in Int /\ j \in Int
    BY <1>2, <1>3, <1>4
  <2>2. QED
    BY <2>1
<1>6. Max(P) \in P /\ \A j \in P : Max(P) >= j
    BY <1>5 DEF Max
<1>7. QED
    BY <1>4, <1>6

-----------------------------------------------------------------------------
(* Quotients and remainders.                                               *)

LEMMA Euclid ==
    ASSUME NEW v \in Nat, NEW d \in Nat \ {0}
    PROVE  /\ v \div d \in Nat /\ v % d \in 0..d - 1
           /\ v = d * (v \div d) + (v % d)
  OBVIOUS

LEMMA MulMono ==
    ASSUME NEW d \in Nat, NEW x \in Nat, NEW y \in Nat, x <= y
    PROVE  d * x <= d * y
  OBVIOUS

LEMMA MulNat ==
    ASSUME NEW x \in Nat, NEW y \in Nat
    PROVE  x * y \in Nat
  OBVIOUS

LEMMA MulPos ==
    ASSUME NEW x \in Nat \ {0}, NEW y \in Nat \ {0}
    PROVE  x * y \in Nat \ {0}
  OBVIOUS

\* A number has one quotient and one remainder.
LEMMA DivUnique ==
    ASSUME NEW d \in Nat \ {0}, NEW q \in Nat, NEW r \in 0..d - 1, NEW v,
           v = d * q + r
    PROVE  v \in Nat /\ v \div d = q /\ v % d = r
<1>0. v \in Nat
    OBVIOUS
<1> DEFINE p == v \div d
           t == v % d
<1>1. p \in Nat /\ t \in 0..d - 1 /\ v = d * p + t
    BY <1>0, Euclid
<1> HIDE DEF p, t
<1>2. d * p \in Nat /\ d * q \in Nat
    BY <1>1, MulNat
<1>3. ~(p < q)
  <2> SUFFICES ASSUME p < q PROVE FALSE
    OBVIOUS
  <2>1. d * (p + 1) <= d * q /\ d * (p + 1) = d * p + d
    BY <1>1, MulMono
  <2>2. QED
    BY <1>1, <1>2, <2>1
<1>4. ~(q < p)
  <2> SUFFICES ASSUME q < p PROVE FALSE
    OBVIOUS
  <2>1. d * (q + 1) <= d * p /\ d * (q + 1) = d * q + d
    BY <1>1, MulMono
  <2>2. QED
    BY <1>1, <1>2, <2>1
<1>5. p = q
    BY <1>1, <1>3, <1>4
<1>6. t = r
    BY <1>1, <1>2, <1>5
<1>7. QED
    BY <1>0, <1>5, <1>6 DEF p, t

\* Of two digits in base d, and of a number that has two.
LEMMA Digits ==
    ASSUME NEW d \in Nat \ {0}, NEW e \in Nat \ {0},
           NEW h \in 0..e - 1, NEW l \in 0..d - 1
    PROVE  /\ h * d + l \in 0..d * e - 1
           /\ (h * d + l) \div d = h /\ (h * d + l) % d = l
<1>1. d * h \in Nat /\ h * d = d * h /\ d * e \in Nat
    BY MulNat
<1>2. d * (h + 1) <= d * e /\ d * (h + 1) = d * h + d
    BY MulMono
<1>3. QED
    BY <1>1, <1>2, DivUnique

LEMMA TwoDigits ==
    ASSUME NEW d \in Nat \ {0}, NEW e \in Nat \ {0}, NEW v \in 0..d * e - 1
    PROVE  /\ v \div d \in 0..e - 1 /\ v % d \in 0..d - 1
           /\ (v \div d) * d + (v % d) = v
<1> DEFINE q == v \div d
           r == v % d
<1>1. v \in Nat /\ d * e \in Nat
    BY MulNat
<1>2. q \in Nat /\ r \in 0..d - 1 /\ v = d * q + r
    BY <1>1, Euclid
<1> HIDE DEF q, r
<1>3. d * q \in Nat /\ q * d = d * q
    BY <1>2, MulNat
<1>4. ~(e <= q)
  <2> SUFFICES ASSUME e <= q PROVE FALSE
    OBVIOUS
  <2>1. d * e <= d * q
    BY <1>2, MulMono
  <2>2. QED
    BY <1>1, <1>2, <1>3, <2>1
<1>5. QED
    BY <1>2, <1>3, <1>4 DEF q, r

LEMMA DivDiv ==
    ASSUME NEW v \in Nat, NEW a \in Nat \ {0}, NEW b \in Nat \ {0}
    PROVE  v \div (a * b) = (v \div a) \div b
<1> DEFINE q == v \div a
           r == v % a
           p == q \div b
           t == q % b
<1>1. q \in Nat /\ r \in 0..a - 1 /\ v = a * q + r
    BY Euclid
<1> HIDE DEF q, r
<1>2. p \in Nat /\ t \in 0..b - 1 /\ q = b * p + t
    BY <1>1, Euclid
<1> HIDE DEF p, t
<1>3. a * b \in Nat \ {0}
    BY MulPos
<1>4. v = (a * b) * p + (a * t + r)
    BY <1>1, <1>2
<1>5. a * t + r \in 0..(a * b) - 1
  <2>1. a * (t + 1) <= a * b /\ a * (t + 1) = a * t + a /\ a * t \in Nat
    BY <1>2, MulMono, MulNat
  <2>2. QED
    BY <1>1, <1>3, <2>1
<1>6. v \div (a * b) = p
    BY <1>2, <1>3, <1>4, <1>5, DivUnique
<1>7. QED
    BY <1>6 DEF p, q

-----------------------------------------------------------------------------
(* Integers as bytes.                                                      *)

LEMMA Sizes ==
    /\ ByteSize \in Nat \ {0} /\ U16 \in Nat \ {0} /\ U32 \in Nat \ {0}
    /\ U64 \in Nat \ {0}
  BY FrameAssumption, MulPos DEF U16, U32, U64

\* The words of n bytes.
Word(n) == {s \in Seq(Byte) : Len(s) = n}

LEMMA WordsEqual ==
    ASSUME NEW n, NEW s \in Word(n), NEW t \in Word(n), \A i \in 1..n : s[i] = t[i]
    PROVE  s = t
  BY SeqEqual DEF Word

LEMMA WordOfFunction ==
    ASSUME NEW n \in Nat, NEW f \in [1..n -> Byte]
    PROVE  f \in Word(n)
<1>1. f \in Seq(Byte)
    BY SeqDef
<1>2. Len(f) \in Nat /\ 1..Len(f) = 1..n
    BY <1>1, LenProperties
<1>3. QED
    BY <1>1, <1>2 DEF Word

\* Words put together, and a word cut in two.
LEMMA Cat ==
    ASSUME NEW m \in Nat \ {0}, NEW n \in Nat \ {0}, NEW a \in Word(m), NEW b \in Word(n)
    PROVE  /\ a \o b \in Word(m + n)
           /\ SubSeq(a \o b, 1, m) = a /\ SubSeq(a \o b, m + 1, m + n) = b
           /\ \A i \in 1..m : (a \o b)[i] = a[i]
           /\ \A i \in 1..n : (a \o b)[m + i] = b[i]
<1> DEFINE c == a \o b
           d == SubSeq(c, 1, m)
           e == SubSeq(c, m + 1, m + n)
<1>1. a \in Seq(Byte) /\ Len(a) = m /\ b \in Seq(Byte) /\ Len(b) = n
    BY DEF Word
<1>2. /\ c \in Seq(Byte) /\ Len(c) = m + n
      /\ \A i \in 1..(m + n) : c[i] = IF i <= m THEN a[i] ELSE b[i - m]
    BY <1>1, ConcatProperties
<1> HIDE DEF c
<1>3. \A i \in 1..m : c[i] = a[i]
    BY <1>2
<1>4. \A i \in 1..n : c[m + i] = b[i]
  <2> SUFFICES ASSUME NEW i \in 1..n PROVE c[m + i] = b[i]
    OBVIOUS
  <2>1. m + i \in 1..(m + n) /\ ~(m + i <= m) /\ (m + i) - m = i
    OBVIOUS
  <2>2. QED
    BY <1>2, <2>1
<1>5. \A i \in 1..(m + n) : c[i] \in Byte
    BY <1>2, ElementOfSeq
<1>6. /\ d \in Seq(Byte) /\ Len(d) = m
      /\ \A i \in 1..m : d[i] = c[i]
  <2>1. \A i \in 1..m : c[i] \in Byte
    BY <1>5
  <2>2. /\ d \in Seq(Byte) /\ Len(d) = (IF 1 <= m THEN m - 1 + 1 ELSE 0)
        /\ \A i \in 1..(m - 1 + 1) : d[i] = c[1 + i - 1]
    BY <2>1, SubSeqProperties
  <2>3. m - 1 + 1 = m /\ \A i \in 1..m : 1 + i - 1 = i
    OBVIOUS
  <2>4. QED
    BY <2>2, <2>3
<1>7. /\ e \in Seq(Byte) /\ Len(e) = n
      /\ \A i \in 1..n : e[i] = c[m + i]
  <2>1. \A i \in (m + 1)..(m + n) : c[i] \in Byte
    BY <1>5
  <2>2. /\ e \in Seq(Byte) /\ Len(e) = (IF m + 1 <= m + n THEN (m + n) - (m + 1) + 1 ELSE 0)
        /\ \A i \in 1..((m + n) - (m + 1) + 1) : e[i] = c[(m + 1) + i - 1]
    BY <2>1, SubSeqProperties
  <2>3. (m + n) - (m + 1) + 1 = n /\ \A i \in 1..n : (m + 1) + i - 1 = m + i
    OBVIOUS
  <2>4. QED
    BY <2>2, <2>3
<1> HIDE DEF d, e
<1>8. d = a
    BY <1>1, <1>3, <1>6, SeqEqual
<1>9. e = b
    BY <1>1, <1>4, <1>7, SeqEqual
<1>10. QED
    BY <1>2, <1>3, <1>4, <1>8, <1>9 DEF c, d, e, Word

LEMMA Cut ==
    ASSUME NEW m \in Nat \ {0}, NEW n \in Nat \ {0}, NEW s \in Word(m + n)
    PROVE  /\ SubSeq(s, 1, m) \in Word(m) /\ SubSeq(s, m + 1, m + n) \in Word(n)
           /\ SubSeq(s, 1, m) \o SubSeq(s, m + 1, m + n) = s
           /\ \A i \in 1..m : SubSeq(s, 1, m)[i] = s[i]
           /\ \A i \in 1..n : SubSeq(s, m + 1, m + n)[i] = s[m + i]
<1> DEFINE d == SubSeq(s, 1, m)
           e == SubSeq(s, m + 1, m + n)
<1>1. s \in Seq(Byte) /\ Len(s) = m + n
    BY DEF Word
<1>2. \A i \in 1..(m + n) : s[i] \in Byte
    BY <1>1, ElementOfSeq
<1>3. /\ d \in Seq(Byte) /\ Len(d) = m
      /\ \A i \in 1..m : d[i] = s[i]
  <2>1. \A i \in 1..m : s[i] \in Byte
    BY <1>2
  <2>2. /\ d \in Seq(Byte) /\ Len(d) = (IF 1 <= m THEN m - 1 + 1 ELSE 0)
        /\ \A i \in 1..(m - 1 + 1) : d[i] = s[1 + i - 1]
    BY <2>1, SubSeqProperties
  <2>3. m - 1 + 1 = m /\ \A i \in 1..m : 1 + i - 1 = i
    OBVIOUS
  <2>4. QED
    BY <2>2, <2>3
<1>4. /\ e \in Seq(Byte) /\ Len(e) = n
      /\ \A i \in 1..n : e[i] = s[m + i]
  <2>1. \A i \in (m + 1)..(m + n) : s[i] \in Byte
    BY <1>2
  <2>2. /\ e \in Seq(Byte) /\ Len(e) = (IF m + 1 <= m + n THEN (m + n) - (m + 1) + 1 ELSE 0)
        /\ \A i \in 1..((m + n) - (m + 1) + 1) : e[i] = s[(m + 1) + i - 1]
    BY <2>1, SubSeqProperties
  <2>3. (m + n) - (m + 1) + 1 = n /\ \A i \in 1..n : (m + 1) + i - 1 = m + i
    OBVIOUS
  <2>4. QED
    BY <2>2, <2>3
<1>5. d \o e = s
  <2>1. 1 \in 1..(Len(s) + 1) /\ m \in 1 - 1..Len(s) /\ m + n \in m..Len(s)
    BY <1>1
  <2>2. SubSeq(s, 1, m) \o SubSeq(s, m + 1, m + n) = SubSeq(s, 1, m + n)
    BY <1>1, <2>1, ConcatAdjacentSubSeq
  <2>3. SubSeq(s, 1, Len(s)) = s
    BY <1>1, SubSeqFull
  <2>4. QED
    BY <1>1, <2>2, <2>3
<1>6. QED
    BY <1>3, <1>4, <1>5 DEF Word

LEMMA CatHalves ==
    /\ \A a, b \in Word(2) :
          /\ a \o b \in Word(4)
          /\ SubSeq(a \o b, 1, 2) = a /\ SubSeq(a \o b, 3, 4) = b
          /\ \A i \in 1..2 : (a \o b)[i] = a[i]
          /\ \A i \in 1..2 : (a \o b)[2 + i] = b[i]
    /\ \A a, b \in Word(4) :
          /\ a \o b \in Word(8)
          /\ SubSeq(a \o b, 1, 4) = a /\ SubSeq(a \o b, 5, 8) = b
          /\ \A i \in 1..4 : (a \o b)[i] = a[i]
          /\ \A i \in 1..4 : (a \o b)[4 + i] = b[i]
<1>1. 2 \in Nat \ {0} /\ 4 \in Nat \ {0}
    OBVIOUS
<1>2. ASSUME NEW a \in Word(2), NEW b \in Word(2)
      PROVE  /\ a \o b \in Word(4)
             /\ SubSeq(a \o b, 1, 2) = a /\ SubSeq(a \o b, 3, 4) = b
             /\ \A i \in 1..2 : (a \o b)[i] = a[i]
             /\ \A i \in 1..2 : (a \o b)[2 + i] = b[i]
  <2>1. /\ a \o b \in Word(2 + 2)
        /\ SubSeq(a \o b, 1, 2) = a /\ SubSeq(a \o b, 2 + 1, 2 + 2) = b
        /\ \A i \in 1..2 : (a \o b)[i] = a[i]
        /\ \A i \in 1..2 : (a \o b)[2 + i] = b[i]
    BY <1>1, Cat, Zenon
  <2>2. 2 + 2 = 4 /\ 2 + 1 = 3
    OBVIOUS
  <2>3. QED
    BY <2>1, <2>2
<1>3. ASSUME NEW a \in Word(4), NEW b \in Word(4)
      PROVE  /\ a \o b \in Word(8)
             /\ SubSeq(a \o b, 1, 4) = a /\ SubSeq(a \o b, 5, 8) = b
             /\ \A i \in 1..4 : (a \o b)[i] = a[i]
             /\ \A i \in 1..4 : (a \o b)[4 + i] = b[i]
  <2>1. /\ a \o b \in Word(4 + 4)
        /\ SubSeq(a \o b, 1, 4) = a /\ SubSeq(a \o b, 4 + 1, 4 + 4) = b
        /\ \A i \in 1..4 : (a \o b)[i] = a[i]
        /\ \A i \in 1..4 : (a \o b)[4 + i] = b[i]
    BY <1>1, Cat, Zenon
  <2>2. 4 + 4 = 8 /\ 4 + 1 = 5
    OBVIOUS
  <2>3. QED
    BY <2>1, <2>2
<1>4. QED
    BY <1>2, <1>3

LEMMA CutHalves ==
    /\ \A s \in Word(4) :
          /\ SubSeq(s, 1, 2) \in Word(2) /\ SubSeq(s, 3, 4) \in Word(2)
          /\ SubSeq(s, 1, 2) \o SubSeq(s, 3, 4) = s
          /\ \A i \in 1..2 : SubSeq(s, 1, 2)[i] = s[i] /\ SubSeq(s, 3, 4)[i] = s[2 + i]
    /\ \A s \in Word(8) :
          /\ SubSeq(s, 1, 4) \in Word(4) /\ SubSeq(s, 5, 8) \in Word(4)
          /\ SubSeq(s, 1, 4) \o SubSeq(s, 5, 8) = s
          /\ \A i \in 1..4 : SubSeq(s, 1, 4)[i] = s[i] /\ SubSeq(s, 5, 8)[i] = s[4 + i]
<1>1. 2 \in Nat \ {0} /\ 4 \in Nat \ {0}
    OBVIOUS
<1>2. \A s \in Word(2 + 2) :
          /\ SubSeq(s, 1, 2) \in Word(2) /\ SubSeq(s, 2 + 1, 2 + 2) \in Word(2)
          /\ SubSeq(s, 1, 2) \o SubSeq(s, 2 + 1, 2 + 2) = s
          /\ \A i \in 1..2 : SubSeq(s, 1, 2)[i] = s[i]
          /\ \A i \in 1..2 : SubSeq(s, 2 + 1, 2 + 2)[i] = s[2 + i]
    BY <1>1, Cut, Zenon
<1>3. \A s \in Word(4 + 4) :
          /\ SubSeq(s, 1, 4) \in Word(4) /\ SubSeq(s, 4 + 1, 4 + 4) \in Word(4)
          /\ SubSeq(s, 1, 4) \o SubSeq(s, 4 + 1, 4 + 4) = s
          /\ \A i \in 1..4 : SubSeq(s, 1, 4)[i] = s[i]
          /\ \A i \in 1..4 : SubSeq(s, 4 + 1, 4 + 4)[i] = s[4 + i]
    BY <1>1, Cut, Zenon
<1>4. 2 + 2 = 4 /\ 2 + 1 = 3 /\ 4 + 4 = 8 /\ 4 + 1 = 5
    OBVIOUS
<1>5. QED
    BY <1>2, <1>3, <1>4

\* Sixteen, thirty-two and sixty-four bits: writing and reading invert each
\* other.
LEMMA Bits16 ==
    /\ \A v \in 0..U16 - 1 : PutUint16(v) \in Word(2) /\ Uint16(PutUint16(v)) = v
    /\ \A s \in Word(2) : Uint16(s) \in 0..U16 - 1 /\ PutUint16(Uint16(s)) = s
<1>1. ASSUME NEW v \in 0..U16 - 1
      PROVE  PutUint16(v) \in Word(2) /\ Uint16(PutUint16(v)) = v
  <2>1. /\ v \div ByteSize \in Byte /\ v % ByteSize \in Byte
        /\ (v \div ByteSize) * ByteSize + (v % ByteSize) = v
    BY Sizes, TwoDigits DEF Byte, U16
  <2>2. QED
    BY <2>1 DEF PutUint16, Uint16, Word
<1>2. ASSUME NEW s \in Word(2)
      PROVE  Uint16(s) \in 0..U16 - 1 /\ PutUint16(Uint16(s)) = s
  <2>0. s \in Seq(Byte) /\ Len(s) = 2
    BY DEF Word
  <2>1. s[1] \in Byte /\ s[2] \in Byte /\ s = <<s[1], s[2]>>
    <3>1. 1 \in 1..2 /\ 2 \in 1..2
      OBVIOUS
    <3>2. s[1] \in Byte /\ s[2] \in Byte
      BY <2>0, <3>1, ElementOfSeq
    <3>3. <<s[1], s[2]>> \in Seq(Byte) /\ Len(<<s[1], s[2]>>) = 2
      BY <3>2
    <3>4. \A i \in 1..2 : s[i] = <<s[1], s[2]>>[i]
      OBVIOUS
    <3>5. QED
      BY <2>0, <3>2, <3>3, <3>4, SeqEqual
  <2>2. /\ s[1] * ByteSize + s[2] \in 0..U16 - 1
        /\ (s[1] * ByteSize + s[2]) \div ByteSize = s[1]
        /\ (s[1] * ByteSize + s[2]) % ByteSize = s[2]
    BY <2>1, Sizes, Digits DEF Byte, U16
  <2>3. QED
    BY <2>1, <2>2 DEF PutUint16, Uint16
<1>3. QED
    BY <1>1, <1>2

LEMMA Bits32 ==
    /\ \A v \in 0..U32 - 1 : PutUint32(v) \in Word(4) /\ Uint32(PutUint32(v)) = v
    /\ \A s \in Word(4) : Uint32(s) \in 0..U32 - 1 /\ PutUint32(Uint32(s)) = s
<1>1. ASSUME NEW v \in 0..U32 - 1
      PROVE  PutUint32(v) \in Word(4) /\ Uint32(PutUint32(v)) = v
  <2> DEFINE h == v \div U16
             l == v % U16
  <2>1. h \in 0..U16 - 1 /\ l \in 0..U16 - 1 /\ h * U16 + l = v
    BY Sizes, TwoDigits DEF U32
  <2> HIDE DEF h, l
  <2> DEFINE a == PutUint16(h)
             b == PutUint16(l)
  <2>2. a \in Word(2) /\ b \in Word(2) /\ Uint16(a) = h /\ Uint16(b) = l
    BY <2>1, Bits16
  <2> HIDE DEF a, b
  <2>3. a \o b \in Word(4) /\ SubSeq(a \o b, 1, 2) = a /\ SubSeq(a \o b, 3, 4) = b
    BY <2>2, CatHalves
  <2>4. PutUint32(v) = a \o b
    BY DEF PutUint32, a, b, h, l
  <2>5. QED
    BY <2>1, <2>2, <2>3, <2>4 DEF Uint32
<1>2. ASSUME NEW s \in Word(4)
      PROVE  Uint32(s) \in 0..U32 - 1 /\ PutUint32(Uint32(s)) = s
  <2> DEFINE a == SubSeq(s, 1, 2)
             b == SubSeq(s, 3, 4)
  <2>1. a \in Word(2) /\ b \in Word(2) /\ a \o b = s
    BY CutHalves
  <2> HIDE DEF a, b
  <2>2. /\ Uint16(a) \in 0..U16 - 1 /\ Uint16(b) \in 0..U16 - 1
        /\ PutUint16(Uint16(a)) = a /\ PutUint16(Uint16(b)) = b
    BY <2>1, Bits16
  <2>3. Uint32(s) = Uint16(a) * U16 + Uint16(b)
    BY DEF Uint32, a, b
  <2>4. /\ Uint32(s) \in 0..U32 - 1
        /\ Uint32(s) \div U16 = Uint16(a) /\ Uint32(s) % U16 = Uint16(b)
    <3> DEFINE h == Uint16(a)
               l == Uint16(b)
    <3> HIDE DEF h, l
    <3>1. h \in 0..U16 - 1 /\ l \in 0..U16 - 1 /\ Uint32(s) = h * U16 + l
      BY <2>2, <2>3 DEF h, l
    <3>2. /\ h * U16 + l \in 0..U16 * U16 - 1
          /\ (h * U16 + l) \div U16 = h /\ (h * U16 + l) % U16 = l
      BY <3>1, Sizes, Digits
    <3>3. QED
      BY <3>1, <3>2 DEF h, l, U32
  <2>5. QED
    BY <2>1, <2>2, <2>4 DEF PutUint32
<1>3. QED
    BY <1>1, <1>2

LEMMA Bits64 ==
    /\ \A v \in 0..U64 - 1 : PutUint64(v) \in Word(8) /\ Uint64(PutUint64(v)) = v
    /\ \A s \in Word(8) : Uint64(s) \in 0..U64 - 1 /\ PutUint64(Uint64(s)) = s
<1>1. ASSUME NEW v \in 0..U64 - 1
      PROVE  PutUint64(v) \in Word(8) /\ Uint64(PutUint64(v)) = v
  <2> DEFINE h == v \div U32
             l == v % U32
  <2>1. h \in 0..U32 - 1 /\ l \in 0..U32 - 1 /\ h * U32 + l = v
    BY Sizes, TwoDigits DEF U64
  <2> HIDE DEF h, l
  <2> DEFINE a == PutUint32(h)
             b == PutUint32(l)
  <2>2. a \in Word(4) /\ b \in Word(4) /\ Uint32(a) = h /\ Uint32(b) = l
    BY <2>1, Bits32
  <2> HIDE DEF a, b
  <2>3. a \o b \in Word(8) /\ SubSeq(a \o b, 1, 4) = a /\ SubSeq(a \o b, 5, 8) = b
    BY <2>2, CatHalves
  <2>4. PutUint64(v) = a \o b
    BY DEF PutUint64, a, b, h, l
  <2>5. QED
    BY <2>1, <2>2, <2>3, <2>4 DEF Uint64
<1>2. ASSUME NEW s \in Word(8)
      PROVE  Uint64(s) \in 0..U64 - 1 /\ PutUint64(Uint64(s)) = s
  <2> DEFINE a == SubSeq(s, 1, 4)
             b == SubSeq(s, 5, 8)
  <2>1. a \in Word(4) /\ b \in Word(4) /\ a \o b = s
    BY CutHalves
  <2> HIDE DEF a, b
  <2>2. /\ Uint32(a) \in 0..U32 - 1 /\ Uint32(b) \in 0..U32 - 1
        /\ PutUint32(Uint32(a)) = a /\ PutUint32(Uint32(b)) = b
    BY <2>1, Bits32
  <2>3. Uint64(s) = Uint32(a) * U32 + Uint32(b)
    BY DEF Uint64, a, b
  <2>4. /\ Uint64(s) \in 0..U64 - 1
        /\ Uint64(s) \div U32 = Uint32(a) /\ Uint64(s) % U32 = Uint32(b)
    <3> DEFINE h == Uint32(a)
               l == Uint32(b)
    <3> HIDE DEF h, l
    <3>1. h \in 0..U32 - 1 /\ l \in 0..U32 - 1 /\ Uint64(s) = h * U32 + l
      BY <2>2, <2>3 DEF h, l
    <3>2. /\ h * U32 + l \in 0..U32 * U32 - 1
          /\ (h * U32 + l) \div U32 = h /\ (h * U32 + l) % U32 = l
      BY <3>1, Sizes, Digits
    <3>3. QED
      BY <3>1, <3>2 DEF h, l, U64
  <2>5. QED
    BY <2>1, <2>2, <2>4 DEF PutUint64
<1>3. QED
    BY <1>1, <1>2

\* The byte of weight p; a multiple of p * ByteSize does not change it.
Digit(v, p) == (v \div p) % ByteSize

LEMMA LowDigit ==
    ASSUME NEW p \in Nat \ {0}, NEW k \in Nat, NEW l \in Nat,
           NEW v, v = (p * ByteSize) * k + l
    PROVE  Digit(v, p) = Digit(l, p)
<1> DEFINE b == ByteSize
<1>0. b \in Nat \ {0} /\ v = (p * b) * k + l
    BY Sizes
<1> HIDE DEF b
<1> DEFINE q == l \div p
           r == l % p
           s == q \div b
           t == q % b
<1>1. q \in Nat /\ r \in 0..p - 1 /\ l = p * q + r
    BY Euclid
<1> HIDE DEF q, r
<1>2. s \in Nat /\ t \in 0..b - 1 /\ q = b * s + t
    BY <1>0, <1>1, Euclid
<1> HIDE DEF s, t
<1>3. v = p * (b * k + q) + r
    BY <1>0, <1>1
<1>4. b * k + q \in Nat
    BY <1>0, <1>1, MulNat
<1>5. v \div p = b * k + q
  <2> DEFINE y == b * k + q
  <2>1. v = p * y + r /\ y \in Nat
    BY <1>3, <1>4
  <2> HIDE DEF y
  <2>2. v \div p = y
    BY <1>1, <2>1, DivUnique
  <2>3. QED
    BY <2>2 DEF y
<1>6. b * k + q = b * (k + s) + t /\ k + s \in Nat
  <2>1. b \in Nat /\ t \in Nat
    BY <1>0, <1>2
  <2>2. b * (k + s) = b * k + b * s /\ b * k \in Nat /\ b * s \in Nat
    BY <1>2, <2>1, MulNat
  <2>3. QED
    BY <1>2, <2>1, <2>2
<1>7. (b * k + q) % b = t
  <2> DEFINE x == b * k + q
             y == k + s
  <2>1. b \in Nat \ {0} /\ y \in Nat /\ x = b * y + t
    BY <1>0, <1>6
  <2> HIDE DEF x, y
  <2>2. x % b = t
    BY <1>2, <2>1, DivUnique
  <2>3. QED
    BY <2>2 DEF x
<1>8. QED
    BY <1>5, <1>7 DEF t, q, b, Digit

LEMMA LowPart ==
    ASSUME NEW v \in Nat, NEW p \in Nat \ {0}, NEW m \in Nat \ {0},
           NEW a, a = (p * ByteSize) * m, NEW l, l = v % a
    PROVE  Digit(v, p) = Digit(l, p)
<1> DEFINE q == v \div a
<1>0. ByteSize \in Nat \ {0}
    BY Sizes
<1>1. a \in Nat \ {0}
    BY <1>0, MulPos
<1>2. q \in Nat /\ l \in 0..a - 1 /\ v = a * q + l
    BY <1>1, Euclid
<1> HIDE DEF q
<1>3. a * q = (p * ByteSize) * (m * q) /\ m * q \in Nat /\ l \in Nat
    BY <1>0, <1>1, <1>2, MulNat
<1> DEFINE k == m * q
<1>4. k \in Nat /\ v = (p * ByteSize) * k + l
    BY <1>2, <1>3
<1> HIDE DEF k
<1>5. l \in Nat
    BY <1>3
<1>6. QED
    BY <1>4, <1>5, LowDigit

LEMMA Places ==
    /\ Place[8] = 1 /\ Place[7] = ByteSize /\ Place[6] = U16
    /\ Place[5] = U16 * ByteSize
    /\ Place[4] = U32 /\ Place[3] = U32 * ByteSize /\ Place[2] = U32 * U16
    /\ Place[1] = U32 * (U16 * ByteSize)
  BY DEF Place

\* A number below d * e, shifted past its low digit, needs no mask.
LEMMA TopDigit ==
    ASSUME NEW d \in Nat \ {0}, NEW e \in Nat \ {0}, NEW v \in 0..d * e - 1
    PROVE  (v \div d) % e = v \div d
<1> DEFINE h == v \div d
<1>1. h \in 0..e - 1
    BY TwoDigits
<1> HIDE DEF h
<1>2. h = e * 0 + h
    BY <1>1
<1>3. h % e = h
    BY <1>1, <1>2, DivUnique
<1>4. QED
    BY <1>3 DEF h

\* Shifting and masking makes the bytes that the halves make.
LEMMA Write16 ==
    ASSUME NEW v \in 0..U16 - 1
    PROVE  WriteBE(v, 2) = PutUint16(v) /\ WriteBE(v, 2) \in Word(2)
<1>1. v \in Nat /\ v \div 1 = v
    BY Sizes
<1>2. (v \div ByteSize) % ByteSize = v \div ByteSize
    BY Sizes, TopDigit DEF U16
<1>3. WriteBE(v, 2) = [i \in 1..2 |-> (v \div Place[6 + i]) % ByteSize]
    BY DEF WriteBE
<1>4. WriteBE(v, 2)[1] = v \div ByteSize /\ WriteBE(v, 2)[2] = v % ByteSize
    BY <1>1, <1>2, <1>3, Places
<1>5. v \div ByteSize \in Byte /\ v % ByteSize \in Byte
    BY Sizes, TwoDigits DEF Byte, U16
<1>6. WriteBE(v, 2) \in Word(2)
  <2>1. WriteBE(v, 2) \in [1..2 -> Byte]
    BY <1>3, <1>4, <1>5
  <2>2. QED
    BY <2>1, WordOfFunction
<1>7. PutUint16(v) \in Word(2)
    BY Bits16
<1>8. \A i \in 1..2 : WriteBE(v, 2)[i] = PutUint16(v)[i]
    BY <1>4 DEF PutUint16
<1>9. QED
    BY <1>6, <1>7, <1>8, WordsEqual

LEMMA Write32 ==
    ASSUME NEW v \in 0..U32 - 1
    PROVE  WriteBE(v, 4) = PutUint32(v) /\ WriteBE(v, 4) \in Word(4)
<1> DEFINE h == v \div U16
           l == v % U16
<1>0. v \in Nat /\ 1 \in Nat \ {0}
    BY Sizes
<1>1. h \in 0..U16 - 1 /\ l \in 0..U16 - 1
    BY Sizes, TwoDigits DEF U32
<1>hl. h = v \div U16 /\ l = v % U16
    OBVIOUS
<1> HIDE DEF h, l
<1>2. /\ Digit(v, Place[5]) = Digit(h, Place[7])
      /\ Digit(v, Place[6]) = Digit(h, Place[8])
      /\ Digit(v, Place[7]) = Digit(l, Place[7])
      /\ Digit(v, Place[8]) = Digit(l, Place[8])
  <2>1. Digit(v, U16 * ByteSize) = Digit(h, ByteSize)
    <3>1. v \div (U16 * ByteSize) = (v \div U16) \div ByteSize
      BY <1>0, Sizes, DivDiv
    <3>2. QED
      BY <1>hl, <3>1 DEF Digit
  <2>2. Digit(v, U16) = Digit(h, 1)
    <3>1. h \div 1 = h
      BY <1>1, Sizes
    <3>2. QED
      BY <1>hl, <3>1 DEF Digit
  <2>3. Digit(v, ByteSize) = Digit(l, ByteSize)
    <3>1. U16 = (ByteSize * ByteSize) * 1
      BY Sizes DEF U16
    <3>2. QED
      BY <1>0, <3>1, <1>hl, Sizes, LowPart
  <2>4. Digit(v, 1) = Digit(l, 1)
    <3>1. U16 = (1 * ByteSize) * ByteSize
      BY Sizes DEF U16
    <3>2. QED
      BY <1>0, <3>1, <1>hl, Sizes, LowPart
  <2>5. QED
    BY <2>1, <2>2, <2>3, <2>4, Places
<1> DEFINE a == WriteBE(h, 2)
           b == WriteBE(l, 2)
           c == a \o b
           w == WriteBE(v, 4)
<1>3. /\ a = PutUint16(h) /\ b = PutUint16(l)
      /\ a \in Word(2) /\ b \in Word(2)
    BY <1>1, Write16
<1>4. /\ c \in Word(4)
      /\ \A i \in 1..2 : c[i] = a[i]
      /\ \A i \in 1..2 : c[2 + i] = b[i]
    BY <1>3, CatHalves
<1>5. w = [i \in 1..4 |-> Digit(v, Place[4 + i])]
    BY DEF WriteBE, Digit
<1>6. /\ a[1] = Digit(h, Place[7]) /\ a[2] = Digit(h, Place[8])
      /\ b[1] = Digit(l, Place[7]) /\ b[2] = Digit(l, Place[8])
    BY DEF WriteBE, Digit
<1> HIDE DEF a, b, c, w
<1>7. w[1] = a[1] /\ w[2] = a[2] /\ w[3] = b[1] /\ w[4] = b[2]
    BY <1>2, <1>5, <1>6
<1>8. /\ c[1] = a[1] /\ c[2] = a[2]
      /\ c[3] = b[1] /\ c[4] = b[2]
    BY <1>4
<1>9. \A i \in 1..4 : w[i] = c[i]
    BY <1>7, <1>8
<1>10. w \in Word(4)
  <2>1. \A i \in 1..4 : c[i] \in Byte
    BY <1>4, ElementOfSeq DEF Word
  <2>2. w \in [1..4 -> Byte]
    BY <1>5, <1>9, <2>1
  <2>3. QED
    BY <2>2, WordOfFunction
<1>11. w = c
    BY <1>4, <1>9, <1>10, WordsEqual
<1>12. QED
    BY <1>3, <1>10, <1>11 DEF PutUint32, c, w, h, l

LEMMA Write64 ==
    ASSUME NEW v \in 0..U64 - 1
    PROVE  WriteBE(v, 8) = PutUint64(v) /\ WriteBE(v, 8) \in Word(8)
<1> DEFINE h == v \div U32
           l == v % U32
<1>0. v \in Nat /\ 1 \in Nat \ {0}
    BY Sizes
<1>1. h \in 0..U32 - 1 /\ l \in 0..U32 - 1
    BY Sizes, TwoDigits DEF U64
<1>hl. h = v \div U32 /\ l = v % U32
    OBVIOUS
<1> HIDE DEF h, l
<1>2. /\ Digit(v, Place[1]) = Digit(h, Place[5])
      /\ Digit(v, Place[2]) = Digit(h, Place[6])
      /\ Digit(v, Place[3]) = Digit(h, Place[7])
      /\ Digit(v, Place[4]) = Digit(h, Place[8])
  <2>1. \A p \in Nat \ {0} :
           Digit(v, U32 * p) = Digit(h, p)
    <3> TAKE p \in Nat \ {0}
    <3>1. v \div (U32 * p) = (v \div U32) \div p
      BY <1>0, Sizes, DivDiv
    <3>2. QED
      BY <1>hl, <3>1 DEF Digit
  <2>2. U16 * ByteSize \in Nat \ {0} /\ U32 * 1 = U32
    BY Sizes, MulPos
  <2>3. Digit(v, U32) = Digit(h, 1)
    BY <2>1, <2>2
  <2>4. Digit(v, U32 * (U16 * ByteSize)) = Digit(h, U16 * ByteSize)
    BY <2>1, <2>2
  <2>5. /\ Digit(v, U32 * U16) = Digit(h, U16)
        /\ Digit(v, U32 * ByteSize) = Digit(h, ByteSize)
    BY <2>1, Sizes
  <2>6. QED
    BY <2>3, <2>4, <2>5, Places
<1>3. /\ Digit(v, Place[5]) = Digit(l, Place[5])
      /\ Digit(v, Place[6]) = Digit(l, Place[6])
      /\ Digit(v, Place[7]) = Digit(l, Place[7])
      /\ Digit(v, Place[8]) = Digit(l, Place[8])
  <2>1. U16 * ByteSize \in Nat \ {0}
    BY Sizes, MulPos
  <2>2. Digit(v, U16 * ByteSize) = Digit(l, U16 * ByteSize)
    <3>1. U32 = ((U16 * ByteSize) * ByteSize) * 1
      BY Sizes DEF U16, U32
    <3> DEFINE p == U16 * ByteSize
    <3> HIDE DEF p
    <3>2. p \in Nat \ {0} /\ U32 = (p * ByteSize) * 1
      BY <2>1, <3>1 DEF p
    <3>3. Digit(v, p) = Digit(l, p)
      BY <1>0, <3>2, <1>hl, Sizes, LowPart
    <3>4. QED
      BY <3>3 DEF p
  <2>3. Digit(v, U16) = Digit(l, U16)
    <3>1. U32 = (U16 * ByteSize) * ByteSize
      BY Sizes DEF U16, U32
    <3>2. QED
      BY <1>0, <3>1, <1>hl, Sizes, LowPart
  <2>4. Digit(v, ByteSize) = Digit(l, ByteSize)
    <3>1. U32 = (ByteSize * ByteSize) * U16
      BY Sizes DEF U16, U32
    <3>2. QED
      BY <1>0, <3>1, <1>hl, Sizes, LowPart
  <2>5. Digit(v, 1) = Digit(l, 1)
    <3>1. U32 = (1 * ByteSize) * (U16 * ByteSize)
      BY Sizes DEF U16, U32
    <3>2. QED
      BY <1>0, <2>1, <3>1, <1>hl, Sizes, LowPart
  <2>6. QED
    BY <2>2, <2>3, <2>4, <2>5, Places
<1> DEFINE a == WriteBE(h, 4)
           b == WriteBE(l, 4)
           c == a \o b
           w == WriteBE(v, 8)
<1>4. /\ a = PutUint32(h) /\ b = PutUint32(l)
      /\ a \in Word(4) /\ b \in Word(4)
    BY <1>1, Write32
<1>5. /\ c \in Word(8)
      /\ \A i \in 1..4 : c[i] = a[i]
      /\ \A i \in 1..4 : c[4 + i] = b[i]
    BY <1>4, CatHalves
<1>6. w = [i \in 1..8 |-> Digit(v, Place[i])]
    BY DEF WriteBE, Digit
<1>7. /\ \A i \in 1..4 : a[i] = Digit(h, Place[4 + i])
      /\ \A i \in 1..4 : b[i] = Digit(l, Place[4 + i])
    BY DEF WriteBE, Digit
<1> HIDE DEF a, b, c, w
<1>8. /\ w[1] = a[1] /\ w[2] = a[2] /\ w[3] = a[3] /\ w[4] = a[4]
      /\ w[5] = b[1] /\ w[6] = b[2] /\ w[7] = b[3] /\ w[8] = b[4]
    BY <1>2, <1>3, <1>6, <1>7
<1>9. /\ c[1] = a[1] /\ c[2] = a[2]
      /\ c[3] = a[3] /\ c[4] = a[4]
      /\ c[5] = b[1] /\ c[6] = b[2]
      /\ c[7] = b[3] /\ c[8] = b[4]
    BY <1>5
<1>10. \A i \in 1..8 : w[i] = c[i]
    BY <1>8, <1>9
<1>11. w \in Word(8)
  <2>1. \A i \in 1..8 : c[i] \in Byte
    BY <1>5, ElementOfSeq DEF Word
  <2>2. w \in [1..8 -> Byte]
    BY <1>6, <1>10, <2>1
  <2>3. QED
    BY <2>2, WordOfFunction
<1>12. w = c
    BY <1>5, <1>10, <1>11, WordsEqual
<1>13. QED
    BY <1>4, <1>11, <1>12 DEF PutUint64, c, w, h, l

\* Shifting the bytes in makes the number that the halves make.
LEMMA ReadBE ==
    /\ \A s \in Word(2) : ReadU16BE(s) = Uint16(s)
    /\ \A s \in Word(4) : ReadU32BE(s) = Uint32(s)
    /\ \A s \in Word(8) : ReadU64BE(s) = Uint64(s)
<1>1. ASSUME NEW s \in Word(4)
      PROVE  /\ Uint32(s) = (s[1] * ByteSize + s[2]) * U16 + (s[3] * ByteSize + s[4])
             /\ ReadU32BE(s) = Uint32(s)
  <2>1. /\ SubSeq(s, 1, 2)[1] = s[1] /\ SubSeq(s, 1, 2)[2] = s[2]
        /\ SubSeq(s, 3, 4)[1] = s[3] /\ SubSeq(s, 3, 4)[2] = s[4]
    BY CutHalves
  <2>2. s[1] \in Nat /\ s[2] \in Nat /\ s[3] \in Nat /\ s[4] \in Nat
    <3>1. \A i \in 1..4 : s[i] \in Byte
      BY ElementOfSeq DEF Word
    <3>2. QED
      BY <3>1, Sizes DEF Byte
  <2>3. Uint32(s) = (s[1] * ByteSize + s[2]) * U16 + (s[3] * ByteSize + s[4])
    BY <2>1 DEF Uint32, Uint16
  <2>4. ReadU32BE(s) = s[1] * (U16 * ByteSize) + s[2] * U16 + s[3] * ByteSize + s[4]
    BY Places DEF ReadU32BE
  <2>5. QED
    BY <2>2, <2>3, <2>4, Sizes
<1>2. ASSUME NEW s \in Word(8)
      PROVE  ReadU64BE(s) = Uint64(s)
  <2> DEFINE a == SubSeq(s, 1, 4)
             b == SubSeq(s, 5, 8)
  <2>1. /\ a \in Word(4) /\ b \in Word(4)
        /\ a[1] = s[1] /\ a[2] = s[2] /\ a[3] = s[3] /\ a[4] = s[4]
        /\ b[1] = s[5] /\ b[2] = s[6] /\ b[3] = s[7] /\ b[4] = s[8]
    BY CutHalves
  <2>2. /\ s[1] \in Nat /\ s[2] \in Nat /\ s[3] \in Nat /\ s[4] \in Nat
        /\ s[5] \in Nat /\ s[6] \in Nat /\ s[7] \in Nat /\ s[8] \in Nat
    <3>1. \A i \in 1..8 : s[i] \in Byte
      BY ElementOfSeq DEF Word
    <3>2. QED
      BY <3>1, Sizes DEF Byte
  <2>3. Uint64(s) = Uint32(a) * U32 + Uint32(b)
    BY DEF Uint64
  <2> HIDE DEF a, b
  <2>4. /\ Uint32(a) = (s[1] * ByteSize + s[2]) * U16 + (s[3] * ByteSize + s[4])
        /\ Uint32(b) = (s[5] * ByteSize + s[6]) * U16 + (s[7] * ByteSize + s[8])
    BY <1>1, <2>1
  <2>5. Uint64(s) = ((s[1] * ByteSize + s[2]) * U16 + (s[3] * ByteSize + s[4])) * U32
                    + ((s[5] * ByteSize + s[6]) * U16 + (s[7] * ByteSize + s[8]))
    BY <2>3, <2>4
  <2> DEFINE x1 == s[1]
             x2 == s[2]
             x3 == s[3]
             x4 == s[4]
             x5 == s[5]
             x6 == s[6]
             x7 == s[7]
             x8 == s[8]
  <2>6. /\ x1 \in Nat /\ x2 \in Nat /\ x3 \in Nat /\ x4 \in Nat
        /\ x5 \in Nat /\ x6 \in Nat /\ x7 \in Nat /\ x8 \in Nat
    BY <2>2
  <2>7. ReadU64BE(s) = ShiftIn(ShiftIn(ShiftIn(ShiftIn(ShiftIn(ShiftIn(ShiftIn(ShiftIn(
                           0, x1), x2), x3), x4), x5), x6), x7), x8)
    BY DEF ReadU64BE
  <2>8. Uint64(s) = ((x1 * ByteSize + x2) * U16 + (x3 * ByteSize + x4)) * U32
                    + ((x5 * ByteSize + x6) * U16 + (x7 * ByteSize + x8))
    BY <2>5
  <2> HIDE DEF x1, x2, x3, x4, x5, x6, x7, x8
  <2>9. QED
    BY <2>6, <2>7, <2>8, Sizes DEF ShiftIn, U16, U32
<1>3. QED
    BY <1>1, <1>2 DEF ReadU16BE, Uint16

-----------------------------------------------------------------------------
(* The header.                                                             *)

\* A part of a word.
LEMMA Window ==
    ASSUME NEW n \in Nat, NEW s \in Word(n), NEW a \in Nat \ {0}, NEW b \in a..n,
           NEW k, k = b - a + 1
    PROVE  /\ SubSeq(s, a, b) \in Word(k)
           /\ \A i \in 1..k : SubSeq(s, a, b)[i] = s[a - 1 + i]
<1> DEFINE e == SubSeq(s, a, b)
<1>1. s \in Seq(Byte) /\ Len(s) = n
    BY DEF Word
<1>2. \A i \in 1..n : s[i] \in Byte
    BY <1>1, ElementOfSeq
<1>3. \A i \in a..b : s[i] \in Byte
    BY <1>2
<1>4. /\ e \in Seq(Byte) /\ Len(e) = (IF a <= b THEN b - a + 1 ELSE 0)
      /\ \A i \in 1..(b - a + 1) : e[i] = s[a + i - 1]
    BY <1>3, SubSeqProperties
<1>5. \A i \in 1..k : a + i - 1 = a - 1 + i
    OBVIOUS
<1>6. QED
    BY <1>4, <1>5 DEF Word

LEMMA CatParts ==
    /\ \A a \in Word(4), b \in Word(3) :
          /\ a \o b \in Word(7)
          /\ \A i \in 1..4 : (a \o b)[i] = a[i]
          /\ \A i \in 1..3 : (a \o b)[4 + i] = b[i]
    /\ \A a \in Word(7), b \in Word(2) :
          /\ a \o b \in Word(9)
          /\ \A i \in 1..7 : (a \o b)[i] = a[i]
          /\ \A i \in 1..2 : (a \o b)[7 + i] = b[i]
    /\ \A a \in Word(9), b \in Word(4) :
          /\ a \o b \in Word(13)
          /\ \A i \in 1..9 : (a \o b)[i] = a[i]
          /\ \A i \in 1..4 : (a \o b)[9 + i] = b[i]
    /\ \A a \in Word(13), b \in Word(8) :
          /\ a \o b \in Word(21)
          /\ \A i \in 1..13 : (a \o b)[i] = a[i]
          /\ \A i \in 1..8 : (a \o b)[13 + i] = b[i]
<1>1. ASSUME NEW a \in Word(4), NEW b \in Word(3)
      PROVE  /\ a \o b \in Word(7)
             /\ \A i \in 1..4 : (a \o b)[i] = a[i]
             /\ \A i \in 1..3 : (a \o b)[4 + i] = b[i]
  <2>1. 4 \in Nat \ {0} /\ 3 \in Nat \ {0} /\ 4 + 3 = 7
    OBVIOUS
  <2>2. /\ a \o b \in Word(4 + 3)
        /\ SubSeq(a \o b, 1, 4) = a /\ SubSeq(a \o b, 4 + 1, 4 + 3) = b
        /\ \A i \in 1..4 : (a \o b)[i] = a[i]
        /\ \A i \in 1..3 : (a \o b)[4 + i] = b[i]
    BY <2>1, Cat, Zenon
  <2>3. QED
    BY <2>1, <2>2
<1>2. ASSUME NEW a \in Word(7), NEW b \in Word(2)
      PROVE  /\ a \o b \in Word(9)
             /\ \A i \in 1..7 : (a \o b)[i] = a[i]
             /\ \A i \in 1..2 : (a \o b)[7 + i] = b[i]
  <2>1. 7 \in Nat \ {0} /\ 2 \in Nat \ {0} /\ 7 + 2 = 9
    OBVIOUS
  <2>2. /\ a \o b \in Word(7 + 2)
        /\ SubSeq(a \o b, 1, 7) = a /\ SubSeq(a \o b, 7 + 1, 7 + 2) = b
        /\ \A i \in 1..7 : (a \o b)[i] = a[i]
        /\ \A i \in 1..2 : (a \o b)[7 + i] = b[i]
    BY <2>1, Cat, Zenon
  <2>3. QED
    BY <2>1, <2>2
<1>3. ASSUME NEW a \in Word(9), NEW b \in Word(4)
      PROVE  /\ a \o b \in Word(13)
             /\ \A i \in 1..9 : (a \o b)[i] = a[i]
             /\ \A i \in 1..4 : (a \o b)[9 + i] = b[i]
  <2>1. 9 \in Nat \ {0} /\ 4 \in Nat \ {0} /\ 9 + 4 = 13
    OBVIOUS
  <2>2. /\ a \o b \in Word(9 + 4)
        /\ SubSeq(a \o b, 1, 9) = a /\ SubSeq(a \o b, 9 + 1, 9 + 4) = b
        /\ \A i \in 1..9 : (a \o b)[i] = a[i]
        /\ \A i \in 1..4 : (a \o b)[9 + i] = b[i]
    BY <2>1, Cat, Zenon
  <2>3. QED
    BY <2>1, <2>2
<1>4. ASSUME NEW a \in Word(13), NEW b \in Word(8)
      PROVE  /\ a \o b \in Word(21)
             /\ \A i \in 1..13 : (a \o b)[i] = a[i]
             /\ \A i \in 1..8 : (a \o b)[13 + i] = b[i]
  <2>1. 13 \in Nat \ {0} /\ 8 \in Nat \ {0} /\ 13 + 8 = 21
    OBVIOUS
  <2>2. /\ a \o b \in Word(13 + 8)
        /\ SubSeq(a \o b, 1, 13) = a /\ SubSeq(a \o b, 13 + 1, 13 + 8) = b
        /\ \A i \in 1..13 : (a \o b)[i] = a[i]
        /\ \A i \in 1..8 : (a \o b)[13 + i] = b[i]
    BY <2>1, Cat, Zenon
  <2>3. QED
    BY <2>1, <2>2
<1>5. QED
    BY <1>1, <1>2, <1>3, <1>4

\* The five parts of a header: magic; type, track and flags; length; sequence
\* number; timestamp.
Join(m, t, l, q, z) == m \o t \o l \o q \o z

LEMMA Joined ==
    ASSUME NEW m \in Word(4), NEW t \in Word(3), NEW l \in Word(2),
           NEW q \in Word(4), NEW z \in Word(8), NEW h, h = Join(m, t, l, q, z)
    PROVE  /\ h \in Word(21)
           /\ \A i \in 1..4 : h[i] = m[i]
           /\ h[5] = t[1] /\ h[6] = t[2] /\ h[7] = t[3]
           /\ \A i \in 1..2 : h[7 + i] = l[i]
           /\ \A i \in 1..4 : h[9 + i] = q[i]
           /\ \A i \in 1..8 : h[13 + i] = z[i]
<1> DEFINE c1 == m \o t
           c2 == c1 \o l
           c3 == c2 \o q
<1>0. c1 = m \o t /\ c2 = c1 \o l /\ c3 = c2 \o q /\ h = c3 \o z
    BY DEF Join
<1> HIDE DEF c1, c2, c3
<1>1. c1 \in Word(7) /\ (\A i \in 1..4 : c1[i] = m[i]) /\ \A i \in 1..3 : c1[4 + i] = t[i]
    BY <1>0, CatParts
<1>2. c2 \in Word(9) /\ (\A i \in 1..7 : c2[i] = c1[i]) /\ \A i \in 1..2 : c2[7 + i] = l[i]
    BY <1>0, <1>1, CatParts
<1>3. c3 \in Word(13) /\ (\A i \in 1..9 : c3[i] = c2[i]) /\ \A i \in 1..4 : c3[9 + i] = q[i]
    BY <1>0, <1>2, CatParts
<1>4. h \in Word(21) /\ (\A i \in 1..13 : h[i] = c3[i]) /\ \A i \in 1..8 : h[13 + i] = z[i]
  <2>1. /\ c3 \o z \in Word(21)
        /\ \A i \in 1..13 : (c3 \o z)[i] = c3[i]
        /\ \A i \in 1..8 : (c3 \o z)[13 + i] = z[i]
    BY <1>3, CatParts
  <2>2. h = c3 \o z
    BY <1>0
  <2>3. QED
    BY <2>1, <2>2
<1>5. \A i \in 1..7 : h[i] = c1[i]
    BY <1>2, <1>3, <1>4
<1>6. \A i \in 1..4 : h[i] = m[i]
    BY <1>1, <1>5
<1>7. h[5] = t[1] /\ h[6] = t[2] /\ h[7] = t[3]
    BY <1>1, <1>5
<1>8. \A i \in 1..2 : h[7 + i] = l[i]
    BY <1>2, <1>3, <1>4
<1>9. \A i \in 1..4 : h[9 + i] = q[i]
    BY <1>3, <1>4
<1>10. QED
    BY <1>4, <1>6, <1>7, <1>8, <1>9

\* A header is taken apart into what it was put together of.
LEMMA PartsOf ==
    ASSUME NEW h \in Word(21)
    PROVE  /\ SubSeq(h, 1, 4) \in Word(4) /\ \A i \in 1..4 : SubSeq(h, 1, 4)[i] = h[i]
           /\ SubSeq(h, 8, 9) \in Word(2) /\ \A i \in 1..2 : SubSeq(h, 8, 9)[i] = h[7 + i]
           /\ SubSeq(h, 10, 13) \in Word(4)
           /\ \A i \in 1..4 : SubSeq(h, 10, 13)[i] = h[9 + i]
           /\ SubSeq(h, 14, 21) \in Word(8)
           /\ \A i \in 1..8 : SubSeq(h, 14, 21)[i] = h[13 + i]
           /\ h[5] \in Byte /\ h[6] \in Byte /\ h[7] \in Byte
<1>2. SubSeq(h, 1, 4) \in Word(4) /\ \A i \in 1..4 : SubSeq(h, 1, 4)[i] = h[1 - 1 + i]
    BY Window
<1>3. SubSeq(h, 8, 9) \in Word(2) /\ \A i \in 1..2 : SubSeq(h, 8, 9)[i] = h[8 - 1 + i]
    BY Window
<1>4. SubSeq(h, 10, 13) \in Word(4) /\ \A i \in 1..4 : SubSeq(h, 10, 13)[i] = h[10 - 1 + i]
    BY Window
<1>5. SubSeq(h, 14, 21) \in Word(8) /\ \A i \in 1..8 : SubSeq(h, 14, 21)[i] = h[14 - 1 + i]
    BY Window
<1>6. h[5] \in Byte /\ h[6] \in Byte /\ h[7] \in Byte
  <2>1. \A i \in 1..21 : h[i] \in Byte
    BY ElementOfSeq DEF Word
  <2>2. QED
    BY <2>1
<1>7. QED
    BY <1>2, <1>3, <1>4, <1>5, <1>6

LEMMA ApartTogether ==
    ASSUME NEW m \in Word(4), NEW t \in Word(3), NEW l \in Word(2),
           NEW q \in Word(4), NEW z \in Word(8), NEW h, h = Join(m, t, l, q, z)
    PROVE  /\ SubSeq(h, 1, 4) = m /\ SubSeq(h, 8, 9) = l
           /\ SubSeq(h, 10, 13) = q /\ SubSeq(h, 14, 21) = z
<1>1. /\ h \in Word(21)
      /\ \A i \in 1..4 : h[i] = m[i]
      /\ \A i \in 1..2 : h[7 + i] = l[i]
      /\ \A i \in 1..4 : h[9 + i] = q[i]
      /\ \A i \in 1..8 : h[13 + i] = z[i]
    BY Joined
<1> DEFINE a == SubSeq(h, 1, 4)
           b == SubSeq(h, 8, 9)
           c == SubSeq(h, 10, 13)
           d == SubSeq(h, 14, 21)
<1>2. /\ a \in Word(4) /\ \A i \in 1..4 : a[i] = h[i]
      /\ b \in Word(2) /\ \A i \in 1..2 : b[i] = h[7 + i]
      /\ c \in Word(4) /\ \A i \in 1..4 : c[i] = h[9 + i]
      /\ d \in Word(8) /\ \A i \in 1..8 : d[i] = h[13 + i]
    BY <1>1, PartsOf
<1> HIDE DEF a, b, c, d
<1>3. a = m
    BY <1>1, <1>2, WordsEqual
<1>4. b = l
    BY <1>1, <1>2, WordsEqual
<1>5. c = q
    BY <1>1, <1>2, WordsEqual
<1>6. d = z
    BY <1>1, <1>2, WordsEqual
<1>7. QED
    BY <1>3, <1>4, <1>5, <1>6 DEF a, b, c, d

LEMMA TogetherApart ==
    ASSUME NEW h \in Word(21)
    PROVE  h = Join(SubSeq(h, 1, 4), <<h[5], h[6], h[7]>>, SubSeq(h, 8, 9),
                    SubSeq(h, 10, 13), SubSeq(h, 14, 21))
<1> DEFINE a == SubSeq(h, 1, 4)
           b == SubSeq(h, 8, 9)
           c == SubSeq(h, 10, 13)
           d == SubSeq(h, 14, 21)
           t == <<h[5], h[6], h[7]>>
           g == Join(a, t, b, c, d)
<1>1. /\ a \in Word(4) /\ \A i \in 1..4 : a[i] = h[i]
      /\ b \in Word(2) /\ \A i \in 1..2 : b[i] = h[7 + i]
      /\ c \in Word(4) /\ \A i \in 1..4 : c[i] = h[9 + i]
      /\ d \in Word(8) /\ \A i \in 1..8 : d[i] = h[13 + i]
      /\ h[5] \in Byte /\ h[6] \in Byte /\ h[7] \in Byte
    BY PartsOf
<1>2. t \in Word(3) /\ t[1] = h[5] /\ t[2] = h[6] /\ t[3] = h[7]
    BY <1>1 DEF Word
<1>3. g = Join(a, t, b, c, d)
    OBVIOUS
<1> HIDE DEF a, b, c, d, t, g
<1>4. /\ g \in Word(21)
      /\ \A i \in 1..4 : g[i] = a[i]
      /\ g[5] = t[1] /\ g[6] = t[2] /\ g[7] = t[3]
      /\ \A i \in 1..2 : g[7 + i] = b[i]
      /\ \A i \in 1..4 : g[9 + i] = c[i]
      /\ \A i \in 1..8 : g[13 + i] = d[i]
    BY <1>1, <1>2, <1>3, Joined
<1>5. ASSUME NEW i \in 1..21 PROVE h[i] = g[i]
  <2>1. CASE i \in 1..4
    BY <1>1, <1>4, <2>1
  <2>2. CASE i \in 5..7
    BY <1>2, <1>4, <2>2
  <2>3. CASE i \in 8..9
    <3>1. i - 7 \in 1..2 /\ 7 + (i - 7) = i
      BY <2>3
    <3>2. g[7 + (i - 7)] = b[i - 7] /\ b[i - 7] = h[7 + (i - 7)]
      BY <1>1, <1>4, <3>1
    <3>3. QED
      BY <3>1, <3>2
  <2>4. CASE i \in 10..13
    <3>1. i - 9 \in 1..4 /\ 9 + (i - 9) = i
      BY <2>4
    <3>2. g[9 + (i - 9)] = c[i - 9] /\ c[i - 9] = h[9 + (i - 9)]
      BY <1>1, <1>4, <3>1
    <3>3. QED
      BY <3>1, <3>2
  <2>5. CASE i \in 14..21
    <3>1. i - 13 \in 1..8 /\ 13 + (i - 13) = i
      BY <2>5
    <3>2. g[13 + (i - 13)] = d[i - 13] /\ d[i - 13] = h[13 + (i - 13)]
      BY <1>1, <1>4, <3>1
    <3>3. QED
      BY <3>1, <3>2
  <2>6. QED
    BY <2>1, <2>2, <2>3, <2>4, <2>5
<1>6. h = g
    BY <1>4, <1>5, WordsEqual
<1>7. QED
    BY <1>6 DEF a, b, c, d, t, g

-----------------------------------------------------------------------------
(* The frame codecs.                                                       *)

LEMMA OkFields ==
    ASSUME NEW v
    PROVE  /\ Ok(v).err = "" /\ Ok(v).val = v
           /\ [err |-> v].err = v
  BY DEF Ok

\* No check fails, or the error is one of theirs.
LEMMA NoError ==
    ASSUME NEW checks, NEW v, \A i \in DOMAIN checks : ~checks[i][1]
    PROVE  FirstError(checks, v) = Ok(v)
<1>1. {i \in DOMAIN checks : checks[i][1]} = {}
    BY Zenon
<1>2. QED
    BY <1>1, Zenon DEF FirstError

LEMMA SomeError ==
    ASSUME NEW checks, NEW v, DOMAIN checks \in SUBSET Nat,
           \A j \in DOMAIN checks : checks[j][2] # "",
           NEW k \in DOMAIN checks, checks[k][1]
    PROVE  FirstError(checks, v).err # ""
<1> DEFINE failing == {i \in DOMAIN checks : checks[i][1]}
           first == CHOOSE i \in failing : \A j \in failing : i <= j
<1>1. failing # {} /\ failing \in SUBSET Nat
    BY Zenon
<1>2. \E i \in failing : \A j \in failing : i <= j
  <2> HIDE DEF failing
  <2>1. QED
    BY <1>1, Least
<1>3. first \in failing
    BY <1>2, Zenon
<1>4. first \in DOMAIN checks
    BY <1>3, Zenon
<1>5. FirstError(checks, v) = [err |-> checks[first][2]]
    BY <1>1, Zenon DEF FirstError
<1>6. checks[first][2] # ""
    BY <1>4, Zenon
<1>7. FirstError(checks, v).err = checks[first][2]
    BY <1>5, OkFields, Zenon
<1>8. QED
    BY <1>6, <1>7, Zenon

\* The checks of the encoders, of TypeScript's, and of the decoders.
LEMMA EncodeChecks ==
    ASSUME NEW c1, NEW c2, NEW c3, NEW v
    PROVE  /\ ~c1 /\ ~c2 /\ ~c3 =>
                  FirstError(<< <<c1, "TOO_LARGE">>, <<c2, "BAD_TRACK">>, <<c3, "BAD_TYPE">> >>, v) = Ok(v)
           /\ c1 \/ c2 \/ c3 =>
                  FirstError(<< <<c1, "TOO_LARGE">>, <<c2, "BAD_TRACK">>, <<c3, "BAD_TYPE">> >>, v).err # ""
<1> DEFINE checks == << <<c1, "TOO_LARGE">>, <<c2, "BAD_TRACK">>, <<c3, "BAD_TYPE">> >>
<1>1. /\ DOMAIN checks = {1, 2, 3}
      /\ checks[1][1] = c1 /\ checks[2][1] = c2 /\ checks[3][1] = c3
      /\ checks[1][2] = "TOO_LARGE"
      /\ checks[2][2] = "BAD_TRACK"
      /\ checks[3][2] = "BAD_TYPE"
    OBVIOUS
<1> HIDE DEF checks
<1>2. DOMAIN checks \in SUBSET Nat
  <2>1. {1, 2, 3} \in SUBSET Nat
    OBVIOUS
  <2>2. QED
    BY <1>1, <2>1, Zenon
<1>3. \A i \in DOMAIN checks : checks[i][2] # ""
    BY <1>1, Zenon
<1>4. ASSUME ~c1, ~c2, ~c3 PROVE FirstError(checks, v) = Ok(v)
  <2>1. \A i \in DOMAIN checks : ~checks[i][1]
    BY <1>1, <1>4, Zenon
  <2>2. QED
    BY <2>1, NoError, Zenon
<1>5. ASSUME c1 \/ c2 \/ c3 PROVE FirstError(checks, v).err # ""
  <2>1. PICK k \in DOMAIN checks : checks[k][1]
    BY <1>1, <1>5, Zenon
  <2>2. QED
    BY <1>2, <1>3, <2>1, SomeError, Zenon
<1>6. QED
    BY <1>4, <1>5, Zenon DEF checks

LEMMA EncodeChecksTs ==
    ASSUME NEW c1, NEW c2, NEW c3, NEW c4, NEW c5, NEW v
    PROVE  /\ ~c1 /\ ~c2 /\ ~c3 /\ ~c4 /\ ~c5 =>
                  FirstError(<< <<c1, "TOO_LARGE">>, <<c2, "BAD_TRACK">>, <<c3, "BAD_PAYLOAD">>,
                       <<c4, "BAD_PAYLOAD">>, <<c5, "BAD_PAYLOAD">> >>, v) = Ok(v)
           /\ c1 \/ c2 \/ c3 \/ c4 \/ c5 =>
                  FirstError(<< <<c1, "TOO_LARGE">>, <<c2, "BAD_TRACK">>, <<c3, "BAD_PAYLOAD">>,
                       <<c4, "BAD_PAYLOAD">>, <<c5, "BAD_PAYLOAD">> >>, v).err # ""
<1> DEFINE checks == << <<c1, "TOO_LARGE">>, <<c2, "BAD_TRACK">>, <<c3, "BAD_PAYLOAD">>,
                       <<c4, "BAD_PAYLOAD">>, <<c5, "BAD_PAYLOAD">> >>
<1>1. /\ DOMAIN checks = {1, 2, 3, 4, 5}
      /\ checks[1][1] = c1 /\ checks[2][1] = c2 /\ checks[3][1] = c3 /\ checks[4][1] = c4 /\ checks[5][1] = c5
      /\ checks[1][2] = "TOO_LARGE"
      /\ checks[2][2] = "BAD_TRACK"
      /\ checks[3][2] = "BAD_PAYLOAD"
      /\ checks[4][2] = "BAD_PAYLOAD"
      /\ checks[5][2] = "BAD_PAYLOAD"
    OBVIOUS
<1> HIDE DEF checks
<1>2. DOMAIN checks \in SUBSET Nat
  <2>1. {1, 2, 3, 4, 5} \in SUBSET Nat
    OBVIOUS
  <2>2. QED
    BY <1>1, <2>1, Zenon
<1>3. \A i \in DOMAIN checks : checks[i][2] # ""
    BY <1>1, Zenon
<1>4. ASSUME ~c1, ~c2, ~c3, ~c4, ~c5 PROVE FirstError(checks, v) = Ok(v)
  <2>1. \A i \in DOMAIN checks : ~checks[i][1]
    BY <1>1, <1>4, Zenon
  <2>2. QED
    BY <2>1, NoError, Zenon
<1>5. ASSUME c1 \/ c2 \/ c3 \/ c4 \/ c5 PROVE FirstError(checks, v).err # ""
  <2>1. PICK k \in DOMAIN checks : checks[k][1]
    BY <1>1, <1>5, Zenon
  <2>2. QED
    BY <1>2, <1>3, <2>1, SomeError, Zenon
<1>6. QED
    BY <1>4, <1>5, Zenon DEF checks

LEMMA DecodeChecks ==
    ASSUME NEW c1, NEW c2, NEW c3, NEW c4, NEW c5, NEW v
    PROVE  /\ ~c1 /\ ~c2 /\ ~c3 /\ ~c4 /\ ~c5 =>
                  FirstError(<< <<c1, "BAD_MAGIC">>, <<c2, "TOO_LARGE">>, <<c3, "BAD_LENGTH">>,
                       <<c4, "BAD_TRACK">>, <<c5, "BAD_TYPE">> >>, v) = Ok(v)
           /\ c1 \/ c2 \/ c3 \/ c4 \/ c5 =>
                  FirstError(<< <<c1, "BAD_MAGIC">>, <<c2, "TOO_LARGE">>, <<c3, "BAD_LENGTH">>,
                       <<c4, "BAD_TRACK">>, <<c5, "BAD_TYPE">> >>, v).err # ""
<1> DEFINE checks == << <<c1, "BAD_MAGIC">>, <<c2, "TOO_LARGE">>, <<c3, "BAD_LENGTH">>,
                       <<c4, "BAD_TRACK">>, <<c5, "BAD_TYPE">> >>
<1>1. /\ DOMAIN checks = {1, 2, 3, 4, 5}
      /\ checks[1][1] = c1 /\ checks[2][1] = c2 /\ checks[3][1] = c3 /\ checks[4][1] = c4 /\ checks[5][1] = c5
      /\ checks[1][2] = "BAD_MAGIC"
      /\ checks[2][2] = "TOO_LARGE"
      /\ checks[3][2] = "BAD_LENGTH"
      /\ checks[4][2] = "BAD_TRACK"
      /\ checks[5][2] = "BAD_TYPE"
    OBVIOUS
<1> HIDE DEF checks
<1>2. DOMAIN checks \in SUBSET Nat
  <2>1. {1, 2, 3, 4, 5} \in SUBSET Nat
    OBVIOUS
  <2>2. QED
    BY <1>1, <2>1, Zenon
<1>3. \A i \in DOMAIN checks : checks[i][2] # ""
    BY <1>1, Zenon
<1>4. ASSUME ~c1, ~c2, ~c3, ~c4, ~c5 PROVE FirstError(checks, v) = Ok(v)
  <2>1. \A i \in DOMAIN checks : ~checks[i][1]
    BY <1>1, <1>4, Zenon
  <2>2. QED
    BY <2>1, NoError, Zenon
<1>5. ASSUME c1 \/ c2 \/ c3 \/ c4 \/ c5 PROVE FirstError(checks, v).err # ""
  <2>1. PICK k \in DOMAIN checks : checks[k][1]
    BY <1>1, <1>5, Zenon
  <2>2. QED
    BY <1>2, <1>3, <2>1, SomeError, Zenon
<1>6. QED
    BY <1>4, <1>5, Zenon DEF checks

\* The bytes of a frame.
Bytes21(f) ==
    Packed(f, PutUint16(f.payload.size), PutUint32(f.seq), PutUint64(f.timestamp))

\* What the encoders refuse, of frames whose fields have their types.
Fits(f) == f.payload.size <= MaxPayloadBytes /\ f.track <= MaxTrackSlot

Frame == FrameType(PayloadType)

LEMMA FrameFields ==
    ASSUME NEW f \in Frame
    PROVE  /\ f.type \in KnownTypes /\ f.type \in Byte /\ f.track \in Byte
           /\ f.flags \in Byte /\ f.seq \in 0..U32 - 1 /\ f.timestamp \in 0..U64 - 1
           /\ f.payload \in PayloadType /\ f.payload.size \in Nat
           /\ f.track \in Nat
           /\ f = [type |-> f.type, track |-> f.track, flags |-> f.flags, seq |-> f.seq,
                   timestamp |-> f.timestamp, payload |-> f.payload]
<1>1. /\ f.type \in KnownTypes /\ f.track \in Byte
      /\ f.flags \in Byte /\ f.seq \in 0..U32 - 1 /\ f.timestamp \in 0..U64 - 1
      /\ f.payload \in PayloadType
      /\ f = [type |-> f.type, track |-> f.track, flags |-> f.flags, seq |-> f.seq,
              timestamp |-> f.timestamp, payload |-> f.payload]
    BY DEF Frame, FrameType
<1>2. f.type \in Byte
    BY <1>1, FrameAssumption
<1>3. f.payload.size \in Nat
    BY <1>1 DEF PayloadType
<1>4. f.track \in Nat
    BY <1>1, Sizes DEF Byte
<1>5. QED
    BY <1>1, <1>2, <1>3, <1>4

\* The three encoders refuse the same frames and make the same bytes of the
\* others.
LEMMA Encoders ==
    ASSUME NEW f \in Frame, NEW r \in {EncodeFrameGo(f), EncodeFrameTs(f), EncodeFrameCpp(f)}
    PROVE  /\ Fits(f) => r = Ok(Bytes21(f)) /\ r.err = "" /\ r.val = Bytes21(f)
           /\ r.err = "" => Fits(f)
<1>1. /\ f.type \in KnownTypes /\ f.track \in Byte /\ f.track \in Nat
      /\ f.flags \in Byte /\ f.seq \in 0..U32 - 1 /\ f.timestamp \in 0..U64 - 1
      /\ f.payload.size \in Nat
    BY FrameFields
<1>2. MaxPayloadBytes \in Nat /\ MaxTrackSlot \in Nat /\ MaxPayloadBytes <= U16 - 1
    BY FrameAssumption, Sizes DEF Byte
<1>3. /\ Fits(f) <=> ~(f.payload.size > MaxPayloadBytes) /\ ~(f.track > MaxTrackSlot)
      /\ ~(f.track < 0)
    BY <1>1, <1>2 DEF Fits
<1> DEFINE c1 == f.payload.size > MaxPayloadBytes
           c2 == f.track > MaxTrackSlot
           c3 == f.type \notin KnownTypes
<1>4. ASSUME r = EncodeFrameGo(f)
      PROVE  /\ Fits(f) => r = Ok(Bytes21(f)) /\ r.err = "" /\ r.val = Bytes21(f)
             /\ r.err = "" => Fits(f)
  <2>1. r = FirstError(<< <<c1, "TOO_LARGE">>, <<c2, "BAD_TRACK">>, <<c3, "BAD_TYPE">> >>,
                       Bytes21(f))
    BY <1>4 DEF EncodeFrameGo, Bytes21
  <2>2. "TOO_LARGE" # "" /\ "BAD_TRACK" # "" /\ "BAD_TYPE" # ""
    OBVIOUS
  <2>3. (Fits(f) <=> ~c1 /\ ~c2) /\ ~c3
    BY <1>1, <1>3
  <2> HIDE DEF c1, c2, c3
  <2>4. /\ ~c1 /\ ~c2 /\ ~c3 =>
               FirstError(<< <<c1, "TOO_LARGE">>, <<c2, "BAD_TRACK">>, <<c3, "BAD_TYPE">> >>,
                          Bytes21(f)) = Ok(Bytes21(f))
        /\ c1 \/ c2 \/ c3 =>
               FirstError(<< <<c1, "TOO_LARGE">>, <<c2, "BAD_TRACK">>, <<c3, "BAD_TYPE">> >>,
                          Bytes21(f)).err # ""
    BY EncodeChecks, Zenon
  <2>5. QED
    BY <2>1, <2>3, <2>4, OkFields, Zenon
<1>5. ASSUME r = EncodeFrameCpp(f)
      PROVE  /\ Fits(f) => r = Ok(Bytes21(f)) /\ r.err = "" /\ r.val = Bytes21(f)
             /\ r.err = "" => Fits(f)
  <2> DEFINE v == Packed(f, WriteBE(f.payload.size, 2), WriteBE(f.seq, 4),
                         WriteBE(f.timestamp, 8))
  <2>1. r = FirstError(<< <<c1, "TOO_LARGE">>, <<c2, "BAD_TRACK">>, <<c3, "BAD_TYPE">> >>, v)
    BY <1>5 DEF EncodeFrameCpp
  <2>2. "TOO_LARGE" # "" /\ "BAD_TRACK" # "" /\ "BAD_TYPE" # ""
    OBVIOUS
  <2>3. (Fits(f) <=> ~c1 /\ ~c2) /\ ~c3
    BY <1>1, <1>3
  <2>4. ASSUME Fits(f) PROVE v = Bytes21(f)
    <3>1. f.payload.size \in 0..U16 - 1
      BY <1>1, <1>2, <2>4, Sizes DEF Fits
    <3>2. /\ WriteBE(f.payload.size, 2) = PutUint16(f.payload.size)
          /\ WriteBE(f.seq, 4) = PutUint32(f.seq)
          /\ WriteBE(f.timestamp, 8) = PutUint64(f.timestamp)
      BY <1>1, <3>1, Write16, Write32, Write64
    <3>3. QED
      BY <3>2 DEF Bytes21
  <2> HIDE DEF c1, c2, c3, v
  <2>5. /\ ~c1 /\ ~c2 /\ ~c3 =>
               FirstError(<< <<c1, "TOO_LARGE">>, <<c2, "BAD_TRACK">>, <<c3, "BAD_TYPE">> >>, v) = Ok(v)
        /\ c1 \/ c2 \/ c3 =>
               FirstError(<< <<c1, "TOO_LARGE">>, <<c2, "BAD_TRACK">>, <<c3, "BAD_TYPE">> >>, v).err # ""
    BY EncodeChecks, Zenon
  <2>6. QED
    BY <2>1, <2>3, <2>4, <2>5, OkFields, Zenon
<1>6. ASSUME r = EncodeFrameTs(f)
      PROVE  /\ Fits(f) => r = Ok(Bytes21(f)) /\ r.err = "" /\ r.val = Bytes21(f)
             /\ r.err = "" => Fits(f)
  <2> DEFINE d2 == f.track < 0 \/ f.track > MaxTrackSlot
             d3 == f.flags \notin Byte
             d4 == f.seq \notin 0..U32 - 1
             d5 == f.timestamp \notin 0..U64 - 1
  <2>1. r = FirstError(<< <<c1, "TOO_LARGE">>, <<d2, "BAD_TRACK">>, <<d3, "BAD_PAYLOAD">>,
                          <<d4, "BAD_PAYLOAD">>, <<d5, "BAD_PAYLOAD">> >>, Bytes21(f))
    BY <1>6 DEF EncodeFrameTs, Bytes21
  <2>2. "TOO_LARGE" # "" /\ "BAD_TRACK" # "" /\ "BAD_PAYLOAD" # ""
    OBVIOUS
  <2>3. (Fits(f) <=> ~c1 /\ ~d2) /\ ~d3 /\ ~d4 /\ ~d5
    BY <1>1, <1>3
  <2> HIDE DEF c1, d2, d3, d4, d5
  <2>4. /\ ~c1 /\ ~d2 /\ ~d3 /\ ~d4 /\ ~d5 =>
               FirstError(<< <<c1, "TOO_LARGE">>, <<d2, "BAD_TRACK">>, <<d3, "BAD_PAYLOAD">>,
                             <<d4, "BAD_PAYLOAD">>, <<d5, "BAD_PAYLOAD">> >>, Bytes21(f))
               = Ok(Bytes21(f))
        /\ c1 \/ d2 \/ d3 \/ d4 \/ d5 =>
               FirstError(<< <<c1, "TOO_LARGE">>, <<d2, "BAD_TRACK">>, <<d3, "BAD_PAYLOAD">>,
                             <<d4, "BAD_PAYLOAD">>, <<d5, "BAD_PAYLOAD">> >>, Bytes21(f)).err
               # ""
    BY EncodeChecksTs, Zenon
  <2>5. QED
    BY <2>1, <2>3, <2>4, OkFields, Zenon
<1>7. QED
    BY <1>4, <1>5, <1>6

\* A message with a whole header, and its parts.
IsMessage(m) ==
    /\ m = [head |-> m.head, payload |-> m.payload]
    /\ m.head \in Word(21) /\ m.payload \in PayloadType

LEMMA Slices ==
    ASSUME NEW m
    PROVE  /\ Slice(m, 0, 4) = SubSeq(m.head, 1, 4)
           /\ Slice(m, 7, 9) = SubSeq(m.head, 8, 9)
           /\ Slice(m, 9, 13) = SubSeq(m.head, 10, 13)
           /\ Slice(m, 13, 21) = SubSeq(m.head, 14, 21)
           /\ At(m, 4) = m.head[5] /\ At(m, 5) = m.head[6] /\ At(m, 6) = m.head[7]
  BY DEF Slice, At

LEMMA MessageParts ==
    ASSUME NEW m, IsMessage(m)
    PROVE  /\ Slice(m, 0, 4) \in Word(4) /\ Slice(m, 7, 9) \in Word(2)
           /\ Slice(m, 9, 13) \in Word(4) /\ Slice(m, 13, 21) \in Word(8)
           /\ At(m, 4) \in Byte /\ At(m, 5) \in Byte /\ At(m, 6) \in Byte
           /\ Uint16(Slice(m, 7, 9)) \in Nat /\ m.payload.size \in Nat
           /\ Length(m) = 21 + m.payload.size
<1>1. m.head \in Word(21) /\ m.payload \in PayloadType
    BY DEF IsMessage
<1> DEFINE h == m.head
<1>2. h \in Word(21)
    BY <1>1
<1> HIDE DEF h
<1>3. /\ SubSeq(h, 1, 4) \in Word(4) /\ SubSeq(h, 8, 9) \in Word(2)
      /\ SubSeq(h, 10, 13) \in Word(4) /\ SubSeq(h, 14, 21) \in Word(8)
      /\ h[5] \in Byte /\ h[6] \in Byte /\ h[7] \in Byte
    BY <1>2, PartsOf
<1>4. /\ Slice(m, 0, 4) = SubSeq(h, 1, 4) /\ Slice(m, 7, 9) = SubSeq(h, 8, 9)
      /\ Slice(m, 9, 13) = SubSeq(h, 10, 13) /\ Slice(m, 13, 21) = SubSeq(h, 14, 21)
      /\ At(m, 4) = h[5] /\ At(m, 5) = h[6] /\ At(m, 6) = h[7]
    BY Slices DEF h
<1>5. Uint16(Slice(m, 7, 9)) \in Nat
  <2>1. Uint16(Slice(m, 7, 9)) \in 0..U16 - 1
    BY <1>3, <1>4, Bits16
  <2>2. QED
    BY <2>1, Sizes
<1>6. m.payload.size \in Nat
    BY <1>1 DEF PayloadType
<1>7. Length(m) = 21 + m.payload.size
    BY <1>1 DEF Length, Word
<1>8. QED
    BY <1>3, <1>4, <1>5, <1>6, <1>7

\* The three decoders read the same.
LEMMA SameDecoders ==
    ASSUME NEW m, IsMessage(m) \/ Length(m) < HeaderBytes
    PROVE  /\ DecodeFrameTs(m) = DecodeFrameGo(m)
           /\ DecodeFrameCpp(m) = DecodeFrameGo(m)
<1>1. DecodeFrameTs(m) = DecodeFrameGo(m)
    BY Zenon DEF DecodeFrameTs, DecodeFrameGo
<1>2. CASE Length(m) < HeaderBytes
    BY <1>1, <1>2, Zenon DEF DecodeFrameCpp, DecodeFrameGo
<1>3. CASE IsMessage(m)
  <2>1. /\ ReadU16BE(Slice(m, 7, 9)) = Uint16(Slice(m, 7, 9))
        /\ ReadU32BE(Slice(m, 9, 13)) = Uint32(Slice(m, 9, 13))
        /\ ReadU64BE(Slice(m, 13, 21)) = Uint64(Slice(m, 13, 21))
    BY <1>3, MessageParts, ReadBE
  <2>2. DecodeFrameCpp(m) = DecodeFrameGo(m)
    BY <2>1, Zenon DEF DecodeFrameCpp, DecodeFrameGo
  <2>3. QED
    BY <1>1, <2>2
<1>4. QED
    BY <1>2, <1>3

\* What a decoder accepts, and what it reads.
Accepts(m) ==
    /\ Slice(m, 0, 4) = Magic
    /\ Uint16(Slice(m, 7, 9)) = m.payload.size /\ m.payload.size <= MaxPayloadBytes
    /\ At(m, 5) <= MaxTrackSlot /\ At(m, 4) \in KnownTypes
Reads(m) == Parsed(m, Uint32(Slice(m, 9, 13)), Uint64(Slice(m, 13, 21)))

LEMMA Decoder ==
    ASSUME NEW m, IsMessage(m)
    PROVE  /\ Accepts(m) => DecodeFrameGo(m) = Ok(Reads(m))
           /\ DecodeFrameGo(m).err = "" => Accepts(m)
<1> DEFINE len == Uint16(Slice(m, 7, 9))
           c1 == Slice(m, 0, 4) # Magic
           c2 == len > MaxPayloadBytes
           c3 == HeaderBytes + len # Length(m)
           c4 == At(m, 5) > MaxTrackSlot
           c5 == At(m, 4) \notin KnownTypes
<1>1. /\ len \in Nat /\ m.payload.size \in Nat /\ Length(m) = 21 + m.payload.size
      /\ At(m, 5) \in Nat
    BY MessageParts, Sizes DEF Byte
<1>2. MaxPayloadBytes \in Nat /\ MaxTrackSlot \in Nat
    BY FrameAssumption, Sizes DEF Byte
<1>3. ~(Length(m) < HeaderBytes)
    BY <1>1 DEF HeaderBytes
<1>4. DecodeFrameGo(m) =
          FirstError(<< <<c1, "BAD_MAGIC">>, <<c2, "TOO_LARGE">>, <<c3, "BAD_LENGTH">>,
                        <<c4, "BAD_TRACK">>, <<c5, "BAD_TYPE">> >>, Reads(m))
    BY <1>3, Zenon DEF DecodeFrameGo, Reads
<1>5. Accepts(m) <=> ~c1 /\ ~c2 /\ ~c3 /\ ~c4 /\ ~c5
  <2>1. c3 <=> len # m.payload.size
    BY <1>1 DEF HeaderBytes
  <2>2. c2 <=> ~(len <= MaxPayloadBytes)
    BY <1>1, <1>2
  <2>3. c4 <=> ~(At(m, 5) <= MaxTrackSlot)
    BY <1>1, <1>2
  <2>4. QED
    BY <2>1, <2>2, <2>3, Zenon DEF Accepts
<1> HIDE DEF c1, c2, c3, c4, c5
<1>6. /\ ~c1 /\ ~c2 /\ ~c3 /\ ~c4 /\ ~c5 =>
             FirstError(<< <<c1, "BAD_MAGIC">>, <<c2, "TOO_LARGE">>, <<c3, "BAD_LENGTH">>,
                           <<c4, "BAD_TRACK">>, <<c5, "BAD_TYPE">> >>, Reads(m))
             = Ok(Reads(m))
      /\ c1 \/ c2 \/ c3 \/ c4 \/ c5 =>
             FirstError(<< <<c1, "BAD_MAGIC">>, <<c2, "TOO_LARGE">>, <<c3, "BAD_LENGTH">>,
                           <<c4, "BAD_TRACK">>, <<c5, "BAD_TYPE">> >>, Reads(m)).err
             # ""
    BY DecodeChecks, Zenon
<1>7. QED
    BY <1>4, <1>5, <1>6, Zenon

LEMMA ByteMod ==
    ASSUME NEW b \in Byte
    PROVE  b % ByteSize = b
<1>1. ByteSize \in Nat \ {0} /\ b \in 0..ByteSize - 1
    BY Sizes DEF Byte
<1>2. b = ByteSize * 0 + b
    BY <1>1
<1>3. QED
    BY <1>1, <1>2, DivUnique

LEMMA MagicWord == Magic \in Word(4)
  BY FrameAssumption, WordOfFunction

\* A frame that an encoder takes is read back as it was.
LEMMA ReadBack ==
    ASSUME NEW f \in Frame, Fits(f), NEW m, m = Bytes21(f)
    PROVE  IsMessage(m) /\ m.payload = f.payload /\ Accepts(m) /\ Reads(m) = f
<1>1. /\ f.type \in KnownTypes /\ f.type \in Byte /\ f.track \in Byte
      /\ f.flags \in Byte /\ f.seq \in 0..U32 - 1 /\ f.timestamp \in 0..U64 - 1
      /\ f.payload \in PayloadType /\ f.payload.size \in Nat
      /\ f = [type |-> f.type, track |-> f.track, flags |-> f.flags, seq |-> f.seq,
              timestamp |-> f.timestamp, payload |-> f.payload]
    BY FrameFields
<1>2. f.payload.size <= MaxPayloadBytes /\ f.track <= MaxTrackSlot
    BY DEF Fits
<1>3. f.payload.size \in 0..U16 - 1
    BY <1>1, <1>2, FrameAssumption, Sizes
<1> DEFINE t == <<f.type, f.track, f.flags>>
           l == PutUint16(f.payload.size)
           q == PutUint32(f.seq)
           z == PutUint64(f.timestamp)
           h == m.head
<1>4. t \in Word(3) /\ t[1] = f.type /\ t[2] = f.track /\ t[3] = f.flags
    BY <1>1 DEF Word
<1>5. /\ l \in Word(2) /\ Uint16(l) = f.payload.size
      /\ q \in Word(4) /\ Uint32(q) = f.seq
      /\ z \in Word(8) /\ Uint64(z) = f.timestamp
    BY <1>1, <1>3, Bits16, Bits32, Bits64
<1>6. f.type % ByteSize = f.type
    BY <1>1, ByteMod
<1>7. m = Message(Join(Magic, t, l, q, z), f.payload)
    BY <1>6 DEF Bytes21, Packed, Join
<1> HIDE DEF t, l, q, z
<1>8. h = Join(Magic, t, l, q, z) /\ m.payload = f.payload /\ m = [head |-> h, payload |-> m.payload]
    BY <1>7 DEF Message
<1> HIDE DEF h
<1>9. /\ h \in Word(21) /\ h[5] = t[1] /\ h[6] = t[2] /\ h[7] = t[3]
    BY <1>4, <1>5, <1>8, MagicWord, Joined
<1>10. /\ SubSeq(h, 1, 4) = Magic /\ SubSeq(h, 8, 9) = l
       /\ SubSeq(h, 10, 13) = q /\ SubSeq(h, 14, 21) = z
    BY <1>4, <1>5, <1>8, MagicWord, ApartTogether
<1>11. IsMessage(m)
    BY <1>1, <1>8, <1>9 DEF IsMessage, h
<1>12. /\ Slice(m, 0, 4) = Magic /\ Slice(m, 7, 9) = l
       /\ Slice(m, 9, 13) = q /\ Slice(m, 13, 21) = z
       /\ At(m, 4) = f.type /\ At(m, 5) = f.track /\ At(m, 6) = f.flags
    BY <1>4, <1>9, <1>10, Slices DEF h
<1>13. Accepts(m)
    BY <1>1, <1>2, <1>5, <1>8, <1>12 DEF Accepts
<1>14. Reads(m) = f
    BY <1>1, <1>5, <1>8, <1>12 DEF Reads, Parsed
<1>15. QED
    BY <1>8, <1>11, <1>13, <1>14

\* The bytes of what a decoder has read are the message.
LEMMA WriteAgain ==
    ASSUME NEW m, IsMessage(m), Accepts(m), NEW f, f = Reads(m)
    PROVE  f \in Frame /\ Fits(f) /\ Bytes21(f) = m /\ f.payload = m.payload
<1> DEFINE h == m.head
           l == SubSeq(h, 8, 9)
           q == SubSeq(h, 10, 13)
           z == SubSeq(h, 14, 21)
<1>1. /\ h \in Word(21) /\ m.payload \in PayloadType
      /\ m = [head |-> h, payload |-> m.payload]
    BY DEF IsMessage
<1>2. /\ Slice(m, 0, 4) = SubSeq(h, 1, 4) /\ Slice(m, 7, 9) = l
      /\ Slice(m, 9, 13) = q /\ Slice(m, 13, 21) = z
      /\ At(m, 4) = h[5] /\ At(m, 5) = h[6] /\ At(m, 6) = h[7]
    BY Slices
<1>3. /\ l \in Word(2) /\ q \in Word(4) /\ z \in Word(8)
      /\ h[5] \in Byte /\ h[6] \in Byte /\ h[7] \in Byte
    BY <1>1, PartsOf
<1>4. h = Join(SubSeq(h, 1, 4), <<h[5], h[6], h[7]>>, l, q, z)
    BY <1>1, TogetherApart
<1> HIDE DEF h, l, q, z
<1>5. /\ SubSeq(h, 1, 4) = Magic /\ Uint16(l) = m.payload.size
      /\ m.payload.size <= MaxPayloadBytes /\ h[6] <= MaxTrackSlot /\ h[5] \in KnownTypes
    BY <1>2 DEF Accepts
<1>6. f = [type |-> h[5], track |-> h[6], flags |-> h[7], seq |-> Uint32(q),
           timestamp |-> Uint64(z), payload |-> m.payload]
    BY <1>2 DEF Reads, Parsed
<1>7. /\ Uint32(q) \in 0..U32 - 1 /\ Uint64(z) \in 0..U64 - 1
      /\ PutUint16(Uint16(l)) = l /\ PutUint32(Uint32(q)) = q /\ PutUint64(Uint64(z)) = z
    BY <1>3, Bits16, Bits32, Bits64
<1>8. f \in Frame
    BY <1>1, <1>3, <1>5, <1>6, <1>7 DEF Frame, FrameType
<1>9. /\ f.payload = m.payload /\ f.track = h[6] /\ f.type = h[5] /\ f.flags = h[7]
      /\ f.seq = Uint32(q) /\ f.timestamp = Uint64(z)
    BY <1>6
<1>10. Fits(f)
    BY <1>5, <1>9 DEF Fits
<1>11. f.type % ByteSize = h[5]
    BY <1>3, <1>9, ByteMod
<1>12. Bytes21(f) = Message(Join(Magic, <<h[5], h[6], h[7]>>, l, q, z), m.payload)
    BY <1>5, <1>7, <1>9, <1>11 DEF Bytes21, Packed, Join
<1>13. Bytes21(f) = m
    BY <1>1, <1>4, <1>5, <1>12 DEF Message
<1>14. QED
    BY <1>8, <1>9, <1>10, <1>13

-----------------------------------------------------------------------------
(* The payload decoders.                                                   *)

\* A value of a type that both languages know.
Known(v) ==
    /\ v.t \in {"str", "num"}
    /\ v.t = "str" => v.s # <<>> /\ Bytes(v.s) = Len(v.s)

LEMMA ValueFields ==
    ASSUME NEW v \in ValueType
    PROVE  /\ v.n \in Int /\ v.s \in Seq(Token) /\ Len(v.s) \in Nat
           /\ v.t # "num" => v.n = 0
           /\ v.t # "str" => v.s = <<>>
           /\ v = [n |-> v.n, s |-> v.s, t |-> v.t]
<1>1. /\ v.n \in Int /\ v.s \in Seq(Token)
      /\ v.t # "num" => v.n = 0
      /\ v.t # "str" => v.s = <<>>
      /\ v = [n |-> v.n, s |-> v.s, t |-> v.t]
    BY DEF ValueType
<1>2. Len(v.s) \in Nat
    BY <1>1, LenProperties
<1>3. QED
    BY <1>1, <1>2

LEMMA EmptyText == Bytes(<<>>) = 0 /\ MaxText \in Nat \ {0}
<1>1. {i \in DOMAIN <<>> : <<>>[i] = "u"} = {}
    OBVIOUS
<1>2. Cardinality({}) = 0
    BY FS_EmptySet
<1>3. QED
    BY <1>1, <1>2, WireAssumption DEF Bytes

\* Texts and numbers, one value at a time.
LEMMA TextsAgree ==
    ASSUME NEW v \in ValueType, Known(v)
    PROVE  strField(v) <=> checkStr(v)
<1>1. CASE v.t = "str"
  <2>1. text(v) = v.s /\ isText(v) /\ Bytes(v.s) = Len(v.s)
    BY <1>1 DEF Known, text, isText
  <2>2. QED
    BY <1>1, <2>1 DEF strField, checkStr
<1>2. CASE v.t = "num"
  <2>1. ~isText(v)
    BY <1>2 DEF isText
  <2>2. ~strField(v)
    BY <1>2 DEF strField
  <2>3. QED
    BY <2>1, <2>2 DEF checkStr
<1>3. QED
    BY <1>1, <1>2 DEF Known

LEMMA NumbersAgree ==
    ASSUME NEW v \in ValueType, NEW N, 0 \notin N
    PROVE  isNum(v, N) <=> number(v) \in N
  BY DEF isNum, number

LEMMA CountsAgree ==
    ASSUME NEW v \in ValueType, Known(v)
    PROVE  numField(v) <=> isInt(v) /\ number(v) >= 0
  BY DEF Known, numField, isInt, number

LEMMA CodecAgrees ==
    ASSUME NEW v \in ValueType
    PROVE  v = Str(<<"opus">>) <=> text(v) = <<"opus">>
<1>1. <<"opus">> # <<>>
    OBVIOUS
<1>2. ASSUME v = Str(<<"opus">>) PROVE text(v) = <<"opus">>
    BY <1>2 DEF Str, Value, text
<1>3. ASSUME text(v) = <<"opus">> PROVE v = Str(<<"opus">>)
  <2>1. v.t = "str" /\ v.s = <<"opus">>
    BY <1>1, <1>3 DEF text
  <2>2. v.n = 0 /\ v = [n |-> v.n, s |-> v.s, t |-> v.t]
    BY <2>1, ValueFields
  <2>3. QED
    BY <2>1, <2>2 DEF Str, Value
<1>4. QED
    BY <1>2, <1>3

\* The fields and the rows of a payload, and of a complete one.
LEMMA PayloadFields ==
    ASSUME NEW p \in PayloadType
    PROVE  /\ \A n \in Names : p.f[n] \in ValueType
           /\ p.rows.seq \in Seq(RowType) /\ Len(p.rows.seq) \in Nat
           /\ \A i \in DOMAIN p.rows.seq : p.rows.seq[i] \in RowType
           /\ p.size \in Nat /\ p.extra \in BOOLEAN
<1>1. /\ p.f \in [Names -> ValueType] /\ p.rows \in [has : BOOLEAN, seq : Seq(RowType)]
      /\ p.size \in Nat /\ p.extra \in BOOLEAN
    BY DEF PayloadType
<1>2. p.rows.seq \in Seq(RowType)
    BY <1>1
<1>3. \A i \in DOMAIN p.rows.seq : p.rows.seq[i] \in RowType
    BY <1>2
<1>4. Len(p.rows.seq) \in Nat
    BY <1>2, LenProperties
<1>5. QED
    BY <1>1, <1>2, <1>3, <1>4

LEMMA RowFields ==
    ASSUME NEW r \in RowType
    PROVE  /\ r.obj \in BOOLEAN /\ r.id \in ValueType /\ r.slug \in ValueType
           /\ r.category \in ValueType /\ r.label \in ValueType
  BY DEF RowType

LEMMA CompleteFacts ==
    ASSUME NEW p \in PayloadType, Complete(p)
    PROVE  /\ decodeJson(p) <=> decJSON(p)
           /\ p.kind \in {"trackList", "subTracks"} => p.rows.has
           /\ p.kind = sent.payload.kind
           /\ \A n \in Names : sent.payload.f[n] # Absent => p.f[n] # Absent
           /\ \A n \in Names : p.f[n] # Absent => Known(p.f[n])
           /\ \A i \in DOMAIN p.rows.seq : p.rows.seq[i].obj =>
                  /\ Known(p.rows.seq[i].slug) /\ Known(p.rows.seq[i].category)
                  /\ Known(p.rows.seq[i].label)
<1>1. /\ p.json # "closer" /\ ~p.extra
      /\ p.kind \in {"trackList", "subTracks"} => p.rows.has
      /\ p.kind = sent.payload.kind
      /\ \A n \in Names : (p.f[n] = Absent) = (sent.payload.f[n] = Absent)
      /\ \A v \in Members(p) \cup Columns(p) :
             /\ v.t \in {"str", "num"}
             /\ v.t = "str" => v.s # <<>> /\ Bytes(v.s) = Len(v.s)
    BY Zenon DEF Complete
<1>2. decodeJson(p) <=> decJSON(p)
    BY <1>1 DEF decodeJson, decJSON
<1>3. \A v \in Members(p) \cup Columns(p) : Known(v)
    BY <1>1, Zenon DEF Known
<1>4. \A n \in Names : p.f[n] # Absent => Known(p.f[n])
  <2>1. \A n \in Names : p.f[n] # Absent => p.f[n] \in Members(p)
    BY Zenon DEF Members
  <2>2. QED
    BY <1>3, <2>1, Zenon
<1>5. ASSUME NEW i \in DOMAIN p.rows.seq, p.rows.seq[i].obj
      PROVE  /\ Known(p.rows.seq[i].slug) /\ Known(p.rows.seq[i].category)
             /\ Known(p.rows.seq[i].label)
  <2> DEFINE r == p.rows.seq[i]
             I == {j \in DOMAIN p.rows.seq : p.rows.seq[j].obj}
             C(j) == {p.rows.seq[j][n] : n \in {"id", "slug", "category", "label"}}
  <2>1. i \in I
    BY <1>5, Zenon
  <2>2. Columns(p) = UNION {C(j) : j \in I}
    BY DEF Columns
  <2>3. r["slug"] \in C(i) /\ r["category"] \in C(i) /\ r["label"] \in C(i)
    BY Zenon
  <2>4. C(i) \subseteq Columns(p)
    <3> HIDE DEF C, I
    <3>1. QED
      BY <2>1, <2>2, Zenon
  <2>5. Known(r["slug"]) /\ Known(r["category"]) /\ Known(r["label"])
    BY <1>3, <2>3, <2>4, Zenon
  <2>6. QED
    BY <2>5
<1>6. \A n \in Names : sent.payload.f[n] # Absent => p.f[n] # Absent
    BY <1>1, Zenon
<1>7. QED
    BY <1>1, <1>2, <1>4, <1>5, <1>6

\* A sender's frame, which has the members its kind requires.
HasMembers(q) == \A n \in Required(q.kind) : q.f[n] # Absent

LEMMA RequiredNames ==
    /\ Required("hello") = {"version", "client", "codec", "sample_rate", "channels",
                            "frame_ms"}
    /\ Required("stats") = {"uptime_s", "packets_sent", "subscribers", "tracks_active"}
    /\ Required("error") = {"code", "message"}
    /\ Required("hello") \subseteq Names /\ Required("stats") \subseteq Names
    /\ Required("error") \subseteq Names
  BY DEF Required, Names

LEMMA RequiredKnown ==
    ASSUME NEW p \in PayloadType, Complete(p), HasMembers(sent.payload),
           Required(p.kind) \subseteq Names
    PROVE  \A n \in Required(p.kind) : p.f[n] \in ValueType /\ Known(p.f[n])
<1>1. \A n \in Required(p.kind) : sent.payload.f[n] # Absent
    BY CompleteFacts, Zenon DEF HasMembers
<1>2. \A n \in Required(p.kind) : p.f[n] # Absent
    BY <1>1, CompleteFacts, Zenon
<1>3. \A n \in Required(p.kind) : Known(p.f[n])
    BY <1>2, CompleteFacts, Zenon
<1>4. \A n \in Required(p.kind) : p.f[n] \in ValueType
    BY PayloadFields, Zenon
<1>5. QED
    BY <1>3, <1>4, Zenon

LEMMA HelloAgrees ==
    ASSUME NEW p \in PayloadType, Complete(p), HasMembers(sent.payload), p.kind = "hello"
    PROVE  decodeHello(p) <=> DecodeHello(p)
<1>1. \A n \in Required("hello") : p.f[n] \in ValueType /\ Known(p.f[n])
    BY RequiredKnown, RequiredNames, Zenon
<1>2. \A n \in {"version", "client", "codec", "sample_rate", "channels", "frame_ms"} :
          p.f[n] \in ValueType /\ Known(p.f[n])
    BY <1>1, RequiredNames, Zenon
<1>3. isNum(p.f["version"], {1}) <=> number(p.f["version"]) \in {1}
    BY <1>2, NumbersAgree
<1>4. strField(p.f["client"]) <=> checkStr(p.f["client"])
    BY <1>2, TextsAgree
<1>5. p.f["codec"] = Str(<<"opus">>) <=> text(p.f["codec"]) = <<"opus">>
    BY <1>2, CodecAgrees
<1>6. isNum(p.f["sample_rate"], {48000}) <=> number(p.f["sample_rate"]) \in {48000}
    BY <1>2, NumbersAgree
<1>7. isNum(p.f["channels"], {1, 2}) <=> number(p.f["channels"]) \in {1, 2}
    BY <1>2, NumbersAgree
<1>8. isNum(p.f["frame_ms"], {20}) <=> number(p.f["frame_ms"]) \in {20}
    BY <1>2, NumbersAgree
<1>9. decodeJson(p) <=> decJSON(p)
    BY CompleteFacts
<1>10. /\ number(p.f["version"]) \in {1} <=> number(p.f["version"]) = 1
       /\ number(p.f["sample_rate"]) \in {48000} <=> number(p.f["sample_rate"]) = 48000
       /\ number(p.f["frame_ms"]) \in {20} <=> number(p.f["frame_ms"]) = 20
    OBVIOUS
<1>11. QED
    BY <1>3, <1>4, <1>5, <1>6, <1>7, <1>8, <1>9, <1>10
    DEF decodeHello, DecodeHello

LEMMA StatsAgree ==
    ASSUME NEW p \in PayloadType, Complete(p), HasMembers(sent.payload), p.kind = "stats"
    PROVE  decodeStats(p) <=> DecodeStats(p)
<1>1. \A n \in Required("stats") : p.f[n] \in ValueType /\ Known(p.f[n])
    BY RequiredKnown, RequiredNames, Zenon
<1>2. \A n \in {"uptime_s", "packets_sent", "subscribers", "tracks_active"} :
          numField(p.f[n]) <=> isInt(p.f[n]) /\ number(p.f[n]) >= 0
    BY <1>1, RequiredNames, CountsAgree, Zenon
<1>3. decodeJson(p) <=> decJSON(p)
    BY CompleteFacts
<1>4. QED
    BY <1>2, <1>3, Zenon DEF decodeStats, DecodeStats

LEMMA ErrorAgrees ==
    ASSUME NEW p \in PayloadType, Complete(p), HasMembers(sent.payload), p.kind = "error"
    PROVE  decodeError(p) <=> DecodeError(p)
<1>1. \A n \in Required("error") : p.f[n] \in ValueType /\ Known(p.f[n])
    BY RequiredKnown, RequiredNames, Zenon
<1> DEFINE c == p.f["code"]
           e == p.f["message"]
<1>2. c \in ValueType /\ Known(c) /\ e \in ValueType /\ Known(e)
    BY <1>1, RequiredNames
<1>3. decodeJson(p) <=> decJSON(p)
    BY CompleteFacts
<1>4. decodeError(p) <=> /\ decodeJson(p) /\ strField(c)
                         /\ Len(c.s) = 1 /\ c.s[1] \in ErrorCodes /\ strField(e)
    BY DEF decodeError
<1>5. DecodeError(p) <=> /\ decJSON(p) /\ Len(text(c)) = 1 /\ text(c)[1] \in ErrorCodes
                         /\ checkStr(e)
    BY DEF DecodeError
<1> HIDE DEF c, e
<1>6. strField(e) <=> checkStr(e)
    BY <1>2, TextsAgree
<1>7. strField(c) /\ Len(c.s) = 1 /\ c.s[1] \in ErrorCodes
        <=> Len(text(c)) = 1 /\ text(c)[1] \in ErrorCodes
  <2>1. CASE c.t = "str"
    <3>1. text(c) = c.s
      BY <2>1 DEF text
    <3>2. Len(c.s) = 1 => strField(c)
      BY <2>1, EmptyText DEF strField
    <3>3. QED
      BY <3>1, <3>2, Zenon
  <2>2. CASE c.t # "str"
    <3>1. Len(<<>>) # 1
      OBVIOUS
    <3>2. QED
      BY <2>2, <3>1 DEF strField, text
  <2>3. QED
    BY <2>1, <2>2
<1>8. QED
    BY <1>3, <1>4, <1>5, <1>6, <1>7, Zenon

LEMMA MetaAgrees ==
    ASSUME NEW p \in PayloadType, Complete(p)
    PROVE  decodeTrackMeta(p) <=> DecodeTrackMeta(p)
<1> DEFINE u == p.f["album_art_url"]
<1>1. \A n \in {"title", "artist", "album_art_url"} :
          p.f[n] \in ValueType /\ (p.f[n] # Absent => Known(p.f[n]))
    BY PayloadFields, CompleteFacts DEF Names
<1>2. checkStr(Absent) /\ text(Absent) = <<>>
    BY EmptyText DEF checkStr, isText, text, Absent, Value
<1>3. \A n \in {"title", "artist", "album_art_url"} :
          p.f[n] = Absent \/ strField(p.f[n]) <=> checkStr(p.f[n])
  <2> SUFFICES ASSUME NEW n \in {"title", "artist", "album_art_url"}
               PROVE  p.f[n] = Absent \/ strField(p.f[n]) <=> checkStr(p.f[n])
    OBVIOUS
  <2>1. CASE p.f[n] = Absent
    BY <1>2, <2>1, Zenon
  <2>2. CASE p.f[n] # Absent
    BY <1>1, <2>2, TextsAgree, Zenon
  <2>3. QED
    BY <2>1, <2>2
<1>4. u = Absent \/ (strField(u) /\ u.s # <<>> /\ u.s[1] = "https://")
        <=> checkStr(u) /\ (text(u) = <<>> \/ text(u)[1] = "https://")
  <2>1. CASE u = Absent
    BY <1>2, <2>1, Zenon
  <2>2. CASE u # Absent
    <3>1. u \in ValueType /\ Known(u) /\ (strField(u) <=> checkStr(u))
      BY <1>1, <2>2, TextsAgree
    <3> HIDE DEF u
    <3>2. strField(u) => text(u) = u.s /\ u.s # <<>>
      BY <3>1 DEF strField, text, Known
    <3>3. QED
      BY <2>2, <3>1, <3>2, Zenon
  <2>3. QED
    BY <2>1, <2>2
<1>5. decodeJson(p) <=> decJSON(p)
    BY CompleteFacts
<1>6. decodeTrackMeta(p) <=>
          /\ decodeJson(p)
          /\ \A n \in {"title", "artist"} : p.f[n] = Absent \/ strField(p.f[n])
          /\ u = Absent \/ (strField(u) /\ u.s # <<>> /\ u.s[1] = "https://")
    BY Zenon DEF decodeTrackMeta
<1>7. DecodeTrackMeta(p) <=>
          /\ decJSON(p)
          /\ \A n \in {"title", "artist", "album_art_url"} : checkStr(p.f[n])
          /\ text(u) = <<>> \/ text(u)[1] = "https://"
    BY Zenon DEF DecodeTrackMeta
<1>8. (\A n \in {"title", "artist", "album_art_url"} : checkStr(p.f[n])) <=>
          (\A n \in {"title", "artist"} : checkStr(p.f[n])) /\ checkStr(u)
    BY Zenon
<1>9. (\A n \in {"title", "artist"} : checkStr(p.f[n])) <=>
          \A n \in {"title", "artist"} : p.f[n] = Absent \/ strField(p.f[n])
    BY <1>3, Zenon
<1> HIDE DEF u
<1>10. QED
    BY <1>4, <1>5, <1>6, <1>7, <1>8, <1>9, Zenon

\* The identifiers of a list: the same in both languages, as values and as
\* numbers.
LEMMA IdsAgree ==
    ASSUME NEW p \in PayloadType, p.rows.has
    PROVE  idList(p) <=> IdList(p)
<1> DEFINE s == p.rows.seq
           D == DOMAIN s
           S == 1..MaxTrackSlot
<1>1. \A i \in D : s[i].id \in ValueType
    BY PayloadFields, RowFields
<1>2. 0 \notin S
    BY FrameAssumption, Sizes DEF Byte
<1>3. idList(p) <=> /\ Len(s) <= MaxTrackSlot
                    /\ \A i \in D : isNum(s[i].id, S)
                    /\ \A i, j \in D : s[i].id = s[j].id => i = j
    BY Zenon DEF idList
<1>4. IdList(p) <=> /\ Len(s) <= MaxTrackSlot
                    /\ \A i \in D : number(s[i].id) \in S
                    /\ \A i, j \in D : number(s[i].id) = number(s[j].id) => i = j
    BY Zenon DEF IdList
<1> HIDE DEF s, D, S
<1>5. \A i \in D : isNum(s[i].id, S) <=> number(s[i].id) \in S
    BY <1>1, <1>2, NumbersAgree
<1>6. ASSUME \A i \in D : isNum(s[i].id, S), NEW i \in D, NEW j \in D
      PROVE  s[i].id = s[j].id <=> number(s[i].id) = number(s[j].id)
  <2> DEFINE a == s[i].id
             b == s[j].id
  <2>1. a \in ValueType /\ b \in ValueType /\ isNum(a, S) /\ isNum(b, S)
    BY <1>1, <1>6
  <2> HIDE DEF a, b
  <2>2. /\ a.t = "num" /\ b.t = "num" /\ number(a) = a.n /\ number(b) = b.n
    BY <2>1 DEF isNum, number
  <2>3. /\ a.s = <<>> /\ b.s = <<>>
        /\ a = [n |-> a.n, s |-> a.s, t |-> a.t] /\ b = [n |-> b.n, s |-> b.s, t |-> b.t]
    BY <2>1, <2>2, ValueFields
  <2>4. a = b <=> number(a) = number(b)
    BY <2>2, <2>3
  <2>5. QED
    BY <2>4 DEF a, b
<1>7. QED
    BY <1>3, <1>4, <1>5, <1>6, Zenon

LEMMA SubTracksAgree ==
    ASSUME NEW p \in PayloadType, Complete(p), p.kind = "subTracks"
    PROVE  decodeSubTracks(p) <=> DecodeSubTracks(p)
<1>1. p.rows.has /\ (decodeJson(p) <=> decJSON(p))
    BY CompleteFacts
<1>2. idList(p) <=> IdList(p)
    BY <1>1, IdsAgree
<1>3. QED
    BY <1>1, <1>2, Zenon DEF decodeSubTracks, DecodeSubTracks

LEMMA CategoriesAgree ==
    ASSUME NEW v \in ValueType, Known(v)
    PROVE  strField(v) /\ isCategory(v.s) <=> isText(v) /\ isCategory(text(v))
<1>1. CASE v.t = "str"
  <2>1. text(v) = v.s /\ isText(v)
    BY <1>1 DEF text, isText
  <2>2. isCategory(v.s) => Len(v.s) = 1
    BY DEF isCategory, isPresetCategory
  <2>3. Len(v.s) = 1 => strField(v)
    BY <1>1, EmptyText DEF strField
  <2>4. QED
    BY <2>1, <2>2, <2>3, Zenon
<1>2. CASE v.t = "num"
  <2>1. ~isText(v) /\ ~strField(v)
    BY <1>2 DEF isText, strField
  <2>2. QED
    BY <2>1, Zenon
<1>3. QED
    BY <1>1, <1>2 DEF Known

LEMMA TrackListsAgree ==
    ASSUME NEW p \in PayloadType, Complete(p), p.kind = "trackList"
    PROVE  decodeTrackList(p) <=> DecodeTrackList(p)
<1>1. p.rows.has /\ (decodeJson(p) <=> decJSON(p))
    BY CompleteFacts
<1>2. idList(p) <=> IdList(p)
    BY <1>1, IdsAgree
<1> DEFINE ts(r) == /\ r.obj
                    /\ strField(r.slug) /\ isValidSlug(r.slug.s)
                    /\ strField(r.category) /\ isCategory(r.category.s)
                    /\ strField(r.label)
           go(r) == /\ r.obj
                    /\ checkStr(r.slug) /\ isValidSlug(text(r.slug))
                    /\ isText(r.category) /\ isCategory(text(r.category))
                    /\ checkStr(r.label)
<1>3. ASSUME NEW i \in DOMAIN p.rows.seq PROVE ts(p.rows.seq[i]) <=> go(p.rows.seq[i])
  <2> DEFINE r == p.rows.seq[i]
  <2>1. r \in RowType
    BY PayloadFields
  <2>2. r.obj => Known(r.slug) /\ Known(r.category) /\ Known(r.label)
    BY CompleteFacts
  <2> HIDE DEF r
  <2>3. r.slug \in ValueType /\ r.category \in ValueType /\ r.label \in ValueType
    BY <2>1, RowFields
  <2>4. ASSUME r.obj PROVE ts(r) <=> go(r)
    <3>1. /\ strField(r.slug) <=> checkStr(r.slug)
          /\ strField(r.label) <=> checkStr(r.label)
      BY <2>2, <2>3, <2>4, TextsAgree
    <3>2. strField(r.category) /\ isCategory(r.category.s)
            <=> isText(r.category) /\ isCategory(text(r.category))
      BY <2>2, <2>3, <2>4, CategoriesAgree
    <3>3. strField(r.slug) => text(r.slug) = r.slug.s
      BY DEF strField, text
    <3>4. QED
      BY <3>1, <3>2, <3>3, Zenon
  <2>5. ASSUME ~r.obj PROVE ts(r) <=> go(r)
    BY <2>5, Zenon
  <2>6. QED
    BY <2>4, <2>5, Zenon DEF r
<1>4. decodeTrackList(p) <=> /\ decodeJson(p) /\ idList(p)
                             /\ \A i \in DOMAIN p.rows.seq : ts(p.rows.seq[i])
    BY Zenon DEF decodeTrackList
<1>5. DecodeTrackList(p) <=> /\ decJSON(p) /\ IdList(p)
                             /\ \A i \in DOMAIN p.rows.seq : go(p.rows.seq[i])
    BY Zenon DEF DecodeTrackList
<1> HIDE DEF ts, go
<1>6. QED
    BY <1>1, <1>2, <1>3, <1>4, <1>5, Zenon

-----------------------------------------------------------------------------
(* Slugs and the size of a track list.                                     *)

\* A slug is a text.
LEMMA SlugText ==
    ASSUME NEW label \in Seq(Token)
    PROVE  Slug(label) \in Seq(Token)
<1> DEFINE n == Len(label)
           S == Seq(Token)
           Push(acc, c) ==
               IF c \in Lower THEN Append(acc, c)
               ELSE IF c = "A" THEN Append(acc, "a")
               ELSE IF acc = <<>> \/ acc[Len(acc)] = "-" THEN acc
               ELSE Append(acc, "-")
           F(g) == [i \in 0..n |-> IF i = 0 THEN <<>> ELSE Push(g[i - 1], label[i])]
           scan == CHOOSE g : g = F(g)
           s == scan[n]
           k == Max({0} \cup {i \in DOMAIN s : s[i] # "-"})
<1>1. Slug(label) = SubSeq(s, 1, k)
    BY DEF Slug
<1>2. n \in Nat /\ \A i \in 1..n : label[i] \in Token
    BY LenProperties, ElementOfSeq
<1>3. \A acc \in S, c \in Token : Push(acc, c) \in S
  <2> SUFFICES ASSUME NEW acc \in S, NEW c \in Token PROVE Push(acc, c) \in S
    OBVIOUS
  <2>0. "a" \in Token /\ "-" \in Token
    BY DEF Token, Lower
  <2>1. Append(acc, c) \in S
    BY AppendProperties, Zenon
  <2>2. Append(acc, "a") \in S
    BY <2>0, AppendProperties, Zenon
  <2>3. Append(acc, "-") \in S
    BY <2>0, AppendProperties, Zenon
  <2>4. QED
    BY <2>1, <2>2, <2>3, Zenon
<1> HIDE DEF Push
<1>4. \E g : g = F(g)
  <2> DEFINE step == [x \in S \X (1..n) |-> Push(x[1], label[x[2]])]
  <2>1. step \in [S \X (1..n) -> S]
    BY <1>2, <1>3
  <2> DEFINE e == <<>>
  <2>2. e \in S
    BY EmptySeq
  <2>3. \A x \in S, i \in 1..n : step[<<x, i>>] = Push(x, label[i])
    OBVIOUS
  <2>a. n \in Nat
    BY <1>2
  <2> HIDE DEF step, S, n, e
  <2>b. PICK g \in [0..n -> S] : IsRec(g, n, e, step)
    BY <2>a, <2>1, <2>2, Recursion, Zenon
  <2>4. g = [i \in 0..n |-> IF i = 0 THEN e ELSE step[<<g[i - 1], i>>]]
    BY <2>b DEF IsRec
  <2>5. \A i \in 0..n : i # 0 => i \in 1..n /\ g[i - 1] \in S
    BY <1>2
  <2>6. [i \in 0..n |-> IF i = 0 THEN e ELSE step[<<g[i - 1], i>>]] = F(g)
    BY <2>3, <2>5 DEF e
  <2>7. QED
    BY <2>4, <2>6, Zenon
<1>5. scan = F(scan)
    BY <1>4, Zenon
<1> HIDE DEF scan
<1>6. \A i \in 0..n : scan[i] = IF i = 0 THEN <<>> ELSE Push(scan[i - 1], label[i])
    BY <1>5, Zenon
<1> HIDE DEF F
<1>7. s \in S
  <2> DEFINE P == {i \in 0..n : scan[i] \in S}
  <2>1. 0 \in P
    <3>1. 0 \in 0..n /\ <<>> \in S
      BY <1>2, EmptySeq
    <3>2. scan[0] = <<>>
      BY <1>6, <3>1, Zenon
    <3>3. QED
      BY <3>1, <3>2, Zenon
  <2>2. ASSUME NEW i \in Nat, i < n, i \in P PROVE i + 1 \in P
    <3>1. i + 1 \in 0..n /\ i + 1 \in 1..n /\ i + 1 # 0 /\ (i + 1) - 1 = i
      BY <1>2, <2>2
    <3>2. scan[i + 1] = Push(scan[i], label[i + 1])
      BY <1>6, <3>1
    <3>3. QED
      BY <1>2, <1>3, <2>2, <3>1, <3>2
  <2>3. P \in SUBSET Nat /\ n \in 0..n
    BY <1>2
  <2> HIDE DEF P
  <2>4. n \in P
    BY <1>2, <2>1, <2>2, <2>3, Induction
  <2>5. QED
    BY <2>4 DEF P
<1> HIDE DEF s
<1>8. k \in 0..Len(s)
  <2> DEFINE Q == {0} \cup {i \in DOMAIN s : s[i] # "-"}
  <2>1. Len(s) \in Nat /\ DOMAIN s = 1..Len(s)
    BY <1>7, LenProperties
  <2>2. Q \in SUBSET (0..Len(s)) /\ Q # {}
    BY <2>1
  <2> HIDE DEF Q
  <2>3. Max(Q) \in Q
    BY <2>1, <2>2, Largest
  <2>4. QED
    BY <2>2, <2>3 DEF Q
<1> HIDE DEF k
<1>9. SubSeq(s, 1, k) \in Seq(Token)
  <2>1. Len(s) \in Nat /\ \A i \in 1..Len(s) : s[i] \in Token
    BY <1>7, LenProperties, ElementOfSeq
  <2>2. k \in Nat /\ \A i \in 1..k : s[i] \in Token
    BY <1>8, <2>1
  <2>3. QED
    BY <2>2, SubSeqProperties
<1>10. QED
    BY <1>1, <1>9

\* What the publisher's scan accepts, the schema's pattern accepts.
LEMMA ScannedSlug ==
    ASSUME NEW s \in Seq(Token), IsValidSlug(s)
    PROVE  isValidSlug(s)
<1> DEFINE n == Len(s)
           S == [ok : BOOLEAN, dash : BOOLEAN]
           Start == [ok |-> TRUE, dash |-> FALSE]
           Look(x, c) == [ok |-> x.ok /\ (IF c = "-" THEN ~x.dash ELSE c \in Lower),
                          dash |-> c = "-"]
           F(g) == [i \in 0..n |-> IF i = 0 THEN Start ELSE Look(g[i - 1], s[i])]
           scan == CHOOSE g : g = F(g)
<1>1. n \in 1..MaxText /\ s[1] # "-" /\ s[n] # "-" /\ scan[n].ok
    BY DEF IsValidSlug
<1>2. n \in Nat /\ DOMAIN s = 1..n
    BY LenProperties
<1>3. \A x \in S : \A c : Look(x, c) \in S
    BY Zenon
<1>4. \A x : \A c : Look(x, c).ok =>
          x.ok /\ (c = "-" => ~x.dash) /\ c \in Lower \cup {"-"}
    BY Zenon
<1>5. \A x : Look(x, "-").dash
    BY Zenon
<1>6. Start \in S
    BY Zenon
<1> HIDE DEF Look, Start
<1>7. \E g : g = F(g)
  <2> DEFINE step == [x \in S \X (1..n) |-> Look(x[1], s[x[2]])]
  <2> HIDE DEF S
  <2>1. step \in [S \X (1..n) -> S]
    BY <1>3
  <2>2. \A x \in S, i \in 1..n : step[<<x, i>>] = Look(x, s[i])
    OBVIOUS
  <2> HIDE DEF step, n
  <2>3. PICK g \in [0..n -> S] : IsRec(g, n, Start, step)
    BY <1>2, <1>6, <2>1, Recursion, Zenon
  <2>4. g = [i \in 0..n |-> IF i = 0 THEN Start ELSE step[<<g[i - 1], i>>]]
    BY <2>3 DEF IsRec
  <2>5. \A i \in 0..n : i # 0 => i \in 1..n /\ g[i - 1] \in S
    BY <1>2
  <2>6. [i \in 0..n |-> IF i = 0 THEN Start ELSE step[<<g[i - 1], i>>]] = F(g)
    BY <2>2, <2>5
  <2>7. QED
    BY <2>4, <2>6, Zenon
<1>8. scan = F(scan)
    BY <1>7, Zenon
<1> HIDE DEF scan
<1>9. \A i \in 0..n : scan[i] = IF i = 0 THEN Start ELSE Look(scan[i - 1], s[i])
    BY <1>8, Zenon
<1> HIDE DEF F, S
<1>10. \A i \in 1..n : scan[i] = Look(scan[i - 1], s[i])
    BY <1>2, <1>9
<1> DEFINE Good(i) ==
        /\ \A j \in 1..i : s[j] \in Lower \cup {"-"}
        /\ \A j \in 1..i - 1 : ~(s[j] = "-" /\ s[j + 1] = "-")
<1>11. scan[n].ok => Good(n)
  <2> DEFINE P == {i \in 0..n : scan[i].ok => Good(i)}
  <2>1. 0 \in P
    BY <1>2
  <2>2. ASSUME NEW i \in Nat, i < n, i \in P PROVE i + 1 \in P
    <3>1. i + 1 \in 0..n /\ i + 1 \in 1..n /\ (i + 1) - 1 = i
      BY <1>2, <2>2
    <3>2. scan[i + 1] = Look(scan[i], s[i + 1])
      BY <1>10, <3>1
    <3>3. SUFFICES ASSUME scan[i + 1].ok PROVE Good(i + 1)
      BY <3>1
    <3>4. scan[i].ok /\ (s[i + 1] = "-" => ~scan[i].dash) /\ s[i + 1] \in Lower \cup {"-"}
      BY <1>4, <3>2, <3>3, Zenon
    <3>5. Good(i)
      BY <2>2, <3>4, Zenon
    <3>6. \A j \in 1..(i + 1) : j = i + 1 \/ j \in 1..i
      BY <2>2
    <3>7. \A j \in 1..(i + 1) : s[j] \in Lower \cup {"-"}
      BY <3>4, <3>5, <3>6, Zenon
    <3>8. ASSUME i \in 1..n, s[i] = "-" PROVE s[i + 1] # "-"
      <4>1. scan[i].dash
        BY <1>5, <1>10, <3>8, Zenon
      <4>2. QED
        BY <3>4, <4>1, Zenon
    <3>9. \A j \in 1..(i + 1) - 1 : (j = i /\ i \in 1..n) \/ j \in 1..i - 1
      BY <1>2, <2>2
    <3>10. \A j \in 1..(i + 1) - 1 : ~(s[j] = "-" /\ s[j + 1] = "-")
      BY <3>5, <3>8, <3>9, Zenon
    <3>11. QED
      BY <3>7, <3>10, Zenon
  <2>3. P \in SUBSET Nat /\ n \in 0..n
    BY <1>2
  <2> HIDE DEF P
  <2>4. n \in P
    BY <1>2, <2>1, <2>2, <2>3, Induction
  <2>5. QED
    BY <2>4, Zenon DEF P
<1>12. Good(n)
    BY <1>1, <1>11, Zenon
<1>13. QED
    BY <1>1, <1>2, <1>12, Zenon DEF isValidSlug

\* A preset category is a slug.
LEMMA PresetSlug ==
    ASSUME NEW s \in Seq(Token), isPresetCategory(s)
    PROVE  isValidSlug(s)
<1>1. Len(s) = 1 /\ s[1] \in Presets /\ DOMAIN s = 1..1
    BY LenProperties DEF isPresetCategory
<1>2. s[1] \in Lower /\ s[1] # "-"
    BY <1>1 DEF Lower, Presets, Custom
<1>3. Len(s) \in 1..MaxText
    BY <1>1, EmptyText
<1>4. \A i \in DOMAIN s : s[i] \in Lower \cup {"-"}
    BY <1>1, <1>2
<1>5. QED
    BY <1>1, <1>2, <1>3, <1>4 DEF isValidSlug

\* A character is one byte or two.
LEMMA BytesBound ==
    ASSUME NEW s \in Seq(Token)
    PROVE  Bytes(s) \in Nat /\ Bytes(s) <= 2 * Len(s)
<1> DEFINE n == Len(s)
           D == {i \in DOMAIN s : s[i] = "u"}
<1>1. n \in Nat /\ DOMAIN s = 1..n
    BY LenProperties
<1>2. IsFiniteSet(1..n) /\ Cardinality(1..n) = IF 1 > n THEN 0 ELSE n - 1 + 1
    BY <1>1, FS_Interval
<1>3. D \in SUBSET (1..n)
    BY <1>1
<1> HIDE DEF D
<1>4. IsFiniteSet(D) /\ Cardinality(D) <= Cardinality(1..n)
    BY <1>2, <1>3, FS_Subset
<1>5. Cardinality(D) \in Nat
    BY <1>4, FS_CardinalityType
<1>6. Cardinality(D) <= n
    BY <1>1, <1>2, <1>4, <1>5
<1>7. Bytes(s) = n + Cardinality(D)
    BY DEF Bytes, D
<1> HIDE DEF n
<1>8. n + Cardinality(D) \in Nat /\ n + Cardinality(D) <= 2 * n
    BY <1>1, <1>5, <1>6
<1>9. QED
    BY <1>7, <1>8 DEF n

\* Tracks as the command line leaves them.
TextTracks(c) ==
    \A i \in 1..Len(c) : c[i].slug \in Seq(Token) /\ c[i].label \in Seq(Token)
ShortTracks(c) ==
    \A i \in 1..Len(c) : Len(c[i].slug) <= MaxText /\ Len(c[i].label) <= MaxText

\* A list of tracks has a size, and it fits when the texts keep their limits.
LEMMA ListSizes ==
    ASSUME NEW c, Len(c) \in Nat, TextTracks(c)
    PROVE  /\ ListSize(c) \in Nat
           /\ Len(c) <= MaxTracks /\ ShortTracks(c) => ListSize(c) <= MaxPayloadBytes
<1> DEFINE n == Len(c)
           F(g) == [i \in 0..n |-> IF i = 0 THEN 1
                        ELSE g[i - 1] + 1 + Len(c[i].slug) + Bytes(c[i].label)]
           total == CHOOSE g : g = F(g)
<1>1. ListSize(c) = total[n]
    BY DEF ListSize
<1>2. n \in Nat
    OBVIOUS
<1>3. \A i \in 1..n : Len(c[i].slug) \in Nat /\ Bytes(c[i].label) \in Nat
                      /\ Bytes(c[i].label) <= 2 * Len(c[i].label)
                      /\ Len(c[i].label) \in Nat
    BY BytesBound, LenProperties DEF TextTracks
<1> HIDE DEF n
<1>4. \E g : g = F(g)
  <2> DEFINE Grow(x, i) == x + 1 + Len(c[i].slug) + Bytes(c[i].label)
             step == [x \in Nat \X (1..n) |-> Grow(x[1], x[2])]
             e == 1
  <2>a. ASSUME NEW x \in Nat, NEW i \in 1..n PROVE Grow(x, i) \in Nat
    <3> DEFINE u == Len(c[i].slug)
               v == Bytes(c[i].label)
    <3>1. u \in Nat /\ v \in Nat
      BY <1>3
    <3> HIDE DEF u, v
    <3>2. x + 1 + u + v \in Nat
      BY <3>1
    <3>3. QED
      BY <3>2 DEF u, v
  <2>b. \A x, i : Grow(x, i) = x + 1 + Len(c[i].slug) + Bytes(c[i].label)
    OBVIOUS
  <2> HIDE DEF Grow
  <2>1. step \in [Nat \X (1..n) -> Nat]
    BY <2>a
  <2>c. \A x \in Nat, i \in 1..n : step[<<x, i>>] = Grow(x, i)
    OBVIOUS
  <2>2. \A x \in Nat, i \in 1..n :
            step[<<x, i>>] = x + 1 + Len(c[i].slug) + Bytes(c[i].label)
    BY <2>b, <2>c, Zenon
  <2>3. e \in Nat
    OBVIOUS
  <2> HIDE DEF step, e
  <2>4. PICK g \in [0..n -> Nat] : IsRec(g, n, e, step)
    BY <1>2, <2>1, <2>3, Recursion, Zenon
  <2>5. g = [i \in 0..n |-> IF i = 0 THEN e ELSE step[<<g[i - 1], i>>]]
    BY <2>4 DEF IsRec
  <2>6. \A i \in 0..n : i # 0 => i \in 1..n /\ g[i - 1] \in Nat
    BY <1>2
  <2>7. [i \in 0..n |-> IF i = 0 THEN e ELSE step[<<g[i - 1], i>>]] = F(g)
    BY <2>2, <2>6 DEF e
  <2>8. QED
    BY <2>5, <2>7, Zenon
<1>5. total = F(total)
    BY <1>4, Zenon
<1> HIDE DEF total
<1>6. \A i \in 0..n : total[i] = IF i = 0 THEN 1
                        ELSE total[i - 1] + 1 + Len(c[i].slug) + Bytes(c[i].label)
    BY <1>5, Zenon
<1> HIDE DEF F
<1>7. total[0] = 1
    BY <1>2, <1>6
<1>8. ASSUME NEW i \in Nat, i < n
      PROVE  /\ i + 1 \in 1..n
             /\ total[i + 1] = total[i] + 1 + Len(c[i + 1].slug) + Bytes(c[i + 1].label)
  <2>1. i + 1 \in 0..n /\ i + 1 # 0 /\ (i + 1) - 1 = i /\ i + 1 \in 1..n
    BY <1>2, <1>8
  <2>2. QED
    BY <1>6, <2>1
<1>9. \A i \in 0..n : total[i] \in Nat
  <2> DEFINE P == {i \in 0..n : total[i] \in Nat}
  <2>1. 0 \in P
    BY <1>2, <1>7
  <2>2. ASSUME NEW i \in Nat, i < n, i \in P PROVE i + 1 \in P
    <3> DEFINE x == Len(c[i + 1].slug)
               y == Bytes(c[i + 1].label)
    <3>1. total[i + 1] = total[i] + 1 + x + y /\ i + 1 \in 1..n
      BY <1>8, <2>2
    <3>2. x \in Nat /\ y \in Nat
      BY <1>3, <3>1
    <3>3. total[i] \in Nat
      BY <2>2
    <3> HIDE DEF x, y
    <3>4. total[i + 1] \in Nat /\ i + 1 \in 0..n
      BY <1>2, <3>1, <3>2, <3>3
    <3>5. QED
      BY <3>4
  <2>3. P \in SUBSET Nat
    BY <1>2
  <2> HIDE DEF P
  <2>4. \A i \in 0..n : i \in P
    BY <1>2, <2>1, <2>2, <2>3, Induction
  <2>5. QED
    BY <2>4 DEF P
<1>10. ASSUME n <= MaxTracks, ShortTracks(c) PROVE total[n] <= MaxPayloadBytes
  <2> DEFINE w == 1 + 3 * MaxText
  <2>1. w \in Nat /\ MaxText \in Nat
    BY EmptyText
  <2>2. \A i \in 1..n : 1 + Len(c[i].slug) + Bytes(c[i].label) <= w
    BY <1>3, <1>10, <2>1 DEF ShortTracks, n
  <2> HIDE DEF w
  <2> DEFINE P == {i \in 0..n : total[i] <= 1 + i * w}
  <2>3. 0 \in P
    BY <1>2, <1>7, <2>1
  <2>4. ASSUME NEW i \in Nat, i < n, i \in P PROVE i + 1 \in P
    <3>1. (i + 1) * w = i * w + w /\ i * w \in Nat
      BY <2>1
    <3> DEFINE a == i * w
               b == (i + 1) * w
               x == Len(c[i + 1].slug)
               y == Bytes(c[i + 1].label)
    <3>2. b = a + w /\ a \in Nat
      BY <3>1
    <3>3. total[i] <= 1 + a /\ total[i] \in Nat
      BY <1>9, <2>4
    <3>4. x \in Nat /\ y \in Nat /\ 1 + x + y <= w
      BY <1>3, <1>8, <2>2, <2>4
    <3>5. total[i + 1] = total[i] + 1 + x + y
      BY <1>8, <2>4
    <3> HIDE DEF a, b, x, y
    <3>6. total[i + 1] <= 1 + b
      BY <2>1, <3>2, <3>3, <3>4, <3>5
    <3>7. i + 1 \in 0..n
      BY <1>2, <2>4
    <3>8. QED
      BY <3>6, <3>7 DEF b
  <2>5. P \in SUBSET Nat /\ n \in 0..n
    BY <1>2
  <2> HIDE DEF P
  <2>6. n \in P
    BY <1>2, <2>3, <2>4, <2>5, Induction
  <2>7. total[n] <= 1 + n * w
    BY <2>6 DEF P
  <2>8. MaxTracks \in Nat /\ 1 + MaxTracks * w <= MaxPayloadBytes /\ MaxPayloadBytes \in Nat
    BY WireAssumption, FrameAssumption DEF w, Byte
  <2>9. n * w <= MaxTracks * w
    BY <1>2, <1>10, <2>1, <2>8, MulMono
  <2> DEFINE a == n * w
             b == MaxTracks * w
  <2>10. a \in Nat /\ b \in Nat
    BY <1>2, <2>1, <2>8
  <2>11. total[n] \in Nat /\ total[n] <= 1 + a /\ a <= b /\ 1 + b <= MaxPayloadBytes
    BY <1>2, <1>9, <2>7, <2>8, <2>9
  <2> HIDE DEF a, b
  <2>12. QED
    BY <2>8, <2>10, <2>11
<1>11. QED
    BY <1>1, <1>2, <1>9, <1>10 DEF n

-----------------------------------------------------------------------------
(* The inductive invariant.                                                *)

\* A message cut inside its header.
IsShort(m) ==
    /\ m = Message(m.head, Binary("none", 0))
    /\ m.head \in Seq(Byte) /\ Len(m.head) < HeaderBytes

Track == [id : Nat, category : Seq(Token), slug : Seq(Token), label : Seq(Token)]

\* The command line has kept the schema's limits, but for the labels.
PublisherInv ==
    /\ stage \in {"args", "exit", "hello", "list", "audio", "other", "done"}
    /\ utf8 \in BOOLEAN /\ expelled \in BOOLEAN
    /\ cfg \in Seq(Track) /\ Len(cfg) <= MaxTracks + 1
    /\ \A i \in 1..Len(cfg) :
           cfg[i].id = i /\ isCategory(cfg[i].category) /\ isValidSlug(cfg[i].slug)
    /\ stage \in {"hello", "list", "audio"} => Len(cfg) \in 1..MaxTracks

\* A message no one has edited is empty or the frame it was made from.
MessageInv ==
    /\ at \in {"idle", "sender", "relay", "viewer"}
    /\ IsMessage(msg) \/ IsShort(msg)
    /\ sent \in Frame /\ sent.track <= MaxTrackSlot /\ HasMembers(sent.payload)
    /\ edits \in 0..MaxEdits
    /\ edits = 0 => msg = Empty \/ (Fits(sent) /\ msg = Bytes21(sent))

\* The publisher has one message under way at most, and none that is edited.
StageInv ==
    /\ stage \in {"args", "exit", "other", "hello"} => at = "idle"
    /\ stage \in {"args", "exit", "other"} => ~expelled
    /\ stage # "done" => at # "sender"

AllPlain == \A i \in DOMAIN cfg : Plain(cfg[i])
GivenRows == [i \in DOMAIN cfg |-> RowOf(cfg[i], cfg[i].label)]
Announces(f) ==
    /\ f.type = TypeOf["trackList"] /\ decodeTrackList(f.payload)
    /\ f.payload.rows.seq = GivenRows

\* Behind the announcement come only packets, and they change nothing shown.
PlainInv ==
    stage # "done" /\ AllPlain =>
        /\ ~expelled
        /\ at # "idle" => Fits(sent) /\ msg = Bytes21(sent)
        /\ stage = "audio" =>
               \/ at # "idle" /\ Announces(sent)
               \/ at # "idle" /\ sent.type = TypeOf["audio"] /\ shown = GivenRows
               \/ at = "idle" /\ shown = GivenRows

WireInv == PublisherInv /\ MessageInv /\ StageInv /\ PlainInv

-----------------------------------------------------------------------------
(* Payloads and frames that the senders build.                             *)

LEMMA Values ==
    /\ Absent \in ValueType
    /\ \A n \in Int : Num(n) \in ValueType /\ Num(n) # Absent
    /\ \A s \in Seq(Token) : Str(s) \in ValueType /\ Str(s) # Absent
<1>1. <<>> \in Seq(Token)
    BY EmptySeq
<1>2. QED
    BY <1>1 DEF Absent, Num, Str, Value, ValueType

LEMMA Objects ==
    ASSUME NEW kind \in Kinds, NEW size \in Nat, NEW f,
           \A n \in DOMAIN f : f[n] \in ValueType,
           NEW rows \in [has : BOOLEAN, seq : Seq(RowType)]
    PROVE  /\ Object(kind, f, rows, size) \in PayloadType
           /\ Object(kind, f, rows, size).kind = kind
           /\ Object(kind, f, rows, size).size = size
           /\ Object(kind, f, rows, size).rows = rows
           /\ \A n \in Names \cap DOMAIN f : Object(kind, f, rows, size).f[n] = f[n]
<1> DEFINE g == [n \in Names |-> IF n \in DOMAIN f THEN f[n] ELSE Absent]
<1>1. g \in [Names -> ValueType]
  <2>1. Absent \in ValueType
    BY Values
  <2> HIDE DEF ValueType, Names
  <2>2. QED
    BY <2>1
<1>2. \A n \in Names \cap DOMAIN f : g[n] = f[n]
    OBVIOUS
<1>3. Object(kind, f, rows, size) =
          [kind |-> kind, json |-> "object", extra |-> FALSE, size |-> size,
           f |-> g, rows |-> rows]
    BY Zenon DEF Object
<1> HIDE DEF g
<1>4. QED
    BY <1>1, <1>2, <1>3 DEF PayloadType

LEMMA RowsOf == NoRows \in [has : BOOLEAN, seq : Seq(RowType)]
<1>1. <<>> \in Seq(RowType)
    BY EmptySeq
<1>2. QED
    BY <1>1 DEF NoRows

LEMMA Binaries ==
    ASSUME NEW kind \in Kinds, NEW size \in Nat
    PROVE  /\ Binary(kind, size) \in PayloadType
           /\ Binary(kind, size).kind = kind /\ Binary(kind, size).size = size
<1> DEFINE o == Object(kind, NoMembers, NoRows, size)
<1>1. \A n \in DOMAIN NoMembers : NoMembers[n] \in ValueType
    BY DEF NoMembers
<1>2. o \in PayloadType /\ o.kind = kind /\ o.size = size
  <2> HIDE DEF o
  <2>1. Object(kind, NoMembers, NoRows, size) \in PayloadType
    BY <1>1, RowsOf, Objects
  <2>2. Object(kind, NoMembers, NoRows, size).kind = kind
    BY <1>1, RowsOf, Objects
  <2>3. Object(kind, NoMembers, NoRows, size).size = size
    BY <1>1, RowsOf, Objects
  <2>4. QED
    BY <2>1, <2>2, <2>3 DEF o
<1>3. Binary(kind, size) = [o EXCEPT !.json = "other"]
    BY DEF Binary
<1> HIDE DEF o
<1>4. QED
    BY <1>2, <1>3 DEF PayloadType

\* An empty message is a message cut at its start.
LEMMA EmptyShort == IsShort(Empty)
<1>1. Empty.head = <<>> /\ Empty = Message(Empty.head, Binary("none", 0))
    BY DEF Empty, Message
<1>2. <<>> \in Seq(Byte) /\ Len(<<>>) = 0
    BY EmptySeq
<1>3. QED
    BY <1>1, <1>2 DEF IsShort, HeaderBytes

LEMMA Limits ==
    /\ MaxPayloadBytes \in Nat \ {0} /\ MaxTrackSlot \in Byte /\ MaxTrackSlot \in Nat
    /\ MaxTracks \in Nat \ {0} /\ MaxTracks <= MaxTrackSlot /\ MaxEdits \in Nat
    /\ \A k \in MessageType : TypeOf[k] \in KnownTypes
    /\ 0 \in Byte /\ {0, 1} \subseteq 0..U32 - 1 /\ NowMs \in 0..U64 - 1
    /\ MaxPayloadBytes <= MaxJsonBytes /\ MaxJsonBytes \in Nat
    /\ MaxFrameBytes \in Nat /\ 21 + MaxPayloadBytes <= MaxFrameBytes
<1>1. /\ MaxTracks \in 1..MaxTrackSlot /\ MaxEdits \in Nat /\ NowMs \in 0..U64 - 1
      /\ {TypeOf[k] : k \in MessageType} = KnownTypes
      /\ MaxJsonBytes \in Nat /\ MaxPayloadBytes <= MaxJsonBytes
      /\ MaxFrameBytes \in Nat /\ MaxFrameBytes >= HeaderBytes + MaxPayloadBytes
    BY WireAssumption
<1>2. MaxPayloadBytes \in 1..U16 - 1 /\ MaxTrackSlot \in Byte /\ ByteSize \in Nat \ {0, 1}
    BY FrameAssumption
<1>3. U16 \in Nat /\ U32 \in Nat /\ U32 > 1
  <2>1. U16 \in Nat /\ U32 \in Nat
    BY Sizes
  <2>2. U16 > 1
    <3>1. ByteSize * 2 <= ByteSize * ByteSize
      BY <1>2, MulMono
    <3>2. QED
      BY <1>2, <3>1 DEF U16
  <2>3. U16 * 2 <= U16 * U16
    BY <2>1, <2>2, MulMono
  <2>4. QED
    BY <2>1, <2>2, <2>3 DEF U32
<1>4. MaxPayloadBytes \in Nat \ {0} /\ MaxTrackSlot \in Nat /\ 0 \in Byte
    BY <1>2, <1>3 DEF Byte
<1>5. MaxTracks \in Nat \ {0} /\ MaxTracks <= MaxTrackSlot
    BY <1>1, <1>4
<1>6. {0, 1} \subseteq 0..U32 - 1
    BY <1>3
<1>7. 21 + MaxPayloadBytes <= MaxFrameBytes
    BY <1>1, <1>4 DEF HeaderBytes
<1>8. QED
    BY <1>1, <1>2, <1>4, <1>5, <1>6, <1>7

LEMMA Controls ==
    ASSUME NEW kind \in MessageType, NEW seq \in {0, 1}, NEW p \in PayloadType
    PROVE  /\ Control(kind, seq, p) \in Frame
           /\ Control(kind, seq, p).type = TypeOf[kind]
           /\ Control(kind, seq, p).track = 0 /\ Control(kind, seq, p).payload = p
<1>1. /\ TypeOf[kind] \in KnownTypes /\ 0 \in Byte /\ seq \in 0..U32 - 1
      /\ NowMs \in 0..U64 - 1
    BY Limits
<1>2. Control(kind, seq, p) =
          [type |-> TypeOf[kind], track |-> 0, flags |-> 0, seq |-> seq,
           timestamp |-> NowMs, payload |-> p]
    BY DEF Control, CONTROL_TRACK
<1> HIDE DEF PayloadType
<1>3. QED
    BY <1>1, <1>2 DEF Frame, FrameType

\* A frame that is not logged is encoded.
LEMMA EncodeOrLog ==
    ASSUME NEW f \in Frame
    PROVE  \/ Fits(f) /\ EncodeFrameOrLog(f) = Bytes21(f)
           \/ ~Fits(f) /\ EncodeFrameOrLog(f) = Empty
<1> DEFINE r == EncodeFrameCpp(f)
<1>1. /\ Fits(f) => r.err = "" /\ r.val = Bytes21(f)
      /\ r.err = "" => Fits(f)
    BY Encoders
<1>2. EncodeFrameOrLog(f) = IF r.err = "" THEN r.val ELSE Empty
    BY DEF EncodeFrameOrLog
<1> HIDE DEF r
<1>3. QED
    BY <1>1, <1>2

\* What the publisher and the others transmit keeps the message's invariant.
LEMMA Sends ==
    ASSUME NEW f \in Frame, NEW m,
           \/ Fits(f) /\ m = Bytes21(f)
           \/ f.track <= MaxTrackSlot /\ m = Empty
    PROVE  /\ IsMessage(m) \/ IsShort(m)
           /\ f.track <= MaxTrackSlot
           /\ m = Empty \/ (Fits(f) /\ m = Bytes21(f))
<1>1. CASE Fits(f) /\ m = Bytes21(f)
    BY <1>1, ReadBack DEF Fits
<1>2. CASE f.track <= MaxTrackSlot /\ m = Empty
    BY <1>2, EmptyShort
<1>3. QED
    BY <1>1, <1>2

\* A frame that fits passes the relay.
LEMMA FrameFitsRelay ==
    ASSUME NEW f \in Frame, Fits(f), NEW m, m = Bytes21(f)
    PROVE  Passes(m)
<1>1. IsMessage(m) /\ m.payload = f.payload /\ Accepts(m)
    BY ReadBack
<1>2. Length(m) = 21 + f.payload.size /\ f.payload.size \in Nat
    BY <1>1, MessageParts
<1>3. f.payload.size <= MaxPayloadBytes
    BY DEF Fits
<1>4. Length(m) \in 4..MaxFrameBytes
    BY <1>2, <1>3, Limits
<1>5. SubSeq(m.head, 1, 4) = Magic
    BY <1>1, Slices DEF Accepts
<1>6. QED
    BY <1>4, <1>5 DEF Passes

\* The publisher's greeting.
LEMMA Greeting ==
    ASSUME NEW f, f = Control("hello", 0, BuildHelloPayload)
    PROVE  f \in Frame /\ Fits(f) /\ f.type = TypeOf["hello"] /\ HasMembers(f.payload)
<1> DEFINE g == [version |-> Num(1), client |-> Str(<<"a">>),
                 codec |-> Str(<<"opus">>), sample_rate |-> Num(48000),
                 channels |-> Num(2), frame_ms |-> Num(20)]
           D == {"version", "client", "codec", "sample_rate", "channels", "frame_ms"}
           p == BuildHelloPayload
<1>1. p = Object("hello", g, NoRows, 1)
    BY DEF BuildHelloPayload, encodeHello
<1>2. <<"a">> \in Seq(Token) /\ <<"opus">> \in Seq(Token)
  <2>1. "a" \in Token /\ "opus" \in Token
    BY DEF Token, Lower
  <2>2. QED
    BY <2>1
<1>3. DOMAIN g = D /\ D = Required("hello")
    BY DEF Required
<1>4. \A n \in D : g[n] \in ValueType /\ g[n] # Absent
  <2>1. /\ Num(1) \in ValueType /\ Num(1) # Absent
        /\ Num(48000) \in ValueType /\ Num(48000) # Absent
        /\ Num(2) \in ValueType /\ Num(2) # Absent
        /\ Num(20) \in ValueType /\ Num(20) # Absent
    BY Values, SMT
  <2>2. /\ Str(<<"a">>) \in ValueType /\ Str(<<"a">>) # Absent
        /\ Str(<<"opus">>) \in ValueType /\ Str(<<"opus">>) # Absent
    BY <1>2, Values, Zenon
  <2> HIDE DEF ValueType
  <2>3. QED
    BY <2>1, <2>2
<1> HIDE DEF g, p
<1>5. "hello" \in Kinds /\ "hello" \in MessageType /\ 1 \in Nat
    BY DEF Kinds, MessageType
<1>6. D \subseteq Names
    BY DEF Names
<1>7. /\ p \in PayloadType /\ p.kind = "hello" /\ p.size = 1
      /\ \A n \in Names \cap DOMAIN g : p.f[n] = g[n]
    BY <1>1, <1>3, <1>4, <1>5, RowsOf, Objects
<1>8. HasMembers(p)
    BY <1>3, <1>4, <1>6, <1>7, Zenon DEF HasMembers
<1>9. f \in Frame /\ f.type = TypeOf["hello"] /\ f.track = 0 /\ f.payload = p
    BY <1>5, <1>7, Controls DEF p
<1>10. Fits(f)
    BY <1>7, <1>9, Limits DEF Fits
<1>11. QED
    BY <1>8, <1>9, <1>10

\* The lists the publisher may write, whatever its labels.
ListOf(labels) ==
    [encodeTrackList([i \in DOMAIN cfg |-> RowOf(cfg[i], labels[i])])
        EXCEPT !.size = ListSize(cfg)]
Given == [i \in DOMAIN cfg |-> cfg[i].label]
Garbled == [i \in DOMAIN cfg |-> IF Escapes(cfg[i]) THEN <<"?">> ELSE cfg[i].label]

LEMMA TrackFields ==
    ASSUME PublisherInv
    PROVE  /\ Len(cfg) \in Nat /\ DOMAIN cfg = 1..Len(cfg) /\ TextTracks(cfg)
           /\ ListSize(cfg) \in Nat
           /\ \A i \in DOMAIN cfg :
                  /\ cfg[i].id = i /\ cfg[i].label \in Seq(Token)
                  /\ cfg[i].slug \in Seq(Token) /\ isValidSlug(cfg[i].slug)
                  /\ cfg[i].category \in Seq(Token) /\ isCategory(cfg[i].category)
<1>1. cfg \in Seq(Track)
    BY DEF PublisherInv
<1>2. Len(cfg) \in Nat /\ DOMAIN cfg = 1..Len(cfg) /\ \A i \in 1..Len(cfg) : cfg[i] \in Track
    BY <1>1, LenProperties, ElementOfSeq
<1>3. \A i \in 1..Len(cfg) :
          cfg[i].id = i /\ isCategory(cfg[i].category) /\ isValidSlug(cfg[i].slug)
    BY DEF PublisherInv
<1>4. \A t \in Track : t.label \in Seq(Token) /\ t.slug \in Seq(Token)
                       /\ t.category \in Seq(Token)
    BY DEF Track
<1>5. TextTracks(cfg)
    BY <1>2, <1>4, Zenon DEF TextTracks
<1>6. ListSize(cfg) \in Nat
    BY <1>2, <1>5, ListSizes
<1>7. QED
    BY <1>2, <1>3, <1>4, <1>5, <1>6, Zenon

LEMMA Rows ==
    ASSUME NEW t, NEW label \in Seq(Token), t.id \in Int, t.slug \in Seq(Token),
           t.category \in Seq(Token)
    PROVE  /\ RowOf(t, label) \in RowType /\ RowOf(t, label).obj
           /\ RowOf(t, label).id = Num(t.id) /\ RowOf(t, label).slug = Str(t.slug)
           /\ RowOf(t, label).category = Str(t.category)
           /\ RowOf(t, label).label = Str(label)
<1>1. /\ Num(t.id) \in ValueType /\ Str(t.slug) \in ValueType
      /\ Str(t.category) \in ValueType /\ Str(label) \in ValueType
    BY Values
<1> HIDE DEF ValueType, Num, Str
<1>2. QED
    BY <1>1 DEF RowOf, Row, RowType

LEMMA Lists ==
    ASSUME PublisherInv, NEW labels, \A i \in DOMAIN cfg : labels[i] \in Seq(Token),
           NEW rows, rows = [i \in DOMAIN cfg |-> RowOf(cfg[i], labels[i])]
    PROVE  /\ ListOf(labels) \in PayloadType /\ ListOf(labels).kind = "trackList"
           /\ ListOf(labels).size = ListSize(cfg) /\ ListOf(labels).json = "object"
           /\ ListOf(labels).rows = [has |-> TRUE, seq |-> rows]
<1> DEFINE all == [has |-> TRUE, seq |-> rows]
           o == Object("trackList", NoMembers, all, 1)
<1>1. /\ Len(cfg) \in Nat /\ DOMAIN cfg = 1..Len(cfg) /\ ListSize(cfg) \in Nat
      /\ \A i \in DOMAIN cfg : RowOf(cfg[i], labels[i]) \in RowType
    BY TrackFields, Rows
<1>2. rows \in [1..Len(cfg) -> RowType]
    BY <1>1
<1>3. rows \in Seq(RowType)
    BY <1>1, <1>2, SeqDef
<1>4. all \in [has : BOOLEAN, seq : Seq(RowType)]
    BY <1>3
<1>5. \A n \in DOMAIN NoMembers : NoMembers[n] \in ValueType
    BY DEF NoMembers
<1>6. "trackList" \in Kinds /\ 1 \in Nat
    BY DEF Kinds
<1>8. o.json = "object" /\ o.kind = "trackList" /\ o.rows = all
    BY DEF Object
<1>9. ListOf(labels) = [o EXCEPT !.size = ListSize(cfg)]
    BY DEF ListOf, encodeTrackList
<1> HIDE DEF all
<1> HIDE DEF o
<1>7. o \in PayloadType
  <2>1. Object("trackList", NoMembers, all, 1) \in PayloadType
    BY <1>4, <1>5, <1>6, Objects, Zenon
  <2>2. QED
    BY <2>1 DEF o
<1>10. /\ ListOf(labels) \in PayloadType /\ ListOf(labels).kind = "trackList"
       /\ ListOf(labels).size = ListSize(cfg) /\ ListOf(labels).json = "object"
       /\ ListOf(labels).rows = all
    BY <1>1, <1>7, <1>8, <1>9 DEF PayloadType
<1>11. QED
    BY <1>10 DEF all

LEMMA ListPayload ==
    ASSUME PublisherInv, NEW p \in BuildTrackListPayload
    PROVE  /\ p \in PayloadType /\ p.kind = "trackList"
           /\ AllPlain => p = ListOf(Given)
<1> DEFINE broken == [ListOf(Given) EXCEPT !.json = "other"]
<1>1. BuildTrackListPayload =
          IF \E i \in DOMAIN cfg : Foreign(cfg[i]) THEN {broken}
          ELSE IF \E i \in DOMAIN cfg : Escapes(cfg[i])
          THEN {broken, ListOf(Garbled)}
          ELSE {ListOf(Given)}
    BY Zenon DEF BuildTrackListPayload, ListOf, Given, Garbled
<1>2. "?" \in Token
    BY DEF Token
<1>3. <<"?">> \in Seq(Token)
    BY <1>2
<1>4. /\ \A i \in DOMAIN cfg : Given[i] \in Seq(Token)
      /\ \A i \in DOMAIN cfg : Garbled[i] \in Seq(Token)
    BY <1>3, TrackFields DEF Given, Garbled
<1>5. ListOf(Given) \in PayloadType /\ ListOf(Given).kind = "trackList"
    BY <1>4, Lists
<1>6. ListOf(Garbled) \in PayloadType /\ ListOf(Garbled).kind = "trackList"
    BY <1>4, Lists
<1>7. broken \in PayloadType /\ broken.kind = "trackList"
  <2> DEFINE o == ListOf(Given)
  <2>1. o \in PayloadType /\ o.kind = "trackList"
    BY <1>5
  <2> HIDE DEF o
  <2>2. [o EXCEPT !.json = "other"] \in PayloadType
        /\ [o EXCEPT !.json = "other"].kind = "trackList"
    BY <2>1 DEF PayloadType
  <2>3. QED
    BY <2>2 DEF o
<1> HIDE DEF broken
<1>8. p \in PayloadType /\ p.kind = "trackList"
    BY <1>1, <1>5, <1>6, <1>7, Zenon
<1>9. ASSUME AllPlain PROVE p = ListOf(Given)
  <2>1. \A i \in DOMAIN cfg : ~Foreign(cfg[i]) /\ ~Escapes(cfg[i])
    BY <1>9, Zenon DEF AllPlain, Plain
  <2>2. QED
    BY <1>1, <2>1, Zenon
<1>10. QED
    BY <1>8, <1>9

\* The announcement of a publisher with plain labels fits, and a viewer reads
\* the tracks of the command line in it.
LEMMA PlainList ==
    ASSUME PublisherInv, AllPlain, Len(cfg) \in 1..MaxTracks, NEW p, p = ListOf(Given)
    PROVE  p.size <= MaxPayloadBytes /\ decodeTrackList(p) /\ p.rows.seq = GivenRows
<1> DEFINE n == Len(cfg)
           rows == [i \in DOMAIN cfg |-> RowOf(cfg[i], Given[i])]
<1>1. \A i \in DOMAIN cfg : Given[i] = cfg[i].label
    BY DEF Given
<1>2. /\ n \in Nat /\ DOMAIN cfg = 1..n /\ TextTracks(cfg)
      /\ \A i \in DOMAIN cfg :
             /\ cfg[i].id = i /\ cfg[i].label \in Seq(Token)
             /\ cfg[i].slug \in Seq(Token) /\ isValidSlug(cfg[i].slug)
             /\ cfg[i].category \in Seq(Token) /\ isCategory(cfg[i].category)
    BY TrackFields
<1>3. rows = GivenRows
    BY <1>1 DEF GivenRows
<1>4. \A i \in DOMAIN cfg : Given[i] \in Seq(Token)
    BY <1>1, <1>2
<1>5. p.size = ListSize(cfg) /\ p.json = "object" /\ p.rows = [has |-> TRUE, seq |-> rows]
    BY <1>4, Lists
<1> HIDE DEF rows
<1>6. p.rows.has /\ p.rows.seq = rows
    BY <1>5
<1>7. \A i \in 1..n : Len(cfg[i].label) <= MaxText /\ Len(cfg[i].slug) <= MaxText
    BY <1>2 DEF AllPlain, Plain, isValidSlug
<1>8. p.size <= MaxPayloadBytes
    BY <1>2, <1>5, <1>7, ListSizes DEF ShortTracks
<1>9. decodeJson(p)
    BY <1>2, <1>5, <1>8, ListSizes, Limits DEF decodeJson
<1>10. DOMAIN rows = 1..n /\ Len(rows) = n
  <2>1. rows \in [1..n -> {rows[i] : i \in 1..n}]
    BY <1>2 DEF rows
  <2>2. rows \in Seq({rows[i] : i \in 1..n})
    BY <1>2, <2>1, SeqDef
  <2>3. DOMAIN rows = 1..n
    BY <2>1
  <2>4. QED
    BY <1>2, <2>2, <2>3, LenProperties
<1>11. \A i \in 1..n :
           /\ rows[i].obj /\ rows[i].id = Num(i) /\ rows[i].slug = Str(cfg[i].slug)
           /\ rows[i].category = Str(cfg[i].category)
           /\ rows[i].label = Str(cfg[i].label)
  <2> SUFFICES ASSUME NEW i \in 1..n
               PROVE  /\ rows[i].obj /\ rows[i].id = Num(i)
                      /\ rows[i].slug = Str(cfg[i].slug)
                      /\ rows[i].category = Str(cfg[i].category)
                      /\ rows[i].label = Str(cfg[i].label)
    OBVIOUS
  <2>1. rows[i] = RowOf(cfg[i], cfg[i].label)
    BY <1>1, <1>2 DEF rows
  <2>2. /\ i \in Int /\ cfg[i].id = i /\ cfg[i].label \in Seq(Token)
        /\ cfg[i].slug \in Seq(Token) /\ cfg[i].category \in Seq(Token)
    BY <1>2
  <2>3. QED
    BY <2>1, <2>2, Rows
<1>12. \A i \in 1..n : Len(cfg[i].category) <= MaxText
  <2> SUFFICES ASSUME NEW i \in 1..n PROVE Len(cfg[i].category) <= MaxText
    OBVIOUS
  <2>1. isCategory(cfg[i].category)
    BY <1>2
  <2>a. Len(<<Custom>>) = 1
    OBVIOUS
  <2>2. Len(cfg[i].category) = 1
    BY <2>1, <2>a, Zenon DEF isCategory, isPresetCategory
  <2>3. QED
    BY <2>2, EmptyText
<1>13. /\ \A k : Num(k).t = "num" /\ Num(k).n = k
       /\ \A s : Str(s).t = "str" /\ Str(s).s = s
    BY DEF Num, Str, Value
<1>14. MaxTrackSlot \in Nat /\ n <= MaxTrackSlot
    BY <1>2, Limits
<1> HIDE DEF n
<1>15. idList(p)
  <2>1. \A i \in 1..n : isNum(rows[i].id, 1..MaxTrackSlot) /\ rows[i].id.n = i
    BY <1>2, <1>11, <1>13, <1>14 DEF isNum
  <2>2. \A i, j \in 1..n : rows[i].id = rows[j].id => i = j
    BY <2>1
  <2>3. QED
    BY <1>6, <1>10, <1>14, <2>1, <2>2 DEF idList
<1>16. ASSUME NEW i \in 1..n
       PROVE  /\ rows[i].obj
              /\ strField(rows[i].slug) /\ isValidSlug(rows[i].slug.s)
              /\ strField(rows[i].category) /\ isCategory(rows[i].category.s)
              /\ strField(rows[i].label)
  <2>1. /\ rows[i].obj
        /\ rows[i].slug.t = "str" /\ rows[i].slug.s = cfg[i].slug
        /\ rows[i].category.t = "str" /\ rows[i].category.s = cfg[i].category
        /\ rows[i].label.t = "str" /\ rows[i].label.s = cfg[i].label
    BY <1>11, <1>13
  <2>2. /\ Len(cfg[i].label) <= MaxText /\ Len(cfg[i].slug) <= MaxText
        /\ Len(cfg[i].category) <= MaxText
    BY <1>7, <1>12 DEF n
  <2>3. isValidSlug(cfg[i].slug) /\ isCategory(cfg[i].category)
    BY <1>2
  <2> HIDE DEF isValidSlug, isCategory
  <2>4. QED
    BY <2>1, <2>2, <2>3 DEF strField
<1>17. decodeTrackList(p)
    BY <1>6, <1>9, <1>10, <1>15, <1>16, Zenon DEF decodeTrackList
<1>18. QED
    BY <1>3, <1>6, <1>8, <1>17

\* The kinds whose encoders leave members out.
LEMMA Optional ==
    ASSUME NEW p, p.kind \in {"none", "audio", "trackList"}
    PROVE  HasMembers(p)
<1>1. \A k \in {"none", "audio", "trackList"} : Required(k) = {}
    BY Zenon DEF Required
<1>2. QED
    BY <1>1 DEF HasMembers

\* A packet of a track.
LEMMA Packet ==
    ASSUME PublisherInv, Len(cfg) \in 1..MaxTracks, NEW i \in DOMAIN cfg,
           NEW size \in {1, MaxPayloadBytes + 1}, NEW f,
           f = [Control("audio", 1, Binary("audio", size)) EXCEPT !.track = cfg[i].id]
    PROVE  /\ f \in Frame /\ f.type = TypeOf["audio"] /\ f.track <= MaxTrackSlot
           /\ HasMembers(f.payload)
<1> DEFINE p == Binary("audio", size)
           c == Control("audio", 1, p)
<1>1. "audio" \in Kinds /\ "audio" \in MessageType
    BY DEF Kinds, MessageType
<1>2. size \in Nat
    BY Limits
<1>3. p \in PayloadType /\ p.kind = "audio"
    BY <1>1, <1>2, Binaries
<1> HIDE DEF p
<1>4. /\ c \in Frame /\ c.type = TypeOf["audio"] /\ c.payload = p
    BY <1>1, <1>3, Controls
<1>5. cfg[i].id = i /\ i \in 1..Len(cfg)
    BY TrackFields
<1>6. cfg[i].id \in Byte /\ cfg[i].id <= MaxTrackSlot
    BY <1>5, Limits, Sizes DEF Byte
<1>7. f = [c EXCEPT !.track = cfg[i].id]
    BY DEF p
<1> HIDE DEF c
<1>8. f \in Frame /\ f.type = c.type /\ f.payload = c.payload /\ f.track = cfg[i].id
    BY <1>4, <1>6, <1>7 DEF Frame, FrameType
<1>9. HasMembers(f.payload)
    BY <1>3, <1>4, <1>8, Optional
<1>10. QED
    BY <1>4, <1>6, <1>8, <1>9

-----------------------------------------------------------------------------
(* Edits.                                                                  *)

LEMMA WordEdit ==
    ASSUME NEW h \in Seq(Byte), NEW i \in DOMAIN h, NEW b \in Byte
    PROVE  [h EXCEPT ![i] = b] \in Seq(Byte) /\ Len([h EXCEPT ![i] = b]) = Len(h)
<1> DEFINE g == [h EXCEPT ![i] = b]
<1>1. Len(h) \in Nat /\ DOMAIN h = 1..Len(h) /\ \A j \in 1..Len(h) : h[j] \in Byte
    BY LenProperties, ElementOfSeq
<1>2. DOMAIN g = 1..Len(h) /\ \A j \in 1..Len(h) : g[j] \in Byte
    BY <1>1
<1>3. g = [j \in 1..Len(h) |-> g[j]]
    BY <1>1
<1> HIDE DEF g
<1>4. g \in [1..Len(h) -> Byte]
    BY <1>2, <1>3
<1>5. g \in Seq(Byte)
    BY <1>1, <1>4, SeqDef
<1>6. Len(g) = Len(h)
    BY <1>1, <1>2, <1>5, LenProperties
<1>7. QED
    BY <1>5, <1>6 DEF g

LEMMA HeaderEdit ==
    ASSUME NEW m, IsMessage(m) \/ IsShort(m), NEW i \in DOMAIN m.head, NEW b \in Byte,
           NEW e, e = [m EXCEPT !.head[i] = b]
    PROVE  IsMessage(e) \/ IsShort(e)
<1> DEFINE h == [m.head EXCEPT ![i] = b]
<1>1. m.head \in Seq(Byte) /\ m = [head |-> m.head, payload |-> m.payload]
  <2>1. CASE IsMessage(m)
    BY <2>1 DEF IsMessage, Word
  <2>2. CASE IsShort(m)
    BY <2>2 DEF IsShort, Message
  <2>3. QED
    BY <2>1, <2>2
<1>2. h \in Seq(Byte) /\ Len(h) = Len(m.head)
    BY <1>1, WordEdit
<1>3. e = [head |-> h, payload |-> m.payload]
    BY <1>1
<1> HIDE DEF h
<1>4. CASE IsMessage(m)
  <2>1. Len(m.head) = 21 /\ m.payload \in PayloadType
    BY <1>4 DEF IsMessage, Word
  <2>2. e.head = h /\ e.payload = m.payload
    BY <1>3
  <2>3. h \in Word(21)
    BY <1>2, <2>1 DEF Word
  <2>4. QED
    BY <1>3, <2>1, <2>2, <2>3, Zenon DEF IsMessage
<1>5. CASE IsShort(m)
  <2>1. Len(m.head) < HeaderBytes /\ m.payload = Binary("none", 0)
    BY <1>5 DEF IsShort, Message
  <2>2. e = Message(h, Binary("none", 0))
    BY <1>3, <2>1, Zenon DEF Message
  <2>3. e.head = h
    BY <1>3
  <2>4. QED
    BY <1>2, <2>1, <2>2, <2>3 DEF IsShort
<1>6. QED
    BY <1>4, <1>5

LEMMA CutEdit ==
    ASSUME NEW m, IsMessage(m) \/ IsShort(m),
           NEW n \in {3, HeaderBytes - 1} \cap DOMAIN m.head,
           NEW e, e = Message(SubSeq(m.head, 1, n), Binary("none", 0))
    PROVE  IsShort(e)
<1> DEFINE h == m.head
           g == SubSeq(h, 1, n)
<1>1. h \in Seq(Byte)
    BY DEF IsMessage, IsShort, Word
<1>2. Len(h) \in Nat /\ DOMAIN h = 1..Len(h) /\ \A j \in 1..Len(h) : h[j] \in Byte
    BY <1>1, LenProperties, ElementOfSeq
<1>3. n \in Nat /\ n \in 1..Len(h) /\ n < 21
    BY <1>2 DEF HeaderBytes
<1> HIDE DEF h
<1>4. g \in Seq(Byte) /\ Len(g) = n
  <2>1. 1 \in Int /\ n \in Int /\ \A i \in 1..n : h[i] \in Byte
    BY <1>2, <1>3
  <2>2. QED
    BY <1>3, <2>1, SubSeqProperties
<1>5. e = Message(g, Binary("none", 0)) /\ e.head = g
    BY DEF Message, h
<1> HIDE DEF g
<1>6. QED
    BY <1>3, <1>4, <1>5 DEF IsShort, HeaderBytes

LEMMA PayloadChange ==
    ASSUME NEW m, IsMessage(m), NEW q \in PayloadType, NEW e, e = [m EXCEPT !.payload = q]
    PROVE  IsMessage(e)
<1>1. m = [head |-> m.head, payload |-> m.payload] /\ m.head \in Word(21)
    BY DEF IsMessage
<1>2. e = [head |-> m.head, payload |-> q]
    BY <1>1
<1>3. e.head = m.head /\ e.payload = q
    BY <1>2
<1>4. QED
    BY <1>1, <1>2, <1>3, Zenon DEF IsMessage

\* Every change of a payload is a payload.
LEMMA PayloadEdits ==
    ASSUME NEW p \in PayloadType
    PROVE  /\ \A s \in Nat : [p EXCEPT !.size = s, !.json = "other"] \in PayloadType
           /\ [p EXCEPT !.extra = TRUE] \in PayloadType
           /\ [p EXCEPT !.json = "closer"] \in PayloadType
           /\ [p EXCEPT !.rows = NoRows] \in PayloadType
           /\ \A n \in Names, v \in ValueType : [p EXCEPT !.f[n] = v] \in PayloadType
           /\ \A i \in DOMAIN p.rows.seq, v \in ValueType,
                 n \in {"id", "slug", "category", "label"} :
                  [p EXCEPT !.rows.seq[i][n] = v] \in PayloadType
<1> HIDE DEF ValueType, RowType, Names
<1>1. \A s \in Nat : [p EXCEPT !.size = s, !.json = "other"] \in PayloadType
    BY DEF PayloadType
<1>2. [p EXCEPT !.extra = TRUE] \in PayloadType
    BY DEF PayloadType
<1>3. [p EXCEPT !.json = "closer"] \in PayloadType
    BY DEF PayloadType
<1>4. [p EXCEPT !.rows = NoRows] \in PayloadType
    BY RowsOf DEF PayloadType
<1>5. ASSUME NEW n \in Names, NEW v \in ValueType
      PROVE  [p EXCEPT !.f[n] = v] \in PayloadType
  <2>1. p.f \in [Names -> ValueType]
    BY DEF PayloadType
  <2>2. [p.f EXCEPT ![n] = v] \in [Names -> ValueType]
    BY <2>1
  <2>3. [p EXCEPT !.f[n] = v] = [p EXCEPT !.f = [p.f EXCEPT ![n] = v]]
    OBVIOUS
  <2> DEFINE g == [p.f EXCEPT ![n] = v]
  <2> HIDE DEF g
  <2>4. [p EXCEPT !.f = g] \in PayloadType
    BY <2>2 DEF PayloadType, g
  <2>5. QED
    BY <2>3, <2>4 DEF g
<1>6. ASSUME NEW i \in DOMAIN p.rows.seq, NEW v \in ValueType,
             NEW n \in {"id", "slug", "category", "label"}
      PROVE  [p EXCEPT !.rows.seq[i][n] = v] \in PayloadType
  <2> DEFINE s == p.rows.seq
             r == [s[i] EXCEPT ![n] = v]
             t == [s EXCEPT ![i] = r]
             w == [p.rows EXCEPT !.seq = t]
  <2>1. p.rows \in [has : BOOLEAN, seq : Seq(RowType)]
    BY DEF PayloadType
  <2>2. s \in Seq(RowType)
    BY <2>1
  <2>3. Len(s) \in Nat /\ DOMAIN s = 1..Len(s) /\ \A j \in 1..Len(s) : s[j] \in RowType
    BY <2>2, LenProperties, ElementOfSeq
  <2>4. r \in RowType
    BY <2>3 DEF RowType
  <2>5. [p EXCEPT !.rows.seq[i][n] = v] = [p EXCEPT !.rows = w]
    OBVIOUS
  <2> HIDE DEF r
  <2>6. t \in [1..Len(s) -> RowType]
    BY <2>3, <2>4
  <2>7. t \in Seq(RowType)
    BY <2>3, <2>6, SeqDef
  <2> HIDE DEF t
  <2>8. w \in [has : BOOLEAN, seq : Seq(RowType)]
    BY <2>1, <2>7
  <2> HIDE DEF w
  <2>9. [p EXCEPT !.rows = w] \in PayloadType
    BY <2>8 DEF PayloadType
  <2>10. QED
    BY <2>5, <2>9
<1>7. QED
    BY <1>1, <1>2, <1>3, <1>4, <1>5, <1>6

LEMMA EditStep ==
    ASSUME IsMessage(msg) \/ IsShort(msg), EditHeader \/ EditPayload
    PROVE  \E e : (IsMessage(e) \/ IsShort(e)) /\ Edit(e)
<1>1. EditBytes \subseteq Byte /\ EditValues \subseteq ValueType
    BY WireAssumption
<1>2. CASE EditHeader
  <2>1. CASE \E i \in DOMAIN msg.head, b \in EditBytes : Edit([msg EXCEPT !.head[i] = b])
    <3>1. PICK i \in DOMAIN msg.head, b \in EditBytes : Edit([msg EXCEPT !.head[i] = b])
      BY <2>1, Zenon
    <3> DEFINE e == [msg EXCEPT !.head[i] = b]
    <3>2. Edit(e) /\ b \in Byte
      BY <1>1, <3>1
    <3>3. IsMessage(e) \/ IsShort(e)
      BY <3>2, HeaderEdit
    <3> HIDE DEF e
    <3>4. QED
      BY <3>2, <3>3, Zenon
  <2>2. CASE \E n \in {3, HeaderBytes - 1} \cap DOMAIN msg.head :
                 Edit(Message(SubSeq(msg.head, 1, n), Binary("none", 0)))
    <3>1. PICK n \in {3, HeaderBytes - 1} \cap DOMAIN msg.head :
              Edit(Message(SubSeq(msg.head, 1, n), Binary("none", 0)))
      BY <2>2, Zenon
    <3> DEFINE e == Message(SubSeq(msg.head, 1, n), Binary("none", 0))
    <3>2. IsShort(e) /\ Edit(e)
      BY <3>1, CutEdit, Zenon
    <3> HIDE DEF e
    <3>3. QED
      BY <3>2, Zenon
  <2>3. QED
    BY <1>2, <2>1, <2>2, Zenon DEF EditHeader
<1>3. CASE EditPayload
  <2> DEFINE p == msg.payload
  <2>1. p.kind # "none"
    BY <1>3 DEF EditPayload
  <2>2. IsMessage(msg)
    <3>1. ASSUME IsShort(msg) PROVE FALSE
      <4>1. msg.payload = Binary("none", 0)
        BY <3>1 DEF IsShort, Message
      <4>2. "none" \in Kinds /\ 0 \in Nat
        BY DEF Kinds
      <4>3. QED
        BY <2>1, <4>1, <4>2, Binaries
    <3>2. QED
      BY <3>1
  <2>3. p \in PayloadType
    BY <2>2 DEF IsMessage
  <2>a. p.size \in Nat
    BY <2>3, PayloadFields
  <2>4. SUFFICES \E q \in PayloadType : Edit([msg EXCEPT !.payload = q])
    <3>1. PICK q \in PayloadType : Edit([msg EXCEPT !.payload = q])
      BY <2>4, Zenon
    <3> DEFINE e == [msg EXCEPT !.payload = q]
    <3>2. IsMessage(e) /\ Edit(e)
      BY <2>2, <3>1, PayloadChange, Zenon
    <3> HIDE DEF e
    <3>3. QED
      BY <3>2, Zenon
  <2>5. CASE \E d \in {e \in {-1, 1} : p.size + e >= 0} :
                Edit([msg EXCEPT !.payload.size = p.size + d, !.payload.json = "other"])
    <3>1. PICK d \in {e \in {-1, 1} : p.size + e >= 0} :
              Edit([msg EXCEPT !.payload.size = p.size + d, !.payload.json = "other"])
      BY <2>5, Zenon
    <3>2. p.size + d \in Nat
      BY <2>a
    <3> DEFINE q == [p EXCEPT !.size = p.size + d, !.json = "other"]
    <3>3. q \in PayloadType
      BY <2>3, <3>2, PayloadEdits
    <3>4. Edit([msg EXCEPT !.payload = q])
      BY <3>1
    <3>5. QED
      BY <3>3, <3>4, Zenon
  <2>6. CASE Edit([msg EXCEPT !.payload.extra = TRUE])
    <3> DEFINE q == [p EXCEPT !.extra = TRUE]
    <3>1. q \in PayloadType /\ Edit([msg EXCEPT !.payload = q])
      BY <2>3, <2>6, PayloadEdits
    <3>2. QED
      BY <3>1, Zenon
  <2>7. CASE Edit([msg EXCEPT !.payload.json = "closer"])
    <3> DEFINE q == [p EXCEPT !.json = "closer"]
    <3>1. q \in PayloadType /\ Edit([msg EXCEPT !.payload = q])
      BY <2>3, <2>7, PayloadEdits
    <3>2. QED
      BY <3>1, Zenon
  <2>8. CASE Edit([msg EXCEPT !.payload.rows = NoRows])
    <3> DEFINE q == [p EXCEPT !.rows = NoRows]
    <3>1. q \in PayloadType /\ Edit([msg EXCEPT !.payload = q])
      BY <2>3, <2>8, PayloadEdits
    <3>2. QED
      BY <3>1, Zenon
  <2>9. CASE \E n \in {n \in Names : p.f[n] # Absent}, v \in EditValues :
                Edit([msg EXCEPT !.payload.f[n] = v])
    <3>1. PICK n \in {n \in Names : p.f[n] # Absent}, v \in EditValues :
                Edit([msg EXCEPT !.payload.f[n] = v])
      BY <2>9, Zenon
    <3> DEFINE q == [p EXCEPT !.f[n] = v]
    <3>2. q \in PayloadType
      BY <1>1, <2>3, PayloadEdits, Zenon
    <3>3. Edit([msg EXCEPT !.payload = q])
      BY <3>1
    <3>4. QED
      BY <3>2, <3>3, Zenon
  <2>10. CASE \E i \in DOMAIN p.rows.seq, v \in EditValues,
                 n \in {"id", "slug", "category", "label"} :
                Edit([msg EXCEPT !.payload.rows.seq[i][n] = v])
    <3>1. PICK i \in DOMAIN p.rows.seq, v \in EditValues,
               n \in {"id", "slug", "category", "label"} :
                Edit([msg EXCEPT !.payload.rows.seq[i][n] = v])
      BY <2>10, Zenon
    <3> DEFINE q == [p EXCEPT !.rows.seq[i][n] = v]
    <3>2. q \in PayloadType
      BY <1>1, <2>3, PayloadEdits, Zenon
    <3>3. Edit([msg EXCEPT !.payload = q])
      BY <3>1
    <3>4. QED
      BY <3>2, <3>3, Zenon
  <2>11. QED
    BY <1>3, <2>5, <2>6, <2>7, <2>8, <2>9, <2>10, Zenon DEF EditPayload
<1>4. QED
    BY <1>2, <1>3

\* The viewer runs onTrackList on a list it accepts, and on no packet.
LEMMA Callbacks ==
    ASSUME NEW f
    PROVE  /\ f.type = TypeOf["trackList"] /\ decodeTrackList(f.payload)
                  => Callback(f) = "onTrackList"
           /\ f.type = TypeOf["audio"] => Callback(f) # "onTrackList"
<1> DEFINE p == f.payload
           T(k) == f.type = TypeOf[k]
           a == decodeTrackList(p)
           b == decodeFingerprint(p)
           c == decodeTrackMeta(p)
           d == decodeError(p)
<1>1. \A j, k \in MessageType : T(j) /\ T(k) => j = k
    BY WireAssumption
<1>2. {"trackList", "audio", "fingerprint", "trackMeta", "error"} \subseteq MessageType
    BY DEF MessageType, Kinds
<1>3. Callback(f) =
          CASE T("trackList") /\ a -> "onTrackList"
            [] T("audio") -> "onAudio"
            [] T("fingerprint") /\ b -> "onFingerprint"
            [] T("trackMeta") /\ c -> "onTrackMeta"
            [] T("error") /\ d -> "onError"
            [] OTHER -> "none"
    BY Zenon DEF Callback
<1> HIDE DEF a, b, c, d, T
<1>4. ASSUME T("trackList"), a PROVE Callback(f) = "onTrackList"
  <2>1. ~T("audio") /\ ~T("fingerprint") /\ ~T("trackMeta") /\ ~T("error")
    BY <1>1, <1>2, <1>4
  <2>2. QED
    BY <1>3, <1>4, <2>1, Zenon
<1>5. ASSUME T("audio") PROVE Callback(f) # "onTrackList"
  <2>1. ~T("trackList") /\ ~T("fingerprint") /\ ~T("trackMeta") /\ ~T("error")
    BY <1>1, <1>2, <1>5
  <2>2. Callback(f) = "onAudio"
    BY <1>3, <1>5, <2>1, Zenon
  <2>3. QED
    BY <2>2
<1>6. QED
    BY <1>4, <1>5 DEF T, a

-----------------------------------------------------------------------------
(* The invariant is inductive.                                             *)

LEMMA Start == Init => WireInv
<1> SUFFICES ASSUME Init PROVE WireInv
    OBVIOUS
<1>1. PublisherInv
  <2>1. cfg = <<>> /\ <<>> \in Seq(Track) /\ Len(<<>>) = 0
    BY EmptySeq DEF Init
  <2>2. Len(cfg) = 0 /\ cfg \in Seq(Track) /\ 1..0 = {}
    BY <2>1
  <2>3. /\ stage \in {"args", "other"} /\ utf8 \in BOOLEAN /\ expelled \in BOOLEAN
    BY DEF Init
  <2>4. Len(cfg) <= MaxTracks + 1
    BY <2>2, Limits
  <2>5. QED
    BY <2>2, <2>3, <2>4 DEF PublisherInv
<1>2. MessageInv
  <2> DEFINE p == Binary("none", 0)
  <2>1. "none" \in Kinds /\ "hello" \in MessageType /\ 0 \in Nat
    BY DEF Kinds, MessageType
  <2>2. p \in PayloadType /\ p.kind = "none"
    BY <2>1, Binaries
  <2>3. HasMembers(p)
    BY <2>2, Optional
  <2> HIDE DEF p
  <2>4. sent = Control("hello", 0, p)
    BY DEF Init, p
  <2>5. sent \in Frame /\ sent.track = 0 /\ sent.payload = p
    BY <2>1, <2>2, <2>4, Controls
  <2>6. IsShort(msg)
    BY EmptyShort DEF Init
  <2>7. QED
    BY <2>3, <2>5, <2>6, Limits DEF Init, MessageInv
<1>3. StageInv
    BY DEF Init, StageInv
<1>4. PlainInv
    BY DEF Init, PlainInv
<1>5. QED
    BY <1>1, <1>2, <1>3, <1>4 DEF WireInv

\* Actions that leave the publisher's configuration alone.
LEMMA SamePublisher ==
    ASSUME PublisherInv, UNCHANGED <<utf8, cfg>>, expelled' \in BOOLEAN,
           stage' \in {"args", "exit", "hello", "list", "audio", "other", "done"},
           stage' \in {"hello", "list", "audio"} => Len(cfg) \in 1..MaxTracks
    PROVE  PublisherInv'
  BY DEF PublisherInv

\* The command line.
LEMMA TrackArgStep ==
    ASSUME WireInv, NEW a \in TrackArgs, TrackArg(a)
    PROVE  WireInv'
<1>1. /\ stage = "args" /\ Len(cfg) <= MaxTracks
      /\ UNCHANGED <<utf8, at, msg, sent, edits, expelled, shown, event>>
    BY DEF TrackArg, wireVars
<1>2. PublisherInv /\ MessageInv /\ StageInv
    BY DEF WireInv
<1>3. MessageInv'
    BY <1>1, <1>2 DEF MessageInv
<1>4. at = "idle" /\ ~expelled
    BY <1>1, <1>2 DEF StageInv
<1>5. stage' \in {"args", "exit"}
    BY <1>1 DEF TrackArg
<1>6. StageInv'
    BY <1>1, <1>4, <1>5 DEF StageInv
<1>7. PlainInv'
    BY <1>1, <1>4, <1>5 DEF PlainInv
<1>8. PublisherInv'
  <2>1. CASE ~ParsesTrack(a)
    <3>1. UNCHANGED cfg
      BY <2>1 DEF TrackArg
    <3>2. expelled' \in BOOLEAN
      BY <1>1, <1>2 DEF PublisherInv
    <3>3. QED
      BY <1>1, <1>2, <1>5, <3>1, <3>2, SamePublisher
  <2>2. CASE ParsesTrack(a)
    <3> DEFINE n == Len(cfg)
               t == TrackSpec(a, n + 1)
    <3>1. cfg' = Append(cfg, t)
      BY <2>2 DEF TrackArg
    <3>2. /\ cfg \in Seq(Track) /\ n \in Nat
          /\ \A i \in 1..n : cfg[i].id = i /\ isCategory(cfg[i].category)
                             /\ isValidSlug(cfg[i].slug)
      BY <1>2, LenProperties DEF PublisherInv
    <3>3. a.category \in Seq(Token) /\ a.label \in Seq(Token)
      BY WireAssumption
    <3>4. isCategory(a.category)
      BY <2>2 DEF ParsesTrack
    <3>5. /\ t.id = n + 1 /\ t.category = a.category
          /\ t.slug = IF a.category = <<Custom>> THEN Slug(a.label) ELSE a.category
          /\ t.label = IF a.category = <<Custom>> THEN a.label ELSE <<"A">>
          /\ t = [id |-> t.id, category |-> t.category, slug |-> t.slug,
                  label |-> t.label]
      BY DEF TrackSpec
    <3> HIDE DEF t, n
    <3>6. Slug(a.label) \in Seq(Token)
      BY <3>3, SlugText
    <3>7. <<"A">> \in Seq(Token)
      <4>1. "A" \in Token
        BY DEF Token
      <4>2. QED
        BY <4>1
    <3>8. t.slug \in Seq(Token) /\ t.label \in Seq(Token)
      BY <3>3, <3>5, <3>6, <3>7
    <3>9. isValidSlug(t.slug)
      <4>1. CASE a.category = <<Custom>>
        <5>1. IsValidSlug(Slug(a.label))
          BY <2>2, <4>1 DEF ParsesTrack
        <5>2. isValidSlug(Slug(a.label))
          BY <3>6, <5>1, ScannedSlug
        <5>3. QED
          BY <3>5, <4>1, <5>2
      <4>2. CASE a.category # <<Custom>>
        <5>1. isPresetCategory(a.category)
          BY <3>4, <4>2 DEF isCategory
        <5>2. QED
          BY <3>3, <3>5, <4>2, <5>1, PresetSlug
      <4>3. QED
        BY <4>1, <4>2
    <3>10. t \in Track
      <4>1. \A x \in Nat, y, z, w \in Seq(Token) :
                [id |-> x, category |-> y, slug |-> z, label |-> w] \in Track
        BY DEF Track
      <4>2. t.id \in Nat /\ t.category \in Seq(Token)
        BY <3>2, <3>3, <3>5
      <4>3. QED
        BY <3>5, <3>8, <4>1, <4>2, Zenon
    <3>11. /\ cfg' \in Seq(Track) /\ Len(cfg') = n + 1
           /\ \A i \in 1..n : cfg'[i] = cfg[i]
           /\ cfg'[n + 1] = t
      BY <3>1, <3>2, <3>10, AppendProperties DEF n
    <3>12. \A i \in 1..(n + 1) : i \in 1..n \/ i = n + 1
      BY <3>2
    <3>13. t.id = n + 1 /\ isCategory(t.category)
      BY <3>4, <3>5
    <3>14. \A i \in 1..(n + 1) : /\ cfg'[i].id = i /\ isCategory(cfg'[i].category)
                               /\ isValidSlug(cfg'[i].slug)
      BY <3>2, <3>9, <3>11, <3>12, <3>13, Zenon
    <3>15. Len(cfg') <= MaxTracks + 1
      BY <1>1, <3>2, <3>11, Limits DEF n
    <3>16. utf8' \in BOOLEAN /\ expelled' \in BOOLEAN
      BY <1>1, <1>2 DEF PublisherInv
    <3>17. QED
      BY <1>5, <3>11, <3>14, <3>15, <3>16 DEF PublisherInv
  <2>3. QED
    BY <2>1, <2>2
<1>9. QED
    BY <1>3, <1>6, <1>7, <1>8 DEF WireInv

LEMMA ArgsEndStep ==
    ASSUME WireInv, NEW ok \in BOOLEAN, ArgsEnd(ok)
    PROVE  WireInv'
<1>1. /\ stage = "args"
      /\ UNCHANGED <<utf8, cfg, at, msg, sent, edits, expelled, shown, event>>
      /\ stage' \in {"hello", "exit"}
      /\ stage' = "hello" => Len(cfg) \in 1..MaxTracks
    BY DEF ArgsEnd, wireVars
<1>2. PublisherInv /\ MessageInv /\ StageInv
    BY DEF WireInv
<1>3. MessageInv'
    BY <1>1, <1>2 DEF MessageInv
<1>4. at = "idle" /\ ~expelled
    BY <1>1, <1>2 DEF StageInv
<1>5. StageInv'
    BY <1>1, <1>4 DEF StageInv
<1>6. PlainInv'
    BY <1>1, <1>4 DEF PlainInv
<1>7. PublisherInv'
    BY <1>1, <1>2, SamePublisher DEF PublisherInv
<1>8. QED
    BY <1>3, <1>5, <1>6, <1>7 DEF WireInv

\* What is plain, and the rows to be shown, depend on the configuration alone.
LEMMA SamePlain ==
    ASSUME UNCHANGED <<utf8, cfg>>
    PROVE  /\ AllPlain' <=> AllPlain
           /\ GivenRows' = GivenRows
           /\ Announces(sent)' <=> Announces(sent')
<1>1. AllPlain' <=> AllPlain
    BY DEF AllPlain, Plain, Escapes, Foreign
<1>2. GivenRows' = GivenRows
    BY DEF GivenRows
<1>3. Announces(sent)' <=> Announces(sent')
    BY <1>2 DEF Announces
<1>4. QED
    BY <1>1, <1>2, <1>3

\* The publisher's frames.
LEMMA TransmitStep ==
    ASSUME WireInv, NEW f \in Frame, NEW m, Transmit(f, m), HasMembers(f.payload),
           \/ Fits(f) /\ m = Bytes21(f)
           \/ f.track <= MaxTrackSlot /\ m = Empty,
           stage \in {"hello", "list", "audio"}, stage' \in {"list", "audio"},
           AllPlain => Fits(f) /\ m = Bytes21(f),
           AllPlain /\ stage' = "audio" =>
               Announces(f) \/ (f.type = TypeOf["audio"] /\ shown = GivenRows)
    PROVE  WireInv'
<1>1. /\ at' = "relay" /\ sent' = f /\ msg' = m /\ edits' = 0
      /\ UNCHANGED <<utf8, cfg, expelled, shown, event>>
    BY DEF Transmit
<1>2. PublisherInv /\ PlainInv
    BY DEF WireInv
<1>3. PublisherInv'
    BY <1>1, <1>2, SamePublisher DEF PublisherInv
<1>4. MessageInv'
  <2>1. /\ IsMessage(m) \/ IsShort(m)
        /\ f.track <= MaxTrackSlot
        /\ m = Empty \/ (Fits(f) /\ m = Bytes21(f))
    BY Sends
  <2>2. 0 \in 0..MaxEdits
    BY Limits
  <2>3. QED
    BY <1>1, <2>1, <2>2 DEF MessageInv
<1>5. StageInv'
    BY <1>1 DEF StageInv
<1>6. PlainInv'
  <2>1. /\ AllPlain' <=> AllPlain
        /\ GivenRows' = GivenRows
        /\ Announces(sent)' <=> Announces(f)
    BY <1>1, SamePlain
  <2>2. AllPlain => ~expelled
    BY <1>2 DEF PlainInv
  <2> HIDE DEF AllPlain, GivenRows, Announces
  <2>3. QED
    BY <1>1, <2>1, <2>2 DEF PlainInv
<1>7. QED
    BY <1>3, <1>4, <1>5, <1>6 DEF WireInv

LEMMA SendHelloStep ==
    ASSUME WireInv, SendHello
    PROVE  WireInv'
<1> DEFINE f == Control("hello", 0, BuildHelloPayload)
           m == EncodeFrameOrLog(f)
<1>1. stage = "hello" /\ stage' = "list" /\ Transmit(f, m)
    BY DEF SendHello
<1>2. f \in Frame /\ Fits(f) /\ HasMembers(f.payload)
    BY Greeting
<1>3. m = Bytes21(f)
    BY <1>2, EncodeOrLog
<1> HIDE DEF f, m
<1>4. QED
    BY <1>1, <1>2, <1>3, TransmitStep

LEMMA SendTrackListStep ==
    ASSUME WireInv, SendTrackList
    PROVE  WireInv'
<1>1. /\ stage = "list" /\ stage' = "audio"
      /\ \E p \in BuildTrackListPayload :
             LET f == Control("trackList", 1, p) IN Transmit(f, EncodeFrameOrLog(f))
    BY DEF SendTrackList
<1>2. PICK p \in BuildTrackListPayload :
          Transmit(Control("trackList", 1, p), EncodeFrameOrLog(Control("trackList", 1, p)))
    BY <1>1, Zenon
<1> DEFINE f == Control("trackList", 1, p)
           m == EncodeFrameOrLog(f)
<1>3. PublisherInv /\ Len(cfg) \in 1..MaxTracks
    BY <1>1 DEF WireInv, PublisherInv
<1>4. p \in PayloadType /\ p.kind = "trackList" /\ (AllPlain => p = ListOf(Given))
    BY <1>3, ListPayload
<1>5. HasMembers(p)
    BY <1>4, Optional
<1>6. "trackList" \in MessageType
    BY DEF MessageType, Kinds
<1>7. f \in Frame /\ f.type = TypeOf["trackList"] /\ f.track = 0 /\ f.payload = p
    BY <1>4, <1>6, Controls
<1>8. Transmit(f, m)
    BY <1>2
<1> HIDE DEF f
<1>9. \/ Fits(f) /\ m = Bytes21(f)
      \/ ~Fits(f) /\ m = Empty
    BY <1>7, EncodeOrLog
<1> HIDE DEF m
<1>10. f.track <= MaxTrackSlot
    BY <1>7, Limits
<1>11. ASSUME AllPlain PROVE Fits(f) /\ Announces(f)
  <2>1. p.size <= MaxPayloadBytes /\ decodeTrackList(p) /\ p.rows.seq = GivenRows
    BY <1>3, <1>4, <1>11, PlainList
  <2>2. QED
    BY <1>7, <1>10, <2>1 DEF Fits, Announces
<1>12. \/ Fits(f) /\ m = Bytes21(f)
       \/ f.track <= MaxTrackSlot /\ m = Empty
    BY <1>9, <1>10
<1>13. HasMembers(f.payload)
    BY <1>5, <1>7
<1>14. /\ stage \in {"hello", "list", "audio"} /\ stage' \in {"list", "audio"}
       /\ AllPlain => Fits(f) /\ m = Bytes21(f)
       /\ AllPlain /\ stage' = "audio" =>
              Announces(f) \/ (f.type = TypeOf["audio"] /\ shown = GivenRows)
    BY <1>1, <1>9, <1>11
<1>15. QED
    BY <1>7, <1>8, <1>12, <1>13, <1>14, TransmitStep

LEMMA SendAudioStep ==
    ASSUME WireInv, NEW i \in DOMAIN cfg, NEW size \in {1, MaxPayloadBytes + 1},
           SendAudio(i, size)
    PROVE  WireInv'
<1> DEFINE f == [Control("audio", 1, Binary("audio", size)) EXCEPT !.track = cfg[i].id]
           m == EncodeFrameOrLog(f)
<1>1. stage = "audio" /\ stage' = stage /\ at = "idle" /\ m # Empty /\ Transmit(f, m)
    BY DEF SendAudio
<1>2. PublisherInv /\ Len(cfg) \in 1..MaxTracks /\ PlainInv
    BY <1>1 DEF WireInv, PublisherInv
<1>3. /\ f \in Frame /\ f.type = TypeOf["audio"] /\ f.track <= MaxTrackSlot
      /\ HasMembers(f.payload)
    BY <1>2, Packet
<1> HIDE DEF f
<1>4. Fits(f) /\ m = Bytes21(f)
    BY <1>1, <1>3, EncodeOrLog
<1> HIDE DEF m
<1>5. AllPlain => shown = GivenRows
    BY <1>1, <1>2 DEF PlainInv
<1>6. /\ stage \in {"hello", "list", "audio"} /\ stage' \in {"list", "audio"}
      /\ AllPlain => Fits(f) /\ m = Bytes21(f)
      /\ AllPlain /\ stage' = "audio" =>
             Announces(f) \/ (f.type = TypeOf["audio"] /\ shown = GivenRows)
    BY <1>1, <1>3, <1>4, <1>5
<1>7. QED
    BY <1>1, <1>3, <1>4, <1>6, TransmitStep

\* Another sender.
LEMMA OtherSendStep ==
    ASSUME WireInv, OtherSend
    PROVE  WireInv'
<1>1. /\ stage = "other" /\ stage' = "done" /\ edits' = 0
      /\ UNCHANGED <<utf8, cfg, expelled, shown, event>>
    BY DEF OtherSend
<1>a. PICK f \in Frames : \E r \in {EncodeFrameGo(f), EncodeFrameTs(f)} :
          r.err = "" /\ at' = "sender" /\ sent' = f /\ msg' = r.val
    BY Zenon DEF OtherSend
<1>2. PICK r \in {EncodeFrameGo(f), EncodeFrameTs(f)} :
          r.err = "" /\ at' = "sender" /\ sent' = f /\ msg' = r.val
    BY <1>a, Zenon
<1>3. f \in Frame /\ HasMembers(f.payload)
    BY WireAssumption DEF Frame, HasMembers
<1>4. Fits(f) /\ r.val = Bytes21(f)
    BY <1>2, <1>3, Encoders
<1>5. /\ IsMessage(r.val) \/ IsShort(r.val)
      /\ f.track <= MaxTrackSlot
    BY <1>3, <1>4, Sends
<1>6. PublisherInv
    BY DEF WireInv
<1>7. PublisherInv'
    BY <1>1, <1>6, SamePublisher DEF PublisherInv
<1>8. MessageInv'
  <2>1. 0 \in 0..MaxEdits
    BY Limits
  <2>2. QED
    BY <1>1, <1>2, <1>3, <1>4, <1>5, <2>1 DEF MessageInv
<1>9. StageInv' /\ PlainInv'
    BY <1>1 DEF StageInv, PlainInv
<1>10. QED
    BY <1>7, <1>8, <1>9 DEF WireInv

LEMMA Edited ==
    ASSUME WireInv, EditHeader \/ EditPayload
    PROVE  WireInv'
<1>1. PublisherInv /\ MessageInv /\ StageInv
    BY DEF WireInv
<1>2. IsMessage(msg) \/ IsShort(msg)
    BY <1>1 DEF MessageInv
<1>3. PICK e : (IsMessage(e) \/ IsShort(e)) /\ Edit(e)
    BY <1>2, EditStep, Zenon
<1>4. /\ at = "sender" /\ edits < MaxEdits /\ edits' = edits + 1 /\ msg' = e
      /\ UNCHANGED <<stage, utf8, cfg, at, sent, expelled, shown, event>>
    BY <1>3 DEF Edit, pubVars
<1>5. stage = "done"
    BY <1>1, <1>4 DEF StageInv
<1>6. PublisherInv'
    BY <1>1, <1>4 DEF PublisherInv
<1>7. MessageInv'
  <2>1. edits \in 0..MaxEdits /\ MaxEdits \in Nat
    BY <1>1, Limits DEF MessageInv
  <2>2. edits' \in 0..MaxEdits /\ edits' # 0
    BY <1>4, <2>1
  <2>3. QED
    BY <1>1, <1>3, <1>4, <2>2 DEF MessageInv
<1>8. StageInv' /\ PlainInv'
    BY <1>4, <1>5 DEF StageInv, PlainInv
<1>9. QED
    BY <1>6, <1>7, <1>8 DEF WireInv

LEMMA PostStep ==
    ASSUME WireInv, Post
    PROVE  WireInv'
<1>1. /\ at = "sender" /\ at' = "relay"
      /\ UNCHANGED <<stage, utf8, cfg, msg, sent, edits, expelled, shown, event>>
    BY DEF Post, pubVars
<1>2. PublisherInv /\ MessageInv /\ StageInv
    BY DEF WireInv
<1>3. stage = "done"
    BY <1>1, <1>2 DEF StageInv
<1>4. PublisherInv'
    BY <1>1, <1>2 DEF PublisherInv
<1>5. MessageInv'
    BY <1>1, <1>2 DEF MessageInv
<1>6. StageInv' /\ PlainInv'
    BY <1>1, <1>3 DEF StageInv, PlainInv
<1>7. QED
    BY <1>4, <1>5, <1>6 DEF WireInv

\* The relay: what it refuses was not sent by a publisher with plain labels.
LEMMA RelayStep ==
    ASSUME WireInv, Relay
    PROVE  WireInv'
<1>1. at = "relay" /\ UNCHANGED <<utf8, cfg, msg, sent, edits, shown, event>>
    BY DEF Relay
<1>2. PublisherInv /\ MessageInv /\ StageInv /\ PlainInv
    BY DEF WireInv
<1>3. stage \in {"list", "audio", "done"}
    BY <1>1, <1>2 DEF PublisherInv, StageInv
<1>4. /\ AllPlain' <=> AllPlain
      /\ GivenRows' = GivenRows
      /\ Announces(sent)' <=> Announces(sent)
    BY <1>1, SamePlain
<1>5. CASE Passes(msg)
  <2>1. at' = "viewer" /\ UNCHANGED <<stage, expelled>>
    BY <1>5 DEF Relay
  <2>2. PublisherInv'
    BY <1>1, <1>2, <2>1 DEF PublisherInv
  <2>3. MessageInv'
    BY <1>1, <1>2, <2>1 DEF MessageInv
  <2>4. StageInv'
    BY <1>2, <1>3, <2>1 DEF StageInv
  <2> HIDE DEF AllPlain, GivenRows, Announces
  <2>5. PlainInv'
    BY <1>1, <1>2, <1>4, <2>1 DEF PlainInv
  <2>6. QED
    BY <2>2, <2>3, <2>4, <2>5 DEF WireInv
<1>6. CASE ~Passes(msg)
  <2>1. /\ at' = "idle" /\ expelled' = TRUE
        /\ stage' = IF stage = "done" THEN stage ELSE "hello"
    BY <1>6 DEF Relay
  <2>2. PublisherInv'
    BY <1>1, <1>2, <1>3, <2>1, SamePublisher DEF PublisherInv
  <2>3. MessageInv'
    BY <1>1, <1>2, <2>1 DEF MessageInv
  <2>4. StageInv'
    BY <1>3, <2>1 DEF StageInv
  <2>5. stage = "done" \/ ~AllPlain
    <3>1. ASSUME stage # "done", AllPlain PROVE FALSE
      <4>1. Fits(sent) /\ msg = Bytes21(sent) /\ sent \in Frame
        BY <1>1, <1>2, <3>1 DEF PlainInv, MessageInv
      <4>2. QED
        BY <1>6, <4>1, FrameFitsRelay
    <3>2. QED
      BY <3>1
  <2> HIDE DEF AllPlain
  <2>6. PlainInv'
    BY <1>4, <2>1, <2>5 DEF PlainInv
  <2>7. QED
    BY <2>2, <2>3, <2>4, <2>6 DEF WireInv
<1>7. QED
    BY <1>5, <1>6

\* What a viewer decodes of an unedited message is the frame that was sent.
LEMMA Decoded ==
    ASSUME NEW f \in Frame, Fits(f), NEW m, m = Bytes21(f)
    PROVE  /\ DecodeFrameGo(m) = Ok(f) /\ DecodeFrameTs(m) = Ok(f)
           /\ DecodeFrameCpp(m) = Ok(f)
<1>1. IsMessage(m) /\ Accepts(m) /\ Reads(m) = f
    BY ReadBack
<1>2. DecodeFrameGo(m) = Ok(f)
    BY <1>1, Decoder
<1>3. DecodeFrameTs(m) = DecodeFrameGo(m) /\ DecodeFrameCpp(m) = DecodeFrameGo(m)
    BY <1>1, SameDecoders
<1>4. QED
    BY <1>2, <1>3

\* The viewer: it shows the list, and no packet changes what it shows.
LEMMA HandleStep ==
    ASSUME WireInv, HandleMessage
    PROVE  WireInv'
<1> DEFINE r == DecodeFrameTs(msg)
<1>1. /\ at = "viewer" /\ at' = "idle"
      /\ event' = IF r.err = "" THEN Callback(r.val) ELSE "none"
      /\ shown' = IF event' = "onTrackList" THEN r.val.payload.rows.seq ELSE shown
      /\ UNCHANGED <<stage, utf8, cfg, msg, sent, edits, expelled>>
    BY DEF HandleMessage, pubVars
<1>2. PublisherInv /\ MessageInv /\ StageInv /\ PlainInv
    BY DEF WireInv
<1>3. PublisherInv'
    BY <1>1, <1>2 DEF PublisherInv
<1>4. MessageInv'
    BY <1>1, <1>2 DEF MessageInv
<1>5. StageInv'
    BY <1>1, <1>2 DEF StageInv
<1>6. /\ AllPlain' <=> AllPlain
      /\ GivenRows' = GivenRows
    BY <1>1, SamePlain
<1>7. ASSUME stage = "audio", AllPlain PROVE shown' = GivenRows
  <2>1. Fits(sent) /\ msg = Bytes21(sent) /\ sent \in Frame
    BY <1>1, <1>2, <1>7 DEF PlainInv, MessageInv
  <2>2. r = Ok(sent)
    BY <2>1, Decoded
  <2>3. r.err = "" /\ r.val = sent
    BY <2>2, OkFields
  <2> HIDE DEF r
  <2>4. event' = Callback(sent)
    BY <1>1, <2>3
  <2>5. CASE Announces(sent)
    <3>1. event' = "onTrackList"
      BY <2>4, <2>5, Callbacks DEF Announces
    <3>2. QED
      BY <1>1, <2>3, <2>5, <3>1 DEF Announces
  <2>6. CASE sent.type = TypeOf["audio"] /\ shown = GivenRows
    <3>1. event' # "onTrackList"
      BY <2>4, <2>6, Callbacks
    <3>2. QED
      BY <1>1, <2>6, <3>1
  <2>7. QED
    BY <1>1, <1>2, <1>7, <2>5, <2>6 DEF PlainInv
<1> HIDE DEF r
<1>8. AllPlain /\ stage # "done" => ~expelled
    BY <1>2 DEF PlainInv
<1>9. PlainInv'
  <2> HIDE DEF AllPlain, GivenRows
  <2>1. QED
    BY <1>1, <1>6, <1>7, <1>8 DEF PlainInv
<1>10. QED
    BY <1>3, <1>4, <1>5, <1>9 DEF WireInv

LEMMA Stutter ==
    ASSUME WireInv, UNCHANGED vars
    PROVE  WireInv'
<1>1. UNCHANGED <<stage, utf8, cfg, at, msg, sent, edits, expelled, shown, event>>
    BY DEF vars, pubVars, wireVars
<1>2. PublisherInv /\ MessageInv /\ StageInv /\ PlainInv
    BY DEF WireInv
<1>3. PublisherInv'
    BY <1>1, <1>2 DEF PublisherInv
<1>4. MessageInv'
    BY <1>1, <1>2 DEF MessageInv
<1>5. StageInv'
    BY <1>1, <1>2 DEF StageInv
<1>6. /\ AllPlain' <=> AllPlain
      /\ GivenRows' = GivenRows
      /\ Announces(sent)' <=> Announces(sent)
    BY <1>1, SamePlain
<1>7. PlainInv'
  <2> HIDE DEF AllPlain, GivenRows, Announces
  <2>1. QED
    BY <1>1, <1>2, <1>6 DEF PlainInv
<1>8. QED
    BY <1>3, <1>4, <1>5, <1>7 DEF WireInv

\* Every step keeps it.
LEMMA Steps == WireInv /\ [Next]_vars => WireInv'
<1> SUFFICES ASSUME WireInv, [Next]_vars PROVE WireInv'
    OBVIOUS
<1>1. CASE \E a \in TrackArgs : TrackArg(a)
    BY <1>1, TrackArgStep
<1>2. CASE \E ok \in BOOLEAN : ArgsEnd(ok)
    BY <1>2, ArgsEndStep
<1>3. CASE SendHello
    BY <1>3, SendHelloStep
<1>4. CASE SendTrackList
    BY <1>4, SendTrackListStep
<1>5. CASE \E i \in DOMAIN cfg, size \in {1, MaxPayloadBytes + 1} : SendAudio(i, size)
    BY <1>5, SendAudioStep
<1>6. CASE OtherSend
    BY <1>6, OtherSendStep
<1>7. CASE EditHeader
    BY <1>7, Edited
<1>8. CASE EditPayload
    BY <1>8, Edited
<1>9. CASE Post
    BY <1>9, PostStep
<1>10. CASE Relay
    BY <1>10, RelayStep
<1>11. CASE HandleMessage
    BY <1>11, HandleStep
<1>12. CASE UNCHANGED vars
    BY <1>12, Stutter
<1>13. QED
    BY <1>1, <1>2, <1>3, <1>4, <1>5, <1>6, <1>7, <1>8, <1>9, <1>10, <1>11, <1>12
       DEF Next

\* The invariant holds of every message on its way from cli.cpp, or another
\* sender, through server.go to relay/client.ts.
THEOREM WireInvariant == Spec => []WireInv
<1>1. Init => WireInv
    BY Start
<1>2. WireInv /\ [Next]_vars => WireInv'
    BY Steps
<1>3. QED
    BY <1>1, <1>2, PTL DEF Spec

-----------------------------------------------------------------------------
(* What it implies.                                                        *)

LEMMA ShortDecoders ==
    ASSUME NEW m, IsShort(m)
    PROVE  Length(m) < HeaderBytes /\ DecodeFrameTs(m).err # ""
<1>1. m.payload = Binary("none", 0) /\ Len(m.head) < 21 /\ m.head \in Seq(Byte)
    BY DEF IsShort, Message, HeaderBytes
<1>2. "none" \in Kinds /\ 0 \in Nat
    BY DEF Kinds
<1>3. m.payload.size = 0
    BY <1>1, <1>2, Binaries
<1>4. Len(m.head) \in Nat
    BY <1>1, LenProperties
<1>5. Length(m) < HeaderBytes
    BY <1>1, <1>3, <1>4 DEF Length, HeaderBytes
<1>6. DecodeFrameTs(m) = [err |-> "BAD_LENGTH"]
    BY <1>5, Zenon DEF DecodeFrameTs
<1>7. QED
    BY <1>5, <1>6

LEMMA InvRoundTrip == WireInv => RoundTrip
<1> SUFFICES ASSUME WireInv PROVE RoundTrip
    OBVIOUS
<1>1. MessageInv
    BY DEF WireInv
<1>2. ASSUME edits = 0, msg # Empty
      PROVE  \A r \in {DecodeFrameGo(msg), DecodeFrameTs(msg), DecodeFrameCpp(msg)} :
                 r = Ok(sent)
  <2>1. sent \in Frame /\ Fits(sent) /\ msg = Bytes21(sent)
    BY <1>1, <1>2 DEF MessageInv
  <2>2. /\ DecodeFrameGo(msg) = Ok(sent) /\ DecodeFrameTs(msg) = Ok(sent)
        /\ DecodeFrameCpp(msg) = Ok(sent)
    BY <2>1, Decoded
  <2>3. QED
    BY <2>2, Zenon
<1>3. ASSUME DecodeFrameTs(msg).err = "", NEW f, f = DecodeFrameTs(msg).val
      PROVE  \A r \in {EncodeFrameGo(f), EncodeFrameTs(f), EncodeFrameCpp(f)} :
                 r = Ok(msg)
  <2>1. IsMessage(msg)
    BY <1>1, <1>3, ShortDecoders DEF MessageInv
  <2>2. DecodeFrameTs(msg) = DecodeFrameGo(msg)
    BY <2>1, SameDecoders
  <2>3. Accepts(msg) /\ DecodeFrameGo(msg) = Ok(Reads(msg))
    BY <1>3, <2>1, <2>2, Decoder
  <2>4. f = Reads(msg)
    BY <1>3, <2>2, <2>3, OkFields
  <2>5. f \in Frame /\ Fits(f) /\ Bytes21(f) = msg
    BY <2>1, <2>3, <2>4, WriteAgain
  <2>6. \A r \in {EncodeFrameGo(f), EncodeFrameTs(f), EncodeFrameCpp(f)} :
            r = Ok(Bytes21(f))
    BY <2>5, Encoders
  <2>7. QED
    BY <2>5, <2>6
<1>4. QED
    BY <1>2, <1>3, Zenon DEF RoundTrip

\* The codecs of header.go, header.ts and header.cpp invert each other, for
\* any size of a byte, any limits, and whatever a sender writes: a frame an
\* encoder accepts is read back as it was by all three decoders, and what a
\* viewer reads is written as the same bytes by all three encoders.
THEOREM RoundTripHolds == Spec => []RoundTrip
  BY WireInvariant, InvRoundTrip, PTL

LEMMA InvDecodersAgree == WireInv => DecodersAgree
<1> SUFFICES ASSUME WireInv PROVE DecodersAgree
    OBVIOUS
<1> DEFINE p == msg.payload
<1>1. /\ IsMessage(msg) \/ IsShort(msg)
      /\ HasMembers(sent.payload)
    BY DEF WireInv, MessageInv
<1>2. DecodeFrameTs(msg) = DecodeFrameGo(msg) /\ DecodeFrameCpp(msg) = DecodeFrameGo(msg)
    BY <1>1, ShortDecoders, SameDecoders
<1>3. p \in PayloadType
  <2>1. CASE IsMessage(msg)
    BY <2>1 DEF IsMessage
  <2>2. CASE IsShort(msg)
    <3>1. p = Binary("none", 0) /\ "none" \in Kinds /\ 0 \in Nat
      BY <2>2 DEF IsShort, Message, Kinds
    <3>2. QED
      BY <3>1, Binaries
  <2>3. QED
    BY <1>1, <2>1, <2>2
<1> HIDE DEF p
<1>4. ASSUME Complete(p)
      PROVE  /\ p.kind = "hello" => (decodeHello(p) <=> DecodeHello(p))
             /\ p.kind = "trackList" => (decodeTrackList(p) <=> DecodeTrackList(p))
             /\ p.kind = "fingerprint" =>
                    (decodeFingerprint(p) <=> DecodeFingerprint(p))
             /\ p.kind = "trackMeta" => (decodeTrackMeta(p) <=> DecodeTrackMeta(p))
             /\ p.kind = "stats" => (decodeStats(p) <=> DecodeStats(p))
             /\ p.kind = "subTracks" => (decodeSubTracks(p) <=> DecodeSubTracks(p))
             /\ p.kind = "error" => (decodeError(p) <=> DecodeError(p))
  <2>1. p.kind = "hello" => (decodeHello(p) <=> DecodeHello(p))
    BY <1>1, <1>3, <1>4, HelloAgrees, Zenon
  <2>2. p.kind = "trackList" => (decodeTrackList(p) <=> DecodeTrackList(p))
    BY <1>3, <1>4, TrackListsAgree, Zenon
  <2>3. decodeFingerprint(p) <=> DecodeFingerprint(p)
    BY DEF decodeFingerprint, DecodeFingerprint
  <2>4. decodeTrackMeta(p) <=> DecodeTrackMeta(p)
    BY <1>3, <1>4, MetaAgrees, Zenon
  <2>5. p.kind = "stats" => (decodeStats(p) <=> DecodeStats(p))
    BY <1>1, <1>3, <1>4, StatsAgree, Zenon
  <2>6. p.kind = "subTracks" => (decodeSubTracks(p) <=> DecodeSubTracks(p))
    BY <1>3, <1>4, SubTracksAgree, Zenon
  <2>7. p.kind = "error" => (decodeError(p) <=> DecodeError(p))
    BY <1>1, <1>3, <1>4, ErrorAgrees, Zenon
  <2>8. QED
    BY <2>1, <2>2, <2>3, <2>4, <2>5, <2>6, <2>7, Zenon
<1>5. QED
    BY <1>2, <1>4, Zenon DEF DecodersAgree, p

\* The decoders agree on every message, of any length, a sender can make: the
\* three of the frame on the frame or the error, and the Go and TypeScript
\* decoders of a complete payload on whether it is one.
THEOREM DecodersAgreeHolds == Spec => []DecodersAgree
  BY WireInvariant, InvDecodersAgree, PTL

LEMMA InvTypeOK == WireInv => TypeOK
<1> SUFFICES ASSUME WireInv PROVE TypeOK
    OBVIOUS
<1>1. PublisherInv /\ MessageInv
    BY DEF WireInv
<1>2. DOMAIN cfg = 1..Len(cfg)
    BY <1>1, TrackFields
<1>3. msg.head \in Seq(Byte) /\ Len(msg.head) <= HeaderBytes
  <2>1. CASE IsMessage(msg)
    <3>1. msg.head \in Word(21)
      BY <2>1 DEF IsMessage
    <3> DEFINE h == msg.head
    <3> HIDE DEF h
    <3>2. h \in Seq(Byte) /\ Len(h) = 21
      BY <3>1 DEF Word, h
    <3>3. Len(h) <= HeaderBytes
      BY <3>2 DEF HeaderBytes
    <3>4. QED
      BY <3>2, <3>3 DEF h
  <2>2. CASE IsShort(msg)
    <3>1. msg.head \in Seq(Byte) /\ Len(msg.head) < HeaderBytes
      BY <2>2 DEF IsShort
    <3>2. Len(msg.head) \in Nat
      BY <3>1, LenProperties
    <3>3. QED
      BY <3>1, <3>2 DEF HeaderBytes
  <2>3. QED
    BY <1>1, <2>1, <2>2 DEF MessageInv
<1>4. \A i \in DOMAIN msg.head : msg.head[i] \in Byte
    BY <1>3, LenProperties, ElementOfSeq
<1>5. sent.track \in 0..MaxTrackSlot
  <2>1. sent \in Frame /\ sent.track <= MaxTrackSlot
    BY <1>1 DEF MessageInv
  <2>2. QED
    BY <2>1, FrameFields, Limits
<1>6. QED
    BY <1>1, <1>2, <1>3, <1>4, <1>5 DEF TypeOK, PublisherInv, MessageInv

LEMMA InvAnnouncement == WireInv => AnnouncementShown
<1> SUFFICES ASSUME WireInv PROVE AnnouncementShown
    OBVIOUS
<1>1. TypeOK
    BY InvTypeOK
<1>2. PlainInv
    BY DEF WireInv
<1>3. ASSUME stage # "done", \A i \in DOMAIN cfg : Plain(cfg[i])
      PROVE  /\ ~expelled
             /\ stage = "audio" /\ at = "idle" =>
                    shown = [i \in DOMAIN cfg |-> RowOf(cfg[i], cfg[i].label)]
    BY <1>2, <1>3 DEF PlainInv, AllPlain, GivenRows
<1>4. QED
    BY <1>1, <1>3, Zenon DEF AnnouncementShown

\* For any arguments of the command line, a publisher whose labels cli.cpp and
\* main.cpp can carry is never closed out by the relay, and the viewer shows its
\* tracks as given: every slug it derives is one the schema accepts, and a list
\* of MaxTracks such tracks fits a payload.
THEOREM AnnouncementShownHolds == Spec => []AnnouncementShown
  BY WireInvariant, InvAnnouncement, PTL
=============================================================================
