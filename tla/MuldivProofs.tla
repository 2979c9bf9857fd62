---------------------------- MODULE MuldivProofs ----------------------------
(***************************************************************************)
(* What TLAPS proves about Muldiv, for every width: the loop invariant of  *)
(* the divider, and that the unit implements MdUnit.                       *)
(***************************************************************************)
EXTENDS Muldiv, TLAPS

\* A quotient is determined by the remainder being small enough.
LEMMA DivUnique ==
  ASSUME NEW m \in Nat, NEW n \in Nat \ {0}, NEW q \in Nat, NEW r \in Nat,
         m = n * q + r, r < n
  PROVE  m \div n = q /\ m % n = r
<1>1. m = n * (m \div n) + (m % n) /\ 0 <= m % n /\ m % n < n /\ m \div n \in Nat /\ m % n \in Nat
  OBVIOUS
<1>2. \A d \in Nat, k \in Nat, j \in Nat, s \in Nat :
         n * k + s = n * j + d /\ s < n /\ d < n => ~(k < j)
  <2> SUFFICES ASSUME NEW d \in Nat, NEW k \in Nat, NEW j \in Nat, NEW s \in Nat,
                      n * k + s = n * j + d, s < n, d < n, k < j
               PROVE  FALSE
    OBVIOUS
  <2>1. PICK e \in Nat : j = k + 1 + e
    <3>1. j - k - 1 \in Nat /\ j = k + 1 + (j - k - 1)
      OBVIOUS
    <3> QED
      BY <3>1
  <2>2. n * j = n * k + n + n * e
    BY <2>1
  <2>3. n * e \in Nat /\ n * k \in Nat /\ n * j \in Nat
    OBVIOUS
  <2> QED
    BY <2>2, <2>3
<1>3. ~(m \div n < q) /\ ~(q < m \div n)
  BY <1>1, <1>2
<1>4. m \div n = q
  BY <1>1, <1>3
<1> QED
  BY <1>1, <1>4

\* Shifting in one more bit: the dividend's upper bits at one position and
\* at the next.
LEMMA NextBits ==
  ASSUME NEW m \in Nat, NEW p \in Nat \ {0}
  PROVE  m \div p = 2 * (m \div (2 * p)) + ((m \div p) % 2)
<1> DEFINE k == m \div p
           j == k \div 2
           b == k % 2
           r == m % p
<1>1. k \in Nat /\ r \in Nat /\ r < p /\ m = p * k + r
  OBVIOUS
<1>2. j \in Nat /\ b \in {0, 1} /\ k = 2 * j + b
  BY <1>1
<1> HIDE DEF k, j, b, r
<1>3. p * k = (2 * p) * j + p * b
  BY <1>1, <1>2
<1>4. m = (2 * p) * j + (p * b + r)
  BY <1>1, <1>2, <1>3
<1>5. p * b + r \in Nat /\ p * b + r < 2 * p
  BY <1>1, <1>2
<1>6. m \div (2 * p) = j
  BY <1>2, <1>4, <1>5, DivUnique
<1> QED
  BY <1>2, <1>6 DEF k, b

\* The sizes of the data.
LEMMA Sizes ==
  /\ W \in Nat /\ W >= 2 /\ Full \in Nat /\ Half \in Nat \ {0} /\ Full = 2 * Half /\ Full >= 2
  /\ \A n \in 0 .. W : Pow2[n] \in Nat \ {0}
  /\ \A n \in 0 .. W - 1 : Pow2[n + 1] = 2 * Pow2[n]
<1>1. W \in Nat /\ W >= 2 /\ \A n \in 0 .. W : Pow2[n] \in Nat \ {0}
  BY MuldivAssumption
<1>2. \A n \in 0 .. W - 1 : Pow2[n + 1] = 2 * Pow2[n]
  BY MuldivAssumption
<1>3. Pow2[W] = 2 * Pow2[W - 1] /\ Pow2[W - 1] \in Nat \ {0}
  BY <1>1, <1>2
<1> QED
  BY <1>1, <1>2, <1>3 DEF Full, Half

\* Negation stays within the width, and negates nothing to zero but zero.
LEMMA NegType ==
  ASSUME NEW x \in Vals
  PROVE  Neg(x) \in Vals /\ (x # 0 => Neg(x) = Full - x)
  BY Sizes DEF Neg, Vals

\* So does taking the magnitude.
LEMMA MagType ==
  ASSUME NEW o, NEW x \in Vals
  PROVE  Mag(o, x) \in Vals /\ (x # 0 => Mag(o, x) # 0)
  BY NegType, Sizes DEF Mag, Vals

\* One step of the loop: with quotient q and remainder r of the bits consumed
\* so far, comparing 2r + bit with the divisor d gives those of one bit more,
\* and no bit of the quotient is lost.
LEMMA LoopStep ==
  ASSUME NEW m \in Nat, NEW p \in Nat \ {0}, NEW d \in Nat \ {0}, NEW q \in Nat, NEW r \in Nat,
         q * d + r = m \div (2 * p), r < d,
         NEW s \in Nat, s = 2 * r + ((m \div p) % 2)
  PROVE  /\ s >= d => (2 * q + 1) * d + (s - d) = m \div p /\ s - d < d /\ s - d \in Nat
         /\ s < d => (2 * q) * d + s = m \div p
         /\ m \div p <= m
<1>1. m \div p = 2 * (m \div (2 * p)) + ((m \div p) % 2)
  BY NextBits
<1>2. m \div p \in Nat /\ m \div (2 * p) \in Nat /\ (m \div p) % 2 \in {0, 1} /\ m \div p <= m
  OBVIOUS
<1> DEFINE k == m \div p
           h == m \div (2 * p)
           b == (m \div p) % 2
           t == q * d
<1>3. k = 2 * h + b /\ k \in Nat /\ h \in Nat /\ b \in {0, 1} /\ t + r = h /\ s = 2 * r + b /\ t \in Nat
  BY <1>1, <1>2
<1>4. (2 * q + 1) * d = 2 * t + d /\ (2 * q) * d = 2 * t
  OBVIOUS
<1> HIDE DEF k, h, b, t
<1>5. /\ s >= d => (2 * t + d) + (s - d) = k /\ s - d < d /\ s - d \in Nat
      /\ s < d => 2 * t + s = k
  BY <1>3
<1> QED
  BY <1>2, <1>4, <1>5 DEF k

\* A quotient is no larger than what it is the quotient of.
LEMMA QuotientFits ==
  ASSUME NEW q \in Nat, NEW d \in Nat \ {0}, NEW r \in Nat
  PROVE  q <= q * d + r
<1>1. PICK e \in Nat : d = e + 1
  <2>1. d - 1 \in Nat /\ d = (d - 1) + 1
    OBVIOUS
  <2> QED
    BY <2>1
<1>2. q * d = q * e + q /\ q * e \in Nat
  BY <1>1
<1> QED
  BY <1>2

----------------------------------------------------------------------------
(* The invariant: types, the loop invariant and, so that the refinement    *)
(* below can use it, what a running division was loaded with.              *)
DivType == [by_zero : BOOLEAN, overflow : BOOLEAN, dividend : Vals, divisor : Vals,
            quotient : Vals, rem : Vals, neg_quot : BOOLEAN, neg_rem : BOOLEAN,
            bit : 0 .. W - 1]

Loaded ==
  /\ state \in {"S_DIV", "S_FIN"} =>
       /\ req.op \in DivOps
       /\ div.by_zero = (req.b = 0) /\ div.overflow = Overflows(req)
       /\ div.dividend = Mag(req.op, req.a) /\ div.divisor = Mag(req.op, req.b)
       /\ div.neg_quot = (req.op = "div" /\ IsNeg(req.a) # IsNeg(req.b))
       /\ div.neg_rem = (req.op = "rem" /\ IsNeg(req.a))
  /\ state = "S_FIN" => ~div.by_zero /\ ~div.overflow
  /\ state = "S_MUL" => req.op \in MulOps

\* The wires of the loop are well typed, and the loop body does what LoopStep
\* says.
LEMMA DivStepCorrect ==
  ASSUME TypeOK, DivLoop, state = "S_DIV", ~div.by_zero
  PROVE  LET s == IF Subtract THEN 1 ELSE 0
             q == (2 * div.quotient + s) % Full
             r == IF Subtract THEN rem_shifted - div.divisor ELSE rem_shifted
         IN  /\ q \in Vals /\ r \in Vals /\ r < div.divisor
             /\ q * div.divisor + r = div.dividend \div Pow2[div.bit]
<1> DEFINE s == IF Subtract THEN 1 ELSE 0
           q == (2 * div.quotient + s) % Full
           r == IF Subtract THEN rem_shifted - div.divisor ELSE rem_shifted
           m == div.dividend
           d == div.divisor
           p == Pow2[div.bit]
<1>1. /\ m \in Vals /\ d \in Vals /\ div.quotient \in Vals /\ div.rem \in Vals
      /\ div.bit \in 0 .. W - 1
  BY DEF TypeOK
<1>2. /\ m \in Nat /\ m < Full /\ d \in Nat /\ d < Full /\ div.quotient \in Nat
      /\ div.rem \in Nat /\ div.rem < Full
  BY <1>1, Sizes DEF Vals
<1>3. div.quotient * d + div.rem = m \div Pow2[div.bit + 1] /\ div.rem < d
  BY DEF DivLoop
<1>4. p \in Nat \ {0} /\ Pow2[div.bit + 1] = 2 * p
  BY <1>1, Sizes
<1>5. d \in Nat \ {0}
  BY <1>2, <1>3
<1>6. rem_shifted \in Nat /\ rem_shifted = 2 * div.rem + ((m \div p) % 2)
  <2>1. div.rem % Full = div.rem
    BY <1>2, Sizes
  <2>2. (m \div p) % 2 \in Nat
    BY <1>2, <1>4
  <2> QED
    BY <1>2, <2>1, <2>2 DEF rem_shifted
<1>7. /\ rem_shifted >= d => /\ (2 * div.quotient + 1) * d + (rem_shifted - d) = m \div p
                             /\ rem_shifted - d < d /\ rem_shifted - d \in Nat
      /\ rem_shifted < d => (2 * div.quotient) * d + rem_shifted = m \div p
      /\ m \div p <= m
  <2>1. div.quotient * d + div.rem = m \div (2 * p)
    BY <1>3, <1>4
  <2>2. m \in Nat /\ p \in Nat \ {0} /\ d \in Nat \ {0} /\ div.quotient \in Nat /\ div.rem \in Nat
    BY <1>2, <1>4, <1>5
  <2> DEFINE x == div.quotient
             y == div.rem
             z == rem_shifted
  <2>3. x * d + y = m \div (2 * p) /\ y < d /\ z \in Nat /\ z = 2 * y + ((m \div p) % 2)
    BY <1>3, <1>6, <2>1
  <2>4. m \in Nat /\ p \in Nat \ {0} /\ d \in Nat \ {0} /\ x \in Nat /\ y \in Nat
    BY <2>2
  <2> HIDE DEF m, d, p, x, y, z
  <2>5. /\ z >= d => (2 * x + 1) * d + (z - d) = m \div p /\ z - d < d /\ z - d \in Nat
        /\ z < d => (2 * x) * d + z = m \div p
        /\ m \div p <= m
    BY <2>3, <2>4, LoopStep, SMT
  <2> QED
    BY <2>5, Zenon DEF x, z
<1>8. s \in {0, 1} /\ 2 * div.quotient + s \in Nat
  BY <1>2
<1>9. (2 * div.quotient + s) * d + r = m \div p /\ r \in Nat /\ r < d
  <2>1. CASE Subtract
    <3>1. s = 1 /\ r = rem_shifted - d /\ rem_shifted >= d
      BY <2>1 DEF Subtract
    <3> HIDE DEF s, r, d, m, p
    <3> QED
      BY <1>7, <3>1, Zenon
  <2>2. CASE ~Subtract
    <3>1. s = 0 /\ r = rem_shifted /\ rem_shifted < d /\ 2 * div.quotient + 0 = 2 * div.quotient
      BY <1>2, <1>6, <2>2 DEF Subtract
    <3> HIDE DEF s, r, d, m, p
    <3> QED
      BY <1>6, <1>7, <3>1, Zenon
  <2> QED
    BY <2>1, <2>2
<1>10. 2 * div.quotient + s < Full
  <2>1. 2 * div.quotient + s <= (2 * div.quotient + s) * d + r
    <3> HIDE DEF s, r, d
    <3> QED
      BY <1>5, <1>8, <1>9, QuotientFits
  <2>2. m \div p \in Nat
    BY <1>2, <1>4
  <2> HIDE DEF s, r, d, m, p
  <2> QED
    BY <1>2, <1>7, <1>8, <1>9, <2>1, <2>2, Sizes
<1>11. q = 2 * div.quotient + s /\ q \in Vals
  <2> HIDE DEF s
  <2> QED
    BY <1>8, <1>10, Sizes DEF Vals
<1>12. r \in Vals
  <2> HIDE DEF r, d
  <2> QED
    BY <1>2, <1>9, Sizes DEF Vals
<1> HIDE DEF s, q, r, m, d, p
<1>13. q \in Vals /\ r \in Vals /\ r < d /\ q * d + r = m \div p
  BY <1>9, <1>11, <1>12
<1> QED
  BY <1>13 DEF s, q, r, m, d, p

MuldivInv == TypeOK /\ DivLoop /\ Loaded

\* The product logic returns a value of the width.
LEMMA ProdType ==
  ASSUME req \in Request
  PROVE  prod % Full \in Vals /\ prod \div Full \in Vals
<1>1. req.a \in Nat /\ req.b \in Nat
  BY Sizes DEF Request, Vals
<1>2. \A x \in Nat : SignExt(x) \in Nat
  BY Sizes DEF SignExt
<1> DEFINE n == (IF req.op = "mulhu" THEN req.a ELSE SignExt(req.a)) *
               (IF req.op \in {"mul", "mulh"} THEN SignExt(req.b) ELSE req.b)
<1>3. n \in Nat
  BY <1>1, <1>2
<1> HIDE DEF n
<1>4. Full * Full \in Nat \ {0} /\ Full \in Nat \ {0}
  BY Sizes
<1>5. n % (Full * Full) \in Nat /\ n % (Full * Full) < Full * Full
  BY <1>3, <1>4
<1>6. prod \in Nat /\ prod < Full * Full
  BY <1>5 DEF prod, n
<1>7. prod = Full * (prod \div Full) + (prod % Full) /\ prod \div Full \in Nat /\ prod % Full \in Vals
  BY <1>4, <1>6 DEF Vals
<1>8. ~(prod \div Full >= Full)
  <2> DEFINE k == prod \div Full
             r == prod % Full
  <2>1. k \in Nat /\ r \in Nat /\ prod = Full * k + r
    BY <1>7, Sizes DEF Vals
  <2> HIDE DEF k, r
  <2>2. ASSUME k >= Full PROVE FALSE
    <3>1. PICK e \in Nat : k = Full + e
      <4>1. k - Full \in Nat /\ k = Full + (k - Full)
        BY <1>4, <2>1, <2>2
      <4> QED
        BY <4>1
    <3>2. Full * k = Full * Full + Full * e /\ Full * e \in Nat
      BY <1>4, <3>1
    <3> QED
      BY <1>4, <1>6, <2>1, <3>2
  <2> QED
    BY <2>2 DEF k
<1> QED
  BY <1>4, <1>7, <1>8 DEF Vals

\* So does the sign fix-up.
LEMMA FinalType ==
  ASSUME TypeOK
  PROVE  final \in Vals
<1>1. div.quotient \in Vals /\ div.rem \in Vals
  BY DEF TypeOK
<1>2. rem_lo \in Vals
  BY <1>1, Sizes DEF rem_lo, Vals
<1>3. Neg(div.quotient) \in Vals /\ Neg(rem_lo) \in Vals
  BY <1>1, <1>2, NegType
<1> QED
  BY <1>1, <1>2, <1>3, Zenon DEF final

\* A step that ends an operation keeps the invariant.
LEMMA FinishKeepsInv ==
  ASSUME MuldivInv, NEW v \in Vals, Finish(v)
  PROVE  MuldivInv'
<1>1. TypeOK'
  BY DEF MuldivInv, TypeOK, Finish
<1>2. DivLoop' /\ Loaded'
  BY DEF DivLoop, Loaded, Finish
<1> QED
  BY <1>1, <1>2 DEF MuldivInv

\* The state right after a start satisfies the invariant: no bit has been
\* consumed yet.
LEMMA StartKeepsInv ==
  ASSUME MuldivInv, NEW r \in Request, Start(r)
  PROVE  MuldivInv'
<1>1. r.op \in Ops /\ r.a \in Vals /\ r.b \in Vals
  BY DEF Request
<1>2. CASE r.op \in MulOps
  <2>1. state' = "S_MUL" /\ div' = div /\ req' = r /\ done' = FALSE /\ result' = result
    BY <1>2 DEF Start
  <2>2. TypeOK'
    BY <2>1 DEF MuldivInv, TypeOK
  <2> QED
    BY <1>2, <2>1, <2>2 DEF MuldivInv, DivLoop, Loaded
<1>3. CASE r.op \notin MulOps
  <2>1. /\ state' = "S_DIV" /\ req' = r /\ done' = FALSE /\ result' = result
        /\ div' = [by_zero |-> r.b = 0, overflow |-> Overflows(r),
                   dividend |-> Mag(r.op, r.a), divisor |-> Mag(r.op, r.b),
                   quotient |-> 0, rem |-> 0,
                   neg_quot |-> r.op = "div" /\ IsNeg(r.a) # IsNeg(r.b),
                   neg_rem |-> r.op = "rem" /\ IsNeg(r.a), bit |-> W - 1]
    BY <1>3 DEF Start
  <2>2. Mag(r.op, r.a) \in Vals /\ Mag(r.op, r.b) \in Vals /\ (r.b # 0 => Mag(r.op, r.b) # 0)
    BY <1>1, MagType
  <2>3. 0 \in Vals /\ W - 1 \in 0 .. W - 1
    BY Sizes DEF Vals
  <2>4. Overflows(r) \in BOOLEAN /\ IsNeg(r.a) \in BOOLEAN /\ IsNeg(r.b) \in BOOLEAN
    BY DEF Overflows, IsNeg
  <2>5. div' \in DivType
    BY <2>1, <2>2, <2>3, <2>4 DEF DivType
  <2>6. TypeOK'
    BY <2>1, <2>5 DEF MuldivInv, TypeOK, DivType
  <2>7. Loaded'
    <3>1. r.op \in DivOps
      BY <1>1, <1>3 DEF Ops
    <3> QED
      BY <2>1, <3>1 DEF Loaded, Overflows, Signed, Mag, IsNeg, Neg, Full, Half
  <2>8. DivLoop'
    <3>1. div'.by_zero = (r.b = 0) /\ div'.dividend = Mag(r.op, r.a) /\ div'.divisor = Mag(r.op, r.b)
          /\ div'.quotient = 0 /\ div'.rem = 0 /\ div'.bit = W - 1
      BY <2>1
    <3>2. Mag(r.op, r.a) \div Pow2[W - 1 + 1] = 0
      <4>1. W - 1 + 1 = W
        BY Sizes
      <4>2. Mag(r.op, r.a) \in Nat /\ Mag(r.op, r.a) < Full /\ Full \in Nat \ {0}
        BY <2>2, Sizes DEF Vals
      <4> QED
        BY <4>1, <4>2 DEF Full
    <3>3. 0 * Mag(r.op, r.b) + 0 = 0 /\ (r.b # 0 => 0 < Mag(r.op, r.b))
      BY <2>2, Sizes DEF Vals
    <3> QED
      BY <2>1, <3>1, <3>2, <3>3 DEF DivLoop
  <2> QED
    BY <2>6, <2>7, <2>8 DEF MuldivInv
<1> QED
  BY <1>2, <1>3

\* A step of the loop keeps the invariant.
LEMMA DivStepKeepsInv ==
  ASSUME MuldivInv, DivStep
  PROVE  MuldivInv'
<1> DEFINE s == IF Subtract THEN 1 ELSE 0
           q == (2 * div.quotient + s) % Full
           r == IF Subtract THEN rem_shifted - div.divisor ELSE rem_shifted
<1>1. /\ state = "S_DIV" /\ ~div.by_zero /\ ~div.overflow
      /\ div' = [div EXCEPT !.rem = r, !.quotient = q, !.bit = NextBit]
      /\ state' = (IF LastBit THEN "S_FIN" ELSE state)
      /\ done' = FALSE /\ req' = req /\ result' = result
  BY DEF DivStep
<1>2. div \in DivType /\ div.bit \in 0 .. W - 1
  BY DEF MuldivInv, TypeOK, DivType
<1>3. q \in Vals /\ r \in Vals /\ r < div.divisor /\ q * div.divisor + r = div.dividend \div Pow2[div.bit]
  BY <1>1, DivStepCorrect DEF MuldivInv
<1> HIDE DEF q, r
<1>4. NextBit \in 0 .. W - 1 /\ (LastBit => div.bit = 0) /\ (~LastBit => NextBit + 1 = div.bit)
  BY <1>2, Sizes DEF NextBit, LastBit
<1>5. /\ div' \in DivType
      /\ div'.rem = r /\ div'.quotient = q /\ div'.bit = NextBit
      /\ div'.by_zero = div.by_zero /\ div'.overflow = div.overflow
      /\ div'.dividend = div.dividend /\ div'.divisor = div.divisor
      /\ div'.neg_quot = div.neg_quot /\ div'.neg_rem = div.neg_rem
  BY <1>1, <1>2, <1>3, <1>4 DEF DivType
<1>6. TypeOK'
  BY <1>1, <1>5 DEF MuldivInv, TypeOK, DivType
<1>7. Loaded'
  BY <1>1, <1>5 DEF MuldivInv, Loaded, Overflows, Signed, Mag, IsNeg, Neg, Full, Half
<1>8. DivLoop'
  <2>1. CASE LastBit
    <3>1. div.dividend \div Pow2[div.bit] = div.dividend
      <4>1. Pow2[div.bit] = 1
        BY <1>4, <2>1, MuldivAssumption
      <4>2. div.dividend \in Nat
        BY <1>2, Sizes DEF DivType, Vals
      <4> QED
        BY <4>1, <4>2
    <3> QED
      BY <1>1, <1>3, <1>5, <2>1, <3>1 DEF DivLoop
  <2>2. CASE ~LastBit
    <3>1. Pow2[NextBit + 1] = Pow2[div.bit]
      BY <1>4, <2>2
    <3> QED
      BY <1>1, <1>3, <1>5, <2>2, <3>1 DEF DivLoop
  <2> QED
    BY <2>1, <2>2
<1> QED
  BY <1>6, <1>7, <1>8 DEF MuldivInv

\* Every clock edge keeps the invariant.
LEMMA MuldivInvStep ==
  ASSUME MuldivInv, Next(Request)
  PROVE  MuldivInv'
<1>0. 0 \in Vals /\ Full - 1 \in Vals /\ Half \in Vals /\ req \in Request
  BY Sizes DEF Vals, MuldivInv, TypeOK
<1>1. CASE \E r \in Request : Start(r)
  BY <1>1, StartKeepsInv
<1>2. CASE Idle
  BY <1>2 DEF Idle, MuldivInv, TypeOK, DivLoop, Loaded
<1>3. CASE Mul
  BY <1>0, <1>3, ProdType, FinishKeepsInv DEF Mul
<1>4. CASE DivByZero
  BY <1>0, <1>4, FinishKeepsInv DEF DivByZero, Request
<1>5. CASE DivOverflow
  BY <1>0, <1>5, FinishKeepsInv DEF DivOverflow
<1>6. CASE DivStep
  BY <1>6, DivStepKeepsInv
<1>7. CASE Fin
  BY <1>7, FinalType, FinishKeepsInv DEF Fin, MuldivInv
<1>8. CASE Reset
  BY <1>0, <1>8 DEF Reset, MuldivInv, TypeOK, DivLoop, Loaded
<1> QED
  BY <1>1, <1>2, <1>3, <1>4, <1>5, <1>6, <1>7, <1>8 DEF Next, Clock

\* So does an edge that changes nothing.
LEMMA MuldivInvKept ==
  ASSUME MuldivInv, [Next(Request)]_vars
  PROVE  MuldivInv'
<1>1. CASE UNCHANGED vars
  BY <1>1 DEF vars, MuldivInv, TypeOK, DivLoop, Loaded
<1> QED
  BY <1>1, MuldivInvStep

\* The initial state satisfies the invariant.
LEMMA InitKeepsInv ==
  ASSUME Init
  PROVE  MuldivInv
<1>1. 0 \in Vals /\ 0 \in 0 .. W - 1
  BY Sizes DEF Vals
<1>2. TypeOK
  BY <1>1 DEF Init, TypeOK, Request, Ops, MulOps
<1> QED
  BY <1>2 DEF Init, MuldivInv, DivLoop, Loaded

\* At every width, for every sequence of operations and resets, quotient and
\* remainder are those of the dividend bits consumed so far, and no register
\* overflows.
THEOREM MuldivDivLoop == Spec => [](TypeOK /\ DivLoop)
<1>1. Init => MuldivInv
  BY InitKeepsInv
<1>2. MuldivInv /\ [Next(Request)]_vars => MuldivInv'
  BY MuldivInvKept
<1>3. MuldivInv => TypeOK /\ DivLoop
  BY DEF MuldivInv
<1> QED
  BY <1>1, <1>2, <1>3, PTL DEF Spec

\* At every width no register of the unit overflows (three_sipp_es_muldiv.sv).
THEOREM MuldivTypeOK == Spec => []TypeOK
  BY MuldivDivLoop, PTL

----------------------------------------------------------------------------
(***************************************************************************)
(* The refinement of MdUnit.  First the arithmetic: quotients of integers, *)
(* and what is left of a number modulo the square of the word size.        *)
(***************************************************************************)

\* A quotient of integers is determined by the remainder being small enough.
LEMMA IntDivUnique ==
  ASSUME NEW m \in Int, NEW n \in Nat \ {0}, NEW q \in Int, NEW r \in Int,
         m = n * q + r, 0 <= r, r < n
  PROVE  m \div n = q /\ m % n = r
<1>1. m = n * (m \div n) + (m % n) /\ 0 <= m % n /\ m % n < n /\ m \div n \in Int /\ m % n \in Int
  OBVIOUS
<1>2. \A d \in Int, k \in Int, j \in Int, s \in Int :
         n * k + s = n * j + d /\ 0 <= d /\ 0 <= s /\ s < n /\ d < n => ~(k < j)
  <2> SUFFICES ASSUME NEW d \in Int, NEW k \in Int, NEW j \in Int, NEW s \in Int,
                      n * k + s = n * j + d, 0 <= d, 0 <= s, s < n, d < n, k < j
               PROVE  FALSE
    OBVIOUS
  <2>1. PICK e \in Nat : j = k + 1 + e
    <3>1. j - k - 1 \in Nat /\ j = k + 1 + (j - k - 1)
      OBVIOUS
    <3> QED
      BY <3>1
  <2>2. n * j = n * k + n + n * e
    BY <2>1
  <2>3. n * e \in Nat /\ n * k \in Int /\ n * j \in Int
    OBVIOUS
  <2> QED
    BY <2>2, <2>3
<1>3. ~(m \div n < q) /\ ~(q < m \div n)
  BY <1>1, <1>2
<1>4. m \div n = q
  BY <1>1, <1>3
<1> QED
  BY <1>1, <1>4

\* g is the size of two words of size f.
TwoWordSize(g, f) == g = f * f

\* m and n agree in their two lower words.
SameWords(m, n, g, f) == (m % g) \div f = (n \div f) % f /\ (m % g) % f = n % f

\* Dropping the part above two words does not change the two words.
LEMMA TwoWords ==
  ASSUME NEW f \in Nat \ {0}, NEW g \in Nat \ {0}, NEW n \in Int, NEW c \in Int, NEW m \in Int, m = n + g * c
  PROVE  TwoWordSize(g, f) => SameWords(m, n, g, f)
<1> SUFFICES ASSUME m = n + (f * f) * c
             PROVE  (m % (f * f)) \div f = (n \div f) % f /\ (m % (f * f)) % f = n % f
  BY Zenon DEF TwoWordSize, SameWords
<1> DEFINE q == n \div f
           r == n % f
           k == q \div f
           j == q % f
<1>1. q \in Int /\ r \in Int /\ n = f * q + r /\ 0 <= r /\ r < f
  OBVIOUS
<1>2. k \in Int /\ j \in Int /\ q = f * k + j /\ 0 <= j /\ j < f
  BY <1>1
<1> HIDE DEF q, r, k, j
<1>3. f * q = (f * f) * k + f * j
  BY <1>1, <1>2
<1>4. (f * f) * (k + c) = (f * f) * k + (f * f) * c
  BY <1>2
<1>5. m = (f * f) * (k + c) + (f * j + r)
  <2>1. f * j \in Int /\ (f * f) * k \in Int /\ (f * f) * c \in Int /\ f * q \in Int
    BY <1>1, <1>2
  <2> DEFINE x == (f * f) * k
             y == (f * f) * c
             z == f * j
             u == (f * f) * (k + c)
             v == f * q
  <2>2. v = x + z /\ u = x + y /\ n = v + r /\ m = n + y /\ x \in Int /\ y \in Int /\ z \in Int /\ v \in Int
    BY <1>1, <1>3, <1>4, <2>1
  <2> HIDE DEF x, y, z, u, v
  <2>3. m = u + (z + r)
    BY <1>1, <2>2
  <2> QED
    BY <2>3 DEF u, z
<1>6. 0 <= f * j + r /\ f * j + r < f * f
  <2>1. PICK e \in Nat : f = j + 1 + e
    <3>1. f - j - 1 \in Nat /\ f = j + 1 + (f - j - 1)
      BY <1>2
    <3> QED
      BY <3>1
  <2>2. f * f = f * j + f + f * e
    BY <1>2, <2>1
  <2>3. f * j \in Nat /\ f * e \in Nat
    BY <1>2
  <2> QED
    BY <1>1, <2>2, <2>3
<1>7. f * f \in Nat \ {0} /\ k + c \in Int /\ f * j + r \in Int
  BY <1>1, <1>2
<1>8. m % (f * f) = f * j + r
  <2> DEFINE h == f * f
             t == f * j + r
  <2>1. m = h * (k + c) + t /\ 0 <= t /\ t < h /\ h \in Nat \ {0} /\ t \in Int
    BY <1>5, <1>6, <1>7
  <2> HIDE DEF h, t
  <2>2. m % h = t
    BY <1>7, <2>1, IntDivUnique
  <2> QED
    BY <2>2 DEF h, t
<1>9. (f * j + r) \div f = j /\ (f * j + r) % f = r
  <2> DEFINE t == f * j + r
  <2>1. t = f * j + r /\ t \in Int
    BY <1>7
  <2> HIDE DEF t
  <2>2. t \div f = j /\ t % f = r
    BY <1>1, <1>2, <2>1, IntDivUnique
  <2> QED
    BY <2>2 DEF t
<1> QED
  BY <1>8, <1>9 DEF j, r, q

\* m and n agree in their lower word.
SameWord(m, n, f) == m % f = n % f

\* Nor does dropping the part above one word.
LEMMA OneWord ==
  ASSUME NEW f \in Nat \ {0}, NEW n \in Int, NEW c \in Int, NEW m \in Int, m = n + f * c
  PROVE  m % f = n % f
<1> DEFINE q == n \div f
           r == n % f
<1>1. q \in Int /\ r \in Int /\ n = f * q + r /\ 0 <= r /\ r < f
  OBVIOUS
<1> HIDE DEF q, r
<1>2. m = f * (q + c) + r /\ q + c \in Int
  BY <1>1
<1>3. m % f = r
  BY <1>1, <1>2, IntDivUnique
<1> QED
  BY <1>3 DEF r

\* p is the number x, or x and one g more.
Reads(p, x, g) == p = x \/ p = x + g

\* Products of such numbers are those of the numbers but for a multiple of g.
LEMMA Product ==
  ASSUME NEW g \in Nat, NEW x \in Int, NEW y \in Int, NEW p \in Int, NEW q \in Int,
         Reads(p, x, g), Reads(q, y, g)
  PROVE  \E c \in Int : p * q = x * y + g * c
<1>1. CASE p = x /\ q = y
  <2>1. x * y = x * y + g * 0
    OBVIOUS
  <2> QED
    BY <1>1, <2>1
<1>2. CASE p = x + g /\ q = y
  <2>1. (x + g) * y = x * y + g * y
    OBVIOUS
  <2> QED
    BY <1>2, <2>1
<1>3. CASE p = x /\ q = y + g
  <2>1. x * (y + g) = x * y + g * x
    OBVIOUS
  <2> QED
    BY <1>3, <2>1
<1>4. CASE p = x + g /\ q = y + g
  <2>1. (x + g) * (y + g) = x * y + g * (y + x + g)
    OBVIOUS
  <2>2. y + x + g \in Int
    OBVIOUS
  <2> QED
    BY <1>4, <2>1, <2>2
<1> QED
  BY <1>1, <1>2, <1>3, <1>4 DEF Reads

\* The lower word of a product does not depend on how its factors are read.
LEMMA LowWord ==
  ASSUME NEW f \in Nat \ {0}, NEW x \in Int, NEW y \in Int, NEW p \in Int, NEW q \in Int,
         Reads(p, x, f), Reads(q, y, f)
  PROVE  SameWord(p * q, x * y, f)
<1> DEFINE m == p * q
           n == x * y
<1>1. PICK c \in Int : m = n + f * c
  <2>1. f \in Nat
    OBVIOUS
  <2> QED
    BY <2>1, Product
<1>2. m \in Int /\ n \in Int
  OBVIOUS
<1> HIDE DEF m, n
<1>3. SameWord(m, n, f)
  BY <1>1, <1>2, OneWord DEF SameWord
<1> QED
  BY <1>3 DEF m, n

\* Nor do the two words of the product of factors extended to two words.
LEMMA BothWords ==
  ASSUME NEW f \in Nat \ {0}, NEW g \in Nat \ {0},
         NEW x \in Int, NEW y \in Int, NEW p \in Int, NEW q \in Int,
         Reads(p, x, g), Reads(q, y, g)
  PROVE  TwoWordSize(g, f) => SameWords(p * q, x * y, g, f)
<1> DEFINE m == p * q
           n == x * y
<1>1. PICK c \in Int : m = n + g * c
  BY Product
<1>2. m \in Int /\ n \in Int
  OBVIOUS
<1> HIDE DEF m, n
<1>3. TwoWordSize(g, f) => SameWords(m, n, g, f)
  BY <1>1, <1>2, TwoWords
<1> QED
  BY <1>3, Zenon DEF m, n

----------------------------------------------------------------------------
\* The M extension's value, operation by operation.
LEMMA ValueIs ==
  ASSUME NEW r
  PROVE  /\ r.op = "mul" => Value(r) = (r.a * r.b) % Full
         /\ r.op = "mulh" => Value(r) = ((Int2(r.a) * Int2(r.b)) \div Full) % Full
         /\ r.op = "mulhsu" => Value(r) = ((Int2(r.a) * r.b) \div Full) % Full
         /\ r.op = "mulhu" => Value(r) = (r.a * r.b) \div Full
         /\ r.op = "div" => Value(r) =
              IF r.b = 0 THEN Full - 1
              ELSE (IF (Int2(r.a) < 0) # (Int2(r.b) < 0) THEN 0 - (Abs(Int2(r.a)) \div Abs(Int2(r.b)))
                    ELSE Abs(Int2(r.a)) \div Abs(Int2(r.b))) % Full
         /\ r.op = "divu" => Value(r) = IF r.b = 0 THEN Full - 1 ELSE r.a \div r.b
         /\ r.op = "rem" => Value(r) =
              IF r.b = 0 THEN r.a
              ELSE (IF Int2(r.a) < 0 THEN 0 - (Abs(Int2(r.a)) % Abs(Int2(r.b)))
                    ELSE Abs(Int2(r.a)) % Abs(Int2(r.b))) % Full
         /\ r.op = "remu" => Value(r) = IF r.b = 0 THEN r.a ELSE r.a % r.b
<1>1. CASE r.op = "mul"
  BY <1>1, Zenon DEF Value
<1>2. CASE r.op = "mulh"
  BY <1>2, Zenon DEF Value
<1>3. CASE r.op = "mulhsu"
  BY <1>3, Zenon DEF Value
<1>4. CASE r.op = "mulhu"
  BY <1>4, Zenon DEF Value
<1>5. CASE r.op = "div"
  BY <1>5, Zenon DEF Value
<1>6. CASE r.op = "divu"
  BY <1>6, Zenon DEF Value
<1>7. CASE r.op = "rem"
  BY <1>7, Zenon DEF Value
<1>8. CASE r.op = "remu"
  BY <1>8, Zenon DEF Value
<1> QED
  BY <1>1, <1>2, <1>3, <1>4, <1>5, <1>6, <1>7, <1>8

\* A word, read as the number it means in two's complement, and its extension to
\* two words.
LEMMA Words ==
  ASSUME NEW x \in Vals
  PROVE  /\ Reads(x, Int2(x), Full) /\ Reads(SignExt(x), Int2(x), Full * Full)
         /\ Int2(x) \in Int /\ SignExt(x) \in Int /\ x \in Int
<1>1. x \in Nat /\ x < Full /\ Full \in Nat /\ Full >= 2
  BY Sizes DEF Vals
<1>2. Full * (Full - 1) = Full * Full - Full /\ Full * Full \in Nat
  BY <1>1
<1>3. CASE IsNeg(x)
  <2>1. Int2(x) = x - Full /\ SignExt(x) = x + Full * (Full - 1)
    BY <1>3 DEF Int2, SignExt
  <2> QED
    BY <1>1, <1>2, <2>1 DEF Reads
<1>4. CASE ~IsNeg(x)
  <2>1. Int2(x) = x /\ SignExt(x) = x
    BY <1>4 DEF Int2, SignExt
  <2> QED
    BY <1>1, <2>1 DEF Reads
<1> QED
  BY <1>3, <1>4

\* The product of two words fits in two.
LEMMA ProductFits ==
  ASSUME NEW f \in Nat \ {0}, NEW a \in Nat, NEW b \in Nat, a < f, b < f
  PROVE  a * b \in Nat /\ a * b < f * f /\ (a * b) % (f * f) = a * b
<1>1. PICK i \in Nat : f = a + 1 + i
  <2>1. f - a - 1 \in Nat /\ f = a + 1 + (f - a - 1)
    OBVIOUS
  <2> QED
    BY <2>1
<1>2. PICK k \in Nat : f = b + 1 + k
  <2>1. f - b - 1 \in Nat /\ f = b + 1 + (f - b - 1)
    OBVIOUS
  <2> QED
    BY <2>1
<1>3. f * f = a * f + f + i * f /\ a * f = a * b + a + a * k
  <2>1. f * f = (a + 1 + i) * f
    BY <1>1
  <2>2. a * f = a * (b + 1 + k)
    BY <1>2
  <2> QED
    BY <2>1, <2>2
<1>4. a * b \in Nat /\ a * k \in Nat /\ i * f \in Nat /\ f > 0 /\ f * f \in Nat
  OBVIOUS
<1> DEFINE n == a * b
           g == f * f
<1>5. n \in Nat /\ g \in Nat /\ n < g
  BY <1>3, <1>4
<1> HIDE DEF n, g
<1>6. n % g = n
  BY <1>5
<1> QED
  BY <1>5, <1>6 DEF n, g

\* The latched product is the value of each multiplication.
LEMMA MulValue ==
  ASSUME req \in Request, req.op \in MulOps
  PROVE  (IF req.op = "mul" THEN prod % Full ELSE prod \div Full) = Value(req)
<1>1. req.a \in Vals /\ req.b \in Vals /\ Full \in Nat \ {0}
  BY Sizes DEF Request
<1>2. /\ Reads(req.a, Int2(req.a), Full) /\ Reads(req.b, Int2(req.b), Full)
      /\ req.a \in Int /\ req.b \in Int /\ Int2(req.a) \in Int /\ Int2(req.b) \in Int
  BY <1>1, Words, Zenon
<1>3. /\ Reads(SignExt(req.a), Int2(req.a), Full * Full) /\ Reads(SignExt(req.b), Int2(req.b), Full * Full)
      /\ Reads(req.b, req.b, Full * Full) /\ SignExt(req.a) \in Int /\ SignExt(req.b) \in Int
  BY <1>1, Words, Zenon DEF Reads
<1> DEFINE ff == Full * Full
           ia == Int2(req.a)
           ib == Int2(req.b)
           sa == SignExt(req.a)
           sb == SignExt(req.b)
           a == req.a
           b == req.b
<1>a. /\ ff \in Nat \ {0} /\ TwoWordSize(ff, Full) /\ ia \in Int /\ ib \in Int /\ sa \in Int /\ sb \in Int
      /\ a \in Int /\ b \in Int
      /\ Reads(a, ia, Full) /\ Reads(b, ib, Full) /\ Reads(sa, ia, ff) /\ Reads(sb, ib, ff)
      /\ Reads(b, b, ff)
  BY <1>1, <1>2, <1>3 DEF TwoWordSize
<1>4. CASE req.op = "mul"
  <2>1. prod = (sa * sb) % ff
    BY <1>4 DEF prod
  <2>2. Value(req) = (a * b) % Full
    BY <1>4, ValueIs, Zenon
  <2> HIDE DEF ff, ia, ib, sa, sb, a, b
  <2>3. (a * b) % Full = (ia * ib) % Full
    <3>1. SameWord(a * b, ia * ib, Full)
      BY <1>1, <1>a, LowWord, Zenon
    <3> QED
      BY <3>1, Zenon DEF SameWord
  <2>4. ((sa * sb) % ff) % Full = (ia * ib) % Full
    <3>1. SameWords(sa * sb, ia * ib, ff, Full)
      BY <1>1, <1>a, BothWords, Zenon
    <3> QED
      BY <3>1, Zenon DEF SameWords
  <2> QED
    BY <1>4, <2>1, <2>2, <2>3, <2>4, Zenon
<1>5. CASE req.op = "mulh"
  <2>1. prod = (sa * sb) % ff
    BY <1>5 DEF prod
  <2>2. Value(req) = ((ia * ib) \div Full) % Full /\ req.op # "mul"
    BY <1>5, ValueIs
  <2> HIDE DEF ff, ia, ib, sa, sb, a, b
  <2>3. ((sa * sb) % ff) \div Full = ((ia * ib) \div Full) % Full
    <3>1. SameWords(sa * sb, ia * ib, ff, Full)
      BY <1>1, <1>a, BothWords, Zenon
    <3> QED
      BY <3>1, Zenon DEF SameWords
  <2> QED
    BY <2>1, <2>2, <2>3, Zenon
<1>6. CASE req.op = "mulhsu"
  <2>1. prod = (sa * b) % ff
    BY <1>6 DEF prod
  <2>2. Value(req) = ((ia * b) \div Full) % Full /\ req.op # "mul"
    BY <1>6, ValueIs
  <2> HIDE DEF ff, ia, ib, sa, sb, a, b
  <2>3. ((sa * b) % ff) \div Full = ((ia * b) \div Full) % Full
    <3>1. SameWords(sa * b, ia * b, ff, Full)
      BY <1>1, <1>a, BothWords, Zenon
    <3> QED
      BY <3>1, Zenon DEF SameWords
  <2> QED
    BY <2>1, <2>2, <2>3, Zenon
<1>7. CASE req.op = "mulhu"
  <2>1. prod = (req.a * req.b) % (Full * Full)
    BY <1>7 DEF prod
  <2>2. req.a \in Nat /\ req.a < Full /\ req.b \in Nat /\ req.b < Full
    BY <1>1, Sizes DEF Vals
  <2>3. prod = req.a * req.b
    BY <1>1, <2>1, <2>2, ProductFits, Zenon
  <2>4. Value(req) = (req.a * req.b) \div Full /\ req.op # "mul"
    BY <1>7, ValueIs
  <2> QED
    BY <2>3, <2>4, Zenon
<1> QED
  BY <1>4, <1>5, <1>6, <1>7 DEF MulOps

\* The magnitude the divider is loaded with is the absolute value.
LEMMA MagIsAbs ==
  ASSUME NEW o, NEW x \in Vals
  PROVE  /\ Signed(o) => Mag(o, x) = Abs(Int2(x))
         /\ ~Signed(o) => Mag(o, x) = x
         /\ (Int2(x) < 0) = IsNeg(x)
<1>1. x \in Nat /\ x < Full /\ Full \in Nat /\ Half \in Nat \ {0}
  BY Sizes DEF Vals
<1>2. CASE IsNeg(x)
  <2>1. Neg(x) = Full - x
    BY <1>1, <1>2, NegType DEF IsNeg
  <2>2. Int2(x) = x - Full
    BY <1>2 DEF Int2
  <2>3. Int2(x) < 0 /\ Abs(Int2(x)) = Full - x
    BY <1>1, <2>2 DEF Abs
  <2> QED
    BY <1>2, <2>1, <2>3 DEF Mag
<1>3. CASE ~IsNeg(x)
  <2>1. Int2(x) = x
    BY <1>3 DEF Int2
  <2>2. ~(Int2(x) < 0) /\ Abs(Int2(x)) = x
    BY <1>1, <2>1 DEF Abs
  <2>3. Mag(o, x) = x
    BY <1>3, Zenon DEF Mag
  <2>4. (Int2(x) < 0) = IsNeg(x)
    BY <1>1, <1>3, <2>1 DEF IsNeg
  <2> QED
    BY <2>2, <2>3, <2>4, Zenon
<1> QED
  BY <1>2, <1>3

\* Negating a word and negating the number it is agree in the word.
LEMMA NegIsMinus ==
  ASSUME NEW n \in Vals
  PROVE  (0 - n) % Full = Neg(n) /\ n % Full = n
<1>1. n \in Nat /\ n < Full /\ Full \in Nat \ {0} /\ 0 - n \in Int /\ Full - n \in Int
  BY Sizes DEF Vals
<1> DEFINE m == Full - n
           k == 0 - n
<1>2. m = k + Full * 1 /\ m \in Int /\ k \in Int /\ 1 \in Int /\ n % Full = n
  BY <1>1
<1> HIDE DEF m, k
<1>3. m % Full = k % Full
  BY <1>1, <1>2, OneWord
<1> QED
  BY <1>2, <1>3, Zenon DEF Neg, m, k

\* What the loop ends with, the sign put right, is the value of each division.
LEMMA DivValue ==
  ASSUME MuldivInv, state = "S_FIN"
  PROVE  final = Value(req)
<1> DEFINE q == div.quotient
           r == div.rem
           n == Mag(req.op, req.a)
           d == Mag(req.op, req.b)
<1>1. /\ req.a \in Vals /\ req.b \in Vals /\ q \in Vals /\ r \in Vals /\ n \in Vals /\ d \in Vals
      /\ req.op \in DivOps /\ req.b # 0
      /\ div.neg_quot = (req.op = "div" /\ IsNeg(req.a) # IsNeg(req.b))
      /\ div.neg_rem = (req.op = "rem" /\ IsNeg(req.a))
      /\ ~div.by_zero /\ div.dividend = n /\ div.divisor = d
  BY DEF MuldivInv, TypeOK, Loaded, Request
<1>2. q * d + r = n /\ r < d
  BY <1>1 DEF MuldivInv, DivLoop
<1>3. q \in Nat /\ r \in Nat /\ n \in Nat /\ d \in Nat /\ r < Full /\ Full \in Nat \ {0}
  BY <1>1, Sizes DEF Vals
<1>4. n \div d = q /\ n % d = r
  <2> HIDE DEF q, r, n, d
  <2>1. d \in Nat \ {0} /\ n = d * q + r
    BY <1>2, <1>3
  <2> QED
    BY <1>2, <1>3, <2>1, DivUnique
<1>5. rem_lo = r
  BY <1>3 DEF rem_lo
<1>6. /\ (0 - q) % Full = Neg(q) /\ q % Full = q
      /\ (0 - r) % Full = Neg(r) /\ r % Full = r
  BY <1>1, NegIsMinus
<1>7. /\ (Int2(req.a) < 0) = IsNeg(req.a) /\ (Int2(req.b) < 0) = IsNeg(req.b)
      /\ Signed(req.op) => n = Abs(Int2(req.a)) /\ d = Abs(Int2(req.b))
      /\ ~Signed(req.op) => n = req.a /\ d = req.b
  BY <1>1, MagIsAbs
<1>8. CASE req.op = "div"
  <2>1. Value(req) = (IF IsNeg(req.a) # IsNeg(req.b) THEN 0 - q ELSE q) % Full
    <3>1. Value(req) = (IF (Int2(req.a) < 0) # (Int2(req.b) < 0)
                        THEN 0 - (Abs(Int2(req.a)) \div Abs(Int2(req.b)))
                        ELSE Abs(Int2(req.a)) \div Abs(Int2(req.b))) % Full
      BY <1>1, <1>8, ValueIs, Zenon
    <3>2. Signed(req.op)
      BY <1>8 DEF Signed
    <3> HIDE DEF q, r, n, d
    <3> QED
      BY <1>4, <1>7, <3>1, <3>2, Zenon
  <2>2. final = IF IsNeg(req.a) # IsNeg(req.b) THEN Neg(q) ELSE q
    BY <1>1, <1>8, Zenon DEF final
  <2> HIDE DEF q
  <2> QED
    BY <1>6, <2>1, <2>2, Zenon
<1>9. CASE req.op = "rem"
  <2>1. Value(req) = (IF IsNeg(req.a) THEN 0 - r ELSE r) % Full
    <3>1. Value(req) = (IF Int2(req.a) < 0
                        THEN 0 - (Abs(Int2(req.a)) % Abs(Int2(req.b)))
                        ELSE Abs(Int2(req.a)) % Abs(Int2(req.b))) % Full
      BY <1>1, <1>9, ValueIs, Zenon
    <3>2. Signed(req.op)
      BY <1>9 DEF Signed
    <3> HIDE DEF q, r, n, d
    <3> QED
      BY <1>4, <1>7, <3>1, <3>2, Zenon
  <2>2. req.op # "div" /\ req.op # "divu"
    BY <1>9
  <2>3. final = IF IsNeg(req.a) THEN Neg(r) ELSE r
    BY <1>1, <1>5, <1>9, <2>2, Zenon DEF final
  <2> HIDE DEF r
  <2> QED
    BY <1>6, <2>1, <2>3, Zenon
<1>10. CASE req.op = "divu"
  <2>1. ~Signed(req.op) /\ req.op # "div" /\ req.op # "rem"
    BY <1>10 DEF Signed
  <2>2. Value(req) = req.a \div req.b
    BY <1>1, <1>10, ValueIs, Zenon
  <2>3. final = q
    BY <1>10, <2>1, Zenon DEF final
  <2> HIDE DEF q, r, n, d
  <2> QED
    BY <1>4, <1>7, <2>1, <2>2, <2>3, Zenon
<1>11. CASE req.op = "remu"
  <2>1. ~Signed(req.op) /\ req.op # "div" /\ req.op # "rem" /\ req.op # "divu"
    BY <1>11 DEF Signed
  <2>2. Value(req) = req.a % req.b
    BY <1>1, <1>11, ValueIs, Zenon
  <2>3. final = r
    BY <1>5, <2>1, Zenon DEF final
  <2> HIDE DEF q, r, n, d
  <2> QED
    BY <1>4, <1>7, <2>1, <2>2, <2>3, Zenon
<1> QED
  BY <1>1, <1>8, <1>9, <1>10, <1>11 DEF DivOps

\* The two special cases of a division answer with its value.
LEMMA SpecialValue ==
  ASSUME MuldivInv, state = "S_DIV"
  PROVE  /\ div.by_zero => (IF req.op \in {"div", "divu"} THEN Full - 1 ELSE req.a) = Value(req)
         /\ ~div.by_zero /\ div.overflow => (IF req.op = "div" THEN Half ELSE 0) = Value(req)
<1>1. /\ req.op \in DivOps /\ req.a \in Vals /\ req.b \in Vals
      /\ div.by_zero = (req.b = 0) /\ div.overflow = Overflows(req)
  BY DEF MuldivInv, TypeOK, Loaded, Request
<1>2. ASSUME div.by_zero
      PROVE  (IF req.op \in {"div", "divu"} THEN Full - 1 ELSE req.a) = Value(req)
  <2>1. req.b = 0
    BY <1>1, <1>2
  <2>2. CASE req.op = "div"
    BY <2>1, <2>2, ValueIs, Zenon
  <2>3. CASE req.op = "divu"
    BY <2>1, <2>3, ValueIs, Zenon
  <2>4. CASE req.op = "rem"
    <3>1. req.op \notin {"div", "divu"}
      BY <2>4
    <3> QED
      BY <2>1, <2>4, <3>1, ValueIs, Zenon
  <2>5. CASE req.op = "remu"
    <3>1. req.op \notin {"div", "divu"}
      BY <2>5
    <3> QED
      BY <2>1, <2>5, <3>1, ValueIs, Zenon
  <2> QED
    BY <1>1, <2>2, <2>3, <2>4, <2>5 DEF DivOps
<1>3. ASSUME ~div.by_zero, div.overflow
      PROVE  (IF req.op = "div" THEN Half ELSE 0) = Value(req)
  <2>1. req.op \in {"div", "rem"} /\ req.a = Half /\ req.b = Full - 1 /\ req.b # 0
    BY <1>1, <1>3 DEF Overflows, Signed
  <2>2. Full \in Nat /\ Half \in Nat \ {0} /\ Full = 2 * Half
    BY Sizes
  <2>3. Int2(req.a) = 0 - Half /\ Int2(req.b) = 0 - 1
    <3>1. IsNeg(req.a) /\ IsNeg(req.b)
      BY <2>1, <2>2 DEF IsNeg
    <3> QED
      BY <2>1, <2>2, <3>1 DEF Int2
  <2>4. /\ Int2(req.a) < 0 /\ Int2(req.b) < 0
        /\ Abs(Int2(req.a)) = Half /\ Abs(Int2(req.b)) = 1
    BY <2>2, <2>3 DEF Abs
  <2>5. Half \div 1 = Half /\ Half % 1 = 0 /\ Half % Full = Half /\ (0 - 0) % Full = 0
    BY <2>2
  <2>6. CASE req.op = "div"
    <3>1. Value(req) = (IF (Int2(req.a) < 0) # (Int2(req.b) < 0)
                        THEN 0 - (Abs(Int2(req.a)) \div Abs(Int2(req.b)))
                        ELSE Abs(Int2(req.a)) \div Abs(Int2(req.b))) % Full
      BY <2>1, <2>6, ValueIs, Zenon
    <3> QED
      BY <2>4, <2>5, <2>6, <3>1, Zenon
  <2>7. CASE req.op = "rem"
    <3>1. Value(req) = (IF Int2(req.a) < 0
                        THEN 0 - (Abs(Int2(req.a)) % Abs(Int2(req.b)))
                        ELSE Abs(Int2(req.a)) % Abs(Int2(req.b))) % Full
      BY <2>1, <2>7, ValueIs, Zenon
    <3>2. req.op # "div"
      BY <2>7
    <3> QED
      BY <2>4, <2>5, <3>1, <3>2, Zenon
  <2> QED
    BY <2>1, <2>6, <2>7
<1> QED
  BY <1>2, <1>3

----------------------------------------------------------------------------
(***************************************************************************)
(* The simulation: the cycles left and the answer, as MdUnit counts them.  *)
(***************************************************************************)
Left == CASE state = "S_IDLE" -> 0
          [] state = "S_DIV" -> IF div.by_zero \/ div.overflow THEN 1 ELSE div.bit + 2
          [] OTHER -> 1
Answer == IF done THEN result ELSE Value(req)

\* A "done" comes with the value of the operation, and the unit is idle.
AnswerRight == done => state = "S_IDLE" /\ result = Value(req)

\* The cycles left, state by state.
LEMMA LeftIs ==
  /\ state = "S_IDLE" => Left = 0
  /\ state = "S_DIV" => Left = IF div.by_zero \/ div.overflow THEN 1 ELSE div.bit + 2
  /\ state \in {"S_MUL", "S_FIN"} => Left = 1
<1>1. CASE state = "S_IDLE"
  BY <1>1, Zenon DEF Left
<1>2. CASE state = "S_DIV"
  <2>1. state # "S_IDLE" /\ state \notin {"S_MUL", "S_FIN"}
    BY <1>2
  <2> QED
    BY <1>2, <2>1, Zenon DEF Left
<1>3. CASE state \in {"S_MUL", "S_FIN"}
  <2>1. state # "S_IDLE" /\ state # "S_DIV"
    BY <1>3
  <2> QED
    BY <2>1, Zenon DEF Left
<1> QED
  BY <1>1, <1>2, <1>3

\* The same after a step.
LEMMA LeftIsNext ==
  /\ state' = "S_IDLE" => Left' = 0
  /\ state' = "S_DIV" => Left' = IF div'.by_zero \/ div'.overflow THEN 1 ELSE div'.bit + 2
  /\ state' \in {"S_MUL", "S_FIN"} => Left' = 1
<1>1. CASE state' = "S_IDLE"
  BY <1>1, Zenon DEF Left
<1>2. CASE state' = "S_DIV"
  <2>1. state' # "S_IDLE" /\ state' \notin {"S_MUL", "S_FIN"}
    BY <1>2
  <2> QED
    BY <1>2, <2>1, Zenon DEF Left
<1>3. CASE state' \in {"S_MUL", "S_FIN"}
  <2>1. state' # "S_IDLE" /\ state' # "S_DIV"
    BY <1>3
  <2> QED
    BY <2>1, Zenon DEF Left
<1> QED
  BY <1>1, <1>2, <1>3

\* A step that ends an operation ends it with its value.
LEMMA FinishAnswers ==
  ASSUME MuldivInv, Mul \/ DivByZero \/ DivOverflow \/ Fin
  PROVE  Left = 1 /\ Finish(Value(req))
<1>1. CASE Mul
  <2>1. req \in Request /\ req.op \in MulOps /\ state = "S_MUL"
    BY <1>1 DEF Mul, MuldivInv, TypeOK, Loaded
  <2>2. Left = 1
    BY <2>1, LeftIs
  <2> QED
    BY <1>1, <2>1, <2>2, MulValue, Zenon DEF Mul
<1>2. CASE DivByZero
  <2>1. state = "S_DIV" /\ div.by_zero
    BY <1>2 DEF DivByZero
  <2>2. Left = 1
    BY <2>1, LeftIs
  <2> QED
    BY <1>2, <2>1, <2>2, SpecialValue, Zenon DEF DivByZero
<1>3. CASE DivOverflow
  <2>1. state = "S_DIV" /\ ~div.by_zero /\ div.overflow
    BY <1>3 DEF DivOverflow
  <2>2. Left = 1
    BY <2>1, LeftIs
  <2> QED
    BY <1>3, <2>1, <2>2, SpecialValue, Zenon DEF DivOverflow
<1>4. CASE Fin
  <2>1. state = "S_FIN"
    BY <1>4 DEF Fin
  <2>2. Left = 1
    BY <2>1, LeftIs
  <2> QED
    BY <1>4, <2>1, <2>2, DivValue, Zenon DEF Fin
<1> QED
  BY <1>1, <1>2, <1>3, <1>4

\* Every clock edge keeps the answer right.
LEMMA AnswerRightStep ==
  ASSUME MuldivInv, AnswerRight, [Next(Request)]_vars
  PROVE  AnswerRight'
<1>1. CASE \E r \in Request : Start(r)
  BY <1>1, Zenon DEF Start, AnswerRight
<1>2. CASE Idle \/ DivStep \/ Reset
  BY <1>2, Zenon DEF Idle, DivStep, Reset, AnswerRight
<1>3. CASE Mul \/ DivByZero \/ DivOverflow \/ Fin
  <2>1. Finish(Value(req))
    BY <1>3, FinishAnswers
  <2>2. state' = "S_IDLE" /\ result' = Value(req) /\ req' = req
    BY <2>1 DEF Finish
  <2>3. Value(req)' = Value(req)
    BY <2>2, Zenon DEF Value
  <2> QED
    BY <2>2, <2>3, Zenon DEF AnswerRight
<1>4. CASE UNCHANGED vars
  <2>1. Value(req)' = Value(req)
    BY <1>4, Zenon DEF Value, vars
  <2> QED
    BY <1>4, <2>1, Zenon DEF vars, AnswerRight
<1> QED
  BY <1>1, <1>2, <1>3, <1>4 DEF Next, Clock

\* Each clock edge is a step of MdUnit: a start loads the latency and the value
\* of the operation, any other edge counts one cycle down.
LEMMA StepIsUnitStep ==
  ASSUME MuldivInv, AnswerRight, [Next(Request)]_vars
  PROVE  [Unit!Next]_(Unit!vars)
<1>1. AnswerRight'
  BY AnswerRightStep
<1>2. Answer = Value(req) /\ Answer' = Value(req')
  <2>1. Value(req)' = Value(req')
    BY Zenon DEF Value
  <2> QED
    BY <1>1, <2>1, Zenon DEF Answer, AnswerRight
<1>3. CASE \E r \in Request : Start(r)
  <2>1. PICK r \in Request : Start(r)
    BY <1>3
  <2>2. Left = 0 /\ req' = r /\ done' = FALSE
    BY <2>1, LeftIs, Zenon DEF Start
  <2>3. Left' = Latency(r)
    <3>1. CASE r.op \in MulOps
      <4>1. state' = "S_MUL"
        BY <2>1, <3>1, Zenon DEF Start
      <4> QED
        BY <3>1, <4>1, LeftIsNext DEF Latency
    <3>2. CASE r.op \notin MulOps
      <4>1. /\ state' = "S_DIV" /\ div'.by_zero = (r.b = 0) /\ div'.overflow = Overflows(r)
            /\ div'.bit = W - 1
        BY <2>1, <3>2 DEF Start
      <4>2. W - 1 + 2 = W + 1
        BY Sizes
      <4>3. Left' = IF r.b = 0 \/ Overflows(r) THEN 1 ELSE W - 1 + 2
        BY <4>1, LeftIsNext, Zenon
      <4> QED
        BY <3>2, <4>2, <4>3, Zenon DEF Latency
    <3> QED
      BY <3>1, <3>2
  <2>4. Left = 0 /\ req' \in Request /\ Left' = Latency(req') /\ done' = FALSE /\ Answer' = Value(req')
    BY <1>2, <2>2, <2>3, Zenon
  <2>5. Unit!Start
    BY <2>4, Zenon DEF Unit!Start, Left, Answer
  <2> QED
    BY <2>5, Zenon DEF Unit!Next
<1>4. CASE Idle \/ DivStep \/ Mul \/ DivByZero \/ DivOverflow \/ Fin
  <2>1. /\ req' = req
        /\ Left' = IF Left = 0 THEN 0 ELSE Left - 1
        /\ done' = (Left = 1)
    <3>1. CASE Idle
      <4>1. Left = 0 /\ Left' = 0 /\ req' = req /\ done' = FALSE
        BY <3>1, LeftIs, LeftIsNext, Zenon DEF Idle
      <4>2. Left # 1
        BY <4>1
      <4> QED
        BY <4>1, <4>2, Zenon
    <3>2. CASE DivStep
      <4>1. /\ state = "S_DIV" /\ ~div.by_zero /\ ~div.overflow /\ req' = req /\ done' = FALSE
            /\ state' = (IF LastBit THEN "S_FIN" ELSE state)
            /\ div'.by_zero = div.by_zero /\ div'.overflow = div.overflow /\ div'.bit = NextBit
            /\ div.bit \in 0 .. W - 1
        <5>1. div \in DivType
          BY DEF MuldivInv, TypeOK, DivType
        <5> QED
          BY <3>2, <5>1 DEF DivStep, DivType
      <4>2. Left = div.bit + 2
        BY <4>1, LeftIs, Zenon
      <4>3. CASE LastBit
        <5>1. Left' = 1 /\ div.bit = 0
          BY <4>1, <4>3, LeftIsNext DEF LastBit
        <5>2. Left # 0 /\ Left # 1 /\ Left' = Left - 1
          BY <4>2, <5>1
        <5> QED
          BY <4>1, <5>2, Zenon
      <4>4. CASE ~LastBit
        <5>1. Left' = div.bit - 1 + 2
          <6>1. NextBit = div.bit - 1 /\ state' = "S_DIV"
            BY <4>1, <4>4, Zenon DEF NextBit
          <6> QED
            BY <4>1, <6>1, LeftIsNext, Zenon
        <5>2. div.bit # 0 /\ Left # 0 /\ Left # 1 /\ Left' = Left - 1
          BY <4>1, <4>2, <4>4, <5>1, Sizes DEF LastBit
        <5> QED
          BY <4>1, <5>2, Zenon
      <4> QED
        BY <4>3, <4>4
    <3>3. CASE Mul \/ DivByZero \/ DivOverflow \/ Fin
      <4>1. Left = 1 /\ Finish(Value(req))
        BY <3>3, FinishAnswers
      <4>2. state' = "S_IDLE" /\ req' = req /\ done' = TRUE
        BY <4>1 DEF Finish
      <4>3. Left' = 0
        BY <4>2, LeftIsNext
      <4>4. Left # 0 /\ Left - 1 = 0
        BY <4>1
      <4> QED
        BY <4>1, <4>2, <4>3, <4>4, Zenon
    <3> QED
      BY <1>4, <3>1, <3>2, <3>3
  <2>2. Answer' = Answer
    BY <1>2, <2>1, Zenon
  <2>3. Unit!Tick
    BY <2>1, <2>2, Zenon DEF Unit!Tick, Left, Answer
  <2> QED
    BY <2>3, Zenon DEF Unit!Next
<1>5. CASE Reset
  <2>1. state' = "S_IDLE" /\ done' = FALSE /\ req' = req
    BY <1>5 DEF Reset
  <2>2. Left' = 0 /\ Answer' = Answer
    BY <1>2, <2>1, LeftIsNext, Zenon
  <2>3. Unit!Reset
    BY <2>1, <2>2, Zenon DEF Unit!Reset, Left, Answer
  <2> QED
    BY <2>3, Zenon DEF Unit!Next
<1>6. CASE UNCHANGED vars
  <2>1. Left' = Left /\ Answer' = Answer /\ req' = req /\ done' = done
    BY <1>2, <1>6, Zenon DEF vars, Left
  <2>2. UNCHANGED Unit!vars
    BY <2>1, Zenon DEF Unit!vars, Left, Answer
  <2> QED
    BY <2>2
<1> QED
  BY <1>3, <1>4, <1>5, <1>6 DEF Next, Clock

\* At every width the unit implements what the pipeline relies on
\* (three_sipp_es_muldiv.sv): an operation is answered once, after the latency of
\* its operands, with the value the M extension defines.
THEOREM MuldivImplementsUnit == Spec => ImplementsUnit
<1>1. Init => MuldivInv /\ AnswerRight /\ Unit!Init
  <2> SUFFICES ASSUME Init PROVE MuldivInv /\ AnswerRight /\ Unit!Init
    OBVIOUS
  <2>1. MuldivInv
    BY InitKeepsInv
  <2>2. req \in Request /\ Left = 0 /\ done = FALSE /\ Answer = Value(req)
    BY <2>1, LeftIs, Zenon DEF Init, MuldivInv, TypeOK, Answer
  <2>3. Unit!Init
    BY <2>2, Zenon DEF Unit!Init, Left, Answer
  <2> QED
    BY <2>1, <2>2, <2>3 DEF AnswerRight
<1>2. MuldivInv /\ AnswerRight /\ [Next(Request)]_vars => MuldivInv' /\ AnswerRight'
  BY MuldivInvKept, AnswerRightStep
<1>3. MuldivInv /\ AnswerRight /\ [Next(Request)]_vars => [Unit!Next]_(Unit!vars)
  BY StepIsUnitStep
<1> QED
  BY <1>1, <1>2, <1>3, PTL DEF Spec, ImplementsUnit, Unit!Spec
=============================================================================
