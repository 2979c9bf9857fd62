------------------------------ MODULE UartProofs ----------------------------
(***************************************************************************)
(* What TLAPS proves about Uart, for every length of a frame, every rate   *)
(* and every software: its flags hide nothing, and the receiver completes  *)
(* the bytes that were loaded, once each and in their order.               *)
(***************************************************************************)
EXTENDS Uart, SequenceTheorems, TLAPS

\* An edge that takes the flags and the history along keeps them in step,
\* whatever software reads in it and whether or not a byte completes.
LEMMA EdgeHidesNothing ==
  ASSUME NothingMissed, NEW send, NEW read, Flags(read), History(send, read)
  PROVE  NothingMissed'
<1>1. rx_ready_q' = unread'
  BY Zenon DEF Flags, History, NothingMissed
<1>2. ASSUME lost'
      PROVE  rx_overrun_q'
  <2>1. CASE Completes /\ unread /\ read # "data"
    <3>1. rx_ready_q
      BY <2>1, Zenon DEF NothingMissed
    <3> QED
      BY <2>1, <3>1, Zenon DEF Flags
  <2>2. CASE lost /\ ~(read = "status" /\ rx_overrun_q)
    <3>1. rx_overrun_q
      BY <2>2, Zenon DEF NothingMissed
    <3> QED
      BY <2>2, <3>1, Zenon DEF Flags
  <2> QED
    BY <1>2, <2>1, <2>2, Zenon DEF History
<1> QED
  BY <1>1, <1>2, Zenon DEF NothingMissed

\* At every rate and for every software, a byte that waits shows as ready and
\* one that was lost shows as overrun until the status has been read
\* (three_sipp_es_uart.sv).
THEOREM UartNothingMissed == Spec => []NothingMissed
<1>1. Init => NothingMissed
  BY Zenon DEF Init, NothingMissed
<1>2. NothingMissed /\ [Next]_vars => NothingMissed'
  <2> SUFFICES ASSUME NothingMissed, [Next]_vars PROVE NothingMissed'
    OBVIOUS
  <2>1. CASE Clock
    BY <2>1, EdgeHidesNothing, Zenon DEF Clock
  <2>2. CASE SetBaud
    BY <2>2, EdgeHidesNothing, Zenon DEF SetBaud
  <2>3. CASE Reset
    BY <2>3, Zenon DEF Reset, NothingMissed
  <2>4. CASE UNCHANGED vars
    BY <2>4, Zenon DEF vars, flags, NothingMissed
  <2> QED
    BY <2>1, <2>2, <2>3, <2>4 DEF Next
<1> QED
  BY <1>1, <1>2, PTL DEF Spec

-----------------------------------------------------------------------------
\* The bits of a frame, and the time the receiver waits beyond its first bit.
Frame(w) == <<0>> \o w \o <<1>>
Half == baud_div \div 2

\* Bit b may be on the line x clocks after the start bit of w, where the
\* sender's bits are D clocks long and the next frame waits at least d more.
On(w, d, D, x, b) ==
    /\ x < 0 => b = 1
    /\ \A k \in 0 .. Bits : k * D <= x /\ x < (k + 1) * D => b = Frame(w)[k + 1]
    /\ (Bits + 1) * D <= x /\ x <= (Bits + 1) * D + d => b = 1

\* When the stop bit begins, and what the receiver's two samples of the line may
\* be x clocks after the start bit.
End(D) == (Bits + 1) * D
Taps(w, D, x) == On(w, baud_div, D, x - 1, rx_sync[1]) /\ On(w, baud_div, D, x - 2, rx_sync[2])

\* The transmitter: the bits it has sent, the clocks since its start bit, and
\* its three phases.
TxSent == Bits + 2 - tx.bits
TxAge == TxSent * (baud_div + skew) - 1 - tx.cnt
TxHolds(w) ==
    /\ tx.busy /\ w \in Byte /\ tx.bits \in 1 .. Bits + 2 /\ tx.shift \in [1 .. Bits + 2 -> {0, 1}]
    /\ \A i \in 1 .. tx.bits : tx.shift[i] = Frame(w)[TxSent + i]
    /\ skew \in Skews(baud_div)
Loaded(w) == TxHolds(w) /\ TxSent = 0 /\ tx.cnt \in 0 .. baud_div - 1 /\ serial_tx = 1
Started(w) ==
    /\ TxHolds(w) /\ TxSent > 0 /\ tx.cnt \in 0 .. baud_div + skew - 1 /\ serial_tx = Frame(w)[TxSent]
Free == ~tx.busy /\ serial_tx = 1

\* The receiver: the bits it has sampled, and the clocks since the start bit of
\* the byte it receives.
RxSampled == Bits - rx.bits
RxAge == Half + (RxSampled + 1) * baud_div + 2 - rx.cnt

\* Between two bytes; in the last case the start bit is on its way to the tap
\* that the receiver looks at.
High == rx_sync[1] = 1 /\ rx_sync[2] = 1
Listening ==
    \/ line = <<>> /\ Free /\ High
    \/ \E w \in Byte : line = <<w>> /\ Loaded(w) /\ High
    \/ \E w \in Byte : line = <<w>> /\ Started(w) /\ TxAge <= 2 /\ Taps(w, baud_div + skew, TxAge)

\* What the transmitter does e clocks after the start bit of w, sent with skew
\* s, where q has been loaded after it: it sends w still, it is free, or it
\* waits with or sends the next byte, whose start bit the receiver does not see
\* before it has completed w.
Ahead(w, s, e, q) ==
    \/ q = <<>> /\ Started(w) /\ skew = s /\ TxAge = e /\ e < End(baud_div + s)
    \/ q = <<>> /\ Free /\ e >= End(baud_div + s) /\ (e > End(baud_div + s) => rx_sync[1] = 1)
    \/ \E v \in Byte :
        q = <<v>> /\ Loaded(v) /\ e >= End(baud_div + s) + baud_div - tx.cnt /\ rx_sync[1] = 1
    \/ \E v \in Byte :
        /\ q = <<v>> /\ Started(v) /\ e >= End(baud_div + s) + baud_div + 1 + TxAge
        /\ Taps(v, baud_div + skew, TxAge)

\* The bits of w the receiver has sampled are at the end of its register.
Sampled(w) ==
    /\ rx.bits \in 0 .. Bits /\ rx.cnt \in Nat
    /\ \A i \in 1 .. RxSampled : rx.shift[rx.bits + i] = w[i]

\* The receiver is within a byte; the line may already carry the next.
Receiving ==
    \E w \in Byte, s \in Skews(baud_div), q \in {<<>>} \cup {<<v>> : v \in Byte} :
        line = <<w>> \o q /\ Sampled(w) /\ Taps(w, baud_div + s, RxAge) /\ Ahead(w, s, RxAge, q)

\* The fields of the two records.
Shapes ==
    /\ DOMAIN tx = {"shift", "bits", "cnt", "busy"}
    /\ DOMAIN rx = {"shift", "bits", "cnt", "busy", "data"} /\ rx.busy \in BOOLEAN /\ rx.shift \in Byte

\* The inductive invariant.
Reception ==
    /\ Shapes
    /\ line # <<>> => baud_div \in Rates
    /\ rx.busy => Receiving
    /\ ~rx.busy => Listening

\* Frames of two bits or more; the code's have eight, and count modulo 2^16.
Sizes == Bits \in Nat /\ Bits >= 2 /\ CountMod \in Nat

\* What the counters' arithmetic comes to within their range.
LEMMA ModSmall == ASSUME NEW m \in Nat, NEW n \in Nat, m < n PROVE m % n = m
OBVIOUS

\* A counter that is loaded for n clocks, n within its range, holds n - 1.
LEMMA WaitValue ==
  ASSUME Sizes, NEW n \in 1 .. CountMod
  PROVE  Wait(n) = n - 1
BY ModSmall DEF Wait, Sizes

\* Multiplication by a bit's length, of which the prover is told no more than
\* these facts.
LEMMA Split == ASSUME NEW k \in Int, NEW d \in Int, NEW s \in Int PROVE k * (d + s) = k * d + k * s
OBVIOUS

\* One bit more is one length more.
LEMMA NextMul == ASSUME NEW k \in Int, NEW d \in Int PROVE (k + 1) * d = k * d + d
OBVIOUS

\* More bits take no less time.
LEMMA MulMono ==
  ASSUME NEW i \in Int, NEW j \in Int, NEW d \in Nat, i <= j
  PROVE  i * d <= j * d
<1>1. PICK n \in Nat : j = i + n
  <2>1. j - i \in Nat /\ j = i + (j - i)
    OBVIOUS
  <2> QED
    BY <2>1
<1>2. n * d \in Nat
  OBVIOUS
<1>3. j * d = i * d + n * d
  BY <1>1
<1> QED
  BY <1>2, <1>3

\* What the tolerated skews come to over a frame.
LEMMA SkewFacts ==
  ASSUME Sizes, NEW d \in Rates, NEW s \in Skews(d)
  PROVE  /\ d \in 1 .. CountMod - 1 /\ d + d \div 2 \in 1 .. CountMod /\ d \div 2 \in Nat
         /\ s \in {-1, 0, 1} /\ d + s \in 1 .. CountMod
         /\ \A m \in 0 .. Bits : (m + 1) * (d + s) <= (m + 1) * d + d \div 2
         /\ \A m \in 0 .. Bits - 1 : (m + 1) * d + d \div 2 < (m + 2) * (d + s)
         /\ (Bits + 1) * d + d \div 2 + 1 <= (Bits + 1) * (d + s) + d
<1> DEFINE h == d \div 2
<1>1. d \in 1 .. CountMod - 1 /\ h \in Nat /\ (d = 2 * h \/ d = 2 * h + 1) /\ d + h <= CountMod /\ CountMod \in Nat
  BY DEF Rates, Sizes
<1>2. s \in {-1, 0, 1} /\ (2 * Bits + 2) * s * s < d
  BY DEF Skews
<1> HIDE DEF h
<1>3. s # 0 => 2 * Bits + 2 < d
  <2>1. CASE s = 1
    BY <1>2, <2>1 DEF Sizes
  <2>2. CASE s = -1
    BY <1>2, <2>2 DEF Sizes
  <2> QED
    BY <1>2, <2>1, <2>2
<1>4. ASSUME NEW k \in 0 .. Bits + 2 PROVE k * (d + s) = k * d + (IF s = 0 THEN 0 ELSE IF s = 1 THEN k ELSE -k)
  BY <1>1, <1>2, Split DEF Sizes
<1>5. ASSUME NEW m \in 0 .. Bits
      PROVE  /\ (m + 1) * (d + s) <= (m + 1) * d + h
             /\ m < Bits => (m + 1) * d + h < (m + 2) * (d + s)
  <2> DEFINE p == (m + 1) * d
             q == (m + 2) * d
             a == (m + 1) * (d + s)
             b == (m + 2) * (d + s)
  <2>1. a = p + (IF s = 0 THEN 0 ELSE IF s = 1 THEN m + 1 ELSE -(m + 1))
    BY <1>4 DEF Sizes
  <2>2. b = q + (IF s = 0 THEN 0 ELSE IF s = 1 THEN m + 2 ELSE -(m + 2))
    BY <1>4 DEF Sizes
  <2>3. q = p + d /\ p \in Int
    BY <1>1, NextMul DEF Sizes
  <2> HIDE DEF a, b, p, q
  <2>4. a <= p + h /\ (m < Bits => p + h < b)
    <3>1. CASE s = 0
      BY <1>1, <2>1, <2>2, <2>3, <3>1 DEF Sizes
    <3>2. CASE s = 1
      BY <1>1, <1>3, <2>1, <2>2, <2>3, <3>2 DEF Sizes
    <3>3. CASE s = -1
      BY <1>1, <1>3, <2>1, <2>2, <2>3, <3>3 DEF Sizes
    <3> QED
      BY <1>2, <3>1, <3>2, <3>3
  <2> QED
    BY <2>4 DEF a, b, p, q
<1>6. (Bits + 1) * d + h + 1 <= (Bits + 1) * (d + s) + d
  <2> DEFINE p == (Bits + 1) * d
             a == (Bits + 1) * (d + s)
  <2>1. a = p + (IF s = 0 THEN 0 ELSE IF s = 1 THEN Bits + 1 ELSE -(Bits + 1))
    BY <1>4 DEF Sizes
  <2>2. p \in Int
    BY <1>1 DEF Sizes
  <2> HIDE DEF a, p
  <2>3. p + h + 1 <= a + d
    BY <1>1, <1>2, <1>3, <2>1, <2>2 DEF Sizes
  <2> QED
    BY <2>3 DEF a, p
<1>7. d + s \in 1 .. CountMod /\ d + h \in 1 .. CountMod
  BY <1>1, <1>2, <1>3 DEF Sizes
<1> QED
  <2>1. \A m \in 0 .. Bits - 1 : m \in 0 .. Bits /\ m < Bits
    BY DEF Sizes
  <2> QED
    BY <1>1, <1>2, <1>5, <1>6, <1>7, <2>1 DEF h

\* The n-th bit of a frame is the start bit, a bit of the byte or the stop bit.
LEMMA FrameBits ==
  ASSUME Sizes, NEW w \in Byte
  PROVE  /\ <<0>> \o w \o <<1>> = Frame(w) /\ Frame(w) \in [1 .. Bits + 2 -> {0, 1}]
         /\ Frame(w)[1] = 0 /\ Frame(w)[Bits + 2] = 1 /\ \A i \in 1 .. Bits : Frame(w)[i + 1] = w[i]
<1>1. w \in Seq({0, 1}) /\ Len(w) = Bits
  BY DEF Byte, Sizes
<1>2. <<0>> \in Seq({0, 1}) /\ <<1>> \in Seq({0, 1}) /\ Len(<<0>>) = 1 /\ Len(<<1>>) = 1
      /\ <<0>>[1] = 0 /\ <<1>>[1] = 1
  OBVIOUS
<1> DEFINE z == <<0>>
           o == <<1>>
<1> HIDE DEF z, o
<1>3. z \in Seq({0, 1}) /\ o \in Seq({0, 1}) /\ Len(z) = 1 /\ Len(o) = 1 /\ z[1] = 0 /\ o[1] = 1
  BY <1>2 DEF z, o
<1>4. /\ z \o w \in Seq({0, 1}) /\ Len(z \o w) = Bits + 1
      /\ \A i \in 1 .. Bits + 1 : (z \o w)[i] = IF i <= 1 THEN z[i] ELSE w[i - 1]
  <2>1. /\ z \o w \in Seq({0, 1}) /\ Len(z \o w) = Len(z) + Len(w)
        /\ \A i \in 1 .. Len(z) + Len(w) : (z \o w)[i] = IF i <= Len(z) THEN z[i] ELSE w[i - Len(z)]
    BY <1>1, <1>3, ConcatProperties
  <2> QED
    BY <1>1, <1>3, <2>1 DEF Sizes
<1> DEFINE v == z \o w
<1> HIDE DEF v
<1>5. v \in Seq({0, 1}) /\ Len(v) = Bits + 1 /\ v[1] = 0 /\ \A i \in 1 .. Bits : v[i + 1] = w[i]
  <2>1. v \in Seq({0, 1}) /\ Len(v) = Bits + 1 /\ v[1] = z[1]
    BY <1>4 DEF v, Sizes
  <2>2. ASSUME NEW i \in 1 .. Bits PROVE v[i + 1] = w[i]
    BY <1>4 DEF v, Sizes
  <2> QED
    BY <1>3, <2>1, <2>2
<1>6. /\ v \o o \in Seq({0, 1}) /\ Len(v \o o) = Bits + 2
      /\ \A i \in 1 .. Bits + 2 : (v \o o)[i] = IF i <= Bits + 1 THEN v[i] ELSE o[i - (Bits + 1)]
  <2>1. o \in Seq({0, 1})
    BY <1>3
  <2>2. /\ v \o o \in Seq({0, 1}) /\ Len(v \o o) = Len(v) + Len(o)
        /\ \A i \in 1 .. Len(v) + Len(o) : (v \o o)[i] = IF i <= Len(v) THEN v[i] ELSE o[i - Len(v)]
    BY <1>5, <2>1, ConcatProperties
  <2> QED
    BY <1>3, <1>5, <2>2 DEF Sizes
<1>7. Frame(w) = v \o o
  BY DEF Frame, v, z, o
<1>8. Frame(w) \in [1 .. Bits + 2 -> {0, 1}]
  BY <1>6, <1>7, LenProperties
<1>9. Frame(w)[1] = 0 /\ Frame(w)[Bits + 2] = 1
  BY <1>3, <1>5, <1>6, <1>7 DEF Sizes
<1>10. ASSUME NEW i \in 1 .. Bits PROVE Frame(w)[i + 1] = w[i]
  <2>1. i + 1 \in 1 .. Bits + 1 /\ i + 1 \in 1 .. Bits + 2
    BY DEF Sizes
  <2> QED
    BY <1>5, <1>6, <1>7, <2>1
<1> QED
  BY <1>8, <1>9, <1>10 DEF Frame

\* Before a start bit the line is high.
LEMMA OnBefore ==
  ASSUME Sizes, NEW w, NEW d, NEW D \in Nat, NEW x \in Int, x < 0
  PROVE  On(w, d, D, x, 1)
<1>1. \A k \in 0 .. Bits : k * D >= 0
  OBVIOUS
<1>2. (Bits + 1) * D >= 0
  BY DEF Sizes
<1> QED
  BY <1>1, <1>2 DEF On

\* From the stop bit until the next frame may have begun the line is high.
LEMMA OnEnd ==
  ASSUME Sizes, NEW w, NEW d \in Nat, NEW D \in Nat, NEW x \in Int, x >= End(D), NEW b, b = 1 \/ x > End(D) + d
  PROVE  On(w, d, D, x, b)
<1>1. \A k \in 0 .. Bits : (k + 1) * D <= (Bits + 1) * D
  <2> TAKE k \in 0 .. Bits
  <2>1. k + 1 \in Int /\ Bits + 1 \in Int /\ k + 1 <= Bits + 1
    BY DEF Sizes
  <2> QED
    BY <2>1, MulMono
<1> DEFINE e == (Bits + 1) * D
<1>2. e \in Nat /\ x >= e /\ (b = 1 \/ x > e + d)
  BY DEF Sizes, End
<1>3. \A k \in 0 .. Bits : ~(x < (k + 1) * D)
  <2> TAKE k \in 0 .. Bits
  <2> DEFINE f == (k + 1) * D
  <2>1. f <= e /\ f \in Int
    BY <1>1
  <2> HIDE DEF e, f
  <2>2. ~(x < f)
    BY <1>2, <2>1
  <2> QED
    BY <2>2 DEF f
<1>4. ~(x < 0)
  <2> HIDE DEF e
  <2> QED
    BY <1>2
<1>5. x <= e + d => b = 1
  <2> HIDE DEF e
  <2> QED
    BY <1>2
<1> QED
  BY <1>3, <1>4, <1>5 DEF On

\* The transmitter holds the n-th bit of the frame for D clocks.
LEMMA OnBit ==
  ASSUME Sizes, NEW w, NEW d \in Nat, NEW D \in Nat, NEW n \in 0 .. Bits, NEW x \in Int, n * D <= x, x < (n + 1) * D
  PROVE  On(w, d, D, x, Frame(w)[n + 1])
<1>1. ASSUME NEW k \in 0 .. Bits, k * D <= x, x < (k + 1) * D PROVE k = n
  <2>1. CASE k < n
    <3>1. (k + 1) * D <= n * D
      <4>1. k + 1 \in Int /\ n \in Int /\ k + 1 <= n
        BY <2>1
      <4> QED
        BY <4>1, MulMono
    <3> DEFINE a == (k + 1) * D
               c == n * D
    <3>2. a \in Int /\ c \in Int /\ a <= c /\ c <= x /\ x < a
      BY <1>1, <3>1
    <3> HIDE DEF a, c
    <3> QED
      BY <3>2
  <2>2. CASE k > n
    <3>1. (n + 1) * D <= k * D
      <4>1. n + 1 \in Int /\ k \in Int /\ n + 1 <= k
        BY <2>2
      <4> QED
        BY <4>1, MulMono
    <3> DEFINE a == (n + 1) * D
               c == k * D
    <3>2. a \in Int /\ c \in Int /\ a <= c /\ c <= x /\ x < a
      BY <1>1, <3>1
    <3> HIDE DEF a, c
    <3> QED
      BY <3>2
  <2> QED
    BY <2>1, <2>2
<1>2. x >= 0 /\ x < (Bits + 1) * D
  <2> DEFINE c == n * D
             a == (n + 1) * D
             e == (Bits + 1) * D
  <2>1. c >= 0 /\ c \in Int /\ a \in Int /\ e \in Int /\ c <= x /\ x < a
    BY DEF Sizes
  <2>2. a <= e
    <3>1. n + 1 \in Int /\ Bits + 1 \in Int /\ n + 1 <= Bits + 1
      BY DEF Sizes
    <3> QED
      BY <3>1, MulMono
  <2> HIDE DEF a, c, e
  <2>3. x >= 0 /\ x < e
    BY <2>1, <2>2
  <2> QED
    BY <2>3 DEF e
<1>3. ~(x < 0) /\ ~((Bits + 1) * D <= x)
  <2> DEFINE e == (Bits + 1) * D
  <2>1. e \in Int /\ x < e
    BY <1>2 DEF Sizes
  <2> HIDE DEF e
  <2>2. ~(e <= x) /\ ~(x < 0)
    BY <1>2, <2>1
  <2> QED
    BY <2>2 DEF e
<1> QED
  BY <1>1, <1>3, Zenon DEF On

\* At every rate that software may use the counters hold the wait that is meant.
LEMMA RateFacts ==
  ASSUME Sizes, NEW d \in Rates, NEW s \in Skews(d)
  PROVE  /\ d \in Nat /\ d > 0 /\ s \in Int /\ d + s \in Nat /\ d + s > 0
         /\ Wait(d) = d - 1 /\ Wait(d + s) = d + s - 1 /\ Wait(d \div 2 + d) = d \div 2 + d - 1
<1>1. d \in 1 .. CountMod - 1 /\ d + d \div 2 \in 1 .. CountMod /\ d \div 2 \in Nat
      /\ s \in {-1, 0, 1} /\ d + s \in 1 .. CountMod /\ CountMod \in Nat
  BY SkewFacts DEF Sizes
<1>2. d \in 1 .. CountMod /\ d \div 2 + d \in 1 .. CountMod
  BY <1>1
<1> QED
  BY <1>1, <1>2, WaitValue

\* The rates are within the counter's range.
LEMMA RateIsNat == ASSUME Sizes, NEW d \in Rates PROVE d \in Nat /\ d > 0 /\ d \in 1 .. CountMod
BY DEF Sizes, Rates

\* A shift register takes a bit in at one end and gives one out at the other
\* (tx_shift, rx_shift).
LEMMA ShiftBits ==
  ASSUME NEW n \in Nat \ {0}, NEW s \in [1 .. n -> {0, 1}], NEW b \in {0, 1}
  PROVE  /\ ShiftIn(s, b) \in [1 .. n -> {0, 1}] /\ ShiftIn(s, b)[n] = b
         /\ \A i \in 1 .. n - 1 : ShiftIn(s, b)[i] = s[i + 1]
         /\ Head(s) = s[1]
<1>1. s \in Seq({0, 1}) /\ Len(s) = n
  OBVIOUS
<1>2. Tail(s) \in Seq({0, 1}) /\ Len(Tail(s)) = n - 1 /\ \A i \in 1 .. n - 1 : Tail(s)[i] = s[i + 1]
  BY <1>1
<1> DEFINE t == Tail(s)
<1> HIDE DEF t
<1>3. t \in Seq({0, 1}) /\ Len(t) = n - 1 /\ \A i \in 1 .. n - 1 : t[i] = s[i + 1]
  BY <1>2 DEF t
<1>4. /\ Append(t, b) \in Seq({0, 1}) /\ Len(Append(t, b)) = n /\ Append(t, b)[n] = b
      /\ \A i \in 1 .. n - 1 : Append(t, b)[i] = t[i]
  BY <1>3
<1>5. Append(t, b) \in [1 .. n -> {0, 1}]
  BY <1>4, LenProperties
<1> QED
  BY <1>1, <1>3, <1>4, <1>5 DEF ShiftIn, t

\* A transmitter that is free stays so until a byte is loaded.
LEMMA FreeStep ==
  ASSUME Free, TxEdge(<<>>)
  PROVE  Free'
BY DEF Free, TxEdge, tx_load

\* A write to the data register of a free transmitter loads the whole frame.
LEMMA LoadStep ==
  ASSUME Sizes, baud_div \in Rates, Free, NEW send \in Byte, TxEdge(send), baud_div' = baud_div
  PROVE  Loaded(send)' /\ tx'.cnt = baud_div - 1
<1>1. send # <<>>
  BY DEF Byte, Sizes
<1>2. tx_load(send)
  BY <1>1 DEF tx_load, Free
<1>3. /\ skew' \in Skews(baud_div) /\ serial_tx' = serial_tx
      /\ tx' = [shift |-> <<0>> \o send \o <<1>>, bits |-> Bits + 2, cnt |-> Wait(baud_div), busy |-> TRUE]
  BY <1>2 DEF TxEdge
<1>4. baud_div \in 1 .. CountMod - 1 /\ Wait(baud_div) = baud_div - 1
  BY WaitValue DEF Rates, Sizes
<1>5. /\ Frame(send) \in [1 .. Bits + 2 -> {0, 1}] /\ tx'.shift = Frame(send) /\ tx'.bits = Bits + 2
      /\ tx'.cnt = baud_div - 1 /\ tx'.busy
  BY <1>3, <1>4, FrameBits
<1>6. TxSent' = 0
  BY <1>5 DEF TxSent, Sizes
<1>7. TxHolds(send)'
  <2>1. skew' \in Skews(baud_div')
    BY <1>3
  <2>2. tx'.bits \in 1 .. Bits + 2
    BY <1>5 DEF Sizes
  <2>3. \A i \in 1 .. tx'.bits : tx'.shift[i] = Frame(send)[TxSent' + i]
    BY <1>5, <1>6 DEF Sizes
  <2> QED
    BY <1>5, <2>1, <2>2, <2>3 DEF TxHolds
<1> QED
  BY <1>3, <1>4, <1>5, <1>6, <1>7 DEF Loaded, Free

\* While it is busy its edges do not depend on what software writes.
LEMMA BusyEdge ==
  ASSUME tx.busy, NEW send, TxEdge(send)
  PROVE  IF tx.cnt = 0
         THEN /\ serial_tx' = Head(tx.shift) /\ skew' = skew
              /\ tx' = [shift |-> ShiftIn(tx.shift, 1), bits |-> tx.bits - 1, cnt |-> Wait(baud_div + skew),
                        busy |-> tx.bits # 1]
         ELSE tx' = [tx EXCEPT !.cnt = @ - 1] /\ serial_tx' = serial_tx /\ skew' = skew
BY DEF TxEdge, tx_load

\* Between two bits only the counter moves.
LEMMA CountStep ==
  ASSUME Sizes, NEW w, TxHolds(w), tx.cnt \in Nat \ {0}, NEW send, TxEdge(send), baud_div' = baud_div,
         DOMAIN tx = {"shift", "bits", "cnt", "busy"}
  PROVE  TxHolds(w)' /\ tx'.cnt = tx.cnt - 1 /\ serial_tx' = serial_tx /\ skew' = skew /\ TxSent' = TxSent
<1>1. tx.busy
  BY DEF TxHolds
<1>2. tx' = [tx EXCEPT !.cnt = @ - 1] /\ serial_tx' = serial_tx /\ skew' = skew
  BY <1>1, BusyEdge
<1>3. tx'.cnt = tx.cnt - 1 /\ tx'.bits = tx.bits /\ tx'.shift = tx.shift /\ tx'.busy = tx.busy
  BY <1>2
<1> QED
  BY <1>2, <1>3 DEF TxHolds, TxSent

\* Where the counter is at zero the next bit goes on the line.
LEMMA BitStep ==
  ASSUME Sizes, baud_div \in Rates, NEW w, TxHolds(w), tx.cnt = 0, NEW send, TxEdge(send), baud_div' = baud_div
  PROVE  /\ serial_tx' = Frame(w)[TxSent + 1] /\ skew' = skew /\ tx'.cnt = baud_div + skew - 1
         /\ tx.bits = 1 => ~tx'.busy /\ TxSent = Bits + 1
         /\ tx.bits # 1 => TxHolds(w)' /\ TxSent' = TxSent + 1
<1>1. tx.busy /\ tx.bits \in 1 .. Bits + 2 /\ tx.shift \in [1 .. Bits + 2 -> {0, 1}] /\ w \in Byte
      /\ skew \in Skews(baud_div) /\ \A i \in 1 .. tx.bits : tx.shift[i] = Frame(w)[TxSent + i]
  BY DEF TxHolds
<1>2. /\ serial_tx' = Head(tx.shift) /\ skew' = skew
      /\ tx' = [shift |-> ShiftIn(tx.shift, 1), bits |-> tx.bits - 1, cnt |-> Wait(baud_div + skew),
                busy |-> tx.bits # 1]
  BY <1>1, BusyEdge
<1>3. /\ Head(tx.shift) = tx.shift[1] /\ ShiftIn(tx.shift, 1) \in [1 .. Bits + 2 -> {0, 1}]
      /\ \A i \in 1 .. Bits + 1 : ShiftIn(tx.shift, 1)[i] = tx.shift[i + 1]
  <2>1. Bits + 2 \in Nat \ {0} /\ (Bits + 2) - 1 = Bits + 1
    BY DEF Sizes
  <2> QED
    BY <1>1, <2>1, ShiftBits
<1>4. serial_tx' = Frame(w)[TxSent + 1]
  BY <1>1, <1>2, <1>3
<1>5. Wait(baud_div + skew) = baud_div + skew - 1
  BY <1>1, RateFacts
<1>6. /\ tx'.shift = ShiftIn(tx.shift, 1) /\ tx'.bits = tx.bits - 1 /\ tx'.cnt = baud_div + skew - 1
      /\ tx'.busy = (tx.bits # 1)
  BY <1>2, <1>5
<1>7. TxSent' = TxSent + 1 /\ (tx.bits = 1 => TxSent = Bits + 1)
  BY <1>1, <1>6 DEF TxSent, Sizes
<1>8. ASSUME tx.bits # 1 PROVE TxHolds(w)'
  <2>1. tx'.busy /\ tx'.bits \in 1 .. Bits + 2
    <3>1. tx.bits - 1 \in 1 .. Bits + 2
      BY <1>1, <1>8 DEF Sizes
    <3> QED
      BY <1>6, <1>8, <3>1
  <2>2. ASSUME NEW i \in 1 .. tx.bits - 1 PROVE tx'.shift[i] = Frame(w)[TxSent' + i]
    <3>1. i \in 1 .. Bits + 1 /\ i + 1 \in 1 .. tx.bits
      BY <1>1 DEF Sizes
    <3>2. tx'.shift[i] = Frame(w)[TxSent + (i + 1)]
      BY <1>1, <1>3, <1>6, <3>1
    <3>3. TxSent + (i + 1) = TxSent' + i
      <4>1. TxSent \in Int /\ i \in Int
        BY <1>1 DEF TxSent, Sizes
      <4> QED
        BY <1>7, <4>1
    <3> QED
      BY <3>2, <3>3
  <2>3. skew' \in Skews(baud_div') /\ tx'.shift \in [1 .. Bits + 2 -> {0, 1}]
    BY <1>1, <1>2, <1>3, <1>6
  <2> QED
    BY <1>1, <1>6, <2>1, <2>2, <2>3 DEF TxHolds
<1>9. tx.bits = 1 => ~tx'.busy
  BY <1>6
<1> QED
  BY <1>2, <1>4, <1>6, <1>7, <1>8, <1>9

\* A loaded frame waits for one bit's length and then puts its start bit on the
\* line.
LEMMA LoadedStep ==
  ASSUME Sizes, baud_div \in Rates, NEW w, Loaded(w), NEW send, TxEdge(send), baud_div' = baud_div,
         DOMAIN tx = {"shift", "bits", "cnt", "busy"}
  PROVE  IF tx.cnt = 0 THEN Started(w)' /\ TxAge' = 0 ELSE Loaded(w)' /\ tx'.cnt = tx.cnt - 1
<1>1. TxHolds(w) /\ TxSent = 0 /\ tx.cnt \in 0 .. baud_div - 1 /\ serial_tx = 1 /\ skew \in Skews(baud_div)
  BY DEF Loaded, TxHolds
<1>4. baud_div \in Nat /\ skew \in Int /\ baud_div + skew \in Nat /\ baud_div + skew > 0
  BY <1>1, RateFacts
<1>2. CASE tx.cnt = 0
  <2>1. tx.bits = Bits + 2
    BY <1>1 DEF TxSent, TxHolds, Sizes
  <2>2. /\ serial_tx' = Frame(w)[1] /\ skew' = skew /\ tx'.cnt = baud_div + skew - 1
        /\ TxHolds(w)' /\ TxSent' = 1
    BY <1>1, <1>2, <2>1, BitStep DEF Sizes
  <2>4. tx'.cnt \in 0 .. baud_div' + skew' - 1
    BY <1>4, <2>2
  <2>5. TxAge' = 0
    <3>1. TxAge' = 1 * (baud_div + skew) - 1 - (baud_div + skew - 1)
      BY <2>2 DEF TxAge
    <3> QED
      BY <1>4, <3>1
  <2> QED
    BY <1>2, <2>2, <2>4, <2>5 DEF Started
<1>3. CASE tx.cnt # 0
  <2>1. TxHolds(w)' /\ tx'.cnt = tx.cnt - 1 /\ serial_tx' = serial_tx /\ TxSent' = TxSent
    <3>1. tx.cnt \in Nat \ {0}
      BY <1>1, <1>3, <1>4
    <3> QED
      BY <1>1, <3>1, CountStep
  <2>2. tx'.cnt \in 0 .. baud_div' - 1
    BY <1>1, <1>3, <1>4, <2>1
  <2> QED
    BY <1>1, <1>3, <2>1, <2>2 DEF Loaded
<1> QED
  BY <1>2, <1>3

\* A frame that has begun goes on bit by bit until its stop bit, in which the
\* transmitter is free again.
LEMMA StartedStep ==
  ASSUME Sizes, baud_div \in Rates, NEW w, Started(w), NEW send, TxEdge(send), baud_div' = baud_div,
         DOMAIN tx = {"shift", "bits", "cnt", "busy"}
  PROVE  /\ skew' = skew
         /\ IF tx.cnt = 0 /\ tx.bits = 1
            THEN Free' /\ TxAge + 1 = End(baud_div + skew)
            ELSE Started(w)' /\ TxAge' = TxAge + 1
<1>1. /\ TxHolds(w) /\ TxSent > 0 /\ tx.cnt \in 0 .. baud_div + skew - 1 /\ serial_tx = Frame(w)[TxSent]
      /\ skew \in Skews(baud_div) /\ w \in Byte /\ TxSent \in Nat
  BY DEF Started, TxHolds, TxSent, Sizes
<1>2. baud_div \in Nat /\ skew \in Int /\ baud_div + skew \in Nat /\ baud_div + skew > 0
  BY <1>1, RateFacts
<1> DEFINE D == baud_div + skew
<1>3. D \in Nat /\ D > 0
  BY <1>2
<1>4. CASE tx.cnt # 0
  <2>1. TxHolds(w)' /\ tx'.cnt = tx.cnt - 1 /\ serial_tx' = serial_tx /\ skew' = skew /\ TxSent' = TxSent
    <3>1. tx.cnt \in Nat \ {0}
      BY <1>1, <1>2, <1>4
    <3> QED
      BY <1>1, <3>1, CountStep
  <2>2. TxAge' = TxAge + 1
    <3> DEFINE p == TxSent * D
    <3>1. p \in Int /\ TxAge = p - 1 - tx.cnt /\ TxAge' = p - 1 - tx'.cnt
      BY <1>1, <1>3, <2>1 DEF TxAge
    <3> HIDE DEF p
    <3> QED
      BY <1>1, <1>2, <2>1, <3>1
  <2>3. tx'.cnt \in 0 .. baud_div' + skew' - 1
    BY <1>1, <1>2, <1>4, <2>1
  <2> QED
    BY <1>1, <1>4, <2>1, <2>2, <2>3 DEF Started
<1>5. CASE tx.cnt = 0
  <2>1. /\ serial_tx' = Frame(w)[TxSent + 1] /\ skew' = skew /\ tx'.cnt = baud_div + skew - 1
        /\ tx.bits = 1 => ~tx'.busy /\ TxSent = Bits + 1
        /\ tx.bits # 1 => TxHolds(w)' /\ TxSent' = TxSent + 1
    <3>1. TxHolds(w) /\ tx.cnt = 0
      BY <1>1, <1>5
    <3> QED
      BY <3>1, BitStep
  <2>2. TxAge + 1 = TxSent * D
    <3> DEFINE p == TxSent * D
    <3>1. p \in Int /\ TxAge = p - 1 - 0
      BY <1>1, <1>3, <1>5 DEF TxAge
    <3> HIDE DEF p
    <3>2. TxAge + 1 = p
      BY <3>1
    <3> QED
      BY <3>2 DEF p
  <2>3. CASE tx.bits = 1
    <3>1. serial_tx' = 1
      BY <1>1, <2>1, <2>3, FrameBits DEF Sizes
    <3> QED
      BY <1>5, <2>1, <2>2, <2>3, <3>1 DEF Free, End
  <2>4. CASE tx.bits # 1
    <3>1. tx'.cnt \in 0 .. baud_div' + skew' - 1
      BY <1>2, <2>1
    <3>2. TxAge' = TxAge + 1
      <4>0. TxAge' = TxSent' * (baud_div' + skew') - 1 - tx'.cnt
        BY DEF TxAge
      <4>1. TxAge' = (TxSent + 1) * (baud_div + skew) - 1 - (baud_div + skew - 1)
        <5>1. baud_div' = baud_div /\ skew' = skew /\ TxSent' = TxSent + 1 /\ tx'.cnt = baud_div + skew - 1
          BY <2>1, <2>4
        <5> QED
          BY <4>0, <5>1, Zenon
      <4>2. (TxSent + 1) * D = TxSent * D + D
        BY <1>1, <1>3, NextMul
      <4> DEFINE p == TxSent * D
                 q == (TxSent + 1) * D
      <4>3. p \in Int /\ q = p + D /\ TxAge + 1 = p
        BY <1>1, <1>3, <2>2, <4>2
      <4>6. baud_div + skew - 1 = D - 1
        BY <1>2
      <4>4. TxAge' = q - 1 - (D - 1)
        BY <4>1, <4>6, Zenon
      <4> HIDE DEF p, q, D
      <4>5. TxAge' = p
        BY <1>3, <4>3, <4>4
      <4> QED
        BY <4>3, <4>5
    <3>3. TxSent' > 0 /\ serial_tx' = Frame(w)[TxSent']
      BY <1>1, <2>1, <2>4
    <3> QED
      BY <1>5, <2>1, <2>4, <3>1, <3>2, <3>3 DEF Started
  <2> QED
    BY <2>3, <2>4
<1> QED
  BY <1>4, <1>5

\* What a started transmitter puts on the line.
LEMMA StartedLine ==
  ASSUME Sizes, baud_div \in Rates, NEW w, Started(w)
  PROVE  /\ On(w, baud_div, baud_div + skew, TxAge, serial_tx) /\ TxAge \in Nat
         /\ TxAge < End(baud_div + skew) /\ (TxSent - 1) * (baud_div + skew) <= TxAge /\ w \in Byte
         /\ skew \in Skews(baud_div)
<1>1. /\ tx.cnt \in 0 .. baud_div + skew - 1 /\ serial_tx = Frame(w)[TxSent]
      /\ skew \in Skews(baud_div) /\ w \in Byte /\ TxSent \in 1 .. Bits + 1
  BY DEF Started, TxHolds, TxSent, Sizes
<1>2. baud_div \in Nat /\ skew \in Int /\ baud_div + skew \in Nat /\ baud_div + skew > 0
  BY <1>1, RateFacts
<1> DEFINE D == baud_div + skew
           n == TxSent - 1
<1>3. D \in Nat /\ D > 0 /\ tx.cnt \in 0 .. D - 1 /\ n \in 0 .. Bits /\ n + 1 = TxSent
  BY <1>1, <1>2 DEF Sizes
<1>4. TxAge = (n + 1) * D - 1 - tx.cnt /\ (n + 1) * D = n * D + D
  BY <1>3, NextMul DEF TxAge
<1>5. (n + 1) * D <= (Bits + 1) * D
  <2>1. n + 1 \in Int /\ Bits + 1 \in Int /\ n + 1 <= Bits + 1
    BY <1>3 DEF Sizes
  <2> QED
    BY <1>3, <2>1, MulMono
<1>6. n * D <= TxAge /\ TxAge < (n + 1) * D /\ TxAge \in Nat /\ TxAge < (Bits + 1) * D
  <2> DEFINE p == n * D
             q == (n + 1) * D
             e == (Bits + 1) * D
  <2>1. p \in Nat /\ q \in Int /\ e \in Int /\ q = p + D /\ TxAge = q - 1 - tx.cnt /\ q <= e
    BY <1>3, <1>4, <1>5 DEF Sizes
  <2> HIDE DEF p, q, e, D
  <2>2. p <= TxAge /\ TxAge < q /\ TxAge \in Nat /\ TxAge < e
    BY <1>3, <2>1
  <2> QED
    BY <2>2 DEF p, q, e
<1>7. On(w, baud_div, D, TxAge, Frame(w)[n + 1])
  <2>1. TxAge \in Int
    BY <1>6
  <2> QED
    BY <1>2, <1>3, <1>6, <2>1, OnBit
<1> QED
  BY <1>1, <1>3, <1>6, <1>7 DEF End

\* Until it is free again it is in the frame.
LEMMA StartedGoesOn ==
  ASSUME Sizes, baud_div \in Rates, NEW w, Started(w), ~(tx.cnt = 0 /\ tx.bits = 1)
  PROVE  TxAge + 1 < End(baud_div + skew)
<1>1. /\ tx.cnt \in 0 .. baud_div + skew - 1 /\ skew \in Skews(baud_div)
      /\ tx.bits \in 1 .. Bits + 1 /\ TxSent = Bits + 2 - tx.bits
  BY DEF Started, TxHolds, TxSent, Sizes
<1>2. baud_div \in Nat /\ skew \in Int /\ baud_div + skew \in Nat /\ baud_div + skew > 0
  BY <1>1, RateFacts
<1> DEFINE D == baud_div + skew
<1>3. TxSent \in 1 .. Bits + 1 /\ D \in Nat /\ D > 0 /\ tx.cnt \in Nat
  BY <1>1, <1>2 DEF Sizes
<1> DEFINE p == TxSent * D
           e == (Bits + 1) * D
<1>4. p \in Int /\ e \in Int /\ TxAge = p - 1 - tx.cnt
  BY <1>3 DEF TxAge, Sizes
<1>5. p <= e
  <2>1. TxSent \in Int /\ Bits + 1 \in Int /\ TxSent <= Bits + 1
    BY <1>3 DEF Sizes
  <2> QED
    BY <1>3, <2>1, MulMono
<1>6. tx.cnt = 0 => p + D <= e
  <2> SUFFICES ASSUME tx.cnt = 0 PROVE p + D <= e
    OBVIOUS
  <2>1. TxSent + 1 \in Int /\ Bits + 1 \in Int /\ TxSent + 1 <= Bits + 1
    BY <1>1, <1>3 DEF Sizes
  <2>2. (TxSent + 1) * D <= (Bits + 1) * D
    BY <1>3, <2>1, MulMono
  <2>3. (TxSent + 1) * D = TxSent * D + D
    BY <1>3, NextMul
  <2> QED
    BY <2>2, <2>3
<1> HIDE DEF p, e, D
<1>7. TxAge + 1 < e
  BY <1>3, <1>4, <1>5, <1>6
<1> QED
  BY <1>7 DEF e, D, End

\* Each edge moves the taps one clock along the frame.
LEMMA TapsStep ==
  ASSUME NEW w, NEW D, NEW x \in Int, On(w, baud_div, D, x, serial_tx), Taps(w, D, x), SyncEdge,
         baud_div' = baud_div, NEW y, y = x + 1
  PROVE  Taps(w, D, y)'
<1>1. rx_sync'[1] = serial_tx /\ rx_sync'[2] = rx_sync[1] /\ y - 1 = x /\ y - 2 = x - 1
  BY DEF SyncEdge
<1> QED
  BY <1>1 DEF Taps

\* The line before the start bit, and at it.
LEMMA OnStart ==
  ASSUME Sizes, NEW w \in Byte, NEW d, NEW D \in Nat, D > 0, NEW x, NEW b, On(w, d, D, x, b)
  PROVE  (x < 0 => b = 1) /\ (x = 0 => b = 0)
<1>1. 0 \in 0 .. Bits /\ 0 * D = 0 /\ (0 + 1) * D = D /\ Frame(w)[0 + 1] = 0
  BY FrameBits DEF Sizes
<1>2. x = 0 => 0 * D <= x /\ x < (0 + 1) * D
  BY <1>1
<1> QED
  BY <1>1, <1>2 DEF On

\* In the stop bit.
LEMMA OnStop ==
  ASSUME NEW w, NEW d, NEW D, NEW x, NEW b, On(w, d, D, x, b), End(D) <= x, x <= End(D) + d
  PROVE  b = 1
BY DEF On, End

\* A frame is longer than the two taps.
LEMMA EndIsNat == ASSUME Sizes, NEW D \in Nat, D > 0 PROVE End(D) \in Nat /\ End(D) >= 3
<1>1. 3 <= Bits + 1 /\ Bits + 1 \in Int /\ 3 \in Int
  BY DEF Sizes
<1>2. 3 * D <= (Bits + 1) * D
  BY <1>1, MulMono
<1>3. (Bits + 1) * D \in Nat
  BY DEF Sizes
<1> QED
  BY <1>2, <1>3 DEF End

\* Two bytes on the line.
LEMMA Pair == ASSUME NEW v, NEW w PROVE <<w>> \o <<v>> = <<w, v>>
<1> DEFINE S == {v, w}
<1>1. /\ <<w>> \in Seq(S) /\ <<v>> \in Seq(S) /\ <<w, v>> \in Seq(S)
      /\ Len(<<w, v>>) = 2 /\ Len(<<w>>) = 1 /\ Len(<<v>>) = 1
  OBVIOUS
<1>2. <<w>> \o <<v>> \in Seq(S) /\ Len(<<w>> \o <<v>>) = 2
   /\ \A i \in 1 .. 2 : (<<w>> \o <<v>>)[i] = IF i <= 1 THEN <<w>>[i] ELSE <<v>>[i - 1]
  BY <1>1, ConcatProperties
<1>3. \A i \in 1 .. 2 : (<<w>> \o <<v>>)[i] = <<w, v>>[i]
  BY <1>2
<1> QED
  BY <1>1, <1>2, <1>3, SeqEqual

\* Joining a byte to the line, and taking the first one off.
LEMMA Lines ==
  ASSUME NEW w, NEW v
  PROVE  /\ <<>> \o <<>> = <<>> /\ <<>> \o <<v>> = <<v>> /\ <<v>> \o <<>> = <<v>> /\ <<w>> \o <<v>> = <<w, v>>
         /\ <<w, v>> \o <<>> = <<w, v>>
         /\ Tail(<<w>>) = <<>> /\ Tail(<<w, v>>) = <<v>> /\ <<w>> # <<>> /\ <<w, v>> # <<>>
         /\ Head(<<w>>) = w /\ Head(<<w, v>>) = w
<1>1. <<>> \o <<>> = <<>>
  OBVIOUS
<1>2. <<>> \o <<v>> = <<v>>
  OBVIOUS
<1>3. <<v>> \o <<>> = <<v>>
  OBVIOUS
<1>4. <<w, v>> \o <<>> = <<w, v>>
  OBVIOUS
<1>5. Tail(<<w>>) = <<>>
  OBVIOUS
<1>6. Tail(<<w, v>>) = <<v>>
  OBVIOUS
<1>7. <<w>> # <<>> /\ <<w, v>> # <<>> /\ Head(<<w>>) = w /\ Head(<<w, v>>) = w
  OBVIOUS
<1> QED
  BY <1>1, <1>2, <1>3, <1>4, <1>5, <1>6, <1>7, Pair, Zenon

\* The receiver is done with a frame before the next one can reach it.
LEMMA EndBound ==
  ASSUME Sizes, NEW d \in Rates, NEW s \in Skews(d), NEW e \in Int, e <= (Bits + 1) * d + d \div 2 + 2
  PROVE  /\ d \in Nat /\ d > 0 /\ d + s \in Nat /\ d + s > 0 /\ d \div 2 \in Nat
         /\ End(d + s) \in Nat /\ End(d + s) >= 3
         /\ End(d + s) <= (Bits + 1) * d + d \div 2
         /\ e <= End(d + s) + d + 1
<1>1. /\ d \in Nat /\ d > 0 /\ d + s \in Nat /\ d + s > 0 /\ End(d + s) \in Nat /\ End(d + s) >= 3
      /\ d \div 2 \in Nat
  <2>1. d \in Nat /\ d > 0 /\ d + s \in Nat /\ d + s > 0 /\ d \div 2 \in Nat
    BY RateFacts, SkewFacts
  <2> QED
    BY <2>1, EndIsNat
<1> DEFINE a == (Bits + 1) * (d + s)
           p == (Bits + 1) * d
           h == d \div 2
<1>2. a <= p + h /\ p + h + 1 <= a + d
  <2>1. Bits \in 0 .. Bits
    BY DEF Sizes
  <2> QED
    BY <2>1, SkewFacts
<1>3. a \in Int /\ p \in Int /\ h \in Nat /\ e <= p + h + 2 /\ d \in Nat
  BY <1>1 DEF Sizes
<1>4. End(d + s) = a
  BY DEF End
<1> HIDE DEF a, p, h
<1>5. e <= a + d + 1
  BY <1>2, <1>3
<1> QED
  BY <1>1, <1>2, <1>4, <1>5 DEF p, h

\* One edge, e clocks after the start bit of the byte that is received.
LEMMA AheadStep ==
  ASSUME Sizes, Shapes, NEW d \in Rates, baud_div = d, baud_div' = baud_div,
         NEW w \in Byte, NEW s \in Skews(d), NEW D, D = d + s,
         NEW e \in Int, e <= (Bits + 1) * d + d \div 2 + 2,
         NEW q, Taps(w, D, e), Ahead(w, s, e, q),
         NEW send \in {<<>>} \cup Byte, TxEdge(send), SyncEdge,
         NEW f, f = e + 1
  PROVE  /\ Taps(w, D, f)'
         /\ ~tx_load(send) => Ahead(w, s, f, q)'
         /\ tx_load(send) => q = <<>> /\ send \in Byte /\ Ahead(w, s, f, <<send>>)'
<1>1. /\ d \in Nat /\ d > 0 /\ D \in Nat /\ D > 0
      /\ End(D) \in Nat /\ End(D) >= 3 /\ e <= End(D) + d + 1
  BY EndBound
<1>2. f \in Int /\ baud_div' + s = D /\ baud_div' = d /\ baud_div + s = D
  OBVIOUS
<1>3. rx_sync'[1] = serial_tx /\ rx_sync'[2] = rx_sync[1]
  BY DEF SyncEdge
<1>4. DOMAIN tx = {"shift", "bits", "cnt", "busy"}
  BY DEF Shapes
<1>5. tx_load(send) => send \in Byte /\ ~tx.busy
  BY DEF tx_load
<1>6. ASSUME On(w, d, D, e, serial_tx)
      PROVE  Taps(w, D, f)'
  BY <1>6, TapsStep
<1>7. CASE q = <<>> /\ Started(w) /\ skew = s /\ TxAge = e
  <2>1. On(w, d, D, e, serial_tx)
    BY <1>7, StartedLine
  <2>2. ~tx_load(send)
    BY <1>7 DEF tx_load, Started, TxHolds
  <2>3. skew' = s /\ (tx.cnt = 0 /\ tx.bits = 1 => Free' /\ e + 1 = End(D))
        /\ (~(tx.cnt = 0 /\ tx.bits = 1) => Started(w)' /\ TxAge' = e + 1 /\ e + 1 < End(D))
    BY <1>4, <1>7, StartedStep, StartedGoesOn
  <2>4. CASE tx.cnt = 0 /\ tx.bits = 1
    <3>1. Free' /\ f >= End(baud_div' + s) /\ ~(f > End(baud_div' + s))
      BY <1>1, <1>2, <2>3, <2>4
    <3> QED
      BY <1>6, <1>7, <2>1, <2>2, <3>1 DEF Ahead
  <2>5. CASE ~(tx.cnt = 0 /\ tx.bits = 1)
    BY <1>2, <1>6, <1>7, <2>1, <2>2, <2>3, <2>5 DEF Ahead
  <2> QED
    BY <2>4, <2>5
<1>8. CASE q = <<>> /\ Free /\ e >= End(D)
  <2>1. On(w, d, D, e, serial_tx)
    <3>1. serial_tx = 1
      BY <1>8 DEF Free
    <3> QED
      BY <1>1, <1>8, <3>1, OnEnd
  <2>2. rx_sync'[1] = 1
    BY <1>3, <1>8 DEF Free
  <2>3. CASE ~tx_load(send)
    <3>1. TxEdge(<<>>)
      BY <1>8, <2>3 DEF TxEdge, tx_load, Free
    <3>2. Free' /\ f >= End(baud_div' + s)
      BY <1>1, <1>2, <1>8, <3>1, FreeStep
    <3> QED
      BY <1>6, <1>8, <2>1, <2>2, <2>3, <3>2 DEF Ahead
  <2>4. CASE tx_load(send)
    <3>1. Loaded(send)' /\ tx'.cnt = d - 1 /\ send \in Byte
      BY <1>5, <1>8, <2>4, LoadStep
    <3>2. f >= End(baud_div' + s) + baud_div' - tx'.cnt
      BY <1>1, <1>2, <1>8, <3>1
    <3> QED
      BY <1>6, <1>8, <2>1, <2>2, <2>4, <3>1, <3>2 DEF Ahead
  <2> QED
    BY <2>3, <2>4
<1>9. ASSUME NEW v \in Byte, q = <<v>>, Loaded(v), e >= End(D) + d - tx.cnt, rx_sync[1] = 1
      PROVE  Taps(w, D, f)' /\ ~tx_load(send) /\ Ahead(w, s, f, q)'
  <2>1. serial_tx = 1 /\ tx.cnt \in 0 .. d - 1 /\ tx.busy
    BY <1>9 DEF Loaded, TxHolds
  <2>2. On(w, d, D, e, serial_tx)
    <3>1. e >= End(D)
      BY <1>1, <1>9, <2>1
    <3> QED
      BY <1>1, <2>1, <3>1, OnEnd
  <2>3. ~tx_load(send)
    BY <2>1 DEF tx_load
  <2>4. (tx.cnt = 0 => Started(v)' /\ TxAge' = 0) /\ (tx.cnt # 0 => Loaded(v)' /\ tx'.cnt = tx.cnt - 1)
    BY <1>4, <1>9, LoadedStep
  <2>5. CASE tx.cnt = 0
    <3>1. f >= End(baud_div' + s) + baud_div' + 1 + TxAge'
      BY <1>1, <1>2, <1>9, <2>4, <2>5
    <3>2. skew' \in Skews(d)
      BY <1>2, <2>4, <2>5 DEF Started, TxHolds
    <3>3. baud_div' + skew' \in Nat
      BY <1>2, <3>2, RateFacts
    <3>4. Taps(v, baud_div + skew, TxAge)'
      <4> DEFINE E == baud_div' + skew'
      <4>1. On(v, d, E, 0 - 1, 1) /\ On(v, d, E, 0 - 2, 1)
        BY <3>3, OnBefore
      <4> QED
        BY <1>2, <1>3, <1>9, <2>1, <2>4, <2>5, <4>1 DEF Taps
    <3> QED
      BY <1>6, <1>9, <2>2, <2>3, <2>4, <2>5, <3>1, <3>4 DEF Ahead
  <2>6. CASE tx.cnt # 0
    <3>1. f >= End(baud_div' + s) + baud_div' - tx'.cnt
      <4>1. tx'.cnt = tx.cnt - 1 /\ tx.cnt \in Int
        BY <2>1, <2>4, <2>6
      <4>2. End(baud_div' + s) = End(D) /\ baud_div' = d
        BY <1>2
      <4>3. f >= End(D) + d - (tx.cnt - 1)
        BY <1>1, <1>9, <4>1
      <4> QED
        BY <4>1, <4>2, <4>3
    <3>2. rx_sync'[1] = 1
      BY <1>3, <2>1
    <3> QED
      BY <1>6, <1>9, <2>2, <2>3, <2>4, <2>6, <3>1, <3>2 DEF Ahead
  <2> QED
    BY <2>5, <2>6
<1>10. ASSUME NEW v \in Byte, q = <<v>>, Started(v), e >= End(D) + d + 1 + TxAge, Taps(v, baud_div + skew, TxAge)
       PROVE  Taps(w, D, f)' /\ ~tx_load(send) /\ Ahead(w, s, f, q)'
  <2>1. /\ On(v, d, baud_div + skew, TxAge, serial_tx) /\ TxAge \in Nat /\ skew \in Skews(d)
    BY <1>10, StartedLine
  <2>2. TxAge = 0
    BY <1>1, <1>10, <2>1
  <2>3. ~tx_load(send)
    BY <1>10 DEF tx_load, Started, TxHolds
  <2>4. baud_div + skew \in Nat /\ End(baud_div + skew) >= 3 /\ End(baud_div + skew) \in Nat
    BY <2>1, RateFacts, EndIsNat
  <2>5. Started(v)' /\ TxAge' = 1 /\ skew' = skew
    <3>1. /\ skew' = skew
          /\ tx.cnt = 0 /\ tx.bits = 1 => TxAge + 1 = End(baud_div + skew)
          /\ ~(tx.cnt = 0 /\ tx.bits = 1) => Started(v)' /\ TxAge' = TxAge + 1
      BY <1>4, <1>10, StartedStep
    <3>2. ~(tx.cnt = 0 /\ tx.bits = 1)
      BY <2>2, <2>4, <3>1
    <3> QED
      BY <2>2, <3>1, <3>2
  <2>6. On(w, d, D, e, serial_tx)
    <3>1. e > End(D) + d /\ e >= End(D)
      BY <1>1, <1>10, <2>2
    <3> QED
      BY <1>1, <3>1, OnEnd
  <2>7. Taps(v, baud_div + skew, TxAge)'
    <3> PICK E : E = baud_div + skew
      OBVIOUS
    <3>1. Taps(v, E, 1)'
      <4>1. 1 = 0 + 1 /\ On(v, baud_div, E, 0, serial_tx) /\ Taps(v, E, 0) /\ 0 \in Int
        BY <1>10, <2>1, <2>2
      <4> QED
        BY <4>1, TapsStep
    <3> QED
      BY <1>2, <2>5, <3>1 DEF Taps
  <2>8. f >= End(baud_div' + s) + baud_div' + 1 + TxAge'
    BY <1>1, <1>2, <1>10, <2>2, <2>5
  <2> QED
    BY <1>6, <1>10, <2>3, <2>5, <2>6, <2>7, <2>8 DEF Ahead
<1> QED
  <2>1. \/ q = <<>> /\ Started(w) /\ skew = s /\ TxAge = e
        \/ q = <<>> /\ Free /\ e >= End(D)
        \/ \E v \in Byte : q = <<v>> /\ Loaded(v) /\ e >= End(D) + d - tx.cnt /\ rx_sync[1] = 1
        \/ \E v \in Byte : q = <<v>> /\ Started(v) /\ e >= End(D) + d + 1 + TxAge /\ Taps(v, baud_div + skew, TxAge)
    BY <1>2 DEF Ahead
  <2> QED
    BY <1>7, <1>8, <1>9, <1>10, <2>1

\* The receiver's clock of a frame: its last tick is in the stop bit.
LEMMA AgeOf ==
  ASSUME Sizes, NEW d \in Rates, baud_div = d, NEW w, Sampled(w)
  PROVE  /\ RxSampled \in 0 .. Bits /\ rx.bits = Bits - RxSampled /\ rx.cnt \in Nat
         /\ (RxSampled + 1) * d \in Nat /\ d \div 2 \in Nat /\ d \in Nat /\ d > 0
         /\ RxAge = d \div 2 + (RxSampled + 1) * d + 2 - rx.cnt /\ RxAge \in Int
         /\ RxAge <= (Bits + 1) * d + d \div 2 + 2
<1>1. RxSampled \in 0 .. Bits /\ rx.bits = Bits - RxSampled /\ rx.cnt \in Nat
  BY DEF Sampled, RxSampled, Sizes
<1>2. d \in Nat /\ d > 0 /\ d \div 2 \in Nat
  BY RateIsNat
<1>3. (RxSampled + 1) * d \in Nat
  BY <1>1, <1>2
<1>4. RxAge = d \div 2 + (RxSampled + 1) * d + 2 - rx.cnt
  BY DEF RxAge, Half
<1>5. (RxSampled + 1) * d <= (Bits + 1) * d
  <2>1. RxSampled + 1 \in Int /\ Bits + 1 \in Int /\ RxSampled + 1 <= Bits + 1
    BY <1>1 DEF Sizes
  <2> QED
    BY <1>2, <2>1, MulMono
<1>6. (Bits + 1) * d \in Int
  BY <1>2 DEF Sizes
<1> DEFINE p == (RxSampled + 1) * d
           r == (Bits + 1) * d
           h == d \div 2
<1>7. p \in Nat /\ h \in Nat /\ r \in Int /\ p <= r /\ RxAge = h + p + 2 - rx.cnt
  BY <1>2, <1>3, <1>4, <1>5, <1>6
<1> HIDE DEF p, r, h
<1>8. RxAge \in Int /\ RxAge <= r + h + 2
  BY <1>1, <1>7
<1> QED
  BY <1>1, <1>2, <1>3, <1>4, <1>8 DEF r, h

\* Between two samples the receiver counts.
LEMMA CountDown ==
  ASSUME Sizes, Shapes, NEW d \in Rates, baud_div = d, baud_div' = baud_div, rx.busy, rx.cnt # 0,
         NEW w, Sampled(w), RxEdge
  PROVE  /\ rx'.busy /\ rx'.shift \in Byte
         /\ Sampled(w)' /\ RxAge' = RxAge + 1
<1>1. DOMAIN rx = {"shift", "bits", "cnt", "busy", "data"} /\ rx.shift \in Byte
  BY DEF Shapes
<1>2. rx' = [rx EXCEPT !.cnt = @ - 1]
  BY DEF RxEdge, Samples, Completes
<1>3. rx'.busy = rx.busy /\ rx'.shift = rx.shift /\ rx'.bits = rx.bits /\ rx'.cnt = rx.cnt - 1
  BY <1>1, <1>2
<1>4. RxSampled' = RxSampled
  BY <1>3 DEF RxSampled
<1>5. rx.cnt \in Nat /\ RxAge = d \div 2 + (RxSampled + 1) * d + 2 - rx.cnt
      /\ (RxSampled + 1) * d \in Nat /\ d \div 2 \in Nat
  BY AgeOf
<1>6. RxAge' = d \div 2 + (RxSampled + 1) * d + 2 - (rx.cnt - 1)
  BY <1>3, <1>4 DEF RxAge, Half
<1> DEFINE p == (RxSampled + 1) * d
<1>7. p \in Nat /\ RxAge = d \div 2 + p + 2 - rx.cnt /\ RxAge' = d \div 2 + p + 2 - (rx.cnt - 1)
  BY <1>5, <1>6
<1> HIDE DEF p
<1>8. RxAge' = RxAge + 1
  BY <1>5, <1>7
<1>9. Sampled(w)'
  BY <1>3, <1>4, <1>5 DEF Sampled
<1> QED
  BY <1>1, <1>3, <1>8, <1>9

\* The receiver samples the bit that is on the line: it looks in the bit's
\* middle, and the skew of a frame stays below half a bit.
LEMMA Sample ==
  ASSUME Sizes, Shapes, NEW d \in Rates, baud_div = d, baud_div' = baud_div, Samples,
         NEW w \in Byte, NEW s \in Skews(d), Sampled(w), Taps(w, d + s, RxAge), RxEdge
  PROVE  /\ rx'.busy /\ rx'.shift \in Byte
         /\ Sampled(w)' /\ RxAge' = RxAge + 1
<1>1. DOMAIN rx = {"shift", "bits", "cnt", "busy", "data"} /\ rx.shift \in Byte /\ rx.busy
      /\ rx.cnt = 0 /\ rx.bits # 0
  BY DEF Shapes, Samples
<1>2. rx' = [rx EXCEPT !.shift = ShiftIn(@, rx_sync[2]), !.bits = @ - 1, !.cnt = Wait(baud_div)]
  BY <1>1 DEF RxEdge
<1>3. 0 \in Skews(d) /\ Wait(d) = d - 1
  <2>1. 0 \in Skews(d)
    BY RateIsNat DEF Skews, Sizes
  <2> QED
    BY <2>1, RateFacts
<1>4. rx'.busy = rx.busy /\ rx'.shift = ShiftIn(rx.shift, rx_sync[2]) /\ rx'.bits = rx.bits - 1
      /\ rx'.cnt = d - 1
  BY <1>1, <1>2, <1>3
<1>5. /\ RxSampled \in 0 .. Bits /\ rx.bits = Bits - RxSampled
      /\ (RxSampled + 1) * d \in Nat /\ d \div 2 \in Nat /\ d \in Nat /\ d > 0
      /\ RxAge = d \div 2 + (RxSampled + 1) * d + 2 - rx.cnt /\ RxAge \in Int
  BY AgeOf
<1>6. RxSampled \in 0 .. Bits - 1 /\ RxSampled' = RxSampled + 1
  BY <1>1, <1>4, <1>5 DEF RxSampled, Sizes
<1> DEFINE m == RxSampled
<1>7. rx_sync[2] = w[m + 1] /\ w[m + 1] \in {0, 1}
  <2> DEFINE k == m + 1
             x == RxAge - 2
  <2>1. k \in 0 .. Bits /\ k \in 1 .. Bits /\ k + 1 = m + 2
    BY <1>6 DEF Sizes
  <2>2. x = (m + 1) * d + d \div 2
    BY <1>1, <1>5
  <2>3. k * (d + s) <= x /\ x < (k + 1) * (d + s)
    <3>1. m \in 0 .. Bits
      BY <1>5
    <3>2. (m + 1) * (d + s) <= (m + 1) * d + d \div 2
      BY <3>1, SkewFacts
    <3>3. (m + 1) * d + d \div 2 < (m + 2) * (d + s)
      BY <1>6, SkewFacts
    <3> QED
      BY <2>1, <2>2, <3>2, <3>3
  <2>4. rx_sync[2] = Frame(w)[k + 1]
    BY <2>1, <2>3 DEF Taps, On
  <2> QED
    BY <2>1, <2>4, FrameBits DEF Byte
<1>8. /\ ShiftIn(rx.shift, rx_sync[2]) \in Byte
      /\ ShiftIn(rx.shift, rx_sync[2])[Bits] = rx_sync[2]
      /\ \A i \in 1 .. Bits - 1 : ShiftIn(rx.shift, rx_sync[2])[i] = rx.shift[i + 1]
  <2>1. Bits \in Nat \ {0}
    BY DEF Sizes
  <2> QED
    BY <1>1, <1>7, <2>1, ShiftBits DEF Byte
<1>9. ASSUME NEW i \in 1 .. m + 1 PROVE rx'.shift[rx'.bits + i] = w[i]
  <2>1. CASE i = m + 1
    <3>1. rx'.bits + i = Bits
      BY <1>4, <1>5, <1>6, <2>1 DEF Sizes
    <3> QED
      BY <1>4, <1>7, <1>8, <2>1, <3>1
  <2>2. CASE i # m + 1
    <3>1. rx'.bits + i \in 1 .. Bits - 1 /\ (rx'.bits + i) + 1 = rx.bits + i /\ i \in 1 .. m
      BY <1>4, <1>5, <1>6, <2>2 DEF Sizes
    <3>2. rx.shift[rx.bits + i] = w[i]
      BY <3>1 DEF Sampled
    <3> QED
      BY <1>4, <1>8, <3>1, <3>2
  <2> QED
    BY <2>1, <2>2
<1>10. rx'.bits \in 0 .. Bits /\ rx'.cnt \in Nat
  BY <1>1, <1>4, <1>5, <1>6 DEF Sizes
<1>11. Sampled(w)'
  BY <1>6, <1>9, <1>10 DEF Sampled
<1>12. RxAge' = RxAge + 1
  <2>1. RxAge' = d \div 2 + ((m + 1) + 1) * d + 2 - (d - 1)
    BY <1>4, <1>6 DEF RxAge, Half
  <2>2. ((m + 1) + 1) * d = (m + 1) * d + d
    BY <1>5, NextMul
  <2> DEFINE p == (m + 1) * d
             r == ((m + 1) + 1) * d
  <2>3. p \in Nat /\ r = p + d /\ RxAge = d \div 2 + p + 2 - 0 /\ RxAge' = d \div 2 + r + 2 - (d - 1)
    BY <1>1, <1>5, <2>1, <2>2
  <2> HIDE DEF p, r
  <2> QED
    BY <1>5, <2>3
<1> QED
  BY <1>1, <1>4, <1>8, <1>11, <1>12

\* When the receiver completes, its shift register holds the byte that was sent.
LEMMA Complete ==
  ASSUME Sizes, Shapes, NEW d \in Rates, baud_div = d, Completes, NEW w \in Byte, Sampled(w), RxEdge
  PROVE  /\ rx'.busy = FALSE /\ rx'.shift \in Byte /\ rx'.data = w
         /\ RxAge = (Bits + 1) * d + d \div 2 + 2
<1>1. DOMAIN rx = {"shift", "bits", "cnt", "busy", "data"} /\ rx.shift \in Byte
      /\ rx.busy /\ rx.cnt = 0 /\ rx.bits = 0
  BY DEF Shapes, Completes
<1>2. rx' = [rx EXCEPT !.busy = FALSE, !.data = rx.shift]
  BY <1>1 DEF RxEdge, Samples, Completes
<1>3. rx'.busy = FALSE /\ rx'.shift = rx.shift /\ rx'.data = rx.shift
  BY <1>1, <1>2
<1>4. RxSampled = Bits /\ RxAge = d \div 2 + (Bits + 1) * d + 2 - 0
  BY <1>1 DEF RxSampled, RxAge, Half, Sizes
<1>5. RxAge = (Bits + 1) * d + d \div 2 + 2
  <2> DEFINE p == (Bits + 1) * d
  <2>1. p \in Int /\ d \div 2 \in Int /\ RxAge = d \div 2 + p + 2 - 0
    BY <1>4, RateIsNat DEF Sizes
  <2> HIDE DEF p
  <2>2. RxAge = p + d \div 2 + 2
    BY <2>1
  <2> QED
    BY <2>2 DEF p
<1>6. rx.shift = w
  <2>1. \A i \in 1 .. Bits : rx.shift[i] = w[i]
    <3> TAKE i \in 1 .. Bits
    <3>1. rx.shift[rx.bits + i] = w[i]
      BY <1>4 DEF Sampled
    <3>2. rx.bits + i = i
      BY <1>1
    <3> QED
      BY <3>1, <3>2
  <2>2. rx.shift \in [1 .. Bits -> {0, 1}] /\ w \in [1 .. Bits -> {0, 1}]
    BY <1>1 DEF Byte
  <2>3. rx.shift = [i \in 1 .. Bits |-> rx.shift[i]] /\ w = [i \in 1 .. Bits |-> w[i]]
    BY <2>2
  <2>4. [i \in 1 .. Bits |-> rx.shift[i]] = [i \in 1 .. Bits |-> w[i]]
    BY <2>1
  <2> QED
    BY <2>3, <2>4
<1> QED
  BY <1>1, <1>3, <1>5, <1>6

\* The transmitter's and the receiver's records keep their fields.
LEMMA TxShape ==
  ASSUME Shapes, NEW send, TxEdge(send)
  PROVE  DOMAIN tx' = {"shift", "bits", "cnt", "busy"}
<1>1. CASE tx_load(send)
  BY <1>1 DEF TxEdge
<1>2. CASE ~tx_load(send) /\ tx.busy /\ tx.cnt = 0
  BY <1>2 DEF TxEdge
<1>3. CASE ~tx_load(send) /\ ~(tx.busy /\ tx.cnt = 0)
  <2>1. tx' = [tx EXCEPT !.cnt = @ - 1] \/ tx' = tx
    BY <1>3 DEF TxEdge
  <2> QED
    BY <2>1 DEF Shapes
<1> QED
  BY <1>1, <1>2, <1>3

\* The same of the receiver.
LEMMA RxShape ==
  ASSUME Shapes, RxEdge
  PROVE  DOMAIN rx' = {"shift", "bits", "cnt", "busy", "data"} /\ rx'.busy \in BOOLEAN
<1>1. DOMAIN rx = {"shift", "bits", "cnt", "busy", "data"} /\ rx.busy \in BOOLEAN
  BY DEF Shapes
<1>2. DOMAIN rx' = DOMAIN rx
  BY DEF RxEdge
<1>3. rx'.busy \in BOOLEAN
  <2>1. CASE ~rx.busy
    BY <1>1, <2>1 DEF RxEdge
  <2>2. CASE rx.busy /\ Samples
    BY <1>1, <2>2 DEF RxEdge
  <2>3. CASE rx.busy /\ ~Samples /\ Completes
    BY <1>1, <2>3 DEF RxEdge
  <2>4. CASE rx.busy /\ ~Samples /\ ~Completes
    BY <1>1, <2>4 DEF RxEdge
  <2> QED
    BY <2>1, <2>2, <2>3, <2>4
<1> QED
  BY <1>1, <1>2, <1>3

\* An idle receiver waits for a low line.
LEMMA Idle ==
  ASSUME ~rx.busy, rx_sync[2] # 0, RxEdge
  PROVE  rx' = rx
BY DEF RxEdge

\* The edge at which the receiver sees the start bit.
LEMMA Begins ==
  ASSUME Sizes, Shapes, NEW d \in Rates, baud_div = d, baud_div' = baud_div, ~rx.busy, rx_sync[2] = 0, RxEdge, NEW w
  PROVE  rx'.busy /\ rx'.shift \in Byte /\ Sampled(w)' /\ RxAge' = 3
<1>1. DOMAIN rx = {"shift", "bits", "cnt", "busy", "data"} /\ rx.shift \in Byte
  BY DEF Shapes
<1>2. rx' = [rx EXCEPT !.busy = TRUE, !.bits = Bits, !.cnt = FirstSample]
  BY DEF RxEdge
<1>3. d \in Nat /\ d > 0 /\ d \div 2 \in Nat /\ Wait(d \div 2 + d) = d \div 2 + d - 1
  <2>1. 0 \in Skews(d)
    BY RateIsNat DEF Skews, Sizes
  <2>2. d \in Nat /\ d > 0 /\ Wait(d \div 2 + d) = d \div 2 + d - 1
    BY <2>1, RateFacts
  <2>3. d \div 2 \in Nat
    BY <2>1, SkewFacts
  <2> QED
    BY <2>2, <2>3
<1>4. rx'.busy = TRUE /\ rx'.shift = rx.shift /\ rx'.bits = Bits /\ rx'.cnt = d \div 2 + d - 1
  BY <1>1, <1>2, <1>3 DEF FirstSample
<1>5. RxSampled' = 0
  BY <1>4 DEF RxSampled, Sizes
<1>6. RxAge' = d \div 2 + (0 + 1) * d + 2 - (d \div 2 + d - 1)
  BY <1>4, <1>5 DEF RxAge, Half
<1>7. RxAge' = 3
  BY <1>3, <1>6
<1>8. Sampled(w)'
  BY <1>3, <1>4, <1>5 DEF Sampled, Sizes
<1> QED
  BY <1>1, <1>4, <1>7, <1>8

\* What is loaded in an edge joins the line, what completes leaves it.
LEMMA LineStep ==
  ASSUME NEW send, NEW read, History(send, read)
  PROVE  /\ ~Completes /\ ~tx_load(send) => line' = line \o <<>>
         /\ ~Completes /\ tx_load(send) => line' = line \o <<send>>
         /\ Completes /\ line # <<>> /\ ~tx_load(send) => line' = Tail(line) \o <<>>
         /\ Completes /\ line # <<>> /\ tx_load(send) => line' = Tail(line) \o <<send>>
BY DEF History, tx_load

\* An edge of an idle receiver.
LEMMA ListeningStep ==
  ASSUME Sizes, Reception, ~rx.busy, NEW send \in {<<>>} \cup Byte, send # <<>> => baud_div \in Rates, NEW read,
         TxEdge(send), SyncEdge, RxEdge, History(send, read), baud_div' = baud_div
  PROVE  Reception'
<1>1. Shapes /\ Listening /\ ~Completes
  BY DEF Reception, Completes
<1>2. rx_sync'[1] = serial_tx /\ rx_sync'[2] = rx_sync[1]
  BY DEF SyncEdge
<1>3. DOMAIN tx' = {"shift", "bits", "cnt", "busy"} /\ DOMAIN rx' = {"shift", "bits", "cnt", "busy", "data"}
      /\ rx'.busy \in BOOLEAN
  BY <1>1, TxShape, RxShape
<1>4. ASSUME rx_sync[2] = 1
      PROVE  rx' = rx /\ Shapes' /\ ~rx'.busy
  BY <1>1, <1>3, <1>4, Idle DEF Shapes
<1>5. CASE line = <<>> /\ Free /\ High
  <2>1. rx_sync[1] = 1 /\ rx_sync[2] = 1 /\ serial_tx = 1
    BY <1>5 DEF High, Free
  <2>2. High'
    BY <1>2, <2>1 DEF High
  <2>3. CASE ~tx_load(send)
    <3>1. TxEdge(<<>>)
      BY <1>5, <2>3 DEF TxEdge, tx_load, Free
    <3>2. Free'
      BY <1>5, <3>1, FreeStep
    <3>3. line' = <<>>
      BY <1>1, <1>5, <2>3, LineStep, Lines
    <3> QED
      BY <1>4, <2>1, <2>2, <3>2, <3>3 DEF Reception, Listening
  <2>4. CASE tx_load(send)
    <3>1. send \in Byte /\ baud_div \in Rates
      BY <2>4 DEF tx_load
    <3>2. Loaded(send)'
      BY <1>5, <3>1, LoadStep
    <3>3. line' = <<send>>
      BY <1>1, <1>5, <2>4, LineStep, Lines
    <3>4. Listening'
      BY <2>2, <3>1, <3>2, <3>3 DEF Listening
    <3> QED
      BY <1>4, <2>1, <3>1, <3>4 DEF Reception
  <2> QED
    BY <2>3, <2>4
<1>6. ASSUME NEW w \in Byte, line = <<w>>, Loaded(w), High
      PROVE  Reception'
  <2>1. rx_sync[1] = 1 /\ rx_sync[2] = 1 /\ serial_tx = 1 /\ tx.busy
    BY <1>6 DEF High, Loaded, TxHolds
  <2>2. line' = <<w>> /\ baud_div \in Rates
    <3>1. ~tx_load(send) /\ line # <<>>
      BY <1>6, <2>1, Lines DEF tx_load
    <3> QED
      BY <1>1, <1>6, <3>1, LineStep, Lines DEF Reception
  <2>3. (tx.cnt = 0 => Started(w)' /\ TxAge' = 0) /\ (tx.cnt # 0 => Loaded(w)')
    BY <1>1, <1>6, <2>2, LoadedStep DEF Shapes
  <2>4. CASE tx.cnt # 0
    <3>1. Listening'
      BY <1>2, <1>6, <2>1, <2>2, <2>3, <2>4 DEF Listening, High
    <3> QED
      BY <1>4, <2>1, <2>2, <3>1 DEF Reception
  <2>5. CASE tx.cnt = 0
    <3>1. baud_div' + skew' \in Nat
      <4>1. skew' \in Skews(baud_div) /\ baud_div' = baud_div
        BY <2>3, <2>5 DEF Started, TxHolds
      <4> QED
        BY <2>2, <4>1, RateFacts
    <3>2. Taps(w, baud_div + skew, TxAge)'
      <4> DEFINE E == baud_div' + skew'
      <4>1. On(w, baud_div', E, 0 - 1, 1) /\ On(w, baud_div', E, 0 - 2, 1)
        BY <3>1, OnBefore
      <4> QED
        BY <1>2, <2>1, <2>3, <2>5, <4>1 DEF Taps
    <3>3. Listening'
      BY <1>6, <2>2, <2>3, <2>5, <3>2 DEF Listening
    <3> QED
      BY <1>4, <2>1, <2>2, <3>3 DEF Reception
  <2> QED
    BY <2>4, <2>5
<1>7. ASSUME NEW w \in Byte, line = <<w>>, Started(w), TxAge <= 2, Taps(w, baud_div + skew, TxAge)
      PROVE  Reception'
  <2>1. line' = <<w>> /\ baud_div \in Rates
    <3>1. ~tx_load(send) /\ line # <<>>
      BY <1>7, Lines DEF tx_load, Started, TxHolds
    <3> QED
      BY <1>1, <1>7, <3>1, LineStep, Lines DEF Reception
  <2>2. /\ On(w, baud_div, baud_div + skew, TxAge, serial_tx) /\ TxAge \in Nat /\ skew \in Skews(baud_div)
    BY <1>7, <2>1, StartedLine
  <2>3. PICK d, s, D : /\ d \in Rates /\ s \in Skews(d) /\ D \in Nat /\ D > 0
                       /\ baud_div = d /\ skew = s /\ D = d + s
    <3>1. baud_div + skew \in Nat /\ baud_div + skew > 0
      BY <2>1, <2>2, RateFacts
    <3> QED
      BY <2>1, <2>2, <3>1
  <2>4. End(D) \in Nat /\ End(D) >= 3
    BY <2>3, EndIsNat
  <2>5. PICK a \in 0 .. 2 : TxAge = a
    BY <1>7, <2>2
  <2>6. Taps(w, D, a + 1)'
    <3>1. On(w, baud_div, D, a, serial_tx) /\ Taps(w, D, a) /\ a \in Int
      BY <1>7, <2>2, <2>3, <2>5
    <3> QED
      BY <3>1, TapsStep
  <2>7. /\ skew' = skew
        /\ tx.cnt = 0 /\ tx.bits = 1 => Free' /\ a + 1 = End(D)
        /\ ~(tx.cnt = 0 /\ tx.bits = 1) => Started(w)' /\ TxAge' = a + 1
    BY <1>1, <1>7, <2>1, <2>3, <2>5, StartedStep DEF Shapes
  <2>8. (a # 2 => rx_sync[2] = 1) /\ (a = 2 => rx_sync[2] = 0)
    <3>1. On(w, d, D, a - 2, rx_sync[2])
      BY <1>7, <2>3, <2>5 DEF Taps
    <3>2. (a - 2 < 0 => rx_sync[2] = 1) /\ (a - 2 = 0 => rx_sync[2] = 0)
      BY <2>3, <3>1, OnStart
    <3> QED
      BY <3>2
  <2>9. CASE a # 2
    <3>1. Started(w)' /\ TxAge' = a + 1 /\ a + 1 <= 2
      BY <2>4, <2>7, <2>9
    <3>2. Taps(w, baud_div + skew, TxAge)'
      BY <2>3, <2>6, <2>7, <3>1 DEF Taps
    <3>3. Listening'
      BY <1>7, <2>1, <3>1, <3>2 DEF Listening
    <3> QED
      BY <1>4, <2>1, <2>8, <2>9, <3>3 DEF Reception
  <2>10. CASE a = 2
    <3>1. rx'.busy /\ rx'.shift \in Byte /\ Sampled(w)' /\ RxAge' = 3
      BY <1>1, <2>3, <2>8, <2>10, Begins
    <3>2. Taps(w, baud_div + s, RxAge)'
      <4>1. baud_div' + s = D /\ RxAge' = 3 /\ a + 1 = 3
        BY <2>3, <2>10, <3>1
      <4> QED
        BY <2>6, <4>1 DEF Taps
    <3>3. Ahead(w, s, RxAge, <<>>)'
      <4>1. CASE tx.cnt = 0 /\ tx.bits = 1
        <5>1. End(baud_div' + s) = 3 /\ Free' /\ RxAge' = 3
          BY <2>3, <2>7, <2>10, <3>1, <4>1
        <5> QED
          BY <5>1 DEF Ahead
      <4>2. CASE ~(tx.cnt = 0 /\ tx.bits = 1)
        <5>1. Started(w)' /\ skew' = s /\ TxAge' = RxAge' /\ a + 1 < End(D)
          BY <1>7, <2>1, <2>3, <2>5, <2>7, <2>10, <3>1, <4>2, StartedGoesOn
        <5>2. RxAge' < End(baud_div' + s)
          BY <2>3, <2>10, <3>1, <5>1
        <5> QED
          BY <5>1, <5>2 DEF Ahead
      <4> QED
        BY <4>1, <4>2
    <3>4. Receiving'
      <4>1. line' = <<w>> \o <<>> /\ s \in Skews(baud_div')
        BY <2>1, <2>3, Lines
      <4> QED
        BY <3>1, <3>2, <3>3, <4>1 DEF Receiving
    <3> QED
      BY <1>3, <2>1, <3>1, <3>4 DEF Reception, Shapes
  <2> QED
    BY <2>9, <2>10
<1> QED
  BY <1>1, <1>5, <1>6, <1>7 DEF Listening

\* An edge of a busy receiver; if it completes, it completes the first byte on
\* the line.
LEMMA ReceivingStep ==
  ASSUME Sizes, Reception, rx.busy, NEW send \in {<<>>} \cup Byte, NEW read,
         TxEdge(send), SyncEdge, RxEdge, History(send, read), baud_div' = baud_div
  PROVE  Reception' /\ (Completes => line # <<>> /\ rx'.data = Head(line))
<1>1. Shapes /\ Receiving
  BY DEF Reception
<1>2. PICK w \in Byte, s \in Skews(baud_div), q \in {<<>>} \cup {<<v>> : v \in Byte} :
        line = <<w>> \o q /\ Sampled(w) /\ Taps(w, baud_div + s, RxAge) /\ Ahead(w, s, RxAge, q)
  BY <1>1 DEF Receiving
<1>3. line # <<>> /\ Head(line) = w /\ Tail(line) = q /\ q \o <<>> = q /\ line \o <<>> = line
  <2>1. CASE q = <<>>
    BY <1>2, <2>1, Lines
  <2>2. ASSUME NEW v \in Byte, q = <<v>>
        PROVE  line # <<>> /\ Head(line) = w /\ Tail(line) = q /\ q \o <<>> = q /\ line \o <<>> = line
    <3>1. line = <<w, v>>
      BY <1>2, <2>2, Pair
    <3> QED
      BY <2>2, <3>1, Lines
  <2> QED
    BY <2>1, <2>2
<1>4. PICK d, D, e : /\ d \in Rates /\ d = baud_div /\ D = d + s /\ e = RxAge
  BY <1>1, <1>3 DEF Reception
<1>5. e \in Int /\ e <= (Bits + 1) * d + d \div 2 + 2 /\ s \in Skews(d)
  BY <1>2, <1>4, AgeOf
<1>6. PICK f : f = e + 1
  OBVIOUS
<1>7. /\ Taps(w, D, f)'
      /\ ~tx_load(send) => Ahead(w, s, f, q)'
      /\ tx_load(send) => q = <<>> /\ send \in Byte /\ Ahead(w, s, f, <<send>>)'
  BY <1>1, <1>2, <1>4, <1>5, <1>6, AheadStep
<1>8. PICK p \in {<<>>} \cup {<<v>> : v \in Byte} :
        /\ Ahead(w, s, f, p)'
        /\ ~Completes => line' = <<w>> \o p
        /\ Completes => line' = p
  <2>1. CASE ~tx_load(send)
    <3>1. (~Completes => line' = <<w>> \o q) /\ (Completes => line' = q)
      BY <1>2, <1>3, <2>1, LineStep
    <3> QED
      BY <1>7, <2>1, <3>1
  <2>2. CASE tx_load(send)
    <3>1. q = <<>> /\ send \in Byte /\ line = <<w>>
      BY <1>2, <1>7, <2>2, Lines
    <3>2. (~Completes => line' = <<w>> \o <<send>>) /\ (Completes => line' = <<>> \o <<send>>)
      BY <1>3, <2>2, <3>1, LineStep
    <3>3. <<>> \o <<send>> = <<send>>
      BY Lines
    <3> QED
      BY <1>7, <2>2, <3>1, <3>2, <3>3
  <2> QED
    BY <2>1, <2>2
<1>9. DOMAIN tx' = {"shift", "bits", "cnt", "busy"} /\ DOMAIN rx' = {"shift", "bits", "cnt", "busy", "data"}
      /\ rx'.busy \in BOOLEAN /\ baud_div' = d /\ baud_div' + s = D
  BY <1>1, <1>4, TxShape, RxShape
<1>10. CASE ~Completes
  <2>1. rx'.busy /\ rx'.shift \in Byte /\ Sampled(w)' /\ RxAge' = f
    <3>1. CASE rx.cnt # 0
      BY <1>1, <1>2, <1>4, <1>6, <3>1, CountDown
    <3>2. CASE rx.cnt = 0
      <4>1. Samples
        BY <1>10, <3>2 DEF Samples, Completes
      <4> QED
        BY <1>1, <1>2, <1>4, <1>6, <4>1, Sample
    <3> QED
      BY <3>1, <3>2
  <2>2. Taps(w, baud_div + s, RxAge)' /\ Ahead(w, s, RxAge, p)'
    BY <1>7, <1>8, <1>9, <2>1 DEF Taps, Ahead
  <2>3. Receiving'
    <3>1. line' = <<w>> \o p /\ s \in Skews(baud_div')
      BY <1>4, <1>5, <1>8, <1>10
    <3> QED
      BY <2>1, <2>2, <3>1 DEF Receiving
  <2> QED
    BY <1>4, <1>9, <1>10, <2>1, <2>3 DEF Reception, Shapes
<1>11. CASE Completes
  <2>1. rx'.busy = FALSE /\ rx'.shift \in Byte /\ rx'.data = w /\ e = (Bits + 1) * d + d \div 2 + 2
    BY <1>1, <1>2, <1>4, <1>11, Complete
  <2>2. /\ d \in Nat /\ d > 0 /\ D \in Nat /\ D > 0 /\ d \div 2 \in Nat /\ End(D) \in Nat
        /\ e <= End(D) + d + 1 /\ End(D) + 2 <= e /\ f = e + 1 /\ e \in Int
    <3>1. /\ d \in Nat /\ d > 0 /\ D \in Nat /\ D > 0 /\ d \div 2 \in Nat /\ End(D) \in Nat
          /\ End(D) <= (Bits + 1) * d + d \div 2 /\ e <= End(D) + d + 1
      BY <1>4, <1>5, EndBound
    <3> DEFINE r == (Bits + 1) * d
    <3>2. r \in Int /\ End(D) <= r + d \div 2 /\ e = r + d \div 2 + 2
      BY <2>1, <3>1 DEF Sizes
    <3> HIDE DEF r
    <3>3. End(D) + 2 <= e
      BY <3>1, <3>2
    <3> QED
      BY <1>5, <1>6, <3>1, <3>3
  <2>3. rx_sync'[2] = 1
    <3>1. On(w, d, D, f - 2, rx_sync'[2])
      BY <1>7, <1>9 DEF Taps
    <3>2. End(D) <= f - 2 /\ f - 2 <= End(D) + d
      BY <2>2
    <3> QED
      BY <3>1, <3>2, OnStop
  <2>4. line' = p
    BY <1>8, <1>11
  <2>5. \/ p = <<>> /\ f < End(D)
        \/ p = <<>> /\ Free' /\ (f > End(D) => rx_sync'[1] = 1)
        \/ \E v \in Byte : p = <<v>> /\ Loaded(v)' /\ rx_sync'[1] = 1
        \/ \E v \in Byte :
            p = <<v>> /\ Started(v)' /\ f >= End(D) + d + 1 + TxAge' /\ Taps(v, baud_div + skew, TxAge)'
    BY <1>8, <1>9 DEF Ahead
  <2>6. ASSUME p = <<>>, Free', f > End(D) => rx_sync'[1] = 1
        PROVE  Listening'
    <3>1. High'
      BY <2>2, <2>3, <2>6 DEF High
    <3>2. line' = <<>> /\ Free'
      BY <2>4, <2>6
    <3> QED
      BY <3>1, <3>2 DEF Listening
  <2>7. ASSUME NEW v \in Byte, p = <<v>>, Loaded(v)', rx_sync'[1] = 1
        PROVE  Listening'
    BY <2>3, <2>4, <2>7 DEF Listening, High
  <2>8. ASSUME NEW v \in Byte, p = <<v>>, Started(v)', f >= End(D) + d + 1 + TxAge', Taps(v, baud_div + skew, TxAge)'
        PROVE  Listening'
    <3>1. TxAge' \in Int
      <4>1. tx'.bits \in Int /\ tx'.cnt \in Int /\ baud_div' + skew' \in Nat
        <5>1. skew' \in Skews(d) /\ tx'.bits \in 1 .. Bits + 2 /\ tx'.cnt \in 0 .. baud_div' + skew' - 1
          BY <1>9, <2>8 DEF Started, TxHolds
        <5>2. baud_div' + skew' \in Nat
          BY <1>4, <1>9, <5>1, RateFacts
        <5> QED
          BY <5>1, <5>2 DEF Sizes
      <4>2. TxSent' \in Int
        BY <4>1 DEF TxSent, Sizes
      <4>3. TxAge' = TxSent' * (baud_div' + skew') - 1 - tx'.cnt
        BY DEF TxAge
      <4> QED
        BY <4>1, <4>2, <4>3
    <3>2. TxAge' <= 2
      BY <2>2, <2>8, <3>1
    <3> QED
      BY <2>4, <2>8, <3>2 DEF Listening
  <2>9. Listening'
    <3>1. ~(f < End(D))
      BY <2>2
    <3> QED
      BY <2>5, <2>6, <2>7, <2>8, <3>1
  <2> QED
    BY <1>3, <1>4, <1>9, <2>1, <2>9 DEF Reception, Shapes
<1> QED
  BY <1>10, <1>11

\* The invariant after a reset,
LEMMA ReceptionInit == ASSUME Sizes PROVE Init => Reception
<1> SUFFICES ASSUME Init PROVE Reception
  OBVIOUS
<1>1. Zeros \in Byte
  BY DEF Zeros, Byte
<1>2. rx.busy = FALSE /\ rx.shift = Zeros /\ tx.busy = FALSE /\ serial_tx = 1 /\ line = <<>> /\ rx_sync[1] = 1
      /\ rx_sync[2] = 1 /\ DOMAIN tx = {"shift", "bits", "cnt", "busy"}
      /\ DOMAIN rx = {"shift", "bits", "cnt", "busy", "data"}
  BY DEF Init
<1>3. Listening
  BY <1>2 DEF Listening, Free, High
<1> QED
  BY <1>1, <1>2, <1>3 DEF Reception, Shapes

\* and in every step.
LEMMA ReceptionStep ==
  ASSUME Sizes, Reception, [Next]_vars
  PROVE  Reception' /\ (Completes /\ Clock => line # <<>> /\ rx'.data = Head(line))
<1>1. CASE Clock
  <2>1. PICK send \in {<<>>} \cup (IF baud_div \in Rates THEN Byte ELSE {}), read \in {"none", "status", "data"} :
          TxEdge(send) /\ SyncEdge /\ RxEdge /\ History(send, read) /\ baud_div' = baud_div
    BY <1>1 DEF Clock
  <2>2. send \in {<<>>} \cup Byte /\ (send # <<>> => baud_div \in Rates)
    BY <2>1
  <2>3. CASE rx.busy
    BY <2>1, <2>2, <2>3, ReceivingStep
  <2>4. CASE ~rx.busy
    <3>1. ~Completes
      BY <2>4 DEF Completes
    <3> QED
      BY <2>1, <2>2, <2>4, <3>1, ListeningStep
  <2> QED
    BY <2>3, <2>4
<1>2. CASE SetBaud
  <2>1. /\ ~tx.busy /\ ~rx.busy /\ line = <<>>
        /\ TxEdge(<<>>) /\ SyncEdge /\ RxEdge /\ History(<<>>, "none")
    BY <1>2 DEF SetBaud
  <2>2. Listening /\ Shapes
    BY <2>1 DEF Reception
  <2>3. Free /\ High
    <3>1. \A w \in Byte : line # <<w>>
      BY <2>1
    <3> QED
      BY <2>2, <3>1 DEF Listening
  <2>4. Free'
    BY <2>1, <2>3, FreeStep
  <2>5. rx' = rx
    BY <2>1, <2>3, Idle DEF High
  <2>6. line' = <<>> /\ ~Completes
    <3>1. ~Completes /\ ~tx_load(<<>>)
      BY <2>1 DEF Completes, tx_load
    <3> QED
      BY <2>1, <3>1, LineStep, Lines
  <2>7. High'
    BY <2>1, <2>3 DEF High, SyncEdge, Free
  <2>8. Shapes'
    BY <2>1, <2>2, <2>5, TxShape DEF Shapes
  <2> QED
    BY <2>1, <2>4, <2>5, <2>6, <2>7, <2>8 DEF Reception, Listening
<1>3. CASE Reset
  <2>1. Zeros \in Byte
    BY DEF Zeros, Byte
  <2>2. rx'.busy = FALSE /\ rx'.shift = Zeros /\ tx'.busy = FALSE /\ serial_tx' = 1 /\ line' = <<>> /\ rx_sync'[1] = 1
        /\ rx_sync'[2] = 1 /\ DOMAIN tx' = {"shift", "bits", "cnt", "busy"}
        /\ DOMAIN rx' = {"shift", "bits", "cnt", "busy", "data"}
    BY <1>3 DEF Reset
  <2>3. Listening'
    BY <2>2 DEF Listening, Free, High
  <2>4. ~(Completes /\ Clock) \/ rx.busy
    BY DEF Completes
  <2> QED
    BY <1>1, <2>1, <2>2, <2>3 DEF Reception, Shapes
<1>4. CASE UNCHANGED vars
  <2>1. /\ baud_div' = baud_div /\ skew' = skew /\ tx' = tx /\ serial_tx' = serial_tx /\ rx_sync' = rx_sync
        /\ rx' = rx /\ line' = line
    BY <1>4 DEF vars
  <2>2. \A v : TxHolds(v)' = TxHolds(v)
    BY <2>1 DEF TxHolds, TxSent
  <2>3. (\A v : Loaded(v)' = Loaded(v) /\ Started(v)' = Started(v)) /\ TxAge' = TxAge /\ RxAge' = RxAge
        /\ Free' = Free /\ High' = High
    BY <2>1, <2>2 DEF Loaded, Started, TxSent, TxAge, RxAge, RxSampled, Half, Free, High
  <2>4. \A v, D, x : Taps(v, D, x)' = Taps(v, D, x)
    BY <2>1 DEF Taps
  <2>5. Listening' = Listening
    BY <2>1, <2>3, <2>4 DEF Listening
  <2>6. \A w, s, e, q : Ahead(w, s, e, q)' = Ahead(w, s, e, q)
    BY <2>1, <2>3, <2>4 DEF Ahead
  <2>7. \A w : Sampled(w)' = Sampled(w)
    BY <2>1 DEF Sampled, RxSampled
  <2>8. Receiving' = Receiving
    BY <2>1, <2>3, <2>4, <2>6, <2>7 DEF Receiving
  <2>9. Reception'
    BY <2>1, <2>5, <2>8 DEF Reception, Shapes
  <2> QED
    BY <1>1, <2>9
<1> QED
  BY <1>1, <1>2, <1>3, <1>4 DEF Next

\* At every rate whose one and a half bits the counter holds, for a sender whose
\* clock differs by less than half a bit over a frame and however closely its
\* frames follow each other: what the receiver puts in rx_data_q is the oldest
\* byte that was loaded and not yet received (three_sipp_es_uart.sv).
THEOREM UartDelivered == ASSUME Sizes PROVE Spec => Delivered
<1>1. Init => Reception
  BY ReceptionInit
<1>2. Reception /\ [Next]_vars => Reception'
  BY ReceptionStep
<1>3. Reception /\ [Next]_vars => [Completes /\ Clock => line # <<>> /\ rx'.data = Head(line)]_vars
  BY ReceptionStep
<1> QED
  BY <1>1, <1>2, <1>3, PTL DEF Spec, Delivered
=============================================================================
