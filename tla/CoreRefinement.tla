---------------------------- MODULE CoreRefinement ----------------------------
(***************************************************************************)
(* That Core implements Isa: for every program, memory, size and sequence  *)
(* of pins that the hypotheses of the theorems admit, the pipeline's       *)
(* registers, memory, CSRs and order of instructions are those of the      *)
(* sequential machine.  An instruction takes effect on the edge that moves *)
(* it from X to W; W still owes the registers and memory what ArchRegs and *)
(* ArchMem add to them.  The argument: W pays what it owes, in one beat or *)
(* two; X reads its operands as if W had paid; fetch stands where X's      *)
(* instruction, or its prediction, leads; and so the edge on which an      *)
(* instruction leaves X is the machine's step, every other one is a        *)
(* debugger's step or does not show.                                       *)
(***************************************************************************)
EXTENDS CoreProofs

----------------------------------------------------------------------------
(* Lanes.                                                                  *)

\* Division with remainder.
LEMMA DivModLaw ==
  ASSUME NEW m \in Nat, NEW n \in Nat \ {0}
  PROVE  m = n * (m \div n) + (m % n) /\ m % n \in 0 .. n - 1 /\ m \div n \in Nat
  OBVIOUS

\* A quotient and a remainder below the divisor are determined by their sum.
LEMMA DivModOf ==
  ASSUME NEW n \in Nat \ {0}, NEW q \in Nat, NEW r \in 0 .. n - 1
  PROVE  (r + n * q) % n = r /\ (r + n * q) \div n = q
<1> DEFINE m == r + n * q
<1>1. n * q \in Nat
  OBVIOUS
<1>2. m \in Nat /\ m = n * (m \div n) + (m % n) /\ m % n \in 0 .. n - 1 /\ m \div n \in Nat
  <2>1. m \in Nat
    BY <1>1
  <2> HIDE DEF m
  <2> QED
    BY <2>1, DivModLaw, Zenon
<1>3. \A k \in Nat, j \in Nat, s \in 0 .. n - 1, d \in 0 .. n - 1 :
         d + n * k = s + n * j => ~(k < j)
  <2> SUFFICES ASSUME NEW k \in Nat, NEW j \in Nat, NEW s \in 0 .. n - 1, NEW d \in 0 .. n - 1,
                      d + n * k = s + n * j, k < j
               PROVE  FALSE
    OBVIOUS
  <2>1. PICK e \in Nat : j = k + 1 + e
    <3>1. j - k - 1 \in Nat /\ j = k + 1 + (j - k - 1)
      OBVIOUS
    <3> QED
      BY <3>1
  <2>2. n * j = n * k + n + n * e
    BY <2>1
  <2>3. n * e \in Nat /\ n * k \in Nat /\ n * j \in Nat
    OBVIOUS
  <2> QED
    BY <2>2, <2>3
<1>4. ~(m \div n < q) /\ ~(q < m \div n)
  BY <1>2, <1>3
<1>5. m \div n = q
  BY <1>2, <1>4
<1> QED
  BY <1>2, <1>5

\* The lanes of an assembled word are the lanes it was assembled from.
LEMMA LanesBack ==
  ASSUME NEW l \in Lane, NEW h \in Lane
  PROVE  LaneOf(FromLanes(l, h), 0) = l /\ LaneOf(FromLanes(l, h), 1) = h
<1>1. LaneBase \in Nat \ {0} /\ l \in 0 .. LaneBase - 1 /\ h \in 0 .. LaneBase - 1 /\ h \in Nat
  BY Sizes DEF Lane
<1>2. (l + LaneBase * h) % LaneBase = l /\ (l + LaneBase * h) \div LaneBase = h
  BY <1>1, DivModOf
<1>3. h % LaneBase = h
  BY <1>1
<1> QED
  BY <1>2, <1>3 DEF LaneOf, FromLanes

\* An aligned address and the address behind it are two neighbouring lanes of
\* the same word of memory, the first of them even.
LEMMA EvenLane ==
  ASSUME NEW b \in Nat, b % 2 = 0
  PROVE  /\ b % MemLanes \in 0 .. MemLanes - 2 /\ (b % MemLanes) % 2 = 0
         /\ (b + 1) % MemLanes = (b % MemLanes) + 1
<1>1. MemLanes \in Nat /\ MemLanes >= 4 /\ MemLanes % 2 = 0
  BY Sizes
<1>2. PICK h \in Nat : MemLanes = 2 * h
  <2>1. MemLanes = 2 * (MemLanes \div 2) /\ MemLanes \div 2 \in Nat
    BY <1>1
  <2> QED
    BY <2>1
<1> DEFINE q == b \div MemLanes
           r == b % MemLanes
<1>3. q \in Nat /\ r \in 0 .. MemLanes - 1 /\ b = MemLanes * q + r
  <2>1. MemLanes \in Nat \ {0}
    BY <1>1
  <2> QED
    BY <2>1, DivModLaw, Zenon
<1> HIDE DEF q, r
<1>4. MemLanes * q = 2 * (h * q) /\ h * q \in Nat
  BY <1>2, <1>3
<1>5. r % 2 = 0
  <2> DEFINE k == h * q
  <2> HIDE DEF k
  <2>1. b = r + 2 * k /\ k \in Nat
    BY <1>3, <1>4 DEF k
  <2>2. r \in Nat /\ b % 2 = 0
    BY <1>3
  <2> HIDE <1>3
  <2>3. r = b - 2 * k
    BY <2>1, <2>2
  <2> QED
    BY <2>1, <2>2, <2>3
<1>6. r # MemLanes - 1
  BY <1>1, <1>5, <1>3
<1>7. r + 1 \in 0 .. MemLanes - 1 /\ b + 1 = (r + 1) + MemLanes * q
  <2>1. MemLanes * q \in Nat
    BY <1>1, <1>3
  <2> QED
    BY <1>1, <1>3, <1>6, <2>1
<1>8. (b + 1) % MemLanes = r + 1
  <2>1. MemLanes \in Nat \ {0}
    BY <1>1
  <2>2. ((r + 1) + MemLanes * q) % MemLanes = r + 1
    BY <2>1, <1>3, <1>7, DivModOf
  <2> QED
    BY <2>2, <1>7
<1>9. r \in 0 .. MemLanes - 2
  BY <1>1, <1>3, <1>6
<1> QED
  BY <1>5, <1>8, <1>9 DEF r

\* An address is aligned or one behind an aligned one.
LEMMA AlignCases ==
  ASSUME NEW a \in Nat
  PROVE  /\ AlignDown(a) \in Nat /\ AlignDown(a) % 2 = 0
         /\ \/ a % 2 = 0 /\ a = AlignDown(a)
            \/ a % 2 = 1 /\ a = AlignDown(a) + 1
  BY DEF AlignDown


----------------------------------------------------------------------------
(* W: what it reads and what it writes.                                    *)

\* The control bits W works by are those of its instruction.
XwFlags ==
  xw.valid =>
    /\ xw.reg_we <=> WritesRd(xw.instr)
    /\ xw.mem_re <=> xw.instr.op = "load"
    /\ xw.mem_we <=> xw.instr.op = "store"
    /\ xw.is_amo <=> IsAtomic(xw.instr)

\* Between the two beats of an access: the word a load or an AMO has read is
\* the one in memory, and a store has written the lane in the first word.
BeatData ==
  beat2 =>
    /\ xw.instr.op = "amo" => ld_w0 = WordAt(mem, AlignDown(xw.amo_addr))
    /\ xw.instr.op = "load" => ld_w0 = WordAt(mem, AlignDown(xw.result))
    /\ xw.instr.op = "store" => mem[xw.result % MemLanes] = LaneOf(xw.store, 0)

WInv == TypeOK /\ BeatsPaired /\ XwFlags /\ BeatData

\* The two lanes of the word that the memory port addresses.
LEMMA Window ==
  ASSUME TypeOK
  PROVE  /\ dmem_addr \in Nat /\ dmem_addr % 2 = 0
         /\ dmem_addr % MemLanes \in 0 .. MemLanes - 2 /\ (dmem_addr % MemLanes) % 2 = 0
         /\ (dmem_addr + 1) % MemLanes = (dmem_addr % MemLanes) + 1
<1>1. xw.result \in Nat /\ xw.amo_addr \in Nat
  BY XwFields, WordIsNat
<1>2. AlignDown(xw.result) \in Nat /\ AlignDown(xw.result) % 2 = 0
  BY <1>1, AlignCases
<1>3. AlignDown(xw.amo_addr) \in Nat /\ AlignDown(xw.amo_addr) % 2 = 0
  BY <1>1, AlignCases
<1>4. \A b \in Nat : b % 2 = 0 => (b + 2) % 2 = 0
  OBVIOUS
<1>5. dmem_addr \in Nat /\ dmem_addr % 2 = 0
  BY <1>2, <1>3, <1>4 DEF dmem_addr
<1> QED
  BY <1>5, EvenLane

\* Its lanes are read back unchanged (dmem_rdata).
LEMMA ReadLanes ==
  ASSUME TypeOK, NEW b \in Nat, b % 2 = 0
  PROVE  /\ LaneOf(WordAt(mem, b), 0) = mem[b % MemLanes]
         /\ LaneOf(WordAt(mem, b), 1) = mem[(b + 1) % MemLanes]
<1>1. mem[b % MemLanes] \in Lane /\ mem[(b + 1) % MemLanes] \in Lane
  BY XwFields, MemType
<1> QED
  BY <1>1, LanesBack DEF WordAt

\* A load assembles the value at its address, from one beat or from two.
LEMMA LoadAssembles ==
  ASSUME WInv, ~mem_beat_stall, xw.valid, xw.instr.op = "load"
  PROVE  w_load = LoadAt(mem, xw.instr.fn, xw.result)
<1> DEFINE a == xw.result
           b == AlignDown(a)
<1>1. a \in Nat /\ b \in Nat /\ b % 2 = 0 /\ TypeOK
  BY XwFields, WordIsNat, AlignCases DEF WInv
<1>2. xw.mem_re /\ ~xw.mem_we /\ ~xw.is_amo /\ ~amo_here
  BY XwFields DEF WInv, XwFlags, IsAtomic, amo_here
<1>3. mem_mis <=> xw.instr.fn = "w" /\ a % 2 = 1
  BY <1>2 DEF mem_mis, lo, Width
<1>4. beat2 <=> mem_mis
  BY <1>2 DEF WInv, BeatsPaired, mem_beat_stall, amo_rmw_b2, TypeOK
<1>5. lo = a % 2
  BY DEF lo
<1>6. dmem_rdata = WordAt(mem, dmem_addr)
  BY DEF dmem_rdata, WordAt
<1> HIDE DEF b
<1>7. CASE ~mem_mis
  <2>1. dmem_addr = b
    BY <1>1, <1>2, <1>4, <1>7 DEF dmem_addr, b
  <2>2. LaneOf(dmem_rdata, 0) = mem[b % MemLanes] /\ LaneOf(dmem_rdata, 1) = mem[(b + 1) % MemLanes]
    BY <1>1, <1>6, <2>1, ReadLanes
  <2>3. ld_comb(0) = mem[b % MemLanes] /\ ld_comb(1) = mem[(b + 1) % MemLanes]
    BY <1>4, <1>7, <2>2 DEF ld_comb
  <2>4. CASE xw.instr.fn = "w"
    <3>1. a % 2 = 0 /\ a = b
      BY <1>1, <1>3, <1>7, <2>4, AlignCases DEF b
    <3>2. w_load = FromLanes(ld_comb(0), ld_comb(1))
      BY <1>5, <2>4, <3>1 DEF w_load, Width
    <3> QED
      BY <2>3, <2>4, <3>1, <3>2 DEF LoadAt, WordAt
  <2>5. CASE xw.instr.fn # "w"
    <3>1. w_load = Extend(xw.instr.fn, ld_comb(a % 2))
      BY <1>5, <2>5 DEF w_load, Width
    <3>2. LoadAt(mem, xw.instr.fn, a) = Extend(xw.instr.fn, mem[a % MemLanes])
      BY <2>5 DEF LoadAt
    <3>3. ld_comb(a % 2) = mem[a % MemLanes]
      <4>1. \/ a % 2 = 0 /\ a = b
            \/ a % 2 = 1 /\ a = b + 1
        BY <1>1, AlignCases DEF b
      <4> QED
        BY <2>3, <4>1
    <3> QED
      BY <3>1, <3>2, <3>3
  <2> QED
    BY <2>4, <2>5
<1>8. CASE mem_mis
  <2>1. dmem_addr = b + 2 /\ a = b + 1 /\ a + 1 = b + 2 /\ (b + 2) % 2 = 0
    BY <1>1, <1>2, <1>3, <1>4, <1>8, AlignCases DEF dmem_addr, b
  <2>2. ld_w0 = WordAt(mem, b)
    BY <1>4, <1>8 DEF WInv, BeatData, b
  <2>3. LaneOf(ld_w0, 1) = mem[a % MemLanes]
    BY <1>1, <2>1, <2>2, ReadLanes
  <2>4. LaneOf(dmem_rdata, 0) = mem[(a + 1) % MemLanes]
    BY <1>1, <1>6, <2>1, ReadLanes
  <2>5. ld_comb(1) = mem[a % MemLanes] /\ ld_comb(2) = mem[(a + 1) % MemLanes]
    BY <1>4, <1>8, <2>3, <2>4 DEF ld_comb
  <2>6. w_load = FromLanes(ld_comb(1), ld_comb(2))
    BY <1>3, <1>5, <1>8 DEF w_load, Width
  <2> QED
    BY <1>3, <1>8, <2>5, <2>6 DEF LoadAt, WordAt
<1> QED
  BY <1>7, <1>8

\* In the cycle in which W's instruction retires, the value it writes back,
\* and forwards to X, is the one it owes the programmer.
LEMMA WritesBack ==
  ASSUME WInv, ~mem_beat_stall, xw.valid, xw.reg_we
  PROVE  w_wb = Retiring
<1>1. TypeOK /\ WritesRd(xw.instr)
  BY DEF WInv, XwFlags
<1>2. CASE xw.instr.op = "load"
  <2>1. xw.mem_re /\ ~xw.is_amo
    BY <1>2, XwFields DEF WInv, XwFlags, IsAtomic
  <2> QED
    BY <1>2, <2>1, LoadAssembles DEF w_wb, amo_here, Retiring
<1>3. CASE IsAtomic(xw.instr)
  <2>1. ~xw.mem_re /\ xw.is_amo /\ amo_here
    BY <1>3, XwFields DEF WInv, XwFlags, IsAtomic, amo_here
  <2>2. dmem_rdata = WordAt(mem, AlignDown(xw.amo_addr))
    BY <2>1 DEF dmem_rdata, dmem_addr, WordAt
  <2>3. xw.instr.op = "amo" => ld_w0 = WordAt(mem, AlignDown(xw.amo_addr))
    BY <2>1 DEF mem_beat_stall, amo_rmw_b1, WInv, BeatData
  <2>4. CASE xw.instr.op = "lr"
    BY <2>1, <2>2, <2>4 DEF w_wb, amo_wb, Retiring
  <2>5. CASE xw.instr.op = "sc"
    BY <2>1, <2>5 DEF w_wb, amo_wb, Retiring
  <2>6. CASE xw.instr.op = "amo"
    BY <2>1, <2>3, <2>6 DEF w_wb, amo_wb, Retiring
  <2> QED
    BY <1>3, <2>4, <2>5, <2>6 DEF IsAtomic
<1>4. CASE xw.instr.op # "load" /\ ~IsAtomic(xw.instr)
  <2>1. ~xw.mem_re /\ ~xw.is_amo /\ ~amo_here
    BY <1>4, XwFields DEF WInv, XwFlags, amo_here
  <2> QED
    BY <2>1 DEF w_wb, Retiring
<1> QED
  BY <1>2, <1>3, <1>4


\* Two memories that agree on every lane are equal.
LEMMA MemoryEqual ==
  ASSUME NEW m \in Memory, NEW n \in Memory, \A l \in 0 .. MemLanes - 1 : m[l] = n[l]
  PROVE  m = n
<1>1. m = [l \in 0 .. MemLanes - 1 |-> m[l]] /\ n = [l \in 0 .. MemLanes - 1 |-> n[l]]
  BY DEF Memory
<1> QED
  BY <1>1, Zenon

\* Neighbouring addresses are different lanes, around the end of memory too.
LEMMA NextLane ==
  ASSUME NEW a \in Nat
  PROVE  a % MemLanes # (a + 1) % MemLanes
<1> DEFINE b == AlignDown(a)
<1>1. b \in Nat /\ b % 2 = 0 /\ a \in {b, b + 1}
  BY AlignCases
<1> HIDE DEF b
<1>2. (b + 2) \in Nat /\ (b + 2) % 2 = 0 /\ b + 1 + 1 = b + 2
  BY <1>1
<1>3. b % MemLanes \in Nat /\ (b % MemLanes) % 2 = 0 /\ (b + 1) % MemLanes = (b % MemLanes) + 1
  <2>1. b % MemLanes \in 0 .. MemLanes - 2 /\ (b % MemLanes) % 2 = 0
        /\ (b + 1) % MemLanes = (b % MemLanes) + 1
    BY <1>1, EvenLane
  <2>2. \A r \in 0 .. MemLanes - 2 : r \in Nat
    BY Sizes
  <2> QED
    BY <2>1, <2>2, Zenon
<1>4. ((b + 2) % MemLanes) % 2 = 0
  BY <1>2, EvenLane
<1>5. ((b % MemLanes) + 1) % 2 = 1
  <2> DEFINE r == b % MemLanes
  <2> HIDE DEF r
  <2>1. r \in Nat /\ r % 2 = 0
    BY <1>3 DEF r
  <2> QED
    BY <2>1 DEF r
<1>6. CASE a = b
  BY <1>3, <1>6
<1>7. CASE a = b + 1
  BY <1>2, <1>3, <1>4, <1>5, <1>7
<1> QED
  BY <1>1, <1>6, <1>7

\* The lanes of memory after a store of one or two lanes.
LEMMA Stored ==
  ASSUME NEW m \in Memory, NEW fn, NEW a \in Nat, NEW v \in Word
  PROVE  /\ StoreAt(m, fn, a, v) \in Memory
         /\ \A l \in 0 .. MemLanes - 1 :
              StoreAt(m, fn, a, v)[l] = IF fn = "w" /\ l = (a + 1) % MemLanes THEN LaneOf(v, 1)
                                        ELSE IF l = a % MemLanes THEN LaneOf(v, 0)
                                        ELSE m[l]
<1>1. LaneOf(v, 0) \in Lane /\ LaneOf(v, 1) \in Lane
  BY LaneOfType
<1>2. a % MemLanes \in 0 .. MemLanes - 1 /\ (a + 1) % MemLanes \in 0 .. MemLanes - 1
  BY Sizes, ModType
<1> DEFINE x == a % MemLanes
           y == (a + 1) % MemLanes
           s == [m EXCEPT ![x] = LaneOf(v, 0), ![y] = IF fn = "w" THEN LaneOf(v, 1) ELSE @]
<1>3. x # y
  BY NextLane
<1>4. StoreAt(m, fn, a, v) = s
  BY Zenon DEF StoreAt
<1>5. m[x] \in Lane /\ m[y] \in Lane
  BY <1>2 DEF Memory
<1> HIDE DEF x, y
<1>6. s \in Memory
  BY <1>1, <1>2, <1>3, <1>5 DEF Memory, x, y
<1>7. \A l \in 0 .. MemLanes - 1 :
         s[l] = IF fn = "w" /\ l = y THEN LaneOf(v, 1) ELSE IF l = x THEN LaneOf(v, 0) ELSE m[l]
  BY <1>1, <1>2, <1>3, <1>5 DEF Memory, x, y
<1> HIDE DEF s
<1> QED
  BY <1>4, <1>6, <1>7 DEF x, y

\* The lanes of memory after an edge: the byte enables decide (MemEdge).
LEMMA Written ==
  ASSUME TypeOK, MemEdge
  PROVE  \A l \in 0 .. MemLanes - 1 :
           mem'[l] = IF dmem_we /\ l = dmem_addr % MemLanes /\ dmem_be(0) THEN dmem_wdata(0)
                     ELSE IF dmem_we /\ l = (dmem_addr % MemLanes) + 1 /\ dmem_be(1) THEN dmem_wdata(1)
                     ELSE mem[l]
<1> DEFINE e == dmem_addr % MemLanes
<1>1. e \in 0 .. MemLanes - 2 /\ e % 2 = 0 /\ (dmem_addr + 1) % MemLanes = e + 1
  BY Window
<1> HIDE DEF e
<1>2. (e + 1) % 2 = 1 /\ e \in Nat
  BY <1>1
<1> SUFFICES ASSUME NEW l \in 0 .. MemLanes - 1
             PROVE  mem'[l] = IF dmem_we /\ l = e /\ dmem_be(0) THEN dmem_wdata(0)
                              ELSE IF dmem_we /\ l = e + 1 /\ dmem_be(1) THEN dmem_wdata(1)
                              ELSE mem[l]
  BY DEF e
<1>3. mem'[l] = IF dmem_we /\ l \in {e, e + 1} /\ dmem_be(l % 2) THEN dmem_wdata(l % 2) ELSE mem[l]
  BY <1>1 DEF MemEdge, e
<1>4. CASE l = e
  BY <1>1, <1>2, <1>3, <1>4
<1>5. CASE l = e + 1
  BY <1>1, <1>2, <1>3, <1>5
<1>6. CASE l \notin {e, e + 1}
  BY <1>3, <1>6
<1> QED
  BY <1>4, <1>5, <1>6

\* A store in the cycle in which it retires: one lane, two lanes of a word, or
\* the second lane of an access that crosses into the next word.
LEMMA StoreRetires ==
  ASSUME WInv, MemEdge, ~mem_beat_stall, xw.valid, xw.instr.op = "store"
  PROVE  mem' = StoreAt(mem, xw.instr.fn, xw.result, xw.store)
<1> DEFINE a == xw.result
           b == AlignDown(a)
           fn == xw.instr.fn
           v == xw.store
<1>1. a \in Nat /\ b \in Nat /\ b % 2 = 0 /\ TypeOK /\ mem \in Memory /\ v \in Word
  BY XwFields, WordIsNat, AlignCases DEF WInv
<1>2. xw.mem_we /\ ~amo_here /\ dmem_we
  BY XwFields DEF WInv, XwFlags, IsAtomic, amo_here, dmem_we
<1>3. mem_mis <=> fn = "w" /\ lo = 1
  BY <1>2 DEF mem_mis, Width
<1>4. beat2 <=> mem_mis
  BY <1>2 DEF WInv, BeatsPaired, mem_beat_stall, amo_rmw_b2, TypeOK
<1>5. \/ lo = 0 /\ a = b
      \/ lo = 1 /\ a = b + 1
  BY <1>1, AlignCases DEF lo
<1>6. /\ b % MemLanes \in 0 .. MemLanes - 2 /\ (b + 1) % MemLanes = (b % MemLanes) + 1
  BY <1>1, EvenLane
<1> HIDE DEF b
<1>7. mem' \in Memory /\ StoreAt(mem, fn, a, v) \in Memory
  BY <1>1, MemEdgeType, Stored
<1> SUFFICES ASSUME NEW l \in 0 .. MemLanes - 1
             PROVE  mem'[l] = StoreAt(mem, fn, a, v)[l]
  BY <1>7, MemoryEqual, Zenon
<1>8. StoreAt(mem, fn, a, v)[l] = IF fn = "w" /\ l = (a + 1) % MemLanes THEN LaneOf(v, 1)
                                  ELSE IF l = a % MemLanes THEN LaneOf(v, 0)
                                  ELSE mem[l]
  BY <1>1, Stored
<1>9. \A j : dmem_wdata(j) = LaneOf(v, win(j) - lo)
  BY <1>2 DEF dmem_wdata, amo_rmw_b2
<1>10. \A j : dmem_be(j) <=> lo <= win(j) /\ win(j) < lo + Width(xw.instr)
  BY <1>2 DEF dmem_be
<1>11. CASE ~mem_mis
  <2>1. dmem_addr = b /\ win(0) = 0 /\ win(1) = 1
    BY <1>1, <1>2, <1>4, <1>11 DEF dmem_addr, b, win
  <2>2. mem'[l] = IF l = b % MemLanes /\ dmem_be(0) THEN dmem_wdata(0)
                  ELSE IF l = (b % MemLanes) + 1 /\ dmem_be(1) THEN dmem_wdata(1)
                  ELSE mem[l]
    BY <1>1, <1>2, <2>1, Written
  <2>3. CASE fn = "w"
    <3>1. lo = 0 /\ a = b /\ Width(xw.instr) = 2
      BY <1>3, <1>5, <1>11, <2>3 DEF Width
    <3>2. dmem_be(0) /\ dmem_be(1) /\ dmem_wdata(0) = LaneOf(v, 0) /\ dmem_wdata(1) = LaneOf(v, 1)
      BY <1>9, <1>10, <2>1, <3>1
    <3> QED
      BY <1>6, <1>8, <2>2, <2>3, <3>1, <3>2
  <2>4. CASE fn # "w" /\ lo = 0
    <3>1. dmem_be(0) /\ ~dmem_be(1) /\ dmem_wdata(0) = LaneOf(v, 0)
      BY <1>9, <1>10, <2>1, <2>4 DEF Width
    <3> QED
      BY <1>5, <1>6, <1>8, <2>2, <2>4, <3>1
  <2>5. CASE fn # "w" /\ lo = 1
    <3>1. ~dmem_be(0) /\ dmem_be(1) /\ dmem_wdata(1) = LaneOf(v, 0)
      BY <1>9, <1>10, <2>1, <2>5 DEF Width
    <3> QED
      BY <1>5, <1>6, <1>8, <2>2, <2>5, <3>1
  <2> QED
    BY <1>5, <2>3, <2>4, <2>5
<1>12. CASE mem_mis
  <2>1. dmem_addr = b + 2 /\ a + 1 = b + 2 /\ win(0) = 2 /\ win(1) = 3 /\ lo = 1 /\ fn = "w"
    BY <1>1, <1>2, <1>3, <1>4, <1>5, <1>12 DEF dmem_addr, b, win
  <2>2. dmem_be(0) /\ ~dmem_be(1) /\ dmem_wdata(0) = LaneOf(v, 1)
    BY <1>9, <1>10, <2>1 DEF Width
  <2>3. mem'[l] = IF l = (a + 1) % MemLanes THEN LaneOf(v, 1) ELSE mem[l]
    BY <1>1, <1>2, <2>1, <2>2, Written
  <2>4. mem[a % MemLanes] = LaneOf(v, 0)
    BY <1>4, <1>12 DEF WInv, BeatData
  <2> QED
    BY <1>8, <2>1, <2>3, <2>4
<1> QED
  BY <1>11, <1>12

\* A store-conditional that succeeds and an AMO write the whole reserved word.
LEMMA WordRetires ==
  ASSUME WInv, MemEdge, amo_here, dmem_we, NEW v \in Word,
         dmem_wdata(0) = LaneOf(v, 0), dmem_wdata(1) = LaneOf(v, 1)
  PROVE  mem' = StoreAt(mem, "w", AlignDown(xw.amo_addr), v)
<1> DEFINE b == AlignDown(xw.amo_addr)
<1>1. b \in Nat /\ b % 2 = 0 /\ TypeOK /\ mem \in Memory
  BY XwFields, WordIsNat, AlignCases DEF WInv
<1>2. dmem_addr = b /\ dmem_be(0) /\ dmem_be(1)
  BY DEF dmem_addr, dmem_be
<1> HIDE DEF b
<1>3. (b + 1) % MemLanes = (b % MemLanes) + 1 /\ b % MemLanes \in 0 .. MemLanes - 2
  BY <1>1, EvenLane
<1>4. mem' \in Memory /\ StoreAt(mem, "w", b, v) \in Memory
  BY <1>1, MemEdgeType, Stored
<1> SUFFICES ASSUME NEW l \in 0 .. MemLanes - 1
             PROVE  mem'[l] = StoreAt(mem, "w", b, v)[l]
  BY <1>4, MemoryEqual, Zenon DEF b
<1>5. mem'[l] = IF l = b % MemLanes THEN LaneOf(v, 0)
                ELSE IF l = (b % MemLanes) + 1 THEN LaneOf(v, 1) ELSE mem[l]
  BY <1>1, <1>2, Written
<1>6. StoreAt(mem, "w", b, v)[l] = IF l = (b + 1) % MemLanes THEN LaneOf(v, 1)
                                   ELSE IF l = b % MemLanes THEN LaneOf(v, 0) ELSE mem[l]
  BY <1>1, Stored
<1> QED
  BY <1>3, <1>5, <1>6

\* Whatever W's instruction owes memory is in memory once it has retired.
LEMMA MemRetires ==
  ASSUME WInv, MemEdge, ~mem_beat_stall
  PROVE  mem' = ArchMem
<1>1. TypeOK /\ mem \in Memory
  BY XwFields DEF WInv
<1>2. CASE xw.valid /\ xw.instr.op = "store"
  <2>1. xw.mem_we
    BY <1>2 DEF WInv, XwFlags
  <2> QED
    BY <1>2, <2>1, StoreRetires DEF ArchMem
<1>3. CASE amo_here /\ xw.instr.op = "sc" /\ sc_ok
  <2>1. ~xw.mem_we /\ xw.valid /\ xw.is_amo
    BY <1>3 DEF WInv, XwFlags, amo_here
  <2>2. dmem_we /\ ~amo_rmw_b2
    BY <1>3 DEF dmem_we, amo_rmw_b2
  <2>3. dmem_wdata(0) = LaneOf(xw.amo_b, 0) /\ dmem_wdata(1) = LaneOf(xw.amo_b, 1)
    BY <1>3, <2>2 DEF dmem_wdata
  <2> QED
    BY <1>1, <1>3, <2>1, <2>2, <2>3, XwFields, WordRetires DEF ArchMem
<1>4. CASE amo_here /\ xw.instr.op = "amo"
  <2>1. ~xw.mem_we /\ xw.valid /\ xw.is_amo
    BY <1>4 DEF WInv, XwFlags, amo_here
  <2>2. beat2 /\ amo_rmw_b2 /\ dmem_we
    BY <1>4 DEF mem_beat_stall, amo_rmw_b1, amo_rmw_b2, dmem_we
  <2>3. ld_w0 = WordAt(mem, AlignDown(xw.amo_addr))
    BY <1>4, <2>2 DEF WInv, BeatData
  <2> DEFINE v == AmoOp(xw.instr.fn, ld_w0, xw.amo_b)
  <2>4. v \in Word
    BY <1>1, XwFields, AmoOpType
  <2>5. dmem_wdata(0) = LaneOf(v, 0) /\ dmem_wdata(1) = LaneOf(v, 1)
    BY <2>2 DEF dmem_wdata
  <2> HIDE DEF v
  <2>6. mem' = StoreAt(mem, "w", AlignDown(xw.amo_addr), v)
    BY <1>4, <2>2, <2>4, <2>5, WordRetires
  <2> QED
    BY <1>4, <2>1, <2>3, <2>6 DEF ArchMem, v
<1>5. CASE /\ ~(xw.valid /\ xw.instr.op = "store")
           /\ ~(amo_here /\ xw.instr.op = "sc" /\ sc_ok)
           /\ ~(amo_here /\ xw.instr.op = "amo")
  <2>1. ~(xw.valid /\ xw.mem_we)
    BY <1>5 DEF WInv, XwFlags
  <2>2. ~dmem_we
    BY <1>5, <2>1 DEF dmem_we, amo_rmw_b2
  <2>3. ArchMem = mem
    BY <1>5, <2>1 DEF ArchMem, amo_here
  <2>4. \A l \in 0 .. MemLanes - 1 : mem'[l] = mem[l]
    BY <1>1, <2>2, Written
  <2>5. mem' \in Memory
    BY <1>1, MemEdgeType
  <2> QED
    BY <1>1, <2>3, <2>4, <2>5, MemoryEqual
<1> QED
  BY <1>2, <1>3, <1>4, <1>5

\* The first beat of a crossing store writes the lane in its first word.
LEMMA FirstBeat ==
  ASSUME WInv, MemEdge, mem_beat_stall, xw.instr.op = "store"
  PROVE  \A l \in 0 .. MemLanes - 1 :
           mem'[l] = IF l = xw.result % MemLanes THEN LaneOf(xw.store, 0) ELSE mem[l]
<1> DEFINE a == xw.result
           b == AlignDown(a)
<1>1. TypeOK /\ a \in Nat /\ b \in Nat /\ b % 2 = 0
  BY XwFields, WordIsNat, AlignCases DEF WInv
<1>2. mem_mis /\ ~beat2 /\ ~amo_here
  BY XwFields DEF mem_beat_stall, amo_rmw_b1, WInv, XwFlags, amo_here, IsAtomic
<1>3. lo = 1 /\ Width(xw.instr) = 2 /\ a = b + 1 /\ dmem_we
  BY <1>1, <1>2, AlignCases DEF mem_mis, lo, WInv, XwFlags, dmem_we
<1>4. dmem_addr = b /\ win(0) = 0 /\ win(1) = 1
  BY <1>1, <1>2 DEF dmem_addr, win
<1>5. ~dmem_be(0) /\ dmem_be(1)
  BY <1>2, <1>3, <1>4 DEF dmem_be
<1>6. dmem_wdata(1) = LaneOf(xw.store, 0)
  BY <1>2, <1>3, <1>4 DEF dmem_wdata, amo_rmw_b2
<1> HIDE DEF b
<1>7. (b + 1) % MemLanes = (b % MemLanes) + 1
  BY <1>1, EvenLane
<1>8. a % MemLanes = (b % MemLanes) + 1
  BY <1>3, <1>7
<1> QED
  BY <1>1, <1>3, <1>4, <1>5, <1>6, <1>8, Written

\* The first beat of any other access writes nothing.
LEMMA FirstBeatReads ==
  ASSUME WInv, MemEdge, mem_beat_stall, xw.instr.op # "store"
  PROVE  mem' = mem
<1>1. TypeOK /\ mem \in Memory
  BY XwFields DEF WInv
<1>2. ~dmem_we
  BY DEF mem_beat_stall, mem_mis, amo_rmw_b1, amo_rmw_b2, amo_here, dmem_we, WInv, XwFlags, IsAtomic
<1>3. \A l \in 0 .. MemLanes - 1 : mem'[l] = mem[l]
  BY <1>1, <1>2, Written
<1>4. mem' \in Memory
  BY <1>1, MemEdgeType
<1> QED
  BY <1>1, <1>3, <1>4, MemoryEqual


----------------------------------------------------------------------------
(* The architectural registers, memory and reservation over a clock edge.  *)

\* x0 is never written.
ZeroReg == regs[0] = 0

\* An operand that X reads is the architectural value, unless W holds its
\* register and is on the first of two beats.
LEMMA Operand ==
  ASSUME WInv, ZeroReg, NEW r \in Reg,
         mem_beat_stall => r = 0 \/ ~(xw.valid /\ xw.reg_we /\ xw.instr.rd = r)
  PROVE  op(r) = ArchRegs[r]
<1>1. regs \in [Reg -> Word] /\ xw.instr.rd \in Reg /\ TypeOK
  BY XwFields, InstrFields DEF WInv, TypeOK
<1>2. CASE r = 0
  BY <1>1, <1>2 DEF op, ArchRegs, ZeroReg
<1>3. CASE r # 0 /\ xw.valid /\ xw.reg_we /\ xw.instr.rd = r
  <2>1. w_wb = Retiring
    BY <1>3, WritesBack
  <2> QED
    BY <1>1, <1>3, <2>1 DEF op, ArchRegs
<1>4. CASE r # 0 /\ ~(xw.valid /\ xw.reg_we /\ xw.instr.rd = r)
  BY <1>1, <1>4 DEF op, ArchRegs
<1> QED
  BY <1>2, <1>3, <1>4

\* Without a debugger's write, what W owes the registers, memory and the
\* reservation is there in the cycle after it retires.
LEMMA StepRetires ==
  ASSUME WInv, Next, ~dbg.mode, ~mem_beat_stall
  PROVE  regs' = ArchRegs /\ mem' = ArchMem /\ resv' = ArchResv
<1>1. MemEdge /\ RegfileEdge /\ ReservationEdge
  BY DEF Next
<1>2. mem' = ArchMem
  BY <1>1, MemRetires
<1>3. resv' = ArchResv
  BY <1>1 DEF ReservationEdge, ArchResv
<1>4. regs' = IF rf_we THEN [regs EXCEPT ![xw.instr.rd] = w_wb] ELSE regs
  BY <1>1 DEF RegfileEdge, dbg_do
<1>5. rf_we <=> xw.valid /\ xw.reg_we /\ xw.instr.rd # 0
  BY DEF rf_we
<1>6. rf_we => w_wb = Retiring
  BY <1>5, WritesBack
<1>7. regs' = ArchRegs
  BY <1>4, <1>5, <1>6 DEF ArchRegs
<1> QED
  BY <1>2, <1>3, <1>7

\* A first beat pays part of what a crossing store owes and nothing else.
LEMMA OwedAfterFirstBeat ==
  ASSUME WInv, Next, ~dbg.mode, mem_beat_stall
  PROVE  UNCHANGED <<ArchRegs, ArchMem, ArchResv>>
<1>1. MemEdge /\ xw' = xw /\ TypeOK /\ mem \in Memory
  BY XwFields DEF Next, XWEdge, WInv
<1>2. regs' = regs
  BY DEF Next, RegfileEdge, dbg_do, rf_we
<1>3. xw.valid
  BY DEF mem_beat_stall, mem_mis, amo_rmw_b1, amo_here
<1>4. resv' = ArchResv
  BY DEF Next, ReservationEdge, ArchResv
<1>5. ArchResv' = ArchResv
  BY <1>1, <1>4 DEF ArchResv, amo_here
<1>6. CASE xw.instr.op = "store"
  <2>1. xw.mem_we /\ ~xw.reg_we
    BY <1>3, <1>6 DEF WInv, XwFlags, WritesRd
  <2>2. ArchRegs = regs /\ ArchRegs' = regs'
    BY <1>1, <2>1 DEF ArchRegs
  <2>3. ArchMem = StoreAt(mem, xw.instr.fn, xw.result, xw.store)
    BY <1>3, <2>1 DEF ArchMem
  <2>4. ArchMem' = StoreAt(mem', xw.instr.fn, xw.result, xw.store)
    BY <1>1, <1>3, <2>1 DEF ArchMem
  <2>5. xw.result \in Nat /\ xw.store \in Word /\ mem' \in Memory
    BY <1>1, XwFields, WordIsNat, MemEdgeType
  <2>6. \A l \in 0 .. MemLanes - 1 :
           mem'[l] = IF l = xw.result % MemLanes THEN LaneOf(xw.store, 0) ELSE mem[l]
    BY <1>1, <1>6, FirstBeat
  <2>7. /\ StoreAt(mem, xw.instr.fn, xw.result, xw.store) \in Memory
        /\ StoreAt(mem', xw.instr.fn, xw.result, xw.store) \in Memory
    BY <1>1, <2>5, Stored
  <2>8. \A l \in 0 .. MemLanes - 1 :
           StoreAt(mem', xw.instr.fn, xw.result, xw.store)[l]
             = StoreAt(mem, xw.instr.fn, xw.result, xw.store)[l]
    <3> DEFINE At(m) == StoreAt(m, xw.instr.fn, xw.result, xw.store)
    <3>1. \A m \in Memory : \A l \in 0 .. MemLanes - 1 :
             At(m)[l] = IF xw.instr.fn = "w" /\ l = (xw.result + 1) % MemLanes THEN LaneOf(xw.store, 1)
                        ELSE IF l = xw.result % MemLanes THEN LaneOf(xw.store, 0)
                        ELSE m[l]
      BY <2>5, Stored
    <3> HIDE DEF At
    <3>2. \A l \in 0 .. MemLanes - 1 : At(mem')[l] = At(mem)[l]
      BY <1>1, <2>5, <2>6, <3>1
    <3> QED
      BY <3>2 DEF At
  <2>9. ArchMem' = ArchMem
    BY <2>3, <2>4, <2>7, <2>8, MemoryEqual
  <2> QED
    BY <1>2, <1>5, <2>2, <2>9
<1>7. CASE xw.instr.op # "store"
  <2>1. mem' = mem
    BY <1>1, <1>7, FirstBeatReads
  <2>2. xw.instr.op \in {"load", "amo"}
    BY <1>7 DEF WInv, XwFlags, mem_beat_stall, mem_mis, amo_rmw_b1, amo_here
  <2>3. ArchMem' = ArchMem
    BY <1>1, <2>1, <2>2 DEF ArchMem, sc_ok
  <2>4. ArchRegs' = ArchRegs
    BY <1>1, <1>2, <2>1, <2>2 DEF ArchRegs, Retiring, sc_ok
  <2> QED
    BY <1>5, <2>3, <2>4
<1> QED
  BY <1>6, <1>7

\* An edge that moves no instruction out of X does not show.
LEMMA DataIdle ==
  ASSUME WInv, Next, ~dbg.mode, mem_beat_stall \/ ~x_commit
  PROVE  UNCHANGED <<ArchRegs, ArchMem, ArchResv>>
<1>1. CASE mem_beat_stall
  BY <1>1, OwedAfterFirstBeat
<1>2. CASE ~mem_beat_stall
  <2>1. ~xw'.valid
    BY <1>2 DEF Next, XWEdge
  <2>2. ArchRegs' = regs' /\ ArchMem' = mem' /\ ArchResv' = resv'
    BY <2>1 DEF ArchRegs, ArchMem, ArchResv, amo_here
  <2> QED
    BY <1>2, <2>2, StepRetires
<1> QED
  BY <1>1, <1>2

----------------------------------------------------------------------------
(* The invariants of W.                                                    *)

\* The X/W register after an edge that does not stall.
LEMMA XwNext ==
  ASSUME TypeOK, Next, ~mem_beat_stall
  PROVE  /\ xw'.valid = x_commit /\ xw'.instr = i /\ xw'.result = x_result /\ xw'.store = op2
         /\ xw'.amo_addr = op1 /\ xw'.amo_b = op2
         /\ xw'.reg_we <=> WritesRd(i)
         /\ xw'.mem_re <=> i.op = "load"
         /\ xw'.mem_we <=> i.op = "store"
         /\ xw'.is_amo <=> IsAtomic(i)
<1>1. xw' = [valid |-> x_commit, instr |-> i, result |-> x_result, store |-> op2,
             reg_we |-> WritesRd(i) /\ ~ex_trap,
             mem_re |-> i.op = "load" /\ ~ex_trap, mem_we |-> i.op = "store" /\ ~ex_trap,
             is_amo |-> IsAtomic(i) /\ ~ex_trap, amo_addr |-> op1, amo_b |-> op2]
  BY DEF Next, XWEdge
<1>2. ex_trap => i.op \in {"illegal", "ecall", "ebreak"}
  BY DEF ex_trap
<1>3. ex_trap => ~WritesRd(i) /\ ~IsAtomic(i) /\ i.op # "load" /\ i.op # "store"
  BY <1>2 DEF WritesRd, IsAtomic
<1> QED
  BY <1>1, <1>3

\* A clock edge keeps the invariants of W.
LEMMA WInvStep ==
  ASSUME WInv, Next
  PROVE  XwFlags' /\ BeatData'
<1>1. TypeOK /\ MemEdge /\ BeatEdge /\ mem \in Memory
  BY XwFields DEF WInv, Next
<1>2. CASE ~mem_beat_stall
  <2>1. XwFlags'
    BY <1>1, <1>2, XwNext DEF XwFlags
  <2>2. ~beat2'
    BY <1>1, <1>2 DEF BeatEdge
  <2> QED
    BY <2>1, <2>2 DEF BeatData
<1>3. CASE mem_beat_stall
  <2>1. xw' = xw /\ ld_w0' = dmem_rdata /\ ~beat2
    BY <1>1, <1>3 DEF Next, XWEdge, BeatEdge, mem_beat_stall, amo_rmw_b1
  <2>2. XwFlags'
    BY <2>1 DEF WInv, XwFlags
  <2>3. xw.valid
    BY <1>3 DEF mem_beat_stall, mem_mis, amo_rmw_b1, amo_here
  <2>4. xw.instr.op = "store" => mem'[xw.result % MemLanes] = LaneOf(xw.store, 0)
    <3> SUFFICES ASSUME xw.instr.op = "store"
                 PROVE  mem'[xw.result % MemLanes] = LaneOf(xw.store, 0)
      OBVIOUS
    <3>1. xw.result % MemLanes \in 0 .. MemLanes - 1
      <4>1. xw.result \in Int /\ MemLanes \in Nat \ {0}
        BY <1>1, XwFields, WordIsNat, Sizes
      <4> QED
        BY <4>1, ModType, Zenon
    <3> QED
      BY <1>1, <1>3, <3>1, FirstBeat
  <2>5. xw.instr.op # "store" => mem' = mem
    BY <1>1, <1>3, FirstBeatReads
  <2>6. xw.instr.op = "amo" => dmem_rdata = WordAt(mem, AlignDown(xw.amo_addr))
    <3> SUFFICES ASSUME xw.instr.op = "amo"
                 PROVE  dmem_rdata = WordAt(mem, AlignDown(xw.amo_addr))
      OBVIOUS
    <3>1. amo_here
      BY <2>3 DEF WInv, XwFlags, IsAtomic, amo_here
    <3> QED
      BY <3>1 DEF dmem_rdata, dmem_addr, WordAt
  <2>7. xw.instr.op = "load" => dmem_rdata = WordAt(mem, AlignDown(xw.result))
    <3> SUFFICES ASSUME xw.instr.op = "load"
                 PROVE  dmem_rdata = WordAt(mem, AlignDown(xw.result))
      OBVIOUS
    <3>1. ~amo_here
      BY DEF WInv, XwFlags, IsAtomic, amo_here
    <3>2. AlignDown(xw.result) + 0 = AlignDown(xw.result)
      BY <1>1, XwFields, AlignType, WordIsNat
    <3> QED
      BY <2>1, <3>1, <3>2 DEF dmem_rdata, dmem_addr, WordAt
  <2>8. BeatData'
    BY <2>1, <2>4, <2>5, <2>6, <2>7 DEF BeatData
  <2> QED
    BY <2>2, <2>8
<1> QED
  BY <1>2, <1>3

\* For every program and every sequence of pins W works by the control bits
\* of its instruction, and keeps between two beats what the first one did.
LEMMA WInvariant == Spec => []WInv
<1>1. Init => XwFlags /\ BeatData
  BY DEF Init, XwFlags, BeatData
<1>2. WInv /\ UNCHANGED vars => (XwFlags /\ BeatData)'
  BY DEF WInv, XwFlags, BeatData, vars
<1> QED
  BY <1>1, <1>2, WInvStep, CoreTypeOK, CoreBeatsPaired, PTL DEF Spec, WInv

\* x0 stays zero, for W and for the debugger.
LEMMA ZeroRegInvariant == Spec => []ZeroReg
<1>1. Init => ZeroReg
  BY Sizes DEF Init, ZeroReg
<1>2. TypeOK /\ ZeroReg /\ [Next]_vars => ZeroReg'
  <2> SUFFICES ASSUME TypeOK, ZeroReg, [Next]_vars PROVE regs'[0] = 0
    BY DEF ZeroReg
  <2>1. 0 \in Reg /\ regs \in [Reg -> Word]
    BY Sizes DEF TypeOK
  <2>2. CASE Next
    <3>1. RegfileEdge
      BY <2>2 DEF Next
    <3> QED
      BY <2>1, <3>1 DEF RegfileEdge, rf_we, ZeroReg
  <2>3. CASE UNCHANGED vars
    BY <2>3 DEF vars, ZeroReg
  <2> QED
    BY <2>2, <2>3
<1> QED
  BY <1>1, <1>2, CoreTypeOK, PTL DEF Spec


----------------------------------------------------------------------------
(* Fetch follows X.                                                        *)

\* F stands where the prediction made for X's instruction leads.
Chain == fx.valid => pc = pred_next

\* The instruction in X after an edge: held, or just fetched.
LEMMA FxNext ==
  ASSUME TypeOK, Next, fx'.valid
  PROVE  \/ ex_freeze /\ fx' = fx /\ pc' = pc
         \/ /\ ~redirect /\ ~ex_freeze
            /\ fx'.pc = pc /\ fx'.instr = prog[pc]
            /\ fx'.pred_taken = predict_taken_f /\ fx'.pred_target = predict_target_f
            /\ pc' = IF predict_taken_f THEN predict_target_f ELSE AddX(pc, prog[pc].len)
<1>1. fx \in FxType
  BY DEF TypeOK, FxType
<1>2. [fx EXCEPT !.valid = FALSE].valid = FALSE
  BY <1>1 DEF FxType
<1>3. fx' # [fx EXCEPT !.valid = FALSE]
  BY <1>2
<1>4. FetchEdge
  BY DEF Next
<1>5. \/ ex_freeze /\ fx' = fx /\ pc' = pc
      \/ /\ ~redirect /\ ~ex_freeze
         /\ fx' = [valid |-> TRUE, pc |-> pc, instr |-> fetched, ghist |-> ghist,
                   pred_taken |-> predict_taken_f, pred_target |-> predict_target_f]
         /\ pc' = IF predict_taken_f THEN predict_target_f ELSE AddX(pc, fetched.len)
  BY <1>3, <1>4, Zenon DEF FetchEdge
<1> QED
  BY <1>5 DEF fetched

\* A clock edge keeps Chain.
LEMMA ChainStep ==
  ASSUME TypeOK, Chain, Next
  PROVE  Chain'
<1> SUFFICES ASSUME fx'.valid PROVE pc' = pred_next'
  BY DEF Chain
<1>1. pred_next' = IF fx'.pred_taken THEN fx'.pred_target ELSE AddX(fx'.pc, fx'.instr.len)
  BY DEF pred_next, seq_nx, i
<1>2. pred_next = IF fx.pred_taken THEN fx.pred_target ELSE AddX(fx.pc, fx.instr.len)
  BY DEF pred_next, seq_nx, i
<1> QED
  BY <1>1, <1>2, FxNext DEF Chain

\* Whatever the predictors say, F stands behind X's instruction.
LEMMA ChainInvariant == Spec => []Chain
<1>1. Init => Chain
  BY DEF Init, Chain
<1>2. Chain /\ UNCHANGED vars => Chain'
  BY DEF Chain, vars, pred_next, seq_nx, i
<1> QED
  BY <1>1, <1>2, ChainStep, CoreTypeOK, PTL DEF Spec

\* An instruction that is no branch or jump is followed by the next one.
LEMMA Sequential ==
  ASSUME Chain, PredictedIsControl, fx.valid, ~IsControl(i)
  PROVE  pc = seq_nx
  BY DEF Chain, PredictedIsControl, pred_next, i

----------------------------------------------------------------------------
(* The operands of a multiply or divide.                                   *)

\* The instructions that write their register only after a second beat: AMOs,
\* and word loads if their address crosses into the next word.
WritesLate(ins) == ins.op = "amo" \/ (ins.op = "load" /\ ins.fn = "w")

\* No multiply or divide uses the register that such an instruction directly
\* in front of it writes.  (One that does computes with a stale operand: run
\* md_stale_operand.)
NoMdBehindLateWrite ==
  \A p \in Programs, a \in Word :
    LET next == p[AddX(a, p[a].len)] IN
    WritesLate(p[a]) /\ next.op = "md" => p[a].rd \notin {next.rs1, next.rs2} \ {0}

\* Behind such an instruction in W, X holds the instruction that comes next in
\* the program.
Adjacent ==
  xw.valid /\ fx.valid /\ WritesLate(xw.instr) =>
    \E p \in Word : prog[p] = xw.instr /\ fx.pc = AddX(p, xw.instr.len)

\* A clock edge keeps Adjacent.
LEMMA AdjacentStep ==
  ASSUME TypeOK, FromProgram, Chain, PredictedIsControl, Adjacent, Next
  PROVE  Adjacent'
<1> SUFFICES ASSUME xw'.valid, fx'.valid, WritesLate(xw'.instr)
             PROVE  \E p \in Word : prog'[p] = xw'.instr /\ fx'.pc = AddX(p, xw'.instr.len)
  BY DEF Adjacent, WritesLate
<1>1. prog' = prog
  BY DEF Next
<1>2. CASE mem_beat_stall
  <2>1. xw' = xw
    BY <1>2 DEF Next, XWEdge
  <2>2. fx' = fx
    BY <1>2, FxNext DEF ex_freeze
  <2> QED
    BY <1>1, <2>1, <2>2 DEF Adjacent
<1>3. CASE ~mem_beat_stall
  <2>1. x_commit /\ xw'.instr = i
    BY <1>3, XwNext
  <2>2. fx.valid /\ ~ex_freeze
    BY <1>3, <2>1 DEF x_commit, ex_freeze
  <2>3. fx'.pc = pc
    BY <2>2, FxNext
  <2>4. ~IsControl(i)
    BY <2>1 DEF WritesLate, IsControl
  <2>5. pc = AddX(fx.pc, i.len)
    BY <2>2, <2>4, Sequential DEF seq_nx
  <2>6. prog[fx.pc] = i /\ fx.pc \in Word
    BY <2>2, FxFields DEF FromProgram, i
  <2> QED
    BY <1>1, <2>1, <2>3, <2>5, <2>6
<1> QED
  BY <1>2, <1>3

\* The order of the program holds between X and W.
LEMMA AdjacentInvariant == Spec => []Adjacent
<1>1. Init => Adjacent
  BY DEF Init, Adjacent
<1>2. Adjacent /\ UNCHANGED vars => Adjacent'
  BY DEF Adjacent, vars, WritesLate
<1> QED
  BY <1>1, <1>2, AdjacentStep, CoreTypeOK, FromProgramInv, ChainInvariant,
     CorePredictedIsControl, PTL DEF Spec

\* A first beat of an access that writes a register belongs to an instruction
\* that writes late.
LEMMA LateInW ==
  ASSUME WInv, mem_beat_stall, xw.reg_we
  PROVE  xw.valid /\ WritesLate(xw.instr)
  BY DEF mem_beat_stall, mem_mis, amo_rmw_b1, amo_here, WInv, XwFlags, WritesRd, WritesLate, Width

\* A multiply or divide in X reads the architectural values of its operands.
LEMMA MdOperands ==
  ASSUME NoMdBehindLateWrite, WInv, ZeroReg, FromProgram, Adjacent, fx.valid, i.op = "md"
  PROVE  op1 = ArchRegs[i.rs1] /\ op2 = ArchRegs[i.rs2]
<1>1. TypeOK /\ i.rs1 \in Reg /\ i.rs2 \in Reg
  BY XFields DEF WInv
<1>2. ASSUME mem_beat_stall, xw.valid, xw.reg_we, xw.instr.rd # 0
      PROVE  xw.instr.rd \notin {i.rs1, i.rs2}
  <2>1. WritesLate(xw.instr)
    BY <1>2, LateInW
  <2>2. PICK p \in Word : prog[p] = xw.instr /\ fx.pc = AddX(p, xw.instr.len)
    BY <1>2, <2>1 DEF Adjacent
  <2>3. prog \in Programs /\ i = prog[AddX(p, prog[p].len)]
    BY <2>2 DEF FromProgram, i
  <2> QED
    BY <1>2, <2>1, <2>2, <2>3 DEF NoMdBehindLateWrite
<1>3. \A r \in {i.rs1, i.rs2} :
         mem_beat_stall => r = 0 \/ ~(xw.valid /\ xw.reg_we /\ xw.instr.rd = r)
  BY <1>2
<1>4. op(i.rs1) = ArchRegs[i.rs1] /\ op(i.rs2) = ArchRegs[i.rs2]
  BY <1>1, <1>3, Operand
<1> QED
  BY <1>4 DEF op1, op2

\* In every program in which no multiply or divide directly follows a late
\* write of one of its operands, the multiplier starts on the architectural
\* values, whatever the pins do.
THEOREM CoreMdOperandsFresh ==
  ASSUME NoMdBehindLateWrite
  PROVE  Spec => []MdOperandsFresh
<1>1. WInv /\ ZeroReg /\ FromProgram /\ Adjacent => MdOperandsFresh
  BY NoMdBehindLateWrite, MdOperands DEF MdOperandsFresh, md_start, i
<1> QED
  BY <1>1, WInvariant, ZeroRegInvariant, FromProgramInv, AdjacentInvariant, PTL

\* While the unit works, it works on the architectural values of its operands.
MdRight ==
  md_inflight =>
    md.result = MdOp(fx.instr.fn, ArchRegs[fx.instr.rs1], ArchRegs[fx.instr.rs2])

\* A clock edge keeps MdRight: the unit starts on fresh operands, and nothing
\* leaves X while it works.
LEMMA MdRightStep ==
  ASSUME NoMdBehindLateWrite, WInv, ZeroReg, FromProgram, Adjacent, DebugInv, HaltsBetween,
         MdInv, MdRight, Next
  PROVE  MdRight'
<1> SUFFICES ASSUME md_inflight'
             PROVE  md'.result = MdOp(fx'.instr.fn, ArchRegs'[fx'.instr.rs1], ArchRegs'[fx'.instr.rs2])
  BY DEF MdRight
<1>1. TypeOK /\ MuldivEdge
  BY DEF WInv, Next
<1>2. ~md.done /\ (md_start \/ md_inflight)
  BY <1>1, Zenon DEF MuldivEdge
<1>3. fx.valid /\ i.op = "md"
  BY <1>2 DEF md_start, MdInv, i
<1>4. md_stall /\ ex_freeze /\ ~ebreak_to_debug /\ ~x_commit
  BY <1>2, <1>3 DEF md_stall, ex_freeze, ebreak_to_debug, x_commit
<1>5. fx' = fx
  BY <1>1, <1>3, <1>4, HeldWhileFrozen
<1>6. ArchRegs' = ArchRegs
  BY <1>3, <1>4, DataIdle DEF DebugInv
<1>7. CASE md_start
  <2>1. md'.result = MdOp(i.fn, op1, op2)
    BY <1>1, <1>7 DEF MuldivEdge
  <2>2. op1 = ArchRegs[i.rs1] /\ op2 = ArchRegs[i.rs2]
    BY <1>3, MdOperands, NoMdBehindLateWrite
  <2> QED
    BY <1>5, <1>6, <2>1, <2>2 DEF i
<1>8. CASE ~md_start
  <2>1. md'.result = md.result
    BY <1>1, <1>8 DEF MuldivEdge, TypeOK
  <2> QED
    BY <1>2, <1>5, <1>6, <1>8, <2>1 DEF MdRight
<1> QED
  BY <1>7, <1>8


----------------------------------------------------------------------------
(* The abstract machine, in the terms of the core.                         *)

\* The operators of the instruction set are the same in both.
LEMMA SameWords ==
  /\ Machine!Word = Word /\ Machine!Reg = Reg /\ Machine!NoResv = NoResv
  /\ Machine!Program = Program /\ Machine!Memory = Memory /\ Machine!Csrs = Csrs
  /\ Machine!Csr0 = Csr0
  BY DEF Machine!XL, XL, Machine!Word, Word, Machine!Reg, Reg, Machine!NoResv, NoResv,
         Machine!Program, Program, Machine!Memory, Memory, Machine!Csrs, Csrs,
         Machine!Csr0, Csr0, Machine!Instr, Instr, Machine!Ops, Ops, Machine!Fns, Fns,
         Machine!Lane, Lane

\* Arithmetic and memory.
LEMMA SameArithmetic ==
  /\ \A a, b : Machine!AddX(a, b) = AddX(a, b)
  /\ \A a : Machine!AlignDown(a) = AlignDown(a)
  /\ \A fn, a, b : Machine!MdOp(fn, a, b) = MdOp(fn, a, b)
  /\ \A fn, a, b : Machine!AmoOp(fn, a, b) = AmoOp(fn, a, b)
  /\ \A ins, a, b : Machine!BranchTaken(ins, a, b) = BranchTaken(ins, a, b)
<1>1. \A a, b : Machine!AddX(a, b) = AddX(a, b)
  BY Zenon DEF Machine!AddX, AddX, Machine!XL, XL
<1>2. \A a : Machine!AlignDown(a) = AlignDown(a)
  BY Zenon DEF Machine!AlignDown, AlignDown
<1>3. \A fn, a, b : Machine!MdOp(fn, a, b) = MdOp(fn, a, b)
  BY Zenon DEF Machine!MdOp, MdOp, Machine!XL, XL
<1>4. \A fn, a, b : Machine!AmoOp(fn, a, b) = AmoOp(fn, a, b)
  BY <1>1, Zenon DEF Machine!AmoOp, AmoOp
<1>5. \A ins, a, b : Machine!BranchTaken(ins, a, b) = BranchTaken(ins, a, b)
  BY Zenon DEF Machine!BranchTaken, BranchTaken
<1> QED
  BY <1>1, <1>2, <1>3, <1>4, <1>5, Zenon

\* Loads and stores.
LEMMA SameMemory ==
  /\ \A m, a : Machine!WordAt(m, a) = WordAt(m, a)
  /\ \A m, fn, a : Machine!LoadAt(m, fn, a) = LoadAt(m, fn, a)
  /\ \A m, fn, a, v : Machine!StoreAt(m, fn, a, v) = StoreAt(m, fn, a, v)
<1>1. \A l, h : Machine!FromLanes(l, h) = FromLanes(l, h)
  BY Zenon DEF Machine!FromLanes, FromLanes
<1>2. \A fn, l : Machine!Extend(fn, l) = Extend(fn, l)
  BY <1>1, Zenon DEF Machine!Extend, Extend
<1>3. \A m, a : Machine!WordAt(m, a) = WordAt(m, a)
  BY <1>1, Zenon DEF Machine!WordAt, WordAt
<1>4. \A m, fn, a : Machine!LoadAt(m, fn, a) = LoadAt(m, fn, a)
  BY <1>2, <1>3, Zenon DEF Machine!LoadAt, LoadAt
<1>5. \A v, k : Machine!LaneOf(v, k) = LaneOf(v, k)
  BY Zenon DEF Machine!LaneOf, LaneOf
<1>6. \A m, fn, a, v : Machine!StoreAt(m, fn, a, v) = StoreAt(m, fn, a, v)
  BY <1>5, Zenon DEF Machine!StoreAt, StoreAt
<1> QED
  BY <1>3, <1>4, <1>6, Zenon

\* CSRs and the classes of instructions.
LEMMA SameCsrs ==
  /\ \A c, n : Machine!CsrRead(c, n) = CsrRead(c, n)
  /\ \A c, n, v : Machine!CsrWrite(c, n, v) = CsrWrite(c, n, v)
  /\ \A c, k, e : Machine!CsrTrap(c, k, e) = CsrTrap(c, k, e)
  /\ \A c : Machine!CsrMret(c) = CsrMret(c)
  /\ \A ins, a : Machine!CsrSource(ins, a) = CsrSource(ins, a)
  /\ \A ins, o, s : Machine!CsrNew(ins, o, s) = CsrNew(ins, o, s)
  /\ \A ins : Machine!CsrWrites(ins) = CsrWrites(ins)
  /\ \A ins : Machine!WritesRd(ins) = WritesRd(ins)
<1>0. \A b : Machine!Bit(b) = Bit(b)
  BY Zenon DEF Machine!Bit, Bit
<1>1. \A c, n : Machine!CsrRead(c, n) = CsrRead(c, n)
  BY <1>0, Zenon DEF Machine!CsrRead, CsrRead
<1>2. \A c, n, v : Machine!CsrWrite(c, n, v) = CsrWrite(c, n, v)
  BY Zenon DEF Machine!CsrWrite, CsrWrite
<1>3. \A c, k, e : Machine!CsrTrap(c, k, e) = CsrTrap(c, k, e)
  BY Zenon DEF Machine!CsrTrap, CsrTrap
<1>4. \A c : Machine!CsrMret(c) = CsrMret(c)
  BY Zenon DEF Machine!CsrMret, CsrMret
<1>5. \A ins, a : Machine!CsrSource(ins, a) = CsrSource(ins, a)
  BY Zenon DEF Machine!CsrSource, CsrSource
<1>6. \A ins, o, s : Machine!CsrNew(ins, o, s) = CsrNew(ins, o, s)
  BY <1>0, Zenon DEF Machine!CsrNew, CsrNew
<1>7. \A ins : Machine!CsrWrites(ins) = CsrWrites(ins)
  BY Zenon DEF Machine!CsrWrites, CsrWrites
<1>8. \A ins : Machine!WritesRd(ins) = WritesRd(ins)
  BY Zenon DEF Machine!WritesRd, WritesRd
<1> QED
  BY <1>1, <1>2, <1>3, <1>4, <1>5, <1>6, <1>7, <1>8, Zenon

\* What an instruction leaves in its register.
LEMMA MachineResult ==
  ASSUME NEW ins, NEW a, NEW b
  PROVE  /\ ins.op = "alu" => Machine!Result(ins, a, b)
              = AddX(IF ins.fn = "pc" THEN ArchPc ELSE a, IF ins.fn = "rr" THEN b ELSE ins.imm)
         /\ ins.op \in {"jal", "jalr"} => Machine!Result(ins, a, b) = AddX(ArchPc, ins.len)
         /\ ins.op = "load" => Machine!Result(ins, a, b) = LoadAt(ArchMem, ins.fn, AddX(a, ins.imm))
         /\ ins.op \in {"lr", "amo"} => Machine!Result(ins, a, b) = WordAt(ArchMem, AlignDown(a))
         /\ ins.op = "sc" => Machine!Result(ins, a, b) = IF ArchResv = AlignDown(a) THEN 0 ELSE 1
         /\ ins.op = "md" => Machine!Result(ins, a, b) = MdOp(ins.fn, a, b)
         /\ ins.op = "csr" => Machine!Result(ins, a, b) = CsrRead(csr, ins.csr)
  BY SameArithmetic, SameMemory, SameCsrs DEF Machine!Result


\* Where an instruction continues, and what it leaves in memory, the
\* reservation and the CSRs.
LEMMA MachineNext ==
  ASSUME NEW ins, NEW a, NEW b
  PROVE  /\ Machine!NextPc(ins, a, b) =
              IF ins.op = "jal" \/ (ins.op = "branch" /\ BranchTaken(ins, a, b))
              THEN AddX(ArchPc, ins.imm)
              ELSE IF ins.op = "jalr" THEN AddX(a, ins.imm)
              ELSE IF ins.op = "mret" THEN csr.mepc ELSE AddX(ArchPc, ins.len)
         /\ Machine!NextMem(ins, a, b) =
              IF ins.op = "store" THEN StoreAt(ArchMem, ins.fn, AddX(a, ins.imm), b)
              ELSE IF ins.op = "sc" /\ ArchResv = AlignDown(a)
              THEN StoreAt(ArchMem, "w", AlignDown(a), b)
              ELSE IF ins.op = "amo"
              THEN StoreAt(ArchMem, "w", AlignDown(a),
                           AmoOp(ins.fn, WordAt(ArchMem, AlignDown(a)), b))
              ELSE ArchMem
         /\ Machine!NextResv(ins, a) =
              IF ins.op = "lr" THEN AlignDown(a)
              ELSE IF ins.op \in {"sc", "store"} THEN NoResv ELSE ArchResv
         /\ Machine!NextCsr(ins, a) =
              IF ins.op = "mret" THEN CsrMret(csr)
              ELSE IF CsrWrites(ins)
              THEN CsrWrite(csr, ins.csr, CsrNew(ins, CsrRead(csr, ins.csr), CsrSource(ins, a)))
              ELSE csr
<1>1. Machine!NextPc(ins, a, b) =
        IF ins.op = "jal" \/ (ins.op = "branch" /\ BranchTaken(ins, a, b))
        THEN AddX(ArchPc, ins.imm)
        ELSE IF ins.op = "jalr" THEN AddX(a, ins.imm)
        ELSE IF ins.op = "mret" THEN csr.mepc ELSE AddX(ArchPc, ins.len)
  BY SameArithmetic, Zenon DEF Machine!NextPc
<1>2. Machine!NextMem(ins, a, b) =
        IF ins.op = "store" THEN StoreAt(ArchMem, ins.fn, AddX(a, ins.imm), b)
        ELSE IF ins.op = "sc" /\ ArchResv = AlignDown(a)
        THEN StoreAt(ArchMem, "w", AlignDown(a), b)
        ELSE IF ins.op = "amo"
        THEN StoreAt(ArchMem, "w", AlignDown(a),
                     AmoOp(ins.fn, WordAt(ArchMem, AlignDown(a)), b))
        ELSE ArchMem
  <2>1. ins.op = "amo" => Machine!Result(ins, a, b) = WordAt(ArchMem, AlignDown(a))
    BY MachineResult
  <2> QED
    BY <2>1, SameArithmetic, SameMemory, Zenon DEF Machine!NextMem
<1>3. Machine!NextResv(ins, a) =
        IF ins.op = "lr" THEN AlignDown(a)
        ELSE IF ins.op \in {"sc", "store"} THEN NoResv ELSE ArchResv
  BY SameArithmetic, SameWords, Zenon DEF Machine!NextResv
<1>4. Machine!NextCsr(ins, a) =
        IF ins.op = "mret" THEN CsrMret(csr)
        ELSE IF CsrWrites(ins)
        THEN CsrWrite(csr, ins.csr, CsrNew(ins, CsrRead(csr, ins.csr), CsrSource(ins, a)))
        ELSE csr
  <2>1. Machine!CsrMret(csr) = CsrMret(csr) /\ (Machine!CsrWrites(ins) <=> CsrWrites(ins))
    BY SameCsrs
  <2>2. Machine!CsrWrite(csr, ins.csr, Machine!CsrNew(ins, Machine!CsrRead(csr, ins.csr),
                                                     Machine!CsrSource(ins, a)))
          = CsrWrite(csr, ins.csr, CsrNew(ins, CsrRead(csr, ins.csr), CsrSource(ins, a)))
    BY SameCsrs
  <2>3. CASE ins.op = "mret"
    BY <2>1, <2>3, Zenon DEF Machine!NextCsr, CsrWrites, Machine!CsrWrites
  <2>4. CASE ins.op # "mret"
    <3>1. Machine!NextCsr(ins, a) =
            IF Machine!CsrWrites(ins)
            THEN Machine!CsrWrite(csr, ins.csr, Machine!CsrNew(ins, Machine!CsrRead(csr, ins.csr),
                                                              Machine!CsrSource(ins, a)))
            ELSE csr
      BY <2>4, Zenon DEF Machine!NextCsr
    <3> QED
      BY <2>1, <2>2, <2>4, <3>1
  <2> QED
    BY <2>3, <2>4
<1> QED
  BY <1>1, <1>2, <1>3, <1>4

----------------------------------------------------------------------------
(* An instruction moves out of X.                                          *)

\* Everything that ties the pipeline to the machine.
RInv == /\ WInv /\ ZeroReg /\ FromProgram /\ PredictedIsControl /\ Chain
        /\ DebugInv /\ MdInv /\ MdRight

Moves == fx.valid /\ ~ex_freeze /\ ~ebreak_to_debug

\* Then X holds the machine's next instruction and its operands.
LEMMA MovesReads ==
  ASSUME RInv, Moves
  PROVE  /\ ~dbg.mode /\ ~dbg.halt_req /\ ~dbg.cap_valid /\ ~mem_beat_stall /\ x_commit
         /\ ArchPc = fx.pc /\ prog[ArchPc] = i
         /\ op1 = ArchRegs[i.rs1] /\ op2 = ArchRegs[i.rs2]
         /\ i.op = "md" => md.result = MdOp(i.fn, op1, op2)
<1>1. TypeOK /\ fx.valid
  BY DEF RInv, WInv, Moves
<1>2. ~dbg.mode /\ ~dbg.halt_req /\ ~dbg.cap_valid
  BY <1>1 DEF RInv, DebugInv
<1>3. ~mem_beat_stall /\ ~md_stall /\ x_commit
  BY DEF Moves, ex_freeze, x_commit
<1>4. ArchPc = fx.pc
  BY <1>1, <1>2 DEF ArchPc
<1>5. prog[ArchPc] = i
  BY <1>1, <1>4 DEF RInv, FromProgram, i
<1>6. op1 = ArchRegs[i.rs1] /\ op2 = ArchRegs[i.rs2]
  BY <1>1, <1>3, XFields, Operand DEF RInv, op1, op2
<1>7. i.op = "md" => md.result = MdOp(i.fn, op1, op2)
  <2> SUFFICES ASSUME i.op = "md" PROVE md.result = MdOp(i.fn, op1, op2)
    OBVIOUS
  <2>1. md_inflight
    BY <1>1, <1>3 DEF md_stall, RInv, MdInv
  <2> QED
    BY <1>6, <2>1 DEF RInv, MdRight, i
<1> QED
  BY <1>1, <1>2, <1>3, <1>4, <1>5, <1>6, <1>7

\* What X hands to W is what the machine's instruction owes.
LEMMA MovesData ==
  ASSUME RInv, Moves, Next
  PROVE  /\ ArchRegs' = IF WritesRd(i) /\ i.rd # 0
                        THEN [ArchRegs EXCEPT ![i.rd] = Machine!Result(i, op1, op2)] ELSE ArchRegs
         /\ ArchMem' = Machine!NextMem(i, op1, op2)
         /\ ArchResv' = Machine!NextResv(i, op1)
<1>1. TypeOK /\ WInv
  BY DEF RInv, WInv
<1>2. regs' = ArchRegs /\ mem' = ArchMem /\ resv' = ArchResv
  BY <1>1, MovesReads, StepRetires
<1>3. /\ xw'.valid /\ xw'.instr = i /\ xw'.result = x_result /\ xw'.store = op2
      /\ xw'.amo_addr = op1 /\ xw'.amo_b = op2
      /\ xw'.reg_we <=> WritesRd(i)
      /\ xw'.mem_re <=> i.op = "load"
      /\ xw'.mem_we <=> i.op = "store"
      /\ xw'.is_amo <=> IsAtomic(i)
  BY <1>1, MovesReads, XwNext
<1>4. i.op \in {"load", "store"} => x_result = AddX(op1, i.imm)
  <2>1. i.op \in {"load", "store"} => i.fn # "rr"
    BY <1>1, MovesReads, FxFields, CoreAssumption DEF RInv, FromProgram
  <2> QED
    BY <2>1 DEF x_result, alu_y
<1>5. Retiring' = IF i.op = "load" THEN LoadAt(ArchMem, i.fn, x_result)
                  ELSE IF ~IsAtomic(i) THEN x_result
                  ELSE IF i.op = "sc" THEN (IF ArchResv = AlignDown(op1) THEN 0 ELSE 1)
                  ELSE WordAt(ArchMem, AlignDown(op1))
  BY <1>2, <1>3 DEF Retiring, sc_ok
<1>6. WritesRd(i) => Retiring' = Machine!Result(i, op1, op2)
  <2>1. CASE i.op = "load"
    BY <1>4, <1>5, <2>1, MachineResult
  <2>2. CASE i.op \in {"lr", "sc", "amo"}
    BY <1>5, <2>2, MachineResult DEF IsAtomic
  <2>3. CASE i.op = "alu"
    BY <1>5, <2>3, MovesReads, MachineResult DEF IsAtomic, x_result, alu_y
  <2>4. CASE i.op \in {"jal", "jalr"}
    BY <1>5, <2>4, MovesReads, MachineResult DEF IsAtomic, x_result, seq_nx
  <2>5. CASE i.op = "md"
    BY <1>5, <2>5, MovesReads, MachineResult DEF IsAtomic, x_result
  <2>6. CASE i.op = "csr"
    BY <1>5, <2>6, MachineResult DEF IsAtomic, x_result
  <2> QED
    BY <2>1, <2>2, <2>3, <2>4, <2>5, <2>6 DEF WritesRd
<1>7. ArchRegs' = IF WritesRd(i) /\ i.rd # 0 THEN [regs' EXCEPT ![i.rd] = Retiring'] ELSE regs'
  BY <1>3 DEF ArchRegs
<1>8. ArchMem' = Machine!NextMem(i, op1, op2)
  <2>1. ArchMem' = IF i.op = "store" THEN StoreAt(mem', i.fn, x_result, op2)
                   ELSE IF i.op = "sc" /\ resv' = AlignDown(op1)
                   THEN StoreAt(mem', "w", AlignDown(op1), op2)
                   ELSE IF i.op = "amo"
                   THEN StoreAt(mem', "w", AlignDown(op1),
                                AmoOp(i.fn, WordAt(mem', AlignDown(op1)), op2))
                   ELSE mem'
    BY <1>3 DEF ArchMem, sc_ok, IsAtomic
  <2> QED
    BY <1>2, <1>4, <2>1, MachineNext
<1>9. ArchResv' = Machine!NextResv(i, op1)
  <2>1. ArchResv' = IF i.op = "lr" THEN AlignDown(op1)
                    ELSE IF i.op \in {"sc", "store"} THEN NoResv ELSE resv'
    BY <1>3 DEF ArchResv, amo_here, IsAtomic
  <2> QED
    BY <1>2, <2>1, MachineNext
<1> QED
  BY <1>2, <1>6, <1>7, <1>8, <1>9

\* The debug state around an instruction: a single step or a request makes a
\* halt due.
LEMMA MovesDebug ==
  ASSUME RInv, Moves, Next
  PROVE  Machine!Running /\ Machine!AfterInstruction
<1>1. TypeOK /\ ~dbg.mode /\ ~dbg.halt_req /\ ~dbg.cap_valid /\ fx.valid /\ ~ebreak_to_debug
  BY MovesReads DEF RInv, WInv, Moves
<1>2. ~dbg_resume_now /\ ~dbg_do
  BY <1>1 DEF dbg_resume_now, dbg_do
<1>3. /\ ~dbg'.mode /\ ~dbg'.cap_valid
      /\ dbg'.halt_req <=> in.haltreq \/ step_halt_now
      /\ dbg'.step_active = dbg.step_active
  BY <1>1, <1>2, DebugNext DEF TypeOK
<1>4. dbg'.ebreakm = dbg.ebreakm /\ dbg'.step = dbg.step /\ dbg'.cause = dbg.cause
  BY <1>1, <1>2 DEF Next, DebugEdge
<1>5. step_halt_now <=> dbg.step_active
  BY <1>1 DEF step_halt_now
<1>6. Machine!Running
  BY <1>1 DEF Machine!Running, ArchHalting
<1>7. ~(dbg.step_active /\ ~dbg.halt_req)'
  BY <1>3, <1>5
<1>8. IF dbg.step_active /\ ~dbg.halt_req THEN ArchHalting' = "step" ELSE ArchHalting' \in {"no", "haltreq"}
  BY <1>1, <1>3, <1>5 DEF ArchHalting
<1>9. prog' = prog /\ dbg'.mode = dbg.mode
  <2>1. dbg.mode = FALSE
    BY <1>1 DEF TypeOK
  <2>2. dbg'.mode = FALSE
    BY <1>1, <1>2 DEF Next, DebugEdge
  <2> QED
    BY <2>1, <2>2 DEF Next
<1>10. Machine!AfterInstruction
  BY <1>4, <1>7, <1>8, <1>9 DEF Machine!AfterInstruction
<1> QED
  BY <1>6, <1>10


\* An interrupt does not displace a FENCE.I.  (If it does, it is taken but
\* execution does not continue at mtvec: run fencei_irq.)
FenceiAlone == take_irq => i.op # "fencei"

\* Where X's instruction continues: at the trap vector, or where the machine's
\* does, whatever was predicted.
LEMMA MovesPc ==
  ASSUME RInv, Moves, FenceiAlone, Next
  PROVE  ArchPc' = IF ex_trap \/ take_irq THEN MTVEC ELSE Machine!NextPc(i, op1, op2)
<1>1. TypeOK /\ FetchEdge /\ ~dbg.mode /\ fx.valid /\ ~ex_freeze /\ ArchPc = fx.pc
  BY MovesReads DEF RInv, WInv, Moves, Next
<1>2. ~dbg_resume_now
  BY <1>1 DEF dbg_resume_now
<1>3. ArchPc' = IF fx'.valid THEN fx'.pc ELSE pc'
  <2>1. ~dbg'.mode /\ ~dbg'.cap_valid
    BY <1>1, DebugNext, MovesReads DEF Moves
  <2> QED
    BY <2>1 DEF ArchPc
<1>4. Machine!NextPc(i, op1, op2) =
        IF i.op = "jal" \/ (i.op = "branch" /\ BranchTaken(i, op1, op2))
        THEN AddX(fx.pc, i.imm)
        ELSE IF i.op = "jalr" THEN AddX(op1, i.imm)
        ELSE IF i.op = "mret" THEN csr.mepc ELSE seq_nx
  BY <1>1, MachineNext DEF seq_nx
<1>5. ex_trap => i.op \in {"illegal", "ecall", "ebreak"}
  BY DEF ex_trap
<1>6. take_irq => ~ex_trap /\ i.op \notin {"mret", "csr", "jal", "jalr", "branch", "fencei"}
  BY DEF take_irq, FenceiAlone
<1>7. IsControl(i) => redirect_target = Machine!NextPc(i, op1, op2)
  <2>1. CASE i.op = "jalr"
    <3>1. redirect_target = AddX(op1, i.imm)
      BY <1>5, <2>1, Zenon DEF redirect_target
    <3> QED
      BY <1>4, <2>1, <3>1
  <2>2. CASE i.op \in {"jal", "branch"}
    <3>1. redirect_target = br_actual_next
      BY <1>5, <2>2, Zenon DEF redirect_target
    <3> QED
      BY <1>4, <2>2, <3>1 DEF br_actual_next, br_actual_taken
  <2> QED
    BY <2>1, <2>2 DEF IsControl
<1>8. CASE redirect
  <2>1. pc' = redirect_target /\ ~fx'.valid
    BY <1>1, <1>8, FlushedOrFrozen, Zenon DEF FetchEdge
  <2>2. CASE ex_trap \/ take_irq
    <3>1. redirect_target = MTVEC
      BY <1>5, <1>6, <2>2, Zenon DEF redirect_target
    <3> QED
      BY <1>3, <2>1, <2>2, <3>1
  <2>3. CASE ~ex_trap /\ ~take_irq /\ i.op = "mret"
    <3>1. redirect_target = csr.mepc
      BY <2>3, Zenon DEF redirect_target
    <3> QED
      BY <1>3, <1>4, <2>1, <2>3, <3>1
  <2>4. CASE ~ex_trap /\ ~take_irq /\ i.op = "fencei"
    <3>1. redirect_target = seq_nx
      BY <2>4, Zenon DEF redirect_target
    <3> QED
      BY <1>3, <1>4, <2>1, <2>4, <3>1
  <2>5. CASE ~ex_trap /\ ~take_irq /\ i.op \notin {"mret", "fencei"}
    BY <1>3, <1>7, <1>8, <2>1, <2>5 DEF redirect
  <2> QED
    BY <2>2, <2>3, <2>4, <2>5
<1>9. CASE ~redirect
  <2>1. ~ex_trap /\ ~take_irq /\ i.op \notin {"mret", "fencei"}
        /\ (IsControl(i) => redirect_target = pred_next)
    BY <1>1, <1>9 DEF redirect
  <2>2. ArchPc' = pc
    <3>1. CASE fx'.valid
      BY <1>1, <1>3, <3>1, FxNext
    <3>2. CASE ~fx'.valid
      <4>1. ~(~redirect /\ ~dbg_freeze /\ ~ex_freeze /\ ~need_straddle
              /\ fx' = [valid |-> TRUE, pc |-> pc, instr |-> fetched, ghist |-> ghist,
                        pred_taken |-> predict_taken_f, pred_target |-> predict_target_f])
        BY <3>2
      <4>2. pc' = pc
        BY <1>1, <1>2, <1>9, <4>1, Zenon DEF FetchEdge
      <4> QED
        BY <1>3, <3>2, <4>2
    <3> QED
      BY <3>1, <3>2
  <2>3. CASE IsControl(i)
    BY <1>1, <1>7, <2>1, <2>2, <2>3 DEF RInv, Chain
  <2>4. CASE ~IsControl(i)
    <3>1. pc = seq_nx
      BY <1>1, <2>4, Sequential DEF RInv
    <3> QED
      BY <1>4, <2>1, <2>2, <2>4, <3>1 DEF IsControl
  <2> QED
    BY <2>1, <2>3, <2>4
<1> QED
  BY <1>8, <1>9

\* What X's instruction leaves in the CSRs: a trap's context, an interrupt's
\* context on top of what the instruction did, or what the instruction did.
LEMMA MovesCsr ==
  ASSUME RInv, Moves, FenceiAlone, Next
  PROVE  csr' = IF ex_trap THEN CsrTrap(csr, ex_cause, ArchPc)
                ELSE IF take_irq THEN CsrTrap(Machine!NextCsr(i, op1), "interrupt",
                                              Machine!NextPc(i, op1, op2))
                ELSE Machine!NextCsr(i, op1)
<1>1. CsrEdge /\ ~dbg.mode /\ fx.valid /\ ~ex_freeze /\ ArchPc = fx.pc /\ ~dbg_do
  BY MovesReads DEF Moves, Next, dbg_do
<1>2. Machine!NextCsr(i, op1) =
        IF i.op = "mret" THEN CsrMret(csr)
        ELSE IF CsrWrites(i)
        THEN CsrWrite(csr, i.csr, CsrNew(i, CsrRead(csr, i.csr), CsrSource(i, op1)))
        ELSE csr
  BY MachineNext
<1>3. take_irq => ~ex_trap /\ i.op \notin {"mret", "csr", "jal", "jalr", "branch"}
  BY DEF take_irq
<1>4. take_irq => Machine!NextPc(i, op1, op2) = seq_nx
  BY <1>1, <1>3, MachineNext DEF seq_nx
<1>5. take_irq => Machine!NextCsr(i, op1) = csr
  BY <1>2, <1>3 DEF CsrWrites
<1>6. CASE ex_trap
  BY <1>1, <1>6, Zenon DEF CsrEdge, m_trap_set
<1>7. CASE ~ex_trap /\ take_irq
  <2>1. csr' = CsrTrap(csr, "interrupt", seq_nx)
    BY <1>1, <1>7, Zenon DEF CsrEdge, m_trap_set
  <2> QED
    BY <1>4, <1>5, <1>7, <2>1
<1>8. CASE ~ex_trap /\ ~take_irq
  <2>1. csr' = IF i.op = "mret" THEN CsrMret(csr)
               ELSE IF CsrWrites(i)
               THEN CsrWrite(csr, i.csr, CsrNew(i, CsrRead(csr, i.csr), CsrSource(i, op1)))
               ELSE csr
    BY <1>1, <1>8 DEF CsrEdge, m_trap_set
  <2> QED
    BY <1>2, <1>8, <2>1
<1> QED
  BY <1>6, <1>7, <1>8

\* The machine tells traps and the debugger's EBREAKs as the core does.
LEMMA SameTraps ==
  ASSUME fx.valid, ~dbg.mode
  PROVE  /\ Machine!Traps(i) <=> ex_trap
         /\ Machine!ToDebug(i) <=> ebreak_to_debug
         /\ ex_trap => Machine!Cause(i) = ex_cause
<1>1. [ebreakm |-> dbg.ebreakm, step |-> dbg.step, cause |-> dbg.cause].ebreakm = dbg.ebreakm
  OBVIOUS
<1>2. Machine!Cause(i) = ex_cause
  BY Zenon DEF Machine!Cause, ex_cause
<1> QED
  BY <1>1, <1>2 DEF Machine!Traps, ex_trap, Machine!ToDebug, ebreak_to_debug

\* The edge that moves an instruction out of X is the machine's step.
LEMMA MovesStep ==
  ASSUME RInv, Moves, FenceiAlone, Next
  PROVE  Machine!Next
<1>1. /\ ~dbg.mode /\ fx.valid /\ ~ebreak_to_debug /\ prog[ArchPc] = i
      /\ op1 = ArchRegs[i.rs1] /\ op2 = ArchRegs[i.rs2]
  BY MovesReads DEF Moves
<1>2. Machine!Running /\ Machine!AfterInstruction
  BY MovesDebug
<1>3. CASE ex_trap
  <2>1. Machine!Traps(prog[ArchPc]) /\ Machine!Cause(prog[ArchPc]) = ex_cause
    BY <1>1, <1>3, SameTraps
  <2>2. csr' = CsrTrap(csr, ex_cause, ArchPc) /\ ArchPc' = MTVEC
    BY <1>3, MovesCsr, MovesPc
  <2>3. i.op \in {"illegal", "ecall", "ebreak"}
    BY <1>3 DEF ex_trap
  <2>4. ArchRegs' = ArchRegs /\ ArchMem' = ArchMem /\ ArchResv' = ArchResv
    BY <2>3, MovesData, MachineNext DEF WritesRd
  <2>5. csr' = Machine!CsrTrap(csr, Machine!Cause(prog[ArchPc]), ArchPc)
    BY <2>1, <2>2, SameCsrs
  <2>6. Machine!Trap
    BY <1>2, <2>1, <2>2, <2>4, <2>5, Zenon DEF Machine!Trap
  <2> QED
    BY <2>6, Zenon DEF Machine!Next
<1>4. CASE ~ex_trap
  <2>1. ~Machine!Traps(i) /\ ~Machine!ToDebug(i)
    BY <1>1, <1>4, SameTraps
  <2>2. take_irq => Machine!NextCsr(i, op1).mie
    <3> SUFFICES ASSUME take_irq PROVE Machine!NextCsr(i, op1).mie
      OBVIOUS
    <3>1. csr.mie /\ i.op \notin {"mret", "csr"}
      BY DEF take_irq, irq_req
    <3>2. Machine!NextCsr(i, op1) = csr
      BY <3>1, MachineNext DEF CsrWrites
    <3> QED
      BY <3>1, <3>2
  <2>3. ArchRegs' = IF Machine!WritesRd(i) /\ i.rd # 0
                    THEN [ArchRegs EXCEPT ![i.rd] = Machine!Result(i, op1, op2)] ELSE ArchRegs
    BY MovesData, SameCsrs
  <2>4. ArchMem' = Machine!NextMem(i, op1, op2) /\ ArchResv' = Machine!NextResv(i, op1)
    BY MovesData
  <2>5. csr' = IF take_irq THEN Machine!CsrTrap(Machine!NextCsr(i, op1), "interrupt",
                                                Machine!NextPc(i, op1, op2))
               ELSE Machine!NextCsr(i, op1)
    BY <1>4, MovesCsr, SameCsrs
  <2>6. ArchPc' = IF take_irq THEN MTVEC ELSE Machine!NextPc(i, op1, op2)
    BY <1>4, MovesPc
  <2>7. Machine!Execute(take_irq)
    BY <1>1, <1>2, <2>1, <2>2, <2>3, <2>4, <2>5, <2>6, Zenon DEF Machine!Execute
  <2>8. take_irq \in BOOLEAN
    BY DEF take_irq
  <2> QED
    BY <2>7, <2>8, Zenon DEF Machine!Next
<1> QED
  BY <1>3, <1>4


----------------------------------------------------------------------------
(* The steps of the debugger, and the edges that do not show.              *)

\* A halt request does not come while a single step is under way.
StepAlone == in.haltreq => ~dbg.step_active

\* A resume request does not come in the cycle that writes a register.
OneCommand == dbg_resume_now => ~(dbg_do /\ in.ar.write)

\* What the theorem asks of the debugger and of the interrupt line.
Orderly == HaltsBetween /\ StepAlone /\ OneCommand /\ FenceiAlone

\* With an empty X, fetch neither traps nor moves what the programmer sees as
\* the pc, and the CSRs are left to the debugger.
LEMMA EmptyX ==
  ASSUME TypeOK, Next, ~fx.valid
  PROVE  /\ ~redirect /\ ~x_commit /\ ~ebreak_to_debug /\ ~step_halt_now
         /\ ~dbg_resume_now => (IF fx'.valid THEN fx'.pc ELSE pc') = pc
         /\ ~dbg.mode => csr' = csr
<1>1. ~redirect /\ ~x_commit /\ ~ebreak_to_debug /\ ~step_halt_now /\ ~m_trap_set
  BY DEF redirect, x_commit, ebreak_to_debug, step_halt_now, m_trap_set, ex_trap, take_irq
<1>2. FetchEdge /\ CsrEdge
  BY DEF Next
<1>3. ASSUME ~dbg_resume_now PROVE (IF fx'.valid THEN fx'.pc ELSE pc') = pc
  <2>1. CASE fx'.valid
    <3>1. fx' # fx
      BY <2>1
    <3> QED
      BY <2>1, <3>1, FxNext
  <2>2. CASE ~fx'.valid
    <3>1. ~(fx' = [valid |-> TRUE, pc |-> pc, instr |-> fetched, ghist |-> ghist,
                   pred_taken |-> predict_taken_f, pred_target |-> predict_target_f])
      BY <2>2
    <3>2. pc' = pc
      BY <1>1, <1>2, <1>3, <3>1, Zenon DEF FetchEdge
    <3> QED
      BY <2>2, <3>2
  <2> QED
    BY <2>1, <2>2
<1>4. ASSUME ~dbg.mode PROVE csr' = csr
  BY <1>1, <1>2, <1>4 DEF CsrEdge, dbg_do
<1> QED
  BY <1>1, <1>3, <1>4

\* The registers of dcsr change on entry to debug mode and on a debugger's
\* write only.
LEMMA DcsrNext ==
  ASSUME TypeOK, Next, ~(dbg.halt_req /\ ~dbg.mode /\ pipe_drained),
         ~dbg_do \/ ~in.ar.write \/ ~in.ar.csr
  PROVE  dbg'.ebreakm = dbg.ebreakm /\ dbg'.step = dbg.step /\ dbg'.cause = dbg.cause
         /\ dbg'.dpc = dbg.dpc
  BY DEF Next, DebugEdge

\* An edge out of normal execution without a request, on which no instruction
\* leaves X, does not show: X is empty, or holds its instruction, or W drains.
LEMMA IdleStep ==
  ASSUME RInv, HaltsBetween, Next, ~dbg.mode, ~ebreak_to_debug,
         \/ dbg.halt_req /\ ~pipe_drained
         \/ ~dbg.halt_req /\ ~fx.valid /\ ~in.haltreq
         \/ fx.valid /\ ex_freeze
  PROVE  UNCHANGED Machine!vars
<1>1. TypeOK /\ WInv /\ DebugInv
  BY DEF RInv, WInv
<1>2. ~dbg_resume_now /\ ~dbg_do
  BY DEF dbg_resume_now, dbg_do
<1>3. ~(dbg.halt_req /\ ~dbg.mode /\ pipe_drained)
  BY <1>1 DEF DebugInv, pipe_drained
<1>4. dbg'.ebreakm = dbg.ebreakm /\ dbg'.step = dbg.step /\ dbg'.cause = dbg.cause
  BY <1>1, <1>2, <1>3, DcsrNext
<1>5. dbg'.mode = dbg.mode
  <2>1. dbg.mode = FALSE
    BY <1>1 DEF TypeOK
  <2>2. dbg'.mode = FALSE
    BY <1>3 DEF Next, DebugEdge
  <2> QED
    BY <2>1, <2>2
<1>6. fx.valid => ~dbg.halt_req /\ ~in.haltreq /\ ~step_halt_now
  BY <1>1 DEF DebugInv, HaltsBetween, ex_freeze
<1>7. ~fx.valid => ~step_halt_now /\ (dbg.halt_req \/ ~in.haltreq)
  BY DEF step_halt_now
<1>8. (dbg'.halt_req <=> dbg.halt_req) /\ dbg'.step_active = dbg.step_active
      /\ (dbg'.cap_valid <=> dbg.cap_valid)
  BY <1>1, <1>2, <1>3, <1>6, <1>7, DebugNext DEF TypeOK
<1>9. dbg'.cap = dbg.cap
  BY DEF Next, DebugEdge
<1>10. ~x_commit \/ mem_beat_stall
  BY <1>1 DEF x_commit, ex_freeze, DebugInv
<1>11. UNCHANGED <<ArchRegs, ArchMem, ArchResv>>
  BY <1>1, <1>10, DataIdle
<1>12. csr' = csr /\ ((IF fx'.valid THEN fx'.pc ELSE pc') = IF fx.valid THEN fx.pc ELSE pc)
  <2>1. CASE ~fx.valid
    BY <1>1, <1>2, <2>1, EmptyX
  <2>2. CASE fx.valid
    <3>1. ex_freeze
      BY <1>1, <2>2 DEF DebugInv
    <3>2. fx' = fx /\ pc' = pc
      BY <1>1, <2>2, <3>1, HeldWhileFrozen
    <3>3. ~m_trap_set
      BY <3>1 DEF m_trap_set, take_irq
    <3>4. csr' = csr
      BY <1>2, <3>1, <3>3 DEF Next, CsrEdge
    <3> QED
      BY <3>2, <3>4
  <2> QED
    BY <2>1, <2>2
<1>13. ArchPc' = ArchPc
  BY <1>5, <1>8, <1>9, <1>12 DEF ArchPc
<1>14. ArchHalting' = ArchHalting
  BY <1>8 DEF ArchHalting
<1>15. (dbg.step_active /\ ~dbg.halt_req)' = (dbg.step_active /\ ~dbg.halt_req)
  BY <1>8
<1>16. prog' = prog
  BY DEF Next
<1> QED
  BY <1>4, <1>5, <1>11, <1>12, <1>13, <1>14, <1>15, <1>16, Zenon DEF Machine!vars

\* A halt request that finds X empty makes a halt due.
LEMMA HaltStep ==
  ASSUME RInv, StepAlone, Next, ~dbg.mode, ~dbg.halt_req, ~fx.valid, in.haltreq
  PROVE  Machine!HaltRequest
<1>1. TypeOK /\ WInv /\ DebugInv /\ ~dbg.step_active /\ ~dbg.cap_valid
  BY DEF RInv, WInv, StepAlone, DebugInv
<1>2. ~dbg_resume_now /\ ~dbg_do /\ ~ebreak_to_debug
  BY DEF dbg_resume_now, dbg_do, ebreak_to_debug
<1>3. dbg'.ebreakm = dbg.ebreakm /\ dbg'.step = dbg.step /\ dbg'.cause = dbg.cause
  BY <1>1, <1>2, DcsrNext
<1>4. dbg'.halt_req /\ ~dbg'.step_active /\ ~dbg'.cap_valid
  BY <1>1, <1>2, DebugNext
<1>5. dbg'.mode = dbg.mode
  <2>1. dbg.mode = FALSE
    BY <1>1 DEF TypeOK
  <2>2. dbg'.mode = FALSE
    BY DEF Next, DebugEdge
  <2> QED
    BY <2>1, <2>2
<1>6. UNCHANGED <<ArchRegs, ArchMem, ArchResv>>
  BY <1>1, EmptyX, DataIdle
<1>7. csr' = csr /\ ArchPc' = ArchPc
  BY <1>1, <1>2, <1>4, <1>5, EmptyX DEF ArchPc
<1>8. ArchHalting = "no" /\ ArchHalting' = "haltreq"
  BY <1>4 DEF ArchHalting
<1>9. (dbg.step_active /\ ~dbg.halt_req)' = (dbg.step_active /\ ~dbg.halt_req)
      /\ ~(dbg.step_active /\ ~dbg.halt_req)
  BY <1>1, <1>4
<1>10. prog' = prog
  BY DEF Next
<1> QED
  BY <1>3, <1>5, <1>6, <1>7, <1>8, <1>9, <1>10, Zenon DEF Machine!HaltRequest, Machine!Running

\* An EBREAK that belongs to the debugger makes a halt due and does not
\* execute, whether or not W holds X back.
LEMMA BreakStep ==
  ASSUME RInv, Next, ebreak_to_debug
  PROVE  Machine!BreakToDebug
<1>1. /\ TypeOK /\ WInv /\ DebugInv /\ fx.valid /\ i.op = "ebreak" /\ ~dbg.mode /\ dbg.ebreakm
      /\ ~dbg.halt_req /\ ~dbg.cap_valid
  BY DEF RInv, WInv, DebugInv, ebreak_to_debug
<1>2. ~dbg_resume_now /\ ~dbg_do /\ dbg_freeze
  BY <1>1 DEF dbg_resume_now, dbg_do, dbg_freeze
<1>3. dbg'.ebreakm = dbg.ebreakm /\ dbg'.step = dbg.step /\ dbg'.cause = dbg.cause
  BY <1>1, <1>2, DcsrNext
<1>4. dbg'.halt_req /\ dbg'.cap_valid
  BY <1>1, <1>2, DebugNext
<1>5. dbg'.mode = dbg.mode /\ dbg'.cap = fx.pc
  <2>1. dbg.mode = FALSE
    BY <1>1 DEF TypeOK
  <2>2. dbg'.mode = FALSE /\ dbg'.cap = fx.pc
    BY <1>1 DEF Next, DebugEdge
  <2> QED
    BY <2>1, <2>2
<1>6. ~x_commit
  BY DEF x_commit
<1>7. UNCHANGED <<ArchRegs, ArchMem, ArchResv>>
  BY <1>1, <1>6, DataIdle
<1>8. ArchPc' = fx.pc /\ ArchPc = fx.pc
  BY <1>1, <1>4, <1>5 DEF ArchPc
<1>9. csr' = csr
  <2>1. ~m_trap_set
    BY <1>1, <1>2 DEF m_trap_set, ex_trap, take_irq
  <2> QED
    BY <1>1, <1>2, <2>1 DEF Next, CsrEdge, CsrWrites
<1>10. ArchHalting = "no" /\ ArchHalting' = "ebreak"
  BY <1>1, <1>4 DEF ArchHalting
<1>11. ~(dbg.step_active /\ ~dbg.halt_req)'
  BY <1>4
<1>12. prog[ArchPc] = i
  BY <1>1, <1>8 DEF RInv, FromProgram, i
<1>13. Machine!ToDebug(prog[ArchPc]) /\ Machine!Running
  BY <1>1, <1>10, <1>12, SameTraps DEF Machine!Running
<1>14. prog' = prog
  BY DEF Next
<1>15. UNCHANGED <<prog, ArchPc, ArchRegs, ArchMem, ArchResv, csr,
                   [ebreakm |-> dbg.ebreakm, step |-> dbg.step, cause |-> dbg.cause], dbg.mode>>
  BY <1>3, <1>5, <1>7, <1>8, <1>9, <1>14
<1> QED
  BY <1>10, <1>11, <1>13, <1>15, Zenon DEF Machine!BreakToDebug


\* The halt that is due is entered once the pipeline is empty.
LEMMA EnterStep ==
  ASSUME RInv, Next, ~dbg.mode, dbg.halt_req, pipe_drained
  PROVE  Machine!EnterDebug
<1>1. TypeOK /\ WInv /\ ~fx.valid /\ ~xw.valid
  BY DEF RInv, WInv, pipe_drained
<1>2. ~dbg_resume_now /\ ~dbg_do /\ ~ebreak_to_debug
  BY <1>1 DEF dbg_resume_now, dbg_do, ebreak_to_debug
<1>3. dbg' = [mode |-> TRUE, halt_req |-> FALSE, step_active |-> FALSE,
              dpc |-> IF dbg.cap_valid THEN dbg.cap ELSE pc,
              ebreakm |-> dbg.ebreakm, step |-> dbg.step,
              cause |-> IF dbg.cap_valid THEN "ebreak"
                        ELSE IF dbg.step_active THEN "step" ELSE "haltreq",
              ar_busy |-> in.ar.valid /\ (dbg.ar_busy \/ dbg_do), ar_done |-> dbg_do,
              cap_valid |-> FALSE, cap |-> dbg.cap]
  BY <1>2 DEF Next, DebugEdge
<1>4. /\ dbg'.mode = TRUE /\ dbg'.halt_req = FALSE /\ dbg'.step_active = FALSE
      /\ dbg'.dpc = (IF dbg.cap_valid THEN dbg.cap ELSE pc)
      /\ dbg'.ebreakm = dbg.ebreakm /\ dbg'.step = dbg.step
      /\ dbg'.cause = IF dbg.cap_valid THEN "ebreak"
                      ELSE IF dbg.step_active THEN "step" ELSE "haltreq"
  BY <1>3
<1>5. UNCHANGED <<ArchRegs, ArchMem, ArchResv>> /\ csr' = csr
  BY <1>1, EmptyX, DataIdle
<1>6. ArchPc' = ArchPc
  BY <1>1, <1>4 DEF ArchPc
<1>7. ArchHalting' = "no" /\ ArchHalting = dbg'.cause /\ ArchHalting # "no"
  BY <1>4 DEF ArchHalting
<1>8. (dbg.step_active /\ ~dbg.halt_req)' = FALSE
  BY <1>4
<1>9. [ebreakm |-> dbg'.ebreakm, step |-> dbg'.step, cause |-> dbg'.cause]
        = [[ebreakm |-> dbg.ebreakm, step |-> dbg.step, cause |-> dbg.cause]
             EXCEPT !.cause = ArchHalting]
  BY <1>4, <1>7
<1>10. prog' = prog
  BY DEF Next
<1> QED
  BY <1>4, <1>5, <1>6, <1>7, <1>8, <1>9, <1>10, Zenon DEF Machine!EnterDebug

\* In debug mode only the debugger's access changes what the programmer sees.
LEMMA HaltedData ==
  ASSUME RInv, Next, dbg.mode
  PROVE  /\ ArchRegs = regs /\ ArchRegs' = regs' /\ ArchMem' = ArchMem /\ ArchResv' = ArchResv
         /\ regs' = IF dbg_do /\ in.ar.write /\ ~in.ar.csr /\ in.ar.regno # 0
                    THEN [regs EXCEPT ![in.ar.regno] = in.ar.wdata] ELSE regs
         /\ csr' = IF dbg_do /\ in.ar.write /\ in.ar.csr
                   THEN CsrWrite(csr, in.ar.regno, in.ar.wdata) ELSE csr
<1>1. TypeOK /\ WInv /\ ~fx.valid /\ ~xw.valid
  BY DEF RInv, WInv, DebugInv
<1>2. ~xw'.valid
  BY <1>1, Drains
<1>3. /\ ArchRegs = regs /\ ArchMem = mem /\ ArchResv = resv
      /\ ArchRegs' = regs' /\ ArchMem' = mem' /\ ArchResv' = resv'
  BY <1>1, <1>2 DEF ArchRegs, ArchMem, ArchResv, amo_here
<1>4. ~mem_beat_stall /\ ~rf_we /\ ~m_trap_set
  BY <1>1 DEF mem_beat_stall, mem_mis, amo_rmw_b1, amo_here, rf_we, m_trap_set, ex_trap, take_irq
<1>5. mem' = mem
  BY <1>1, <1>3, <1>4, MemRetires DEF Next
<1>6. resv' = resv
  BY <1>1 DEF Next, ReservationEdge, amo_here
<1>7. regs' = IF dbg_do /\ in.ar.write /\ ~in.ar.csr /\ in.ar.regno # 0
              THEN [regs EXCEPT ![in.ar.regno] = in.ar.wdata] ELSE regs
  BY <1>4 DEF Next, RegfileEdge
<1>8. csr' = IF dbg_do /\ in.ar.write /\ in.ar.csr
             THEN CsrWrite(csr, in.ar.regno, in.ar.wdata) ELSE csr
  BY <1>1, <1>4 DEF Next, CsrEdge
<1> QED
  BY <1>3, <1>5, <1>6, <1>7, <1>8

\* The debug registers of a halted hart.
LEMMA HaltedDebug ==
  ASSUME RInv, Next, dbg.mode
  PROVE  /\ dbg'.mode <=> ~dbg_resume_now
         /\ ~dbg'.halt_req /\ ~dbg'.cap_valid /\ dbg'.cause = dbg.cause
         /\ dbg'.step_active = IF dbg_resume_now THEN dbg.step ELSE FALSE
         /\ dbg'.dpc = IF dbg_do /\ in.ar.write /\ in.ar.csr /\ in.ar.regno = "dpc"
                       THEN in.ar.wdata ELSE dbg.dpc
         /\ dbg'.ebreakm = IF dbg_do /\ in.ar.write /\ in.ar.csr /\ in.ar.regno = "dcsr"
                           THEN (in.ar.wdata \div 2) % 2 = 1 ELSE dbg.ebreakm
         /\ dbg'.step = IF dbg_do /\ in.ar.write /\ in.ar.csr /\ in.ar.regno = "dcsr"
                        THEN in.ar.wdata % 2 = 1 ELSE dbg.step
<1>1. /\ TypeOK /\ ~fx.valid /\ dbg.mode = TRUE
      /\ dbg.halt_req = FALSE /\ dbg.step_active = FALSE /\ dbg.cap_valid = FALSE
  BY DEF RInv, WInv, DebugInv, TypeOK
<1>2. ~ebreak_to_debug
  BY <1>1 DEF ebreak_to_debug
<1> QED
  BY <1>1, <1>2 DEF Next, DebugEdge


\* A halted hart is resumed, or the debugger writes one register of it, or
\* nothing happens.
LEMMA HaltedStep ==
  ASSUME RInv, OneCommand, Next, dbg.mode
  PROVE  Machine!Resume \/ Machine!DebugWrite \/ UNCHANGED Machine!vars
<1> DEFINE dcsr == [ebreakm |-> dbg.ebreakm, step |-> dbg.step, cause |-> dbg.cause]
           stepping == dbg.step_active /\ ~dbg.halt_req
           write == dbg_do /\ in.ar.write
<1>1. /\ TypeOK /\ ~fx.valid /\ dbg.mode = TRUE
      /\ dbg.halt_req = FALSE /\ dbg.step_active = FALSE /\ dbg.cap_valid = FALSE
      /\ dbg.ebreakm \in BOOLEAN /\ dbg.step \in BOOLEAN
  BY DEF RInv, WInv, DebugInv, TypeOK
<1>2. ArchPc = dbg.dpc /\ ArchHalting = "no" /\ ArchHalting' = "no" /\ prog' = prog
      /\ stepping = FALSE
  BY <1>1, HaltedDebug DEF ArchPc, ArchHalting, Next
<1>3. ~write => regs' = regs /\ csr' = csr
  BY HaltedData
<1>4. ~write => dcsr' = dcsr
  BY HaltedDebug
<1>5. CASE dbg_resume_now
  <2>1. ~write
    BY <1>5 DEF OneCommand
  <2>2. ~redirect /\ dbg_freeze
    BY <1>1, EmptyX DEF dbg_freeze
  <2>3. pc' = dbg.dpc /\ ~fx'.valid
    BY <1>1, <1>5, <2>2, FlushedOrFrozen, Zenon DEF Next, FetchEdge
  <2>4. dbg'.mode = FALSE
    <3>1. ~dbg'.mode
      BY <1>5, HaltedDebug
    <3>2. dbg'.mode \in BOOLEAN
      BY <1>1 DEF Next, DebugEdge
    <3> QED
      BY <3>1, <3>2
  <2>5. ArchPc' = ArchPc
    BY <1>2, <2>3, <2>4, HaltedDebug DEF ArchPc
  <2>6. stepping' = dbg.step
    <3>1. dbg'.step_active = dbg.step /\ ~dbg'.halt_req
      BY <1>5, HaltedDebug
    <3> QED
      BY <1>1, <3>1
  <2>7. UNCHANGED <<ArchRegs, ArchMem, ArchResv, csr>>
    BY <1>3, <2>1, HaltedData
  <2>8. dcsr.step = dbg.step
    OBVIOUS
  <2>9. stepping' = dcsr.step
    BY <2>6, <2>8
  <2>10. UNCHANGED <<prog, ArchPc, ArchRegs, ArchMem, ArchResv, csr, dcsr, ArchHalting>>
    BY <1>2, <1>4, <2>1, <2>5, <2>7
  <2> QED
    BY <2>4, <2>9, <2>10, Zenon DEF Machine!Resume
<1>6. CASE ~dbg_resume_now
  <2>1. dbg'.mode = dbg.mode /\ stepping' = stepping
    <3>1. dbg'.mode \in BOOLEAN /\ dbg'.mode
      BY <1>1, <1>6, HaltedDebug DEF Next, DebugEdge
    <3>2. stepping' = FALSE
      BY <1>6, HaltedDebug
    <3> QED
      BY <1>1, <1>2, <3>1, <3>2
  <2>2. UNCHANGED <<prog, ArchMem, ArchResv, ArchHalting, dbg.mode, stepping>>
    BY <1>2, <2>1, HaltedData
  <2>3. ArchPc' = dbg'.dpc
    BY <1>1, <2>1 DEF ArchPc
  <2>4. CASE ~write
    <3>1. ArchRegs' = ArchRegs /\ csr' = csr /\ ArchPc' = ArchPc
      BY <1>2, <1>3, <2>3, <2>4, HaltedData, HaltedDebug
    <3> QED
      BY <1>4, <2>2, <2>4, <3>1, Zenon DEF Machine!vars
  <2>5. CASE write /\ ~in.ar.csr
    <3>1. csr' = csr /\ ArchPc' = ArchPc /\ dcsr' = dcsr
      BY <1>2, <2>3, <2>5, HaltedData, HaltedDebug
    <3>2. CASE in.ar.regno = 0
      <4>1. ArchRegs' = ArchRegs
        BY <2>5, <3>2, HaltedData
      <4> QED
        BY <2>2, <3>1, <4>1, Zenon DEF Machine!vars
    <3>3. CASE in.ar.regno # 0
      <4>1. ArchRegs' = [ArchRegs EXCEPT ![in.ar.regno] = in.ar.wdata]
        BY <2>5, <3>3, HaltedData
      <4>2. in.ar.regno \in Machine!Reg \ {0} /\ in.ar.wdata \in Machine!Word
        BY <1>1, <2>5, <3>3, PinFields, SameWords
      <4>3. UNCHANGED <<ArchPc, csr, dcsr>>
        BY <3>1
      <4>4. Machine!DebugWrite
        BY <2>2, <4>1, <4>2, <4>3, Zenon DEF Machine!DebugWrite
      <4> QED
        BY <4>4
    <3> QED
      BY <3>2, <3>3
  <2>6. CASE write /\ in.ar.csr
    <3>1. ArchRegs' = ArchRegs /\ csr' = CsrWrite(csr, in.ar.regno, in.ar.wdata)
      BY <2>6, HaltedData
    <3>2. in.ar.wdata \in Machine!Word /\ in.ar.wdata \in Word
      BY <1>1, PinFields, SameWords
    <3>3. in.ar.regno \in DebugCsrs
      <4>1. in \in [irq : BOOLEAN, haltreq : BOOLEAN, resumereq : BOOLEAN, ar : Access]
        BY <1>1, CoreAssumption DEF TypeOK
      <4>2. in.ar \in Access /\ in.ar.csr
        BY <2>6, <4>1
      <4> QED
        BY <4>2 DEF Access
    <3>4. CASE in.ar.regno = "dcsr"
      <4>1. csr' = csr /\ ArchPc' = ArchPc
        BY <1>2, <2>3, <3>1, <3>4, HaltedDebug DEF CsrWrite
      <4>2. dcsr' = [dcsr EXCEPT !.ebreakm = ((in.ar.wdata \div 2) % 2 = 1),
                                 !.step = (in.ar.wdata % 2 = 1)]
        <5>1. /\ dbg'.ebreakm = ((in.ar.wdata \div 2) % 2 = 1)
              /\ dbg'.step = (in.ar.wdata % 2 = 1)
              /\ dbg'.cause = dbg.cause
          BY <2>6, <3>4, HaltedDebug, Zenon
        <5>2. ASSUME NEW e, NEW s, dbg'.ebreakm = e, dbg'.step = s, dbg'.cause = dbg.cause
              PROVE  dcsr' = [dcsr EXCEPT !.ebreakm = e, !.step = s]
          <6>1. dcsr' = [ebreakm |-> e, step |-> s, cause |-> dbg.cause]
            BY <5>2, Zenon
          <6>2. [dcsr EXCEPT !.ebreakm = e, !.step = s]
                  = [ebreakm |-> e, step |-> s, cause |-> dbg.cause]
            <7>1. [dcsr EXCEPT !.ebreakm = e] = [ebreakm |-> e, step |-> dbg.step, cause |-> dbg.cause]
              OBVIOUS
            <7>2. [[ebreakm |-> e, step |-> dbg.step, cause |-> dbg.cause] EXCEPT !.step = s]
                    = [ebreakm |-> e, step |-> s, cause |-> dbg.cause]
              OBVIOUS
            <7> HIDE DEF dcsr
            <7>3. [dcsr EXCEPT !.ebreakm = e, !.step = s] = [[dcsr EXCEPT !.ebreakm = e] EXCEPT !.step = s]
              OBVIOUS
            <7> QED
              BY <7>1, <7>2, <7>3, Zenon
          <6> QED
            BY <6>1, <6>2, Zenon
        <5> QED
          BY <5>1, <5>2, Zenon
      <4>3. ((in.ar.wdata \div 2) % 2 = 1) \in BOOLEAN /\ (in.ar.wdata % 2 = 1) \in BOOLEAN
        BY Zenon
      <4>4. UNCHANGED <<ArchPc, ArchRegs, csr>>
        BY <3>1, <4>1
      <4>5. Machine!DebugWrite
        BY <2>2, <4>2, <4>3, <4>4, Zenon DEF Machine!DebugWrite
      <4> QED
        BY <4>5
    <3>5. CASE in.ar.regno = "dpc"
      <4>1. csr' = csr /\ ArchPc' = in.ar.wdata /\ dcsr' = dcsr
        BY <2>3, <2>6, <3>1, <3>5, HaltedDebug DEF CsrWrite
      <4>2. ArchPc' \in Machine!Word /\ UNCHANGED <<ArchRegs, csr, dcsr>>
        BY <3>1, <3>2, <4>1
      <4>3. Machine!DebugWrite
        BY <2>2, <4>2, Zenon DEF Machine!DebugWrite
      <4> QED
        BY <4>3
    <3>6. CASE in.ar.regno \in {"mstatus", "mepc", "mscratch"}
      <4>1. in.ar.regno \in Machine!Csrs
        BY <3>6, SameWords DEF Csrs
      <4>2. csr' = Machine!CsrWrite(csr, in.ar.regno, in.ar.wdata)
        BY <3>1, SameCsrs
      <4>3. ArchPc' = ArchPc /\ dcsr' = dcsr
        BY <1>2, <2>3, <3>6, HaltedDebug
      <4>4. UNCHANGED <<ArchPc, ArchRegs, dcsr>>
        BY <3>1, <4>3
      <4>5. Machine!DebugWrite
        BY <2>2, <3>2, <4>1, <4>2, <4>4, Zenon DEF Machine!DebugWrite
      <4> QED
        BY <4>5
    <3> QED
      BY <3>3, <3>4, <3>5, <3>6 DEF DebugCsrs
  <2> QED
    BY <2>4, <2>5, <2>6
<1> QED
  BY <1>5, <1>6

\* Every clock edge is a step of the machine or does not show.
LEMMA RefineStep ==
  ASSUME RInv, Orderly, Next
  PROVE  Machine!Next \/ UNCHANGED Machine!vars
<1>1. HaltsBetween /\ StepAlone /\ OneCommand /\ FenceiAlone
  BY DEF Orderly
<1>2. CASE dbg.mode
  BY <1>1, <1>2, HaltedStep, Zenon DEF Machine!Next
<1>3. CASE ~dbg.mode /\ dbg.halt_req /\ pipe_drained
  BY <1>3, EnterStep, Zenon DEF Machine!Next
<1>4. CASE ~dbg.mode /\ dbg.halt_req /\ ~pipe_drained
  <2>1. ~fx.valid
    BY <1>4 DEF RInv, DebugInv
  <2>2. ~ebreak_to_debug
    BY <2>1 DEF ebreak_to_debug
  <2> QED
    BY <1>1, <1>4, <2>2, IdleStep
<1>5. CASE ~dbg.mode /\ ~dbg.halt_req
  <2>1. CASE Moves
    BY <1>1, <2>1, MovesStep
  <2>2. CASE ebreak_to_debug
    BY <2>2, BreakStep, Zenon DEF Machine!Next
  <2>3. CASE ~fx.valid /\ in.haltreq
    BY <1>1, <1>5, <2>3, HaltStep, Zenon DEF Machine!Next
  <2>4. CASE ~ebreak_to_debug /\ ((~fx.valid /\ ~in.haltreq) \/ (fx.valid /\ ex_freeze))
    BY <1>1, <1>5, <2>4, IdleStep
  <2> QED
    BY <2>1, <2>2, <2>3, <2>4, Zenon DEF Moves
<1> QED
  BY <1>2, <1>3, <1>4, <1>5

\* The reset state is an initial state of the machine.
LEMMA RefineInit ==
  ASSUME Init
  PROVE  Machine!Init
<1>1. prog \in Machine!Program /\ mem \in Machine!Memory
  BY CoreAssumption, SameWords DEF Init
<1>2. ~xw.valid /\ ~fx.valid /\ ~dbg.mode /\ ~dbg.cap_valid /\ ~dbg.halt_req /\ ~dbg.step_active
      /\ dbg.mode = FALSE /\ dbg.ebreakm = FALSE /\ dbg.step = FALSE /\ dbg.cause = "none"
      /\ pc = 0 /\ resv = NoResv /\ regs = [r \in Reg |-> 0] /\ csr = Csr0
  BY DEF Init
<1>3. ArchPc = 0 /\ ArchRegs = [r \in Machine!Reg |-> 0] /\ ArchMem = mem
      /\ ArchResv = Machine!NoResv /\ csr = Machine!Csr0 /\ ArchHalting = "no"
  BY <1>2, SameWords DEF ArchPc, ArchRegs, ArchMem, ArchResv, amo_here, ArchHalting
<1>4. [ebreakm |-> dbg.ebreakm, step |-> dbg.step, cause |-> dbg.cause]
        = [ebreakm |-> FALSE, step |-> FALSE, cause |-> "none"]
  BY <1>2
<1>5. (dbg.step_active /\ ~dbg.halt_req) = FALSE
  BY <1>2
<1> QED
  BY <1>1, <1>2, <1>3, <1>4, <1>5, Zenon DEF Machine!Init

\* A step that leaves the core's state leaves the machine's.
LEMMA RefineStutter ==
  ASSUME UNCHANGED vars
  PROVE  UNCHANGED Machine!vars
<1>1. prog' = prog /\ csr' = csr /\ dbg' = dbg
  BY DEF vars
<1>2. Retiring' = Retiring
  BY DEF vars, Retiring, sc_ok
<1>3. ArchRegs' = ArchRegs /\ ArchMem' = ArchMem /\ ArchResv' = ArchResv
  BY <1>2 DEF vars, ArchRegs, ArchMem, ArchResv, sc_ok, amo_here
<1>4. ArchPc' = ArchPc /\ ArchHalting' = ArchHalting
  BY DEF vars, ArchPc, ArchHalting
<1> QED
  BY <1>1, <1>3, <1>4, Zenon DEF Machine!vars

----------------------------------------------------------------------------
(* The theorem.                                                            *)

\* The multiplier's result is the product or quotient of the architectural
\* values.
LEMMA MdRightInvariant ==
  ASSUME NoMdBehindLateWrite
  PROVE  Spec /\ []HaltsBetween => []MdRight
<1>1. Init => MdRight
  BY DEF Init, MdRight
<1>2. MdRight /\ UNCHANGED vars => MdRight'
  BY DEF MdRight, vars, ArchRegs, Retiring, sc_ok
<1>3. WInv /\ ZeroReg /\ FromProgram /\ Adjacent /\ DebugInv /\ HaltsBetween /\ MdInv /\ MdRight
        /\ [Next]_vars => MdRight'
  BY <1>2, MdRightStep, NoMdBehindLateWrite
<1> QED
  BY <1>1, <1>3, WInvariant, ZeroRegInvariant, FromProgramInv, AdjacentInvariant,
     DebugInvariant, MdInvariant, PTL DEF Spec

\* For every program in which no multiply or divide directly follows a late
\* write of one of its operands, every memory, every size of the predictors
\* and every pattern of interrupts, halts, steps, resumes and register
\* accesses that is orderly, the pipeline implements the sequential machine:
\* forwarding, two-beat accesses, prediction, flushes, traps and debug never
\* show in the registers, memory, CSRs or the order of instructions.
THEOREM CoreImplementsIsa ==
  ASSUME NoMdBehindLateWrite
  PROVE  Spec /\ []Orderly => ImplementsIsa
<1>1. Init => Machine!Init
  BY RefineInit
<1>2. RInv /\ Orderly /\ [Next]_vars => [Machine!Next]_(Machine!vars)
  BY RefineStep, RefineStutter
<1>3. Spec /\ []Orderly => []RInv
  <2>1. Orderly => HaltsBetween
    BY DEF Orderly
  <2> QED
    BY <2>1, WInvariant, ZeroRegInvariant, FromProgramInv, CorePredictedIsControl,
       ChainInvariant, DebugInvariant, MdInvariant, MdRightInvariant, NoMdBehindLateWrite,
       PTL DEF RInv
<1> QED
  BY <1>1, <1>2, <1>3, PTL DEF Spec, ImplementsIsa, Machine!Spec


----------------------------------------------------------------------------
(* A core without a debugger.                                              *)

\* No debugger is attached (the FPGA top ties haltreq low).
NoDebugger == \A p \in Inputs : ~p.haltreq

\* No interrupt can meet a FENCE.I: there is none in the programs, or the
\* interrupt line is not connected.
NoFenceiInterrupt == NoFencei \/ (\A p \in Inputs : ~p.irq)

\* Then the core never leaves normal execution.
Quiet == ~dbg.mode /\ ~dbg.halt_req /\ ~dbg.step_active /\ ~dbg.ebreakm

\* A clock edge keeps Quiet.
LEMMA QuietStep ==
  ASSUME NoDebugger, TypeOK, Quiet, Next
  PROVE  Quiet'
<1>1. ~in.haltreq
  BY DEF NoDebugger, TypeOK
<1>2. ~dbg_resume_now /\ ~dbg_do /\ ~ebreak_to_debug /\ ~step_halt_now
  BY DEF Quiet, dbg_resume_now, dbg_do, ebreak_to_debug, step_halt_now
<1>3. DebugEdge
  BY DEF Next
<1> QED
  BY <1>1, <1>2, <1>3 DEF DebugEdge, Quiet

\* Without a debugger the core is never halted, halting or stepping.
LEMMA AloneIsQuiet ==
  ASSUME NoDebugger
  PROVE  Spec => []Quiet
<1>1. Init => Quiet
  BY DEF Init, Quiet
<1>2. TypeOK /\ Quiet /\ [Next]_vars => Quiet'
  <2>1. Quiet /\ UNCHANGED vars => Quiet'
    BY DEF Quiet, vars
  <2> QED
    BY <2>1, QuietStep, NoDebugger
<1> QED
  BY <1>1, <1>2, CoreTypeOK, PTL DEF Spec

\* Then no request meets an instruction in X.
LEMMA AloneHaltsBetween ==
  ASSUME NoDebugger, TypeOK, Quiet
  PROVE  HaltsBetween /\ StepAlone /\ OneCommand
<1>1. ~in.haltreq
  BY DEF NoDebugger, TypeOK
<1> QED
  BY <1>1 DEF HaltsBetween, StepAlone, OneCommand, Quiet, step_halt_now, dbg_resume_now

\* Without a debugger no instruction is lost in X, nor the multiplier's result.
THEOREM CoreAloneKeepsInstructions ==
  ASSUME NoDebugger
  PROVE  Spec => FrozenStays /\ []MdInStep
<1>1. TypeOK /\ Quiet => HaltsBetween
  BY AloneHaltsBetween, NoDebugger
<1> QED
  BY <1>1, AloneIsQuiet, NoDebugger, CoreTypeOK, CoreFrozenStays, CoreMdInStep, PTL

\* Without a debugger the core executes every program as the sequential
\* machine does, but for the two hazards that the other assumptions exclude.
THEOREM CoreAloneImplementsIsa ==
  ASSUME NoDebugger, NoFenceiInterrupt, NoMdBehindLateWrite
  PROVE  Spec => ImplementsIsa
<1>1. ASSUME TypeOK, Quiet, FromProgram PROVE Orderly
  <2>1. FenceiAlone
    <3> SUFFICES ASSUME take_irq PROVE i.op # "fencei"
      BY DEF FenceiAlone
    <3>1. fx.valid /\ in.irq
      BY DEF take_irq, irq_req
    <3>2. in \in Inputs /\ prog \in Programs /\ fx.pc \in Word /\ i = prog[fx.pc]
      BY <1>1, <3>1, FxFields DEF TypeOK, FromProgram, i
    <3> QED
      BY <3>1, <3>2, NoFenceiInterrupt DEF NoFenceiInterrupt, NoFencei
  <2> QED
    BY <1>1, <2>1, AloneHaltsBetween, NoDebugger DEF Orderly
<1>2. Spec => []Orderly
  BY <1>1, AloneIsQuiet, NoDebugger, CoreTypeOK, FromProgramInv, PTL
<1> QED
  BY <1>2, CoreImplementsIsa, NoMdBehindLateWrite, PTL
=============================================================================
