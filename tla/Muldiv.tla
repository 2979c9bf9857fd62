------------------------------- MODULE Muldiv -------------------------------
(***************************************************************************)
(* rtl/common/three_sipp_es_muldiv.sv: the RV32M unit, at any width.  A    *)
(* multiplication is one latched product; a division shifts and subtracts  *)
(* magnitudes, one quotient bit per cycle, and fixes the sign at the end.  *)
(* Vectors are natural numbers taken modulo a power of two where the       *)
(* hardware drops bits.  The powers are a table, so that what is proved    *)
(* about the loop needs no recursion.                                      *)
(***************************************************************************)
EXTENDS Integers

CONSTANTS
    W,          \* XLEN
    Pow2        \* the powers of two up to 2^W

ASSUME MuldivAssumption ==
    /\ W \in Nat /\ W >= 2
    /\ Pow2 \in [0 .. W -> Nat \ {0}]
    /\ Pow2[0] = 1 /\ \A n \in 0 .. W - 1 : Pow2[n + 1] = 2 * Pow2[n]

Full == Pow2[W]
Half == Pow2[W - 1]
Vals == 0 .. Full - 1
MulOps == {"mul", "mulh", "mulhsu", "mulhu"}
DivOps == {"div", "divu", "rem", "remu"}
Ops == MulOps \cup DivOps
Request == [op : Ops, a : Vals, b : Vals]

VARIABLES
    state,              \* S_IDLE, S_MUL, S_DIV, S_FIN
    req,                \* req: the operation, latched
    done, result,
    div                 \* working state of a division

vars == <<state, req, done, result, div>>

busy == state # "S_IDLE"

Init ==
    /\ state = "S_IDLE" /\ done = FALSE /\ result = 0
    /\ req = [op |-> "mul", a |-> 0, b |-> 0]      \* not reset; read only after a start
    /\ div = [by_zero |-> FALSE, overflow |-> FALSE, dividend |-> 0, divisor |-> 0,
              quotient |-> 0, rem |-> 0, neg_quot |-> FALSE, neg_rem |-> FALSE, bit |-> 0]

\* Fault: the carry out of the negation is kept.
Neg_Fault(x) == Full - x
Neg(x) == (Full - x) % Full                     \* ~x + 1
IsNeg(x) == x >= Half                           \* x[31]
Signed(o) == o \in {"div", "rem"}
Mag(o, x) == IF Signed(o) /\ IsNeg(x) THEN Neg(x) ELSE x
Overflows(r) == Signed(r.op) /\ r.a = Half /\ r.b = Full - 1

Start(r) ==
    /\ state = "S_IDLE"
    /\ req' = r
    /\ IF r.op \in MulOps
       THEN state' = "S_MUL" /\ UNCHANGED div
       ELSE /\ state' = "S_DIV"
            /\ div' = [by_zero |-> r.b = 0, overflow |-> Overflows(r),
                       dividend |-> Mag(r.op, r.a), divisor |-> Mag(r.op, r.b),
                       quotient |-> 0, rem |-> 0,
                       neg_quot |-> r.op = "div" /\ IsNeg(r.a) # IsNeg(r.b),
                       neg_rem |-> r.op = "rem" /\ IsNeg(r.a), bit |-> W - 1]
    /\ done' = FALSE /\ UNCHANGED result

Idle == state = "S_IDLE" /\ done' = FALSE /\ UNCHANGED <<state, req, result, div>>

Finish(v) ==
    /\ result' = v /\ done' = TRUE /\ state' = "S_IDLE"
    /\ UNCHANGED <<req, div>>

\* Sign or zero extension to twice the width, the product at that width.
SignExt(x) == IF IsNeg(x) THEN x + Full * (Full - 1) ELSE x
prod == ((IF req.op = "mulhu" THEN req.a ELSE SignExt(req.a)) *
         (IF req.op \in {"mul", "mulh"} THEN SignExt(req.b) ELSE req.b)) % (Full * Full)

Mul == state = "S_MUL" /\ Finish(IF req.op = "mul" THEN prod % Full ELSE prod \div Full)

DivByZero ==
    /\ state = "S_DIV" /\ div.by_zero
    /\ Finish(IF req.op \in {"div", "divu"} THEN Full - 1 ELSE req.a)
DivOverflow ==
    /\ state = "S_DIV" /\ ~div.by_zero /\ div.overflow
    /\ Finish(IF req.op = "div" THEN Half ELSE 0)

\* One quotient bit.  Faults: "greater" for "greater or equal"; the index does
\* not move.
rem_shifted == 2 * (div.rem % Full) + ((div.dividend \div Pow2[div.bit]) % 2)
Subtract_Fault == rem_shifted > div.divisor
Subtract == rem_shifted >= div.divisor
LastBit == div.bit = 0
NextBit_Fault == div.bit
NextBit == IF LastBit THEN div.bit ELSE div.bit - 1
DivStep ==
    /\ state = "S_DIV" /\ ~div.by_zero /\ ~div.overflow
    /\ div' = [div EXCEPT
                 !.rem = IF Subtract THEN rem_shifted - div.divisor ELSE rem_shifted,
                 !.quotient = (2 * div.quotient + (IF Subtract THEN 1 ELSE 0)) % Full,
                 !.bit = NextBit]
    /\ state' = IF LastBit THEN "S_FIN" ELSE state
    /\ done' = FALSE /\ UNCHANGED <<req, result>>

rem_lo == div.rem % Full
\* Fault: the remainder keeps the sign of its magnitude.
final_Fault == CASE req.op = "div"  -> IF div.neg_quot THEN Neg(div.quotient) ELSE div.quotient
                 [] req.op = "divu" -> div.quotient
                 [] OTHER         -> rem_lo
final == CASE req.op = "div"  -> IF div.neg_quot THEN Neg(div.quotient) ELSE div.quotient
           [] req.op = "divu" -> div.quotient
           [] req.op = "rem"  -> IF div.neg_rem THEN Neg(rem_lo) ELSE rem_lo
           [] OTHER         -> rem_lo
Fin == state = "S_FIN" /\ Finish(final)

Reset ==
    /\ state' = "S_IDLE" /\ done' = FALSE /\ result' = 0
    /\ UNCHANGED <<req, div>>

\* A clock edge while X may ask for an operation in R.
Clock(R) == (\E r \in R : Start(r)) \/ Idle \/ Mul \/ DivByZero \/ DivOverflow \/ DivStep \/ Fin
Next(R) == Clock(R) \/ Reset

\* The clock never stops; nothing forces a reset.
Spec == Init /\ [][Next(Request)]_vars /\ WF_vars(Clock(Request))

----------------------------------------------------------------------------
(* The M extension's definition of the operations, on integers.            *)
Int2(x) == IF IsNeg(x) THEN x - Full ELSE x     \* two's complement
Abs(n) == IF n < 0 THEN 0 - n ELSE n
Value(r) ==
    LET sx == Int2(r.a)
        sy == Int2(r.b)
        quot == Abs(sx) \div Abs(sy)
        mod == Abs(sx) % Abs(sy)
    IN CASE r.op = "mul"    -> (r.a * r.b) % Full
         [] r.op = "mulh"   -> ((sx * sy) \div Full) % Full
         [] r.op = "mulhsu" -> ((sx * r.b) \div Full) % Full
         [] r.op = "mulhu"  -> (r.a * r.b) \div Full
         [] r.op = "div"    -> IF r.b = 0 THEN Full - 1
                               ELSE (IF (sx < 0) # (sy < 0) THEN 0 - quot ELSE quot) % Full
         [] r.op = "divu"   -> IF r.b = 0 THEN Full - 1 ELSE r.a \div r.b
         [] r.op = "rem"    -> IF r.b = 0 THEN r.a ELSE (IF sx < 0 THEN 0 - mod ELSE mod) % Full
         [] r.op = "remu"   -> IF r.b = 0 THEN r.a ELSE r.a % r.b

Latency(r) == IF r.op \in MulOps \/ r.b = 0 \/ Overflows(r) THEN 1 ELSE W + 1

----------------------------------------------------------------------------
\* Every register keeps a value of its width; the remainder's extra bit is
\* never left set from one step to the next.
TypeOK ==
    /\ state \in {"S_IDLE", "S_MUL", "S_DIV", "S_FIN"}
    /\ req \in Request /\ done \in BOOLEAN /\ result \in Vals
    /\ div \in [by_zero : BOOLEAN, overflow : BOOLEAN, dividend : Vals, divisor : Vals,
                quotient : Vals, rem : Vals, neg_quot : BOOLEAN, neg_rem : BOOLEAN,
                bit : 0 .. W - 1]

\* The loop invariant of the divider: quotient and remainder are those of the
\* dividend bits consumed so far, at every step and also after the last.
DivLoop ==
    LET consumed == IF state = "S_FIN" THEN div.dividend
                    ELSE div.dividend \div Pow2[div.bit + 1]
    IN  state \in {"S_DIV", "S_FIN"} /\ ~div.by_zero =>
            /\ div.quotient * div.divisor + div.rem = consumed
            /\ div.rem < div.divisor

\* The unit is the one the pipeline relies on: every operation that is started
\* and not reset is answered once, after its latency, with its value.
Unit == INSTANCE MdUnit WITH
    cnt <- CASE state = "S_IDLE" -> 0
             [] state = "S_DIV" -> IF div.by_zero \/ div.overflow THEN 1 ELSE div.bit + 2
             [] OTHER -> 1,
    result <- IF done THEN result ELSE Value(req)
ImplementsUnit == Unit!Spec

\* The unit never stays busy.
Answered == busy ~> ~busy
=============================================================================
