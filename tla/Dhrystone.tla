----------------------------- MODULE Dhrystone -----------------------------
(***************************************************************************)
(* Dhrystone as dhrystone/src builds it.  The procedures are operators on  *)
(* a record g of the globals and of main's locals; main's loop body is cut *)
(* in four actions.  A C string is a name: the procedures only look at the *)
(* letters common to all of them and at their order.                       *)
(***************************************************************************)
EXTENDS Integers, SequencesExt

CONSTANTS RunCounts,     \* NUMBER_OF_RUNS of the builds
          Elapsed,       \* ticks the timed part may take
          CLK_FREQ_HZ

VARIABLES stage,    \* where main is
          g,        \* the globals and main's locals
          runs,     \* Number_Of_Runs
          index,    \* Run_Index
          score,    \* what main prints after the loop
          first     \* g after the first run, for the properties

vars == <<stage, g, runs, index, score, first>>

A == 65
B == 66
C == 67
\* "DHRYSTONE PROGRAM, ...": the letters at 2 and 3, and the order of the two.
Letter == [k \in 2 .. 3 |-> IF k = 2 THEN 82 ELSE 89]
strcmp(s1, s2) == LET rank == [first |-> 1, second |-> 2] IN rank[s1] - rank[s2]

Zero == [Ptr_Comp |-> "none", Discr |-> "Ident_1", Enum_Comp |-> "Ident_1", Int_Comp |-> 0, Str_Comp |-> "empty"]
Next_Ptr_Glob == "Rec_glob_2"
Ptr_glob == "Rec_glob_1"

Globals ==
    [rec |-> [Rec_glob_1 |-> [Ptr_Comp |-> Next_Ptr_Glob, Discr |-> "Ident_1", Enum_Comp |-> "Ident_3",
                              Int_Comp |-> 40, Str_Comp |-> "some"],
              Rec_glob_2 |-> Zero],
     Bool_glob |-> 0, Ch_1_glob |-> 0, Ch_2_glob |-> 0, Int_glob |-> 0,
     Arr_1 |-> [k \in 0 .. 49 |-> 0],
     Arr_2 |-> [k \in {7, 8, 9, 28} |-> [j \in 7 .. 9 |-> IF k = 8 /\ j = 7 THEN 10 ELSE 0]],
     Int_1 |-> 0, Int_2 |-> 0, Int_3 |-> 0, Enum_Loc |-> "Ident_1", Str_1 |-> "first", Str_2 |-> "second"]

Init ==
    /\ stage = "letters" /\ g = Globals /\ first = Globals
    /\ runs \in RunCounts /\ index = 1
    /\ score = [elapsed |-> 0, dps |-> 0, dmips |-> <<>>, frac |-> <<>>]

-----------------------------------------------------------------------------
Func_3(e) == e = "Ident_3"
Proc_6(e, int) ==
    CASE e = "Ident_1" -> "Ident_1"
      [] e = "Ident_2" -> IF int > 100 THEN "Ident_1" ELSE "Ident_4"
      [] e = "Ident_3" -> "Ident_2"
      [] e = "Ident_4" -> IF Func_3(e) THEN e ELSE "Ident_4"
      [] e = "Ident_5" -> "Ident_3"
Proc_7(i1, i2) == i2 + (i1 + 2)

Proc_5(s) == [s EXCEPT !.Ch_1_glob = A, !.Bool_glob = 0]
Proc_4(s) == [s EXCEPT !.Bool_glob = IF s.Ch_1_glob = A THEN 1 ELSE @, !.Ch_2_glob = B]

\* The letter is kept only when the two agree.
Func_1(s, c1, c2) ==
    IF c1 # c2 THEN [g |-> s, val |-> "Ident_1"]
    ELSE [g |-> [s EXCEPT !.Ch_1_glob = c1], val |-> "Ident_2"]

\* Its loop ends only if the letters differ.
Func_2(s) ==
    LET f == Func_1(s, Letter[2], Letter[3])
    IN IF f.val # "Ident_1" THEN [g |-> f.g, val |-> 0, spins |-> TRUE]
       ELSE IF strcmp(s.Str_1, s.Str_2) > 0 THEN [g |-> [f.g EXCEPT !.Int_glob = 10], val |-> 1, spins |-> FALSE]
       ELSE [g |-> f.g, val |-> 0, spins |-> FALSE]

Proc_8_Fault(s, i1, i2) ==
    LET loc == i1 + 5
    IN [s EXCEPT !.Arr_1 = [@ EXCEPT ![loc] = i2, ![loc + 1] = i2, ![loc + 30] = loc],
                 !.Arr_2[loc] = [@ EXCEPT ![loc] = loc, ![loc + 1] = loc, ![loc - 1] = @ + 1],
                 !.Arr_2[loc + 20] = [@ EXCEPT ![loc] = i2],
                 !.Int_glob = @ + 5]
Proc_8(s, i1, i2) ==
    LET loc == i1 + 5
    IN [s EXCEPT !.Arr_1 = [@ EXCEPT ![loc] = i2, ![loc + 1] = i2, ![loc + 30] = loc],
                 !.Arr_2[loc] = [@ EXCEPT ![loc] = loc, ![loc + 1] = loc, ![loc - 1] = @ + 1],
                 !.Arr_2[loc + 20] = [@ EXCEPT ![loc] = i2],
                 !.Int_glob = 5]

\* The pointer component of record r, and Ptr_glob's number.
Proc_3(s, r) ==
    LET s1 == [s EXCEPT !.rec[r].Ptr_Comp = s.rec[Ptr_glob].Ptr_Comp]
    IN [s1 EXCEPT !.rec[Ptr_glob].Int_Comp = Proc_7(10, s.Int_glob)]

Proc_1(s, p) ==
    LET n  == s.rec[p].Ptr_Comp
        s1 == [s EXCEPT !.rec[n] = s.rec[Ptr_glob]]
        s2 == [s1 EXCEPT !.rec[p].Int_Comp = 5]
        s3 == [s2 EXCEPT !.rec[n].Int_Comp = 5, !.rec[n].Ptr_Comp = s2.rec[p].Ptr_Comp]
        s4 == Proc_3(s3, n)
    IN IF s4.rec[n].Discr = "Ident_1"
       THEN [s4 EXCEPT !.rec[n].Int_Comp = Proc_7(6, 10),
                       !.rec[n].Enum_Comp = Proc_6(s4.rec[p].Enum_Comp, s4.Int_glob),
                       !.rec[n].Ptr_Comp = s4.rec[Ptr_glob].Ptr_Comp]
       ELSE [s4 EXCEPT !.rec[p] = s4.rec[s4.rec[p].Ptr_Comp]]

RECURSIVE Letters(_, _)             \* main's loop over the letters up to Ch_2_glob
Letters(s, ch) ==
    IF ch > s.Ch_2_glob THEN s
    ELSE LET f == Func_1(s, ch, C)
         IN Letters(IF f.g.Enum_Loc = f.val THEN [f.g EXCEPT !.Enum_Loc = Proc_6("Ident_1", f.g.Int_glob)] ELSE f.g,
                    ch + 1)
RECURSIVE Count(_)                  \* main's while loop
Count(s) ==
    IF s.Int_1 >= s.Int_2 THEN s
    ELSE Count([s EXCEPT !.Int_3 = Proc_7(s.Int_1, s.Int_2), !.Int_1 = @ + 1])

-----------------------------------------------------------------------------
\* The four parts of a run.
LettersPart ==
    /\ stage = "letters"
    /\ LET s == [Proc_4(Proc_5(g)) EXCEPT !.Int_1 = 2, !.Int_2 = 3, !.Str_2 = "second", !.Enum_Loc = "Ident_2"]
           f == Func_2(s)
       IN g' = [f.g EXCEPT !.Bool_glob = 1 - f.val] /\ stage' = IF f.spins THEN "spin" ELSE "count"
    /\ UNCHANGED <<runs, index, score, first>>
CountPart ==
    /\ stage = "count"
    /\ LET s == Count(g) IN g' = Proc_8(s, s.Int_1, s.Int_3)
    /\ stage' = "records"
    /\ UNCHANGED <<runs, index, score, first>>
RecordsPart ==
    /\ stage = "records"
    /\ g' = Letters(Proc_1(g, Ptr_glob), A)
    /\ stage' = "sums"
    /\ UNCHANGED <<runs, index, score, first>>
\* Proc_2 leaves its loop only when Ch_1_glob is 'A'; otherwise it tests an
\* Enum_Loc nobody has set.
SumsPart ==
    /\ stage = "sums"
    /\ LET i3 == g.Int_2 * g.Int_1
           i2 == 7 * (i3 - i3 \div g.Int_1) - g.Int_1
           i1 == IF g.Ch_1_glob = A THEN g.Int_1 + 10 - 1 - g.Int_glob ELSE g.Int_1
       IN g' = [g EXCEPT !.Int_1 = i1, !.Int_2 = i2, !.Int_3 = i3]
    /\ \/ stage' = IF index = runs THEN "score" ELSE "letters"
       \/ g.Ch_1_glob # A /\ stage' = "spin"
    /\ index' = index + 1
    /\ first' = IF index = 1 THEN g' ELSE first
    /\ UNCHANGED <<runs, score>>

\* The digits dhr_printf emits for %d, padded with zeros to the width.
RECURSIVE Digits(_)
Digits(v) == IF v < 10 THEN <<v>> ELSE Append(Digits(v \div 10), v % 10)
Decimal(v, width) ==
    LET d == Digits(v) IN [k \in 1 .. IF Len(d) < width THEN width - Len(d) ELSE 0 |-> 0] \o d

Score ==
    /\ stage = "score"
    /\ \E e \in Elapsed :
         LET dps == (runs * CLK_FREQ_HZ) \div e
         IN score' = [elapsed |-> e, dps |-> dps, dmips |-> Decimal(dps \div 1757, 0),
                      frac |-> Decimal(((dps % 1757) * 1000) \div 1757, 3)]
    /\ stage' = "halt"
    /\ UNCHANGED <<g, runs, index, first>>

Halt == stage \in {"halt", "spin"} /\ UNCHANGED vars

Next == LettersPart \/ CountPart \/ RecordsPart \/ SumsPart \/ Score \/ Halt
Spec == Init /\ [][Next]_vars

-----------------------------------------------------------------------------
\* Every run does the same work: it leaves what the first run left (main's
\* "final values"), but for Arr_2_glob[8][7], which counts the runs. And it
\* ends: the loops of Func_2 and Proc_2 that wait for a letter always leave.
RunsAlike ==
    /\ stage # "spin"
    /\ index > 1 /\ stage \in {"letters", "score", "halt"} =>
          /\ [g EXCEPT !.Arr_2[8][7] = 0] = [first EXCEPT !.Arr_2[8][7] = 0]
          /\ g.Arr_2[8][7] = 10 + (index - 1)

\* The DMIPS line reads as the rate over 1757, in thousandths: the digits of
\* the fraction go on where those of the whole number end.
ScoreReads ==
    stage = "halt" =>
        /\ Len(score.frac) = 3
        /\ FoldLeft(LAMBDA v, digit : 10 * v + digit, 0, score.dmips \o score.frac)
             = (score.dps * 1000) \div 1757
=============================================================================
