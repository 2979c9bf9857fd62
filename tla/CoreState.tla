----------------------------- MODULE CoreState -----------------------------
(***************************************************************************)
(* core_state.c.  The input is a function from 0 .. blksize - 1 to bytes.  *)
(* Loops over the input apply one step 2^n times: a finished step is the   *)
(* identity.                                                               *)
(***************************************************************************)
EXTENDS CoreUtil

Comma == 44
IsDigit(c) == c \in 48 .. 57

Class(c) ==
    CASE IsDigit(c)    -> "digit"
      [] c \in {43, 45}  -> "sign"
      [] c = 46          -> "dot"
      [] c \in {69, 101} -> "exp"
      [] OTHER           -> "other"

\* The classes that keep the machine off CORE_INVALID, and where they lead.
Moves == [START      |-> [digit |-> "INT", sign |-> "S1", dot |-> "FLOAT"],
          S1         |-> [digit |-> "INT", dot |-> "FLOAT"],
          INT        |-> [digit |-> "INT", dot |-> "FLOAT"],
          FLOAT      |-> [digit |-> "FLOAT", exp |-> "S2"],
          S2         |-> [sign |-> "EXPONENT"],
          EXPONENT   |-> [digit |-> "SCIENTIFIC"],
          SCIENTIFIC |-> [digit |-> "SCIENTIFIC"]]

States == <<"START", "INVALID", "S1", "S2", "INT", "FLOAT", "EXPONENT", "SCIENTIFIC">>
NoCounts == [START |-> 0, INVALID |-> 0, S1 |-> 0, S2 |-> 0, INT |-> 0, FLOAT |-> 0,
             EXPONENT |-> 0, SCIENTIFIC |-> 0]

Move(state, c) == IF Class(c) \in DOMAIN Moves[state] THEN Moves[state][Class(c)] ELSE "INVALID"

\* What a move adds to its state's counter and to that of CORE_INVALID.
Left(from, to) == IF from = "START" \/ (from # "SCIENTIFIC" /\ to # from) THEN 1 ELSE 0
Spoilt(from, to) == IF from \in {"START", "SCIENTIFIC"} /\ to = "INVALID" THEN 1 ELSE 0

\* The end of the token at p, the state it ends in and the counters after it.
RECURSIVE core_state_transition(_, _, _, _)
core_state_transition(mem, p, state, track) ==
    IF mem[p] = 0 \/ state = "INVALID" THEN [p |-> p, state |-> state, track |-> track]
    ELSE IF mem[p] = Comma THEN [p |-> p + 1, state |-> state, track |-> track]
    ELSE LET to == Move(state, mem[p])
         IN core_state_transition(mem, p + 1, to,
                [track EXCEPT ![state] = @ + Left(state, to), !.INVALID = @ + Spoilt(state, to)])

\* A scan is a record of the position and of the two arrays of counters.
ScanToken(mem, sc) ==
    IF mem[sc.p] = 0 THEN sc
    ELSE LET t == core_state_transition(mem, sc.p, "START", sc.track)
         IN [p |-> t.p, track |-> t.track, final |-> [sc.final EXCEPT ![t.state] = @ + 1]]
RECURSIVE Scan(_, _, _)
Scan(mem, sc, n) ==
    LET half == Scan(mem, sc, n - 1)
    IN IF n = 0 THEN ScanToken(mem, sc) ELSE IF half = sc THEN sc ELSE Scan(mem, half, n - 1)

Corrupt(mem, seed, step) ==
    Table([i \in DOMAIN mem |->
              IF i % step = 0 /\ mem[i] # Comma THEN mem[i] ^^ (seed % 256) ELSE mem[i]])

RECURSIVE CountsCrc(_, _, _)     \* of the counters of the first n states
CountsCrc(sc, n, crc) ==
    IF n = 0 THEN crc
    ELSE crcu32(sc.track[States[n]], crcu32(sc.final[States[n]], CountsCrc(sc, n - 1, crc)))

ScanRounds == 11                 \* 2^11 tokens: more than the largest block has bytes
core_bench_state(mem, seed1, seed2, step, crc) ==
    LET bad    == Corrupt(mem, seed1, step)
        first  == Scan(mem, [p |-> 0, final |-> NoCounts, track |-> NoCounts], ScanRounds)
        second == Scan(bad, [first EXCEPT !.p = 0], ScanRounds)
    IN [mem |-> Corrupt(bad, seed2, step), crc |-> CountsCrc(second, 8, crc)]

-----------------------------------------------------------------------------
\* The patterns, in ASCII.
intpat   == << <<53,48,49,50>>, <<49,50,51,52>>, <<45,56,55,52>>, <<43,49,50,50>> >>
floatpat == << <<51,53,46,53,52,52,48,48>>, <<46,49,50,51,52,53,48,48>>,
               <<45,49,49,48,46,55,48,48>>, <<43,48,46,54,52,52,48,48>> >>
scipat   == << <<53,46,53,48,48,101,43,51>>, <<45,46,49,50,51,101,45,50>>,
               <<45,56,55,101,43,56,51,50>>, <<43,48,46,54,101,45,49,50>> >>
errpat   == << <<84,48,46,51,101,45,49,70>>, <<45,84,46,84,43,43,84,113>>,
               <<49,84,51,46,52,101,52,122>>, <<51,52,46,48,101,45,84,94>> >>
Pattern(seed) ==
    LET kind == seed % 8
        row  == ((seed \div 8) % 4) + 1
    IN CASE kind \in 0 .. 2 -> intpat[row]
         [] kind \in 3 .. 4 -> floatpat[row]
         [] kind \in 5 .. 6 -> scipat[row]
         [] kind = 7        -> errpat[row]

Full(size, st) == Len(st.text) + Len(st.buf) + 1 >= size - 1

\* Copy the pattern chosen last, if it fits with its comma, and choose the next.
CopyPattern(size, st) ==
    IF Full(size, st) THEN st
    ELSE [text |-> st.text \o st.buf \o (IF st.buf = <<>> THEN <<>> ELSE <<Comma>>),
          seed |-> U16(st.seed + 1), buf |-> Pattern(U16(st.seed + 1))]
RECURSIVE Fill(_, _, _)
Fill(size, st, n) ==
    LET half == Fill(size, st, n - 1)
    IN IF n = 0 THEN CopyPattern(size, st) ELSE IF half = st THEN st ELSE Fill(size, half, n - 1)

core_init_state(size, seed) ==
    LET text == Fill(size, [text |-> <<>>, seed |-> U16(seed), buf |-> <<>>], 9).text
    IN [i \in 0 .. size - 1 |-> IF i < Len(text) THEN text[i + 1] ELSE 0]

\* A scan ends inside the block whichever single byte of it is corrupted.
Terminated(mem, size) == mem[size - 1] = 0 /\ mem[size - 2] = 0
\* What makes the second corruption undo the first: no byte becomes a comma.
Undoable(mem, seed) == \A i \in DOMAIN mem : mem[i] # Comma => mem[i] ^^ (seed % 256) # Comma
=============================================================================
