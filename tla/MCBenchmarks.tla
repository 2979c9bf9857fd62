---------------------------- MODULE MCBenchmarks ----------------------------
(***************************************************************************)
(* The programs the repository runs on the core, one image at a time:      *)
(* CoreMark, Dhrystone, or a call of the C library the images link.        *)
(***************************************************************************)
EXTENDS CoreMark

CONSTANTS RunCounts, Elapsed, MemSize

VARIABLES image, stage, g, runs, index, score, first, mem, old, call, at, ret

DhryVars == <<stage, g, runs, index, score, first>>
LibcVars == <<mem, old, call, at, ret>>

D == INSTANCE Dhrystone WITH CLK_FREQ_HZ <- TicksPerSec
L == INSTANCE Libc WITH Size <- MemSize, Bytes <- {0, 1, 2}

\* The seeds the port can be built with, those one seed stands for, and small
\* blocks with other seeds.
Build(s1, s2, s3, n, total) == [seeds |-> <<s1, s2, s3>>, iterations |-> n, total |-> total]
MCBuilds == {Build(0, 0, 102, 1, 2000), Build(13333, 13333, 102, 1, 2000), Build(8, 8, 8, 1, 1200),
             Build(1, 0, 0, 2, 2000), Build(0, 0, 0, 1, 1200), Build(6, 6, 7, 2, 600), Build(11, 11, 5, 2, 360)}

\* What the variables of an image that does not run hold.
Idle == <<>>
CoreMarkIdle == build = Idle /\ pc = Idle /\ res = Idle /\ run = Idle /\ initial = Idle /\ clock = Idle /\ report = Idle
DhryIdle == stage = Idle /\ g = Idle /\ runs = Idle /\ index = Idle /\ score = Idle /\ first = Idle
LibcIdle == mem = Idle /\ old = Idle /\ call = Idle /\ at = Idle /\ ret = Idle

MCInit ==
    \/ image = "coremark"  /\ Init   /\ DhryIdle /\ LibcIdle
    \/ image = "dhrystone" /\ D!Init /\ CoreMarkIdle /\ LibcIdle
    \/ image = "libc"      /\ L!Init /\ CoreMarkIdle /\ DhryIdle
MCNext ==
    /\ \/ image = "coremark"  /\ Next   /\ UNCHANGED <<DhryVars, LibcVars>>
       \/ image = "dhrystone" /\ D!Next /\ UNCHANGED <<vars, LibcVars>>
       \/ image = "libc"      /\ L!Next /\ UNCHANGED <<vars, DhryVars>>
    /\ UNCHANGED image
MCSpec == MCInit /\ [][MCNext]_<<image, vars, DhryVars, LibcVars>>

-----------------------------------------------------------------------------
(***************************************************************************)
(* The properties of the modules, each of its own image.                   *)
(***************************************************************************)
OnCoreMark == image = "coremark"
\* CoreMark's one block of memory stays sound while it is rearranged in place: no
\* list operation of core_list_join.c loses or repeats an item, calc_func's cache
\* never overwrites the byte cmp_idx restores from, and core_init_matrix's matrices
\* end before the text of core_init_state, whose two NULs stop every scan of
\* core_bench_state.
CoreMarkDataWhole == OnCoreMark => ListWhole /\ BackupKept /\ BlocksApart
\* core_bench_list gives back the list, the matrices and the text it found.
CoreMarkRestored == OnCoreMark => Restored
\* main's own verdict and time: the crcs of the standard seeds are the
\* published ones, get_time is right across a wrap of mtime.
CoreMarkValidated == OnCoreMark => Validated
\* CoreMark's main prints its score in thousandths of a CoreMark/MHz.
CoreMarkScoreInThousandths == OnCoreMark => ScoreInThousandths
\* Every run of Dhrystone ends and leaves what the first one left, so that the
\* rate that main divides by 1757 is one of equal runs; its digits say the quotient.
DhrystoneRunsAlike == image = "dhrystone" => D!RunsAlike /\ D!ScoreReads
\* Each C library function does what C says of it.
LibcExact == image = "libc" => L!Exact
=============================================================================
