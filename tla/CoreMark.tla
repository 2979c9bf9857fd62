------------------------------ MODULE CoreMark ------------------------------
(***************************************************************************)
(* CoreMark as src/coremark/src builds it: main of core_main.c with the    *)
(* port of core_portme.c, one context, static memory and volatile seeds.   *)
(* core_bench_list is one action per value it looks for and one for each   *)
(* of its later phases; the three algorithms are the operators of          *)
(* CoreList, CoreMatrix and CoreState.                                     *)
(***************************************************************************)
EXTENDS CoreList

CONSTANTS
    Builds,        \* the builds: a set of [seeds, iterations, total]
    TimeMod,       \* mtime's low word counts modulo TimeMod
    Starts,        \* its values when main starts
    Durations,     \* how long the timed part may take
    TicksPerSec    \* EE_TICKS_PER_SEC

ASSUME BuildsAssumption ==
    \A b \in Builds : /\ b.iterations \in Nat \ {0}
                      /\ b.total >= 360             \* three list_heads: remove takes the third
                      /\ \/ b.seeds[1] = b.seeds[2]
                         \/ b.seeds = <<1, 0, 0>>   \* replaced by equal seeds
ASSUME TimeAssumption == Starts \subseteq 0 .. TimeMod - 1 /\ Durations \subseteq 1 .. TimeMod - 1

VARIABLES
    build,    \* what the image was built with
    pc,       \* where main is
    res,      \* results[0] and the memory it points to
    run,      \* the locals of core_bench_list and iterate
    initial,  \* the memory main prepared, for the properties
    clock,    \* mtime, _start_tick and _stop_tick
    report    \* what main makes of the results

vars == <<build, pc, res, run, initial, clock, report>>

NoReport == [known_id |-> -1, total_errors |-> 0, total_time |-> 0, elapsed |-> 0, whole |-> <<>>, frac |-> <<>>]

Init ==
    /\ build \in Builds
    /\ pc = "boot"
    /\ res = <<>> /\ run = <<>> /\ initial = <<>>
    /\ clock \in [now : Starts, start : {0}, stop : {0}]
    /\ report = NoReport

-----------------------------------------------------------------------------
\* The seeds main works with: one seed selects a standard run.
Seeds(s) == CASE s = <<0, 0, 0>> -> <<0, 0, 102>>
              [] s = <<1, 0, 0>> -> <<13333, 13333, 102>>
              [] OTHER           -> s
MatrixSeed(s1, s2) == IF Signed(s1) < 0 THEN Signed(s1) ELSE Signed(s2) * 65536 + s1

\* The locals of core_bench_list when it is called in iteration n.
Call(r, finder_idx, n) ==
    [finder_idx |-> finder_idx, iter |-> n, i |-> 0, list |-> r.list, retval |-> 0,
     info |-> [idx |-> finder_idx, data16 |-> 0], found |-> 0, missed |-> 0, remover |-> NULL]

\* main up to the first call of core_bench_list.
Setup ==
    /\ pc = "boot"
    /\ LET s    == Seeds(<<get_seed_32(build.seeds, 1), get_seed_32(build.seeds, 2), get_seed_32(build.seeds, 3)>>)
           size == build.total \div 3
           r    == [heap |-> <<>>, list |-> NULL, size |-> size, seed1 |-> s[1], seed2 |-> s[2], seed3 |-> s[3],
                    mat |-> core_init_matrix(size, MatrixSeed(s[1], s[2])), mem |-> core_init_state(size, s[1]),
                    iterations |-> build.iterations, crc |-> 0, crclist |-> 0, crcmatrix |-> 0, crcstate |-> 0]
           l    == core_list_init(size, s[1], r)
       IN /\ res' = [l.res EXCEPT !.list = l.list]
          /\ run' = Call(res', 1, 0)
          /\ initial' = [heap |-> res'.heap, mem |-> r.mem, A |-> r.mat.A, B |-> r.mat.B]
    /\ clock' = [clock EXCEPT !.start = @ + (clock.now - clock.start)]
    /\ pc' = "find"
    /\ UNCHANGED <<build, report>>

Bit8(d) == (d \div 256) % 2
Bit9(d) == (d \div 512) % 2

\* Move the item after p to the second place of the list.
CacheNext(h, list, p) ==
    LET q  == h.next[p]
        n1 == [h.next EXCEPT ![p] = h.next[q]]
        n2 == [n1 EXCEPT ![q] = n1[list]]
    IN IF q = NULL THEN h ELSE [h EXCEPT !.next = [n2 EXCEPT ![list] = q]]

Searching == pc = "find" /\ run.i < Signed(res.seed3)

\* One round of the search loop; the list is reversed after the search.
Find ==
    /\ Searching
    /\ LET info == [run.info EXCEPT !.data16 = run.i % 256]
           this == core_list_find(res.heap, run.list, info)
           rev  == core_list_reverse(res.heap, run.list)
           d    == IF this = NULL THEN Bit8(data16(rev.heap, rev.heap.next[rev.list]))
                   ELSE IF data16(rev.heap, this) % 2 = 1 THEN Bit9(data16(rev.heap, this)) ELSE 0
       IN /\ run' = [run EXCEPT !.i = @ + 1, !.list = rev.list,
                                !.info = IF info.idx >= 0 THEN [info EXCEPT !.idx = @ + 1] ELSE info,
                                !.retval = U16(@ + d),
                                !.missed = @ + (IF this = NULL THEN 1 ELSE 0),
                                !.found = @ + (IF this = NULL THEN 0 ELSE 1)]
          /\ res' = [res EXCEPT !.heap = IF this = NULL THEN rev.heap ELSE CacheNext(rev.heap, rev.list, this)]
    /\ UNCHANGED <<build, pc, initial, clock, report>>

Tally(l) == U16(l.retval + l.found * 4 - l.missed)

\* Sort by content, which runs the other two algorithms.
Sort ==
    /\ pc = "find" /\ ~Searching
    /\ LET s == IF run.finder_idx > 0 THEN core_list_mergesort("complex", res, run.list)
                ELSE [res |-> res, list |-> run.list]
       IN /\ res' = s.res
          /\ run' = [run EXCEPT !.retval = Tally(run), !.list = s.list]
    /\ pc' = "remove"
    /\ UNCHANGED <<build, initial, clock, report>>

Remove ==
    /\ pc = "remove"
    /\ LET r == core_list_remove(res.heap, res.heap.next[run.list])
       IN /\ res' = [res EXCEPT !.heap = r.heap]
          /\ run' = [run EXCEPT !.remover = r.removed]
    /\ pc' = "content"
    /\ UNCHANGED <<build, initial, clock, report>>

\* The crc of the first item's data, once for each item from finder on.
ListCrc(data, n, crc) ==
    LET crcs[k \in 0 .. n, c \in 0 .. 65535] == IF k = 0 THEN c ELSE crcs[k - 1, crc16(data, c)]
    IN crcs[n, crc]

Content ==
    /\ pc = "content"
    /\ LET h      == res.heap
           hit    == core_list_find(h, run.list, run.info)
           finder == IF hit = NULL THEN h.next[run.list] ELSE hit
       IN /\ run' = [run EXCEPT !.retval = ListCrc(data16(h, run.list), Len(Chain(h.next, finder)), @),
                                !.remover = NULL]
          /\ res' = [res EXCEPT !.heap = core_list_undo_remove(h, run.remover, h.next[run.list])]
    /\ pc' = "order"
    /\ UNCHANGED <<build, initial, clock, report>>

\* The end of core_bench_list and what iterate does with its result.
Order ==
    /\ pc = "order"
    /\ LET s   == core_list_mergesort("idx", res, run.list)
           h   == s.res.heap
           crc == crcu16(ListCrc(data16(h, s.list), Len(Chain(h.next, h.next[s.list])), run.retval), res.crc)
           r   == [s.res EXCEPT !.crc = crc]
           last == run.finder_idx = -1
       IN /\ res' = IF last /\ run.iter = 0 THEN [r EXCEPT !.crclist = crc] ELSE r
          /\ run' = IF last THEN Call(r, 1, run.iter + 1) ELSE Call(r, -1, run.iter)
          /\ pc' = IF last /\ run.iter + 1 = res.iterations THEN "stop" ELSE "find"
    /\ UNCHANGED <<build, initial, clock, report>>

-----------------------------------------------------------------------------
stop_time ==
    /\ pc = "stop"
    /\ \E d \in Durations :
         LET t == (clock.now + d) % TimeMod
         IN clock' = [clock EXCEPT !.now = t, !.stop = t] /\ report' = [report EXCEPT !.elapsed = d]
    /\ pc' = "report"
    /\ UNCHANGED <<build, res, run, initial>>

get_time == (clock.stop - clock.start) % TimeMod

seedcrc(r) == crc16(r.size, crc16(r.seed3, crc16(r.seed2, crc16(r.seed1, 0))))
KnownSeedCrcs == <<35330, 31493, 20143, 59893, 6386>>    \* 8a02 7b05 4eaf e9f5 18f2
list_known_crc   == <<54448, 13120, 27257, 59156, 58305>>
matrix_known_crc == <<48722, 4505, 22024, 8151, 1863>>
state_known_crc  == <<24135, 14783, 58788, 36410, 36228>>

\* The digits _print_int emits: %d with or without a width.
RECURSIVE Digits(_)
Digits(v) == IF v < 10 THEN <<v>> ELSE Append(Digits(v \div 10), v % 10)

\* main after the timed part.
Report ==
    /\ pc = "report"
    /\ LET crc   == seedcrc(res)
           known == IF crc \in Items(KnownSeedCrcs) THEN CHOOSE k \in 1 .. 5 : KnownSeedCrcs[k] = crc ELSE 0
           wrong == {a \in {"list", "matrix", "state"} :
                        CASE a = "list"   -> res.crclist # list_known_crc[known]
                          [] a = "matrix" -> res.crcmatrix # matrix_known_crc[known]
                          [] a = "state"  -> res.crcstate # state_known_crc[known]}
           errors == (IF known = 0 THEN -1 ELSE Cardinality(wrong)) + check_data_types
           per_sec == (res.iterations * TicksPerSec) \div get_time
           mhz     == TicksPerSec \div 1000000
           scored  == errors = 0 /\ known - 1 = 3
       IN report' = [report EXCEPT !.known_id = known - 1, !.total_errors = errors, !.total_time = get_time,
                        !.whole = IF scored THEN Digits(per_sec \div mhz) ELSE <<>>,
                        !.frac = IF scored THEN Digits(((per_sec % mhz) * 1000) \div mhz) ELSE <<>>]
    /\ pc' = "done"
    /\ UNCHANGED <<build, res, run, initial, clock>>

\* start.S after main: the verdict is written and the core spins.
Spin == pc = "done" /\ UNCHANGED vars

Next == Setup \/ Find \/ Sort \/ Remove \/ Content \/ Order \/ stop_time \/ Report \/ Spin
Spec == Init /\ [][Next]_vars

-----------------------------------------------------------------------------
Started == pc # "boot"

\* No round of searching, caching, sorting and removing loses a list_head or
\* links one twice (core_list_join.c works in place on one block).
ListWhole ==
    Started => LET c == Chain(res.heap.next, run.list)
               IN /\ Items(c) \cup ({run.remover} \ {NULL}) = DOMAIN res.heap.next
                  /\ Len(c) + (IF run.remover = NULL THEN 0 ELSE 1) = Cardinality(DOMAIN res.heap.next)
                  /\ {res.heap.info[n] : n \in DOMAIN res.heap.info} = DOMAIN res.heap.data

\* The upper byte of an item, from which cmp_idx rebuilds the data, survives
\* the caching of calc_func.
BackupKept ==
    Started => \A d \in DOMAIN res.heap.data : res.heap.data[d] \div 256 = initial.heap.data[d] \div 256

\* "At the end of this function, the list is back to original state", and so
\* are the matrices and the text the list's comparisons ran on.
Restored ==
    Started /\ run.i = 0 /\ pc \in {"find", "stop"} /\ Undoable(initial.mem, res.seed1) =>
        /\ res.heap = initial.heap
        /\ run.list = res.list
        /\ res.mat.A = initial.A /\ res.mat.B = initial.B
        /\ res.mem = initial.mem

\* The algorithms stay in their thirds of the memory. The three matrices end
\* before the text, wherever in a word static_memblk starts (align_mem moves
\* the first of them up). Two NULs end the text, so that a scan stops although
\* core_bench_state corrupts every step-th byte, the last ones included.
Align(p) == ((p + 3) \div 4) * 4
BlocksApart ==
    Started => /\ \A base \in 0 .. 3 :
                     Align(base + res.size) + 8 * res.mat.N * res.mat.N <= base + 2 * res.size
               /\ Terminated(res.mem, res.size)

\* The report is right: a build with published crcs validates, for all three
\* algorithms compute them, and total_time is the time the iterations took,
\* also when the low word of mtime wraps in between.
Published == {[seeds |-> Seeds(b.seeds), size |-> b.total \div 3] : b \in Builds}
             \cap {[seeds |-> <<0, 0, 102>>, size |-> 666], [seeds |-> <<13333, 13333, 102>>, size |-> 666],
                   [seeds |-> <<8, 8, 8>>, size |-> 400]}
Validated ==
    pc = "done" =>
        /\ report.total_errors = IF [seeds |-> Seeds(build.seeds), size |-> res.size] \in Published THEN 0 ELSE -1
        /\ report.total_time = report.elapsed

\* The score's fraction is printed in thousandths, as "%d.%03d" says.
ScoreInThousandths == report.frac # <<>> => Len(report.frac) = 3
=============================================================================
