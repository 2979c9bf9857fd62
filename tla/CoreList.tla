------------------------------ MODULE CoreList ------------------------------
(***************************************************************************)
(* The list of core_list_join.c.  A heap is the memory the list lives in:  *)
(* next and info of every list_head, data16 and idx of every list_data,    *)
(* each numbered from the start of its array; NULL is -1.  A core_results  *)
(* record res holds the heap, the head of the list, the matrices (mat),    *)
(* the state machine's input (mem), the seeds and the crcs.                *)
(***************************************************************************)
EXTENDS CoreMatrix, CoreState

NULL == -1

RECURSIVE Chain(_, _)               \* the list_heads from p to the end
Chain(next, p) == IF p = NULL THEN <<>> ELSE <<p>> \o Chain(next, next[p])
Items(s) == {s[i] : i \in DOMAIN s}

\* The same memory with the list_heads of s linked in the order of s.
Relink(next, s) ==
    [n \in DOMAIN next |->
        IF n \notin Items(s) THEN next[n]
        ELSE LET i == CHOOSE k \in DOMAIN s : s[k] = n
             IN IF i = Len(s) THEN NULL ELSE s[i + 1]]

data16(h, p) == h.data[h.info[p]]
idx(h, p) == h.idx[h.info[p]]

RECURSIVE core_list_find(_, _, _)
core_list_find(h, p, info) ==
    IF p = NULL \/ (IF info.idx >= 0 THEN idx(h, p) = info.idx ELSE data16(h, p) % 256 = info.data16)
    THEN p ELSE core_list_find(h, h.next[p], info)

RECURSIVE Reversed(_, _, _)
Reversed(next, list, prev) ==
    IF list = NULL THEN [next |-> next, list |-> prev]
    ELSE Reversed([next EXCEPT ![list] = prev], next[list], list)
core_list_reverse(h, list) ==
    LET r == Reversed(h.next, list, NULL) IN [heap |-> [h EXCEPT !.next = r.next], list |-> r.list]

core_list_remove(h, item) ==
    LET ret == h.next[item]
    IN [heap |-> [h EXCEPT !.info = [@ EXCEPT ![item] = h.info[ret], ![ret] = h.info[item]],
                           !.next = [@ EXCEPT ![item] = h.next[ret], ![ret] = NULL]],
        removed |-> ret]
core_list_undo_remove_Fault(h, removed, item) ==
    [h EXCEPT !.info = [@ EXCEPT ![item] = h.info[removed], ![removed] = h.info[item]],
              !.next = [@ EXCEPT ![item] = removed]]
core_list_undo_remove(h, removed, item) ==
    [h EXCEPT !.info = [@ EXCEPT ![item] = h.info[removed], ![removed] = h.info[item]],
              !.next = [@ EXCEPT ![removed] = h.next[item], ![item] = removed]]

-----------------------------------------------------------------------------
(***************************************************************************)
(* The comparisons.  Both change memory: cmp_complex runs a benchmark the  *)
(* first time it meets an item and caches the result in the item, and      *)
(* cmp_idx, which is only ever called without results, regenerates the     *)
(* data from the upper byte.                                               *)
(***************************************************************************)
Cached(data) == (data \div 128) % 2 = 1
Period_Fault(dtype) == IF dtype < 17 THEN 17 ELSE dtype
Period(dtype) == IF dtype < 34 THEN 34 ELSE dtype     \* the shortest is 0x22

\* What the two operations leave in the results they may touch.
StateDone(res, st) ==
    [retval |-> st.crc, res |-> [res EXCEPT !.mem = st.mem, !.crcstate = IF @ = 0 THEN st.crc ELSE @]]
MatrixDone(res, mat, crc) ==
    [retval |-> crc, res |-> [res EXCEPT !.mat = mat, !.crcmatrix = IF @ = 0 THEN crc ELSE @]]
core_bench_matrix(res, t) == MatrixDone(res, t.mat, crc16(t.crc, res.crc))

\* The operation of an item that has no cached result.
Operate(res, data) ==
    LET flag  == data % 8
        dtype == ((data \div 8) % 16) * 17
    IN CASE flag = 0 -> StateDone(res, core_bench_state(res.mem, res.seed1, res.seed2, Period(dtype), res.crc))
         [] flag = 1 -> core_bench_matrix(res, matrix_test(res.mat, dtype))
         [] OTHER    -> [retval |-> data, res |-> res]
CacheIn(data, retval) == (data \div 256) * 256 + 128 + (retval % 128)
\* The operation's result goes into the crc and into the item.
Operated(o, d) ==
    [val |-> o.retval % 128,
     res |-> [o.res EXCEPT !.crc = crcu16(o.retval, @), !.heap.data[d] = CacheIn(@, o.retval)]]
calc_func(res, d) ==
    LET data == res.heap.data[d]
    IN IF Cached(data) THEN [val |-> data % 128, res |-> res]
       ELSE Operated(Operate(res, data), d)

Less(va, vb) == [val |-> va.val - vb.val, res |-> vb.res]
LessThan(va, b) == Less(va, calc_func(va.res, b))
cmp_complex(res, a, b) == LessThan(calc_func(res, a), b)
Regen(data) == (data \div 256) * 257
cmp_idx(res, a, b) ==
    [val |-> res.heap.idx[a] - res.heap.idx[b],
     res |-> [res EXCEPT !.heap.data = [@ EXCEPT ![a] = Regen(@), ![b] = Regen(@)]]]
Compare(cmp, res, p, q) ==
    LET a == res.heap.info[p]
        b == res.heap.info[q]
    IN IF cmp = "complex" THEN cmp_complex(res, a, b) ELSE cmp_idx(res, a, b)

\* Merge two sorted runs p and q, the first winning ties; the links are set at
\* the end.
Moved(c, st) ==
    IF c.val <= 0 THEN [st EXCEPT !.res = c.res, !.p = Tail(@), !.out = Append(@, Head(st.p))]
    ELSE [st EXCEPT !.res = c.res, !.q = Tail(@), !.out = Append(@, Head(st.q))]
RECURSIVE Merge(_, _)
Merge(cmp, st) ==
    IF st.p = <<>> \/ st.q = <<>> THEN [st EXCEPT !.out = @ \o st.p \o st.q]
    ELSE Merge(cmp, Moved(Compare(cmp, st.res, Head(st.p), Head(st.q)), st))

\* Merge the runs of length n of the sequence in pairs.
Part(s, a, b) == SubSeq(s, a, IF b < Len(s) THEN b ELSE Len(s))
Collect(m, st, n) ==
    [res |-> m.res, out |-> st.out \o m.out, left |-> Part(st.left, 2 * n + 1, Len(st.left))]
RECURSIVE Pass(_, _, _)
Pass(cmp, n, st) ==
    IF st.left = <<>> THEN [res |-> st.res, left |-> st.out, out |-> <<>>]
    ELSE Pass(cmp, n, Collect(Merge(cmp, [res |-> st.res, p |-> Part(st.left, 1, n),
                                          q |-> Part(st.left, n + 1, 2 * n), out |-> <<>>]), st, n))
RECURSIVE Passes(_, _, _)
Passes(cmp, n, st) ==
    IF n > 1 /\ Len(st.left) <= n THEN st ELSE Passes(cmp, 2 * n, Pass(cmp, n, st))
Linked(st) == [res |-> [st.res EXCEPT !.heap.next = Relink(@, st.left)], list |-> st.left[1]]
core_list_mergesort(cmp, res, list) ==
    Linked(Passes(cmp, 1, [res |-> res, left |-> Chain(res.heap.next, list), out |-> <<>>]))

-----------------------------------------------------------------------------
\* Take the next list_head and list_data, if neither is the last of its array.
core_list_insert_new(h, at, info, free, end) ==
    IF free + 1 >= end THEN h
    ELSE [next |-> [n \in 0 .. free |-> IF n = free THEN h.next[at] ELSE IF n = at THEN free ELSE h.next[n]],
          info |-> [n \in 0 .. free |-> n],
          data |-> [n \in 0 .. free |-> IF n = free THEN info.data ELSE h.data[n]],
          idx  |-> [n \in 0 .. free |-> IF n = free THEN info.idx ELSE h.idx[n]]]
Free(h) == Cardinality(DOMAIN h.next)

PerItem == 16 + 4
ListSize(blksize) == blksize \div PerItem - 2
ItemData(seed, i) == LET dat == ((U16(seed) ^^ i) % 16) * 8 + (i % 8) IN dat * 257
RECURSIVE Inserted(_, _, _, _)
Inserted(h, seed, i, size) ==
    IF i = size \/ Free(h) + 1 >= size THEN h
    ELSE Inserted(core_list_insert_new(h, 0, [data |-> ItemData(seed, i), idx |-> 32767], Free(h), size),
                  seed, i + 1, size)

\* The idx of the i-th item: in order for the first fifth, then mixed.
ItemIdx(seed, i, size) ==
    IF i < size \div 5 THEN i
    ELSE ((((i + 1) % 8) * 256) | (i ^^ U16(seed))) % 16384
core_list_init(blksize, seed, res) ==
    LET size == ListSize(blksize)
        head == [next |-> (0 :> NULL), info |-> (0 :> 0), data |-> (0 :> 32896), idx |-> (0 :> 0)]
        tail == core_list_insert_new(head, 0, [data |-> 65535, idx |-> 32767], 1, size)
        h    == Inserted(tail, seed, 0, size)
        c    == Chain(h.next, 0)
        rank(n) == (CHOOSE k \in DOMAIN c : c[k] = n) - 1
        fin  == [h EXCEPT !.idx = [n \in DOMAIN h.idx |->
                    IF n = 0 \/ h.next[n] = NULL THEN h.idx[n] ELSE ItemIdx(seed, rank(n), size)]]
    IN core_list_mergesort("idx", [res EXCEPT !.heap = fin], 0)
=============================================================================
