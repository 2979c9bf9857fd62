----------------------------- MODULE CoreMatrix -----------------------------
(***************************************************************************)
(* core_matrix.c.  A matrix is a function of its flat index; a matrix     *)
(* parameter block is a record of the dimension and the three matrices.    *)
(***************************************************************************)
EXTENDS CoreUtil

Cells(N) == 0 .. N * N - 1

\* The largest dimension whose three matrices are shorter than the block.
Dimension(blksize) ==
    LET n == CHOOSE n \in 1 .. blksize : n * n * 8 >= blksize /\ (n - 1) * (n - 1) * 8 < blksize
    IN n - 1

\* The seeds of n cells, the first of them the order-th, from the seed before.
RECURSIVE CellSeeds(_, _, _)
CellSeeds(seed, order, n) ==
    IF n = 1 THEN <<CRem(order * seed, 65536)>>
    ELSE LET half == n \div 2
             l    == CellSeeds(seed, order, half)
         IN l \o CellSeeds(l[half], order + half, n - half)

core_init_matrix(blksize, seed) ==
    LET N == Dimension(blksize)
        s == CellSeeds(IF seed = 0 THEN 1 ELSE seed, 1, N * N)
        B == [c \in Cells(N) |-> Signed(s[c + 1] + c + 1)]
    IN [N |-> N, B |-> B,
        A |-> [c \in Cells(N) |-> U16(B[c] + c + 1) % 256],
        C |-> [c \in Cells(N) |-> 0]]

RECURSIVE Dot(_, _, _)      \* the sum of term f over 0 .. k - 1
Dot(N, k, f) == IF k = 0 THEN 0 ELSE Dot(N, k - 1, f) + f[k - 1]

matrix_add_const(N, A, val) == Table([c \in Cells(N) |-> Signed(A[c] + val)])
matrix_mul_const(N, A, val) == [c \in Cells(N) |-> A[c] * val]
\* Only the first N cells of the result are written.
matrix_mul_vect(N, C, A, B) ==
    [c \in Cells(N) |-> IF c < N THEN Dot(N, N, [j \in 0 .. N - 1 |-> A[c * N + j] * B[j]]) ELSE C[c]]
Product(A, B, N, c, k) == A[(c \div N) * N + k] * B[k * N + (c % N)]
matrix_mul_matrix(N, A, B) ==
    Table([c \in Cells(N) |-> Dot(N, N, [k \in 0 .. N - 1 |-> Product(A, B, N, c, k)])])
bit_extract(x, from, to) == (x \div 2^from) % 2^to
matrix_mul_matrix_bitextract(N, A, B) ==
    [c \in Cells(N) |-> Dot(N, N, [k \in 0 .. N - 1 |->
        LET t == Product(A, B, N, c, k) IN bit_extract(t, 2, 4) * bit_extract(t, 5, 7)])]

\* Ten for every cell at which the running sum passes clipval, which starts
\* the sum anew, one for every other cell greater than the one before it.
AddCell(st, cur, clipval) ==
    LET sum == st.tmp + cur
    IN [prev |-> cur, tmp |-> IF sum > clipval THEN 0 ELSE sum,
        ret |-> st.ret + (IF sum > clipval THEN 10 ELSE IF cur > st.prev THEN 1 ELSE 0)]
Sums == [tmp : Int, prev : Int, ret : Int]
matrix_sum(N, C, clipval) ==
    LET sum[c \in Nat, n \in Nat, st \in Sums] ==       \* over n cells from c
            IF n = 1 THEN AddCell(st, C[c], clipval)
            ELSE sum[c + n \div 2, n - n \div 2, sum[c, n \div 2, st]]
    IN sum[0, N * N, [tmp |-> 0, prev |-> 0, ret |-> 0]].ret

matrix_big(x) == Signed(61440 + (U16(x) % 4096))

Undo_Fault(N, A, val) == matrix_add_const(N, A, val)
Undo(N, A, val) == matrix_add_const(N, A, -val)

SumsCrc(N, results, clip) ==
    LET crc[k \in 0 .. Len(results)] ==
            IF k = 0 THEN 0 ELSE crc16(matrix_sum(N, results[k], clip), crc[k - 1])
    IN crc[Len(results)]

\* The matrices after the test and the crc of its results.
matrix_test(mat, val) ==
    LET N == mat.N
        A  == matrix_add_const(N, mat.A, val)
        C1 == matrix_mul_const(N, A, val)
        C2 == matrix_mul_vect(N, C1, A, mat.B)
        C3 == matrix_mul_matrix(N, A, mat.B)
        C4 == matrix_mul_matrix_bitextract(N, A, mat.B)
    IN [mat |-> [mat EXCEPT !.A = Undo(N, A, val), !.C = C4],
        crc |-> SumsCrc(N, <<C1, C2, C3, C4>>, matrix_big(val))]
=============================================================================
