-------------------------------- MODULE Libc --------------------------------
(***************************************************************************)
(* The freestanding string and memory functions linked into the images:    *)
(* those of rtos/bsp/libc_stubs.c (memcpy and memset are also, word for    *)
(* word, in core_portme.c) and strcpy and strcmp of dhry_port.c.  A call   *)
(* runs one byte at a time over a small memory.                            *)
(***************************************************************************)
EXTENDS Integers, FiniteSets

CONSTANTS Size,     \* bytes of memory
          Bytes     \* the values a byte takes, 0 among them

VARIABLES mem,      \* the memory
          old,      \* what it held when the function was called
          call,     \* the function and its arguments
          at,       \* its pointers and the count left; "ret" once it returns
          ret       \* what it returned

vars == <<mem, old, call, at, ret>>

Addr == 0 .. Size - 1
Functions == {"memcpy", "memset", "memmove", "memcmp", "strncpy", "strlen", "strcpy", "strcmp"}

\* Where the string at p ends; there is no string if no NUL follows.
Ends(m, p) == {e \in p .. Size - 1 : m[e] = 0}
IsString(m, p) == Ends(m, p) # {}
End(m, p) == CHOOSE e \in Ends(m, p) : \A x \in Ends(m, p) : e <= x
Disjoint(d, s, n) == d + n <= s \/ s + n <= d
\* The bytes strncpy reads: up to the NUL, or n if that comes first.
Reads(m, s, n) == IF \E e \in Ends(m, s) : e < s + n THEN End(m, s) - s + 1 ELSE n

\* The calls C defines: buffers inside memory, strings terminated but
\* where strncpy's count ends first, and no overlap but in memmove.
Legal(m, c) ==
    CASE c.fn = "memset"  -> c.d + c.n <= Size
      [] c.fn \in {"memmove", "memcmp"} -> c.d + c.n <= Size /\ c.s + c.n <= Size
      [] c.fn = "memcpy"  -> c.d + c.n <= Size /\ c.s + c.n <= Size /\ Disjoint(c.d, c.s, c.n)
      [] c.fn = "strlen"  -> IsString(m, c.s)
      [] c.fn = "strcmp"  -> IsString(m, c.d) /\ IsString(m, c.s)
      [] c.fn = "strcpy"  -> IsString(m, c.s) /\ LET n == End(m, c.s) - c.s + 1
                                                 IN c.d + n <= Size /\ Disjoint(c.d, c.s, n)
      [] c.fn = "strncpy" -> LET k == Reads(m, c.s, c.n)
                             IN /\ c.d + c.n <= Size /\ c.s + k <= Size
                                /\ (c.d + c.n <= c.s \/ c.s + k <= c.d)

Calls == [fn : Functions, d : Addr, s : Addr, n : 0 .. 3, c : {1}]

\* memmove starts from the end when the destination is not below the source.
Backward_Fault(c) == FALSE
Backward(c) == c.d >= c.s
Entry(c) ==
    LET skip == IF c.fn = "memmove" /\ Backward(c) THEN c.n ELSE 0
    IN [dd |-> c.d + skip, ss |-> c.s + skip, n |-> c.n, done |-> FALSE]

Init ==
    /\ mem \in [Addr -> Bytes]
    /\ old = mem
    /\ call \in {c \in Calls : Legal(mem, c)}
    /\ at = Entry(call)
    /\ ret = -1

-----------------------------------------------------------------------------
Running(fn) == call.fn = fn /\ ~at.done
Return(v) == ret' = v /\ at' = [at EXCEPT !.done = TRUE]
Store(p, v) == mem' = [mem EXCEPT ![p] = v]
Forth == at' = [at EXCEPT !.dd = @ + 1, !.ss = @ + 1, !.n = @ - 1]
Back  == at' = [at EXCEPT !.dd = @ - 1, !.ss = @ - 1, !.n = @ - 1]

memcpy ==
    /\ Running("memcpy")
    /\ \/ at.n = 0 /\ Return(call.d) /\ UNCHANGED mem
       \/ at.n > 0 /\ Store(at.dd, mem[at.ss]) /\ Forth /\ UNCHANGED ret
memset ==
    /\ Running("memset")
    /\ \/ at.n = 0 /\ Return(call.d) /\ UNCHANGED mem
       \/ at.n > 0 /\ Store(at.dd, call.c) /\ Forth /\ UNCHANGED ret
memmove ==
    /\ Running("memmove")
    /\ \/ at.n = 0 /\ Return(call.d) /\ UNCHANGED mem
       \/ at.n > 0 /\ ~Backward(call) /\ Store(at.dd, mem[at.ss]) /\ Forth /\ UNCHANGED ret
       \/ at.n > 0 /\ Backward(call)  /\ Store(at.dd - 1, mem[at.ss - 1]) /\ Back /\ UNCHANGED ret
memcmp ==
    /\ Running("memcmp")
    /\ \/ at.n = 0 /\ Return(0)
       \/ at.n > 0 /\ mem[at.dd] # mem[at.ss] /\ Return(mem[at.dd] - mem[at.ss])
       \/ at.n > 0 /\ mem[at.dd] = mem[at.ss] /\ Forth /\ UNCHANGED ret
    /\ UNCHANGED mem
\* Copy up to the NUL, then pad; n counts both.
strncpy ==
    /\ Running("strncpy")
    /\ \/ at.n = 0 /\ Return(call.d) /\ UNCHANGED mem
       \/ at.n > 0 /\ mem[at.ss] # 0 /\ Store(at.dd, mem[at.ss]) /\ Forth /\ UNCHANGED ret
       \/ /\ at.n > 0 /\ mem[at.ss] = 0 /\ Store(at.dd, 0)
          /\ at' = [at EXCEPT !.dd = @ + 1, !.n = @ - 1] /\ UNCHANGED ret
strlen ==
    /\ Running("strlen")
    /\ \/ mem[at.ss] = 0 /\ Return(at.ss - call.s)
       \/ mem[at.ss] # 0 /\ at' = [at EXCEPT !.ss = @ + 1] /\ UNCHANGED ret
    /\ UNCHANGED mem
strcpy ==
    /\ Running("strcpy")
    /\ Store(at.dd, mem[at.ss])
    /\ \/ mem[at.ss] = 0 /\ Return(call.d)
       \/ mem[at.ss] # 0 /\ at' = [at EXCEPT !.dd = @ + 1, !.ss = @ + 1] /\ UNCHANGED ret
strcmp ==
    /\ Running("strcmp")
    /\ \/ /\ mem[at.dd] # 0 /\ mem[at.dd] = mem[at.ss]
          /\ at' = [at EXCEPT !.dd = @ + 1, !.ss = @ + 1] /\ UNCHANGED ret
       \/ (mem[at.dd] = 0 \/ mem[at.dd] # mem[at.ss]) /\ Return(mem[at.dd] - mem[at.ss])
    /\ UNCHANGED mem

Returned == at.done /\ UNCHANGED <<mem, at, ret>>

Next == /\ memcpy \/ memset \/ memmove \/ memcmp \/ strncpy \/ strlen \/ strcpy \/ strcmp \/ Returned
        /\ UNCHANGED <<old, call>>
Spec == Init /\ [][Next]_vars

-----------------------------------------------------------------------------
\* Memory after n bytes from s were copied to d, all at once.
Copied(d, s, n) == [a \in Addr |-> IF a \in d .. d + n - 1 THEN old[s + a - d] ELSE old[a]]
Padded(d, s, n) == [a \in Addr |-> IF a \in d .. d + n - 1
                                   THEN (IF a - d < Reads(old, s, n) THEN old[s + a - d] ELSE 0) ELSE old[a]]
\* The first offset at which two buffers differ, or a string ends.
Differs(n) == {k \in 0 .. n - 1 : old[call.d + k] # old[call.s + k]}
Stops == {k \in Addr : call.d + k < Size /\ call.s + k < Size
                       /\ (old[call.d + k] = 0 \/ old[call.d + k] # old[call.s + k])}
At(S) == LET k == CHOOSE x \in S : \A y \in S : x <= y IN old[call.d + k] - old[call.s + k]

\* Every call leaves in memory, and returns, what C says of the function;
\* memmove also when its buffers overlap, whichever comes first.
Exact ==
    at.done => CASE call.fn \in {"memcpy", "memmove"} -> mem = Copied(call.d, call.s, call.n) /\ ret = call.d
                 [] call.fn = "memset"  -> /\ mem = [a \in Addr |-> IF a \in call.d .. call.d + call.n - 1 THEN call.c
                                                                    ELSE old[a]]
                                           /\ ret = call.d
                 [] call.fn = "strcpy"  -> mem = Copied(call.d, call.s, End(old, call.s) - call.s + 1) /\ ret = call.d
                 [] call.fn = "strncpy" -> mem = Padded(call.d, call.s, call.n) /\ ret = call.d
                 [] call.fn = "strlen"  -> mem = old /\ ret = End(old, call.s) - call.s
                 [] call.fn = "memcmp"  -> mem = old /\ ret = IF Differs(call.n) = {} THEN 0 ELSE At(Differs(call.n))
                 [] call.fn = "strcmp"  -> mem = old /\ ret = At(Stops)
=============================================================================
