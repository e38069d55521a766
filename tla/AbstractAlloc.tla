--------------------------- MODULE AbstractAlloc ---------------------------
(***************************************************************************)
(* What mem_mgr.h promises of m_alloc and m_free over a memory area of     *)
(* SIZE bytes: m_alloc(n) returns NULL or a pointer to at least n bytes,   *)
(* aligned to ALIGNMENT, inside the area and overlapping no region still   *)
(* live; m_free(p) of a pointer m_alloc returned releases its region.      *)
(* Pointers are offsets into the area.                                     *)
(***************************************************************************)
EXTENDS Integers

CONSTANTS
    SIZE,       \* bytes of the memory area
    ALIGNMENT,  \* boundary of every allocation
    Sizes,      \* the request sizes a client passes
    NULL        \* the null pointer

VARIABLES
    live,       \* <<pointer, bytes>> of every region handed out, not freed
    call,       \* the last call and its argument
    ret         \* the value it returned

vars == <<live, call, ret>>

\* Regions [a, a + m) and r do not share a byte, and a is not r's pointer.
Apart(a, m, r) == a # r[1] /\ (a + m <= r[1] \/ r[1] + r[2] <= a)

Init == live = {} /\ call = <<>> /\ ret = NULL

Alloc(n) ==
    /\ call' = <<"m_alloc", n>>
    /\ \/ ret' = NULL /\ UNCHANGED live
       \/ \E a \in 0..SIZE, m \in n..SIZE :
             /\ a % ALIGNMENT = 0 /\ a + m <= SIZE
             /\ \A r \in live : Apart(a, m, r)
             /\ live' = live \cup {<<a, m>>}
             /\ ret' = a

Free(a) ==
    /\ call' = <<"m_free", a>>
    /\ \E r \in live : r[1] = a /\ live' = live \ {r}
    /\ ret' = NULL

Next == \/ \E n \in Sizes : Alloc(n)
        \/ \E a \in 0..SIZE : Free(a)

Spec == Init /\ [][Next]_vars

=============================================================================
