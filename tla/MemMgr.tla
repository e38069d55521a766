------------------------------ MODULE MemMgr ------------------------------
(***************************************************************************)
(* The first-fit allocator of mem_mgr (src/unnamed/part_003): a static     *)
(* area mem[SIZE] cut into blocks, each a mem_block header of HEADERSIZE   *)
(* bytes followed by data_len bytes, threaded on a free list (p_free) and  *)
(* an allocated list (p_allocated) through p_next.  The header fields are  *)
(* functions of the byte offset the header starts at; p_prev is written    *)
(* but never read, so it is left out.  m_alloc and m_free are single       *)
(* actions: the allocator has no locking and runs in one task.  The        *)
(* client holds the pointers m_alloc returned and frees only those.        *)
(***************************************************************************)
EXTENDS Integers, Sequences, SequencesExt, FiniteSets

CONSTANTS
    SIZE,       \* bytes of mem
    HEADERSIZE, \* sizeof(mem_block)
    ALIGNMENT,  \* boundary of every allocation
    Sizes,      \* the sizes the client passes to m_alloc
    NULL        \* the null pointer m_alloc returns

FREE == 0
ALLOCATED == 1
Nil == -1               \* a NULL mem_block pointer
Offs == 0..(SIZE - 1)   \* where a header can start
Addrs == {a \in 0..SIZE : a % ALIGNMENT = 0}

VARIABLES
    len, state, nxt,    \* data_len, state, p_next of the header at each offset
    pfree, palloc,      \* p_free, p_allocated
    init,               \* init
    held,               \* pointers the client holds
    call, ret

vars == <<len, state, nxt, pfree, palloc, init, held, call, ret>>

\* The blocks of a list from q through p_next (fuel bounds a cycle).
RECURSIVE ListFrom(_, _, _)
ListFrom(q, nx, fuel) ==
    IF q = Nil \/ fuel = 0 THEN <<>> ELSE <<q>> \o ListFrom(nx[q], nx, fuel - 1)

\* The blocks met walking mem from offset o header by header.
RECURSIVE BlocksFrom(_, _)
BlocksFrom(o, fuel) ==
    IF o >= SIZE \/ fuel = 0 THEN <<>>
    ELSE <<o>> \o BlocksFrom(o + HEADERSIZE + len[o], fuel - 1)

\* init_mem: one free block over the whole area.
InitMem == [len   |-> [len EXCEPT ![0] = SIZE - HEADERSIZE],
            state |-> [state EXCEPT ![0] = FREE],
            nxt   |-> [nxt EXCEPT ![0] = Nil],
            pfree |-> 0]

\* The heap m_alloc works on: the current one, or a fresh one when !init.
Heap0 == IF init THEN [len |-> len, state |-> state, nxt |-> nxt, pfree |-> pfree]
         ELSE InitMem

\* The general case of remove_from_list: unlink p after block pv.
RECURSIVE Unlink(_, _, _, _)
Unlink(pv, p, nx, fuel) ==
    LET cur == nx[pv] IN
    IF cur = Nil \/ fuel = 0 THEN [nxt |-> nx, removed |-> FALSE]
    ELSE IF cur = p THEN [nxt |-> [nx EXCEPT ![pv] = nx[cur]], removed |-> TRUE]
    ELSE Unlink(cur, p, nx, fuel - 1)

\* remove_from_list(&head, p): the new head, the links, and whether p was
\* on the list.
RemoveFromList(hd, p, nx) ==
    IF hd = Nil THEN [head |-> hd, nxt |-> nx, removed |-> FALSE]
    ELSE IF hd = p THEN [head |-> nx[hd], nxt |-> nx, removed |-> TRUE]
    ELSE LET r == Unlink(hd, p, nx, SIZE)
         IN [head |-> hd, nxt |-> r.nxt, removed |-> r.removed]

\* The first free block m_alloc's loop stops at, and whether it splits it:
\* it splits when size + HEADERSIZE + ALIGNMENT < data_len, and takes the
\* whole block when only size < data_len.
RECURSIVE FirstFit(_, _, _, _, _)
FirstFit(q, size, ln, nx, fuel) ==
    IF q = Nil \/ fuel = 0 THEN [blk |-> Nil, split |-> TRUE]
    ELSE IF size + HEADERSIZE + ALIGNMENT < ln[q] THEN [blk |-> q, split |-> TRUE]
    ELSE IF size < ln[q] THEN [blk |-> q, split |-> FALSE]
    ELSE FirstFit(nx[q], size, ln, nx, fuel - 1)

RoundedUnaligned(size) == size

\* split_mem_blk: the size rounded up to ALIGNMENT.
Rounded(size) ==
    size + (IF size % ALIGNMENT # 0 THEN ALIGNMENT - (size % ALIGNMENT) ELSE 0)

\* split_mem_blk: the new block is cut from the end of block b.
SplitAt(b, size, ln) == b + HEADERSIZE + ln[b] - (Rounded(size) + HEADERSIZE)

SplitLen(b, size, ln) ==
    [ln EXCEPT ![b] = ln[b] - (Rounded(size) + HEADERSIZE),
               ![SplitAt(b, size, ln)] = Rounded(size)]

ResultAtHeader(nb) == nb

\* result = p_new + HEADERSIZE
Result(nb) == nb + HEADERSIZE

AbsorbNoHeader(prev, cur, ln) == [ln EXCEPT ![prev] = @ + ln[cur]]

\* prev->data_len += cur->data_len + HEADERSIZE
Absorb(prev, cur, ln) == [ln EXCEPT ![prev] = @ + ln[cur] + HEADERSIZE]

\* merge_free_blk(prev): walk the blocks from prev; a free block followed
\* by a free block that is on the free list absorbs it and is tried again.
RECURSIVE MergeFrom(_, _, _)
MergeFrom(prev, h, fuel) ==
    LET cur == prev + HEADERSIZE + h.len[prev] IN
    IF fuel = 0 \/ ~(cur < SIZE - 1) THEN h
    ELSE LET r == RemoveFromList(h.pfree, cur, h.nxt) IN
         IF h.state[prev] = FREE /\ h.state[cur] = FREE /\ r.removed
            THEN MergeFrom(prev, [h EXCEPT !.len = Absorb(prev, cur, h.len),
                                           !.nxt = r.nxt, !.pfree = r.head],
                           fuel - 1)
            ELSE MergeFrom(cur, h, fuel - 1)

Init ==
    /\ len = [o \in Offs |-> 0] /\ state = [o \in Offs |-> FREE]
    /\ nxt = [o \in Offs |-> Nil]
    /\ pfree = Nil /\ palloc = Nil /\ init = FALSE
    /\ held = {} /\ call = <<>> /\ ret = NULL

\* m_alloc(size), with init_mem on the first call.  A split block keeps its
\* place on the free list; a block taken whole is removed from it.  The
\* new block is pushed on the allocated list.
m_alloc(size) ==
    LET h == Heap0
        ff == FirstFit(h.pfree, size, h.len, h.nxt, SIZE)
        b == ff.blk
        nb == IF ff.split THEN SplitAt(b, size, h.len) ELSE b
        r == RemoveFromList(h.pfree, b, h.nxt)
        nx1 == IF ff.split THEN h.nxt ELSE r.nxt
    IN
    /\ call' = <<"m_alloc", size>>
    /\ init' = TRUE
    /\ IF b = Nil
          THEN /\ ret' = NULL
               /\ len' = h.len /\ state' = h.state /\ nxt' = h.nxt
               /\ pfree' = h.pfree
               /\ UNCHANGED <<palloc, held>>
          ELSE /\ len' = IF ff.split THEN SplitLen(b, size, h.len) ELSE h.len
               /\ state' = [h.state EXCEPT ![nb] = ALLOCATED]
               /\ nxt' = [nx1 EXCEPT ![nb] = palloc]
               /\ pfree' = IF ff.split THEN h.pfree ELSE r.head
               /\ palloc' = nb
               /\ ret' = Result(nb)
               /\ held' = held \cup {Result(nb)}

\* m_free(p): the block must be on the allocated list (otherwise assert(0)
\* stops the program); it is marked FREE, pushed on the free list, and the
\* whole area is merged from mem[0].
m_free(p) ==
    LET pb == p - HEADERSIZE
        r == RemoveFromList(palloc, pb, nxt)
        h == [len |-> len, state |-> [state EXCEPT ![pb] = FREE],
              nxt |-> [r.nxt EXCEPT ![pb] = pfree], pfree |-> pb]
        m == MergeFrom(0, h, SIZE)
    IN
    /\ call' = <<"m_free", p>>
    /\ r.removed
    /\ palloc' = r.head
    /\ len' = m.len /\ state' = m.state /\ nxt' = m.nxt /\ pfree' = m.pfree
    /\ held' = held \ {p}
    /\ ret' = NULL
    /\ UNCHANGED init

Next ==
    \/ \E size \in Sizes : m_alloc(size)
    \/ \E p \in held : m_free(p)

Spec == Init /\ [][Next]_vars

-----------------------------------------------------------------------------
TypeOK ==
    /\ len \in [Offs -> 0..SIZE]
    /\ state \in [Offs -> {FREE, ALLOCATED}]
    /\ nxt \in [Offs -> Offs \cup {Nil}]
    /\ {pfree, palloc} \subseteq Offs \cup {Nil}
    /\ init \in BOOLEAN
    /\ held \subseteq Addrs
    /\ ret \in Addrs \cup {NULL}

\* After init_mem the headers reached from mem[0] tile the area exactly,
\* the free list holds each FREE block once and nothing else, the
\* allocated list each ALLOCATED block once and nothing else, and no two
\* neighbouring blocks are both free: what m_alloc's first-fit scan and
\* merge_free_blk's walk over mem rely on.
HeapConsistent ==
    init =>
      LET bs == BlocksFrom(0, SIZE)
          B == ToSet(bs)
          fl == ListFrom(pfree, nxt, SIZE)
          al == ListFrom(palloc, nxt, SIZE)
      IN /\ bs # <<>>
         /\ Last(bs) + HEADERSIZE + len[Last(bs)] = SIZE
         /\ ToSet(fl) = {b \in B : state[b] = FREE}
         /\ Len(fl) = Cardinality(ToSet(fl))
         /\ ToSet(al) = {b \in B : state[b] = ALLOCATED}
         /\ Len(al) = Cardinality(ToSet(al))
         /\ \A i \in 1..(Len(bs) - 1) :
               ~(state[bs[i]] = FREE /\ state[bs[i + 1]] = FREE)

\* The regions the allocated list describes.
Regions ==
    {<<b + HEADERSIZE, len[b]>> : b \in ToSet(ListFrom(palloc, nxt, SIZE))}

AA == INSTANCE AbstractAlloc WITH live <- Regions

\* m_alloc and m_free implement mem_mgr.h: every pointer returned is
\* aligned, lies inside mem with at least the bytes asked for, overlaps no
\* region still allocated, and m_free releases exactly the region freed.
AllocContract == AA!Spec

=============================================================================
