------------------------------- MODULE Store -------------------------------
(***************************************************************************)
(* The concurrent bit-sliced trie of src/c-code/store.c.                   *)
(*                                                                         *)
(* Nodes are drawn from a finite pool of identities; freed nodes stay in   *)
(* the set `freed` so that a later access to them can be detected.  The    *)
(* child lists and the maintenance lists are kept as they are in the code: *)
(* the children of a node as a sequence (head first), the expiry list      *)
(* (`olist`, `expired`) as sequences, and the delete list as next pointers *)
(* `dnext`, because prune relinks it through pointers and aliasing there   *)
(* matters.  Client threads run store_add, store_find and store_delete     *)
(* under the reader lock, split into the steps at which another thread     *)
(* can interleave; the maintenance thread runs store_thread (expiry scan,  *)
(* which calls store_delete) and store_prune under the writer lock.        *)
(***************************************************************************)
EXTENDS Integers, Sequences, SequencesExt, FiniteSets

CONSTANTS
    Threads,    \* client threads calling store_add/find/delete
    Maint,      \* the maintenance thread started by store_init
    Nodes,      \* identities of store_elem_t allocations (not the root)
    KeyBits,    \* key_size * 8
    Bits,       \* ctx->bits, key bits consumed per trie level
    Keys,       \* the keys the clients use, as integers of KeyBits bits
    SliceBytes  \* byte values of the two-byte buffers get_bits is checked on

ASSUME /\ Maint \notin Threads
       /\ Nodes \subseteq Nat \ {0}
       /\ Bits \in 1..8 /\ KeyBits % Bits = 0
       /\ Keys \subseteq 0..(2^KeyBits - 1)
       /\ SliceBytes \subseteq 0..255
       /\ KeyBits <= 8

Root  == 0                 \* ctx->data, the sentinel root
Nil   == -1                \* NULL
NoKey == -1                \* a key buffer that is NULL (freed or never set)
AllNodes == Nodes \cup {Root}
Procs == Threads \cup {Maint}
Depth == KeyBits \div Bits \* number of trie levels

(* get_bits(key, bit_index, bit_len): the bit_len bits of the key starting *)
(* at bit_index, counted from the most significant bit.                    *)
GetBitsUnmasked(k, index, len) == k \div 2^(KeyBits - index - len)

\* The len bits at index of a bitstream of width bits holding the value v.
Slice(v, width, index, len) == (v \div 2^(width - index - len)) % 2^len

GetBits(k, index, len) == Slice(k, KeyBits, index, len)

(* The id of a node at level lv on the path of key k: get_bits(key,        *)
(* level*ctx->bits, ctx->bits), as the split and the insert compute it.    *)
ChildIdOfParentLevel(k, lv) == GetBits(k, (lv - 1) * Bits, Bits)

ChildId(k, lv) == GetBits(k, lv * Bits, Bits)

(* get_bits itself (logger.h 84-107) works on the key buffer byte by byte *)
(* in uint8_t arithmetic: a slice that spans two bytes is split into the   *)
(* part in the first byte and the rest, each fetched recursively.  The    *)
(* shift of a byte (>>) is \div by a power of two and the mask with        *)
(* bitmasks[len] is % 2^len, their exact meaning on values below 256.      *)
(* The key buffer is kbuf here, as `key` names the key-bytes variable.     *)
BitMask(len) == 2^len - 1      \* bitmasks[len]

Abs(x) == IF x < 0 THEN -x ELSE x

SpanPart1Swapped(bit_len, shift) == Abs(shift)

\* part1 = bit_len - ABS(shift): the bits left in the first byte.
SpanPart1(bit_len, shift) == bit_len - Abs(shift)

RECURSIVE get_bits(_, _, _)
get_bits(kbuf, bit_index, bit_len) ==
    LET pos   == bit_index \div 8
        idx   == bit_index - 8 * pos
        shift == (8 - bit_len) - idx
        part1 == SpanPart1(bit_len, shift)
        part2 == Abs(shift)
        data  == IF shift < 0
                 THEN (((get_bits(kbuf, bit_index, part1) * 2^part2) % 256)
                       + get_bits(kbuf, bit_index + part1, part2)) % 256
                 ELSE kbuf[pos + 1] \div 2^shift
    IN data % (BitMask(bit_len) + 1)

VARIABLES
    children,  \* n->childrens/next: the child list of n, head first
    parent,    \* n->parent
    nid,       \* n->id
    level,     \* n->level
    keyRef,    \* n->key_ref
    key,       \* n->key: the key bytes this node owns, NoKey if NULL
    cb,        \* nodes whose n->cb is not NULL
    tflag,     \* nodes with MASK_TIME_LIST set
    dflag,     \* nodes with MASK_DELETE_LIST set
    dead,      \* nodes with MASK_DEAD set
    dnext,     \* n->dlist
    dhead,     \* ctx->data->dlist, head of the delete list
    olist,     \* ctx->data->olist, the expiry list, newest first
    expired,   \* ctx->expired, the previous expiry generation
    used,      \* node identities allocated so far
    freed,     \* node identities released by FREE
    readers,   \* threads holding ctx->lock for reading
    writer,    \* the thread holding ctx->lock for writing, or Nil
    pc,        \* program counter of every thread
    arg,       \* the key argument of the current operation
    nd,        \* the node returned by find_node
    el,        \* store_add's new element
    walk,      \* store_thread's local `expired` list being scanned
    olink,     \* the old expiry list head store_add's exchange returned
    expiring,  \* store_thread's current `node` of that scan
    deleted,   \* store_prune's local `deleted` pointer
    present,   \* ghost: the keys a linearizable store would hold
    stale      \* ghost: stale[t] iff arg[t]'s presence changed during t's find

tree  == <<children, parent, nid, level, keyRef, key, cb>>
flags == <<tflag, dflag, dead, dnext, dhead, olist, expired>>
heap  == <<used, freed>>
lock  == <<readers, writer>>
local == <<pc, arg, nd, el, walk, olink, expiring, deleted>>
ghost == <<present, stale>>
vars  == <<tree, flags, heap, lock, local, ghost>>

PCs == {"idle", "add_find", "add_check", "add_split", "add_insert",
        "add_olist", "add_link", "del_find", "del_mark", "find_node",
        "find_check",
        "sleep", "expire", "prune", "prune_loop", "cleanup", "exited",
        "terminate", "joining", "terminated"}

(* Client states from store_terminate on; after it the store is gone.      *)
TermPCs == {"terminate", "joining", "terminated"}
Running == \A u \in Threads : pc[u] \notin TermPCs

(* store_terminate has cancelled the maintenance thread, which runs its    *)
(* cleanup handler while the caller waits in tp_wait_for_thread.           *)
Cancelled == \E u \in Threads : pc[u] = "joining"

TypeOK ==
    /\ children \in [AllNodes -> Seq(Nodes)]
    /\ parent \in [AllNodes -> AllNodes \cup {Nil}]
    /\ nid \in [AllNodes -> 0..(2^Bits - 1) \cup {-1}]
    /\ level \in [AllNodes -> -1..(Depth - 1)]
    /\ keyRef \in [AllNodes -> AllNodes \cup {Nil}]
    /\ key \in [AllNodes -> Keys \cup {NoKey}]
    /\ {cb, tflag, dflag, dead, used, freed} \subseteq SUBSET Nodes
    /\ dnext \in [AllNodes -> AllNodes \cup {Nil}]
    /\ {dhead, deleted} \subseteq AllNodes \cup {Nil}
    /\ {olist, expired, walk} \subseteq Seq(Nodes)
    /\ readers \subseteq Procs /\ writer \in {Maint, Nil}
    /\ pc \in [Procs -> PCs] /\ arg \in [Procs -> Keys]
    /\ nd \in [Procs -> AllNodes \cup {Nil}]
    /\ el \in [Threads -> Nodes \cup {Nil}]
    /\ olink \in [Threads -> Seq(Nodes)]
    /\ present \subseteq Keys /\ stale \in [Threads -> BOOLEAN]

-----------------------------------------------------------------------------
(* find_node (store.c 574-624): descend from the root along the children   *)
(* whose id is the next key slice, skipping nodes on the delete list; stop *)
(* at a childless match, or return the last interior node when no child    *)
(* matches.  Nodes and lists only change under a spin lock or the writer   *)
(* lock, so the descent is taken as one snapshot.                          *)
RECURSIVE Descend(_, _, _, _)
Descend(list, ret_, index, k) ==
    IF list = <<>> \/ index >= KeyBits
    THEN Root
    ELSE LET i == SelectInSeq(list, LAMBDA n : nid[n] = GetBits(k, index, Bits)
                                                /\ n \notin dflag)
         IN IF i = 0 THEN ret_
            ELSE IF children[list[i]] = <<>> THEN list[i]
            ELSE Descend(children[list[i]], list[i], index + Bits, k)

FindNode(k) == Descend(children[Root], Root, 0, k)

(* The key a node stands for: the key bytes of its key_ref owner.          *)
KeyOf(n) == IF keyRef[n] = Nil THEN NoKey ELSE key[keyRef[n]]

IsLeaf(n) == children[n] = <<>>

(* A fresh allocation: the least identity never handed out.                *)
CanAlloc == used # Nodes
Fresh == CHOOSE n \in Nodes \ used : \A m \in Nodes \ used : n <= m

(* store_release_node (545-562): for a leaf, call the destructor if the    *)
(* key is still there (the call itself has no effect on the store), then   *)
(* free the key bytes of its key_ref owner; free the node.                 *)
ReleaseNode(n) ==
    /\ key' = IF IsLeaf(n) THEN [key EXCEPT ![keyRef[n]] = NoKey] ELSE key
    /\ freed' = freed \cup {n}

(* A change of presence of key k, seen by every find in progress on k.     *)
Finding(t) == pc[t] \in {"find_node", "find_check"}
Touch(k) == stale' = [t \in Threads |-> stale[t] \/ (Finding(t) /\ arg[t] = k)]

DefaultKey == CHOOSE k \in Keys : TRUE

-----------------------------------------------------------------------------
Init ==
    /\ children = [n \in AllNodes |-> <<>>]
    /\ parent = [n \in AllNodes |-> Nil]
    /\ nid = [n \in AllNodes |-> -1]
    /\ level = [n \in AllNodes |-> -1]
    /\ keyRef = [n \in AllNodes |-> Nil]
    /\ key = [n \in AllNodes |-> NoKey]
    /\ cb = {} /\ tflag = {} /\ dflag = {} /\ dead = {}
    /\ dnext = [n \in AllNodes |-> Nil]
    /\ dhead = Nil /\ olist = <<>> /\ expired = <<>>
    /\ used = {} /\ freed = {}
    /\ readers = {} /\ writer = Nil
    /\ pc = [p \in Procs |-> IF p = Maint THEN "sleep" ELSE "idle"]
    /\ arg = [p \in Procs |-> DefaultKey]
    /\ nd = [p \in Procs |-> Nil]
    /\ el = [t \in Threads |-> Nil]
    /\ walk = <<>> /\ olink = [t \in Threads |-> <<>>] /\ expiring = Nil /\ deleted = Nil
    /\ present = {} /\ stale = [t \in Threads |-> FALSE]

(* The end of a client operation: unlock and forget the locals.  The end   *)
(* of the store_delete nested in the expiry scan returns to the scan.      *)
Return(p) ==
    /\ nd' = [nd EXCEPT ![p] = Nil]
    /\ arg' = [arg EXCEPT ![p] = DefaultKey]
    /\ IF p = Maint
       THEN /\ pc' = [pc EXCEPT ![p] = "expire"]
            /\ UNCHANGED <<readers, el>>
       ELSE /\ pc' = [pc EXCEPT ![p] = "idle"]
            /\ readers' = readers \ {p}
            /\ el' = [el EXCEPT ![p] = Nil]

(* Taking the reader lock at the start of a client operation: readers only *)
(* wait for a writer that holds the lock (the default, reader-preferring   *)
(* pthread_rwlock; the writer-preferring attribute at 196-201 is commented *)
(* out).                                                                   *)
Begin(t, k, at) ==
    /\ pc[t] = "idle" /\ writer = Nil /\ Running
    /\ readers' = readers \cup {t}
    /\ arg' = [arg EXCEPT ![t] = k]
    /\ pc' = [pc EXCEPT ![t] = at]

-----------------------------------------------------------------------------
(* store_add (258-375).  The element is allocated and filled in before the *)
(* reader lock is taken; the loop then runs find_node, the leaf check, the *)
(* split or the insertion under the node's spin, and finally prepends the  *)
(* element to the expiry list.                                             *)
StoreAddBegin(t, k) ==
    /\ Begin(t, k, "add_find")
    /\ CanAlloc
    /\ LET e == Fresh IN
       /\ used' = used \cup {e}
       /\ el' = [el EXCEPT ![t] = e]
       /\ key' = [key EXCEPT ![e] = k]
       /\ keyRef' = [keyRef EXCEPT ![e] = e]
       /\ cb' = cb \cup {e}
       /\ tflag' = tflag \cup {e}
    /\ UNCHANGED <<children, parent, nid, level, dflag, dead, dnext, dhead,
                   olist, expired, freed, writer, nd, walk, olink,
                   expiring, deleted, ghost>>

AddFindNode(t) ==
    /\ pc[t] = "add_find"
    /\ nd' = [nd EXCEPT ![t] = FindNode(arg[t])]
    /\ pc' = [pc EXCEPT ![t] = "add_check"]
    /\ UNCHANGED <<tree, flags, heap, lock, arg, el, walk, olink, expiring,
                   deleted, ghost>>

(* A childless non-root node with the same key: the add fails (and el is   *)
(* never freed).  With another key the leaf must be pushed down first;     *)
(* otherwise the element is inserted under the node.                       *)
AddCheck(t) ==
    LET n == nd[t]
        leaf == IsLeaf(n) /\ n # Root
    IN
    /\ pc[t] = "add_check"
    /\ \/ /\ leaf /\ KeyOf(n) = arg[t]
          /\ Return(t)
       \/ /\ leaf /\ KeyOf(n) # arg[t]
          /\ pc' = [pc EXCEPT ![t] = "add_split"]
          /\ UNCHANGED <<readers, arg, nd, el>>
       \/ /\ ~leaf
          /\ pc' = [pc EXCEPT ![t] = "add_insert"]
          /\ UNCHANGED <<readers, arg, nd, el>>
    /\ UNCHANGED <<tree, flags, heap, writer, walk, olink, expiring, deleted, ghost>>

(* The split: a new node `inject` copies the leaf's data, destructor and   *)
(* key_ref one level down; under the leaf's spin it becomes the only child *)
(* if the leaf is still childless (else it is dropped).  Either way the    *)
(* loop restarts.  An allocation failure breaks out: the add fails.        *)
AddSplit(t) ==
    LET n == nd[t] IN
    /\ pc[t] = "add_split"
    /\ \/ /\ ~CanAlloc
          /\ Return(t)
          /\ UNCHANGED <<children, parent, nid, level, keyRef, cb, used>>
       \/ /\ CanAlloc
          /\ LET i == Fresh
                 lv == level[n] + 1
             IN /\ used' = used \cup {i}
                /\ parent' = [parent EXCEPT ![i] = n]
                /\ level' = [level EXCEPT ![i] = lv]
                /\ nid' = [nid EXCEPT ![i] = ChildId(KeyOf(n), lv)]
                /\ keyRef' = [keyRef EXCEPT ![i] = keyRef[n]]
                /\ cb' = IF n \in cb THEN cb \cup {i} ELSE cb
                /\ children' = IF IsLeaf(n)
                               THEN [children EXCEPT ![n] = <<i>>]
                               ELSE children
          /\ pc' = [pc EXCEPT ![t] = "add_find"]
          /\ UNCHANGED <<readers, arg, nd, el>>
    /\ UNCHANGED <<key, flags, freed, writer, walk, olink, expiring, deleted, ghost>>

(* The rescan under the node's spin: a child with the same id that is not *)
(* on the delete list (a racing insert of the same slice).                 *)
DupChildNotRescanned(n, i) == FALSE

DupChild(n, i) == \E c \in Range(children[n]) : nid[c] = i /\ c \notin dflag

(* Under the node's spin: rescan the children for a live node with the     *)
(* same id and retry, or prepend the element.                              *)
AddInsert(t) ==
    LET n  == nd[t]
        e  == el[t]
        lv == level[n] + 1
        i  == ChildId(arg[t], lv)
        dup == DupChild(n, i)
    IN
    /\ pc[t] = "add_insert"
    /\ parent' = [parent EXCEPT ![e] = n]
    /\ level' = [level EXCEPT ![e] = lv]
    /\ nid' = [nid EXCEPT ![e] = i]
    /\ \/ /\ dup
          /\ pc' = [pc EXCEPT ![t] = "add_find"]
          /\ UNCHANGED <<children, present, stale>>
       \/ /\ ~dup
          /\ children' = [children EXCEPT ![n] = <<e>> \o @]
          /\ pc' = [pc EXCEPT ![t] = "add_olist"]
          /\ present' = present \cup {arg[t]}
          /\ Touch(arg[t])
    /\ UNCHANGED <<keyRef, key, cb, flags, heap, lock, arg, nd, el,
                   walk, olink, expiring, deleted>>

(* ATOMIC_store(&ctx->data->olist, &el, &el->olist) is __atomic_exchange  *)
(* (atomic.h 41): the exchange publishes el as the whole list, and the old *)
(* head it returns is stored into el->olist by a later, plain write.       *)
AddOList(t) ==
    /\ pc[t] = "add_olist"
    /\ olist' = <<el[t]>>
    /\ olink' = [olink EXCEPT ![t] = olist]
    /\ pc' = [pc EXCEPT ![t] = "add_link"]
    /\ UNCHANGED <<tree, tflag, dflag, dead, dnext, dhead, expired, heap,
                   lock, arg, nd, el, walk, expiring, deleted, ghost>>

(* A list the node e ends (nothing was linked after it yet), with the      *)
(* list l appended behind e.                                               *)
LinkAfter(seq, e, l) == IF e \in Range(seq) THEN seq \o l ELSE seq

(* The write el->olist = old, then unlock.  Whichever list el has reached *)
(* meanwhile (ctx->data->olist, ctx->expired, the scan's local list, or   *)
(* the old list another add's exchange returned)                           *)
(* gets the old list behind el; if the scan has already taken el off, the *)
(* old list hangs from a node no list reaches.                             *)
AddLink(t) ==
    LET e == el[t] IN
    /\ pc[t] = "add_link"
    /\ olist' = LinkAfter(olist, e, olink[t])
    /\ expired' = LinkAfter(expired, e, olink[t])
    /\ walk' = LinkAfter(walk, e, olink[t])
    /\ olink' = [u \in Threads |->
                   IF u = t THEN <<>> ELSE LinkAfter(olink[u], e, olink[t])]
    /\ Return(t)
    /\ UNCHANGED <<tree, tflag, dflag, dead, dnext, dhead, heap, writer,
                   expiring, deleted, ghost>>

-----------------------------------------------------------------------------
(* store_delete (442-481), run by a client under its own reader lock or by *)
(* the maintenance thread inside the expiry scan, which already holds it.  *)
(* The leaf check happens before the spin is taken; under the spin only    *)
(* the delete flag is tested.                                              *)
StoreDeleteBegin(t, k) ==
    /\ Begin(t, k, "del_find")
    /\ UNCHANGED <<tree, flags, heap, writer, nd, el, walk, olink, expiring,
                   deleted, ghost>>

DeleteFind(p) ==
    LET n == FindNode(arg[p]) IN
    /\ pc[p] = "del_find"
    /\ IF parent[n] # Nil /\ IsLeaf(n) /\ KeyOf(n) = arg[p]
       THEN /\ nd' = [nd EXCEPT ![p] = n]
            /\ pc' = [pc EXCEPT ![p] = "del_mark"]
            /\ UNCHANGED <<readers, arg, el, stale>>
       ELSE Return(p) /\ UNCHANGED stale
    /\ UNCHANGED <<tree, flags, heap, writer, walk, olink, expiring, deleted,
                   present>>

DeleteMark(p) ==
    LET n == nd[p] IN
    /\ pc[p] = "del_mark"
    /\ IF n \notin dflag
       THEN /\ dflag' = dflag \cup {n}
            /\ dnext' = [dnext EXCEPT ![n] = dhead]
            /\ dhead' = n
            /\ present' = present \ {arg[p]}
            /\ Touch(arg[p])
       ELSE UNCHANGED <<dflag, dnext, dhead, present, stale>>
    /\ Return(p)
    /\ UNCHANGED <<tree, tflag, dead, olist, expired, heap, writer, walk, olink,
                   expiring, deleted>>

-----------------------------------------------------------------------------
(* store_find (386-430): find_node, then, in a separate read, the key      *)
(* comparison and the test that the node found is childless.              *)
StoreFindBegin(t, k) ==
    /\ Begin(t, k, "find_node")
    /\ UNCHANGED <<tree, flags, heap, writer, nd, el, walk, olink, expiring,
                   deleted, ghost>>

FindNodeStep(t) ==
    /\ pc[t] = "find_node"
    /\ nd' = [nd EXCEPT ![t] = FindNode(arg[t])]
    /\ pc' = [pc EXCEPT ![t] = "find_check"]
    /\ UNCHANGED <<tree, flags, heap, lock, arg, el, walk, olink, expiring,
                   deleted, ghost>>

(* What store_find returns from the node find_node gave it.                *)
FindResult(t) ==
    LET n == nd[t] IN keyRef[n] # Nil /\ KeyOf(n) = arg[t] /\ IsLeaf(n)

FindCheck(t) ==
    /\ pc[t] = "find_check"
    /\ Return(t)
    /\ stale' = [stale EXCEPT ![t] = FALSE]
    /\ UNCHANGED <<tree, flags, heap, writer, walk, olink, expiring, deleted,
                   present>>

-----------------------------------------------------------------------------
(* store_thread (637-696).  After the sleep, under the reader lock, the    *)
(* expiry list is swapped out and the previous generation is scanned: a    *)
(* dead node is released, any other one leaves the expiry list and its key *)
(* is passed to store_delete.  Then store_prune runs.                      *)
StoreThreadSwapScansNew ==
    /\ pc[Maint] = "sleep" /\ writer = Nil
    /\ readers' = readers \cup {Maint}
    /\ walk' = olist
    /\ expired' = olist
    /\ olist' = <<>>
    /\ pc' = [pc EXCEPT ![Maint] = "expire"]
    /\ UNCHANGED <<tree, tflag, dflag, dead, dnext, dhead, heap, writer,
                   arg, nd, el, olink, expiring, deleted, ghost>>

StoreThreadSwap ==
    /\ pc[Maint] = "sleep" /\ writer = Nil
    /\ readers' = readers \cup {Maint}
    /\ walk' = expired
    /\ expired' = olist
    /\ olist' = <<>>
    /\ pc' = [pc EXCEPT ![Maint] = "expire"]
    /\ UNCHANGED <<tree, tflag, dflag, dead, dnext, dhead, heap, writer,
                   arg, nd, el, olink, expiring, deleted, ghost>>

(* node->mask &= ~MASK_TIME_LIST: the node has left the expiry list.       *)
KeepTimeList(n) == tflag' = tflag

LeaveTimeList(n) == tflag' = tflag \ {n}

StoreThreadExpire ==
    /\ pc[Maint] = "expire"
    /\ \/ /\ walk = <<>>
          /\ readers' = readers \ {Maint}
          /\ expiring' = Nil
          /\ pc' = [pc EXCEPT ![Maint] = "prune"]
          /\ UNCHANGED <<tree, tflag, heap, walk, arg>>
       \/ /\ walk # <<>>
          /\ walk' = Tail(walk)
          /\ LET n == Head(walk) IN
             \/ /\ n \in dead
                /\ ReleaseNode(n)
                /\ UNCHANGED <<children, parent, nid, level, keyRef, cb,
                               tflag, used, pc, arg, expiring>>
             \/ /\ n \notin dead
                /\ LeaveTimeList(n)
                /\ expiring' = n
                /\ IF key[keyRef[n]] # NoKey
                   THEN /\ arg' = [arg EXCEPT ![Maint] = key[keyRef[n]]]
                        /\ pc' = [pc EXCEPT ![Maint] = "del_find"]
                   ELSE UNCHANGED <<arg, pc>>
                /\ UNCHANGED <<tree, heap>>
          /\ UNCHANGED readers
    /\ UNCHANGED <<dflag, dead, dnext, dhead, olist, expired, writer, nd, el,
                   olink, deleted, ghost>>

(* store_prune (500-543): take the writer lock and detach the delete list. *)
StorePruneBegin ==
    /\ pc[Maint] = "prune" /\ writer = Nil /\ readers = {}
    /\ writer' = Maint
    /\ deleted' = dhead
    /\ dhead' = Nil
    /\ pc' = [pc EXCEPT ![Maint] = "prune_loop"]
    /\ UNCHANGED <<tree, tflag, dflag, dead, dnext, olist, expired, heap,
                   readers, arg, nd, el, walk, olink, expiring, present, stale>>

(* store_unhook (772-793): n's parent's child list without n.             *)
Unhooked(n) == Remove(children[parent[n]], n)

(* One iteration of the prune loop: unhook the node; if its parent (not    *)
(* the root) is left childless, mark it, clear its destructor and make it  *)
(* the next node of the loop; release the node unless it is still on the  *)
(* expiry list, in which case it is marked dead for the expiry scan.       *)
StorePruneStep ==
    /\ pc[Maint] = "prune_loop"
    /\ \/ /\ deleted = Nil
          /\ writer' = Nil
          /\ pc' = [pc EXCEPT ![Maint] = IF Cancelled THEN "cleanup" ELSE "sleep"]
          /\ UNCHANGED <<tree, flags, heap, deleted>>
       \/ /\ deleted # Nil
          /\ LET n    == deleted
                 p    == parent[n]
                 rest == dnext[n]
                 kids == Unhooked(n)
                 collapse == kids = <<>> /\ parent[p] # Nil
             IN /\ children' = [children EXCEPT ![p] = kids]
                /\ cb' = IF collapse THEN cb \ {p} ELSE cb
                /\ dnext' = IF collapse THEN [dnext EXCEPT ![p] = rest] ELSE dnext
                /\ deleted' = IF collapse THEN p ELSE rest
                /\ dflag' = ((dflag \cup IF collapse THEN {p} ELSE {})
                              \ IF n \in tflag THEN {n} ELSE {})
                /\ IF n \notin tflag
                   THEN ReleaseNode(n) /\ UNCHANGED dead
                   ELSE dead' = dead \cup {n} /\ UNCHANGED <<key, freed>>
          /\ UNCHANGED <<writer, pc>>
    /\ UNCHANGED <<parent, nid, level, keyRef, tflag, dhead, olist, expired,
                   used, readers, arg, nd, el, walk, olink, expiring, present,
                   stale>>

-----------------------------------------------------------------------------
(* Views of the structure used by the properties.                          *)
RECURSIVE Below(_, _)
Below(S, Skip) ==
    IF S = {} THEN {}
    ELSE S \cup Below(UNION {{c \in Range(children[n]) : c \notin Skip} : n \in S},
                      Skip)

Reach == Below({Root}, {})              \* hooked into the trie
Live  == Below({Root}, dflag)           \* reachable by find_node
LiveLeaves == {n \in Live \ {Root} : IsLeaf(n)}

RECURSIVE Chain(_, _)
Chain(n, seen) ==
    IF n = Nil \/ n \in seen THEN seen ELSE Chain(dnext[n], seen \cup {n})

RECURSIVE Ancestors(_)
Ancestors(n) == IF parent[n] \in {Nil, Root} THEN {}
                ELSE {parent[n]} \cup Ancestors(parent[n])

(* The nodes on the expiry lists: ctx->data->olist, ctx->expired, the    *)
(* scan's local list and the old lists held by adds between exchange and  *)
(* link.                                                                   *)
ExpiryLists ==
    Range(olist) \cup Range(expired) \cup Range(walk)
    \cup UNION {Range(olink[t]) : t \in Threads}

(* Nodes some list, some pointer or some thread may still dereference.     *)
InUse ==
    Reach \cup Chain(dhead, {}) \cup Chain(deleted, {}) \cup ExpiryLists
    \cup ({nd[p] : p \in Procs} \ {Nil})

-----------------------------------------------------------------------------
(* store_terminate (211-243), called once no other operation is under way  *)
(* (operations after it are undefined): tp_release_thread cancels the     *)
(* maintenance thread, and the caller waits for it.                        *)
StoreTerminate(t) ==
    /\ \A u \in Threads : pc[u] = "idle"
    /\ pc' = [pc EXCEPT ![t] = "terminate"]
    /\ UNCHANGED <<tree, flags, heap, lock, arg, nd, el, walk, olink, expiring,
                   deleted, ghost>>

(* The cancellation is acted on at the cancellation point of store_thread, *)
(* its sleep, so a pass in progress completes first; the cleanup handler   *)
(* pushed at 642, store_cleanup (705-770), begins with store_prune.        *)
StoreCancel(t) ==
    /\ pc[t] = "terminate" /\ pc[Maint] = "sleep"
    /\ pc' = [pc EXCEPT ![t] = "joining", ![Maint] = "prune"]
    /\ UNCHANGED <<tree, flags, heap, lock, arg, nd, el, walk, olink, expiring,
                   deleted, ghost>>

(* The nodes store_cleanup's bottom-up walk releases: from ctx->data it    *)
(* descends to a first child, frees a childless node, moves on to its next *)
(* sibling or back to the parent, and stops when only the root is left.    *)
CleanupReach == Reach \ {Root}

(* store_cleanup after its store_prune: under the writer lock, release     *)
(* every node of the trie (a leaf's key bytes with it) and the root.       *)
StoreCleanup ==
    LET T == CleanupReach
        L == {n \in T : IsLeaf(n) /\ keyRef[n] # Nil}
    IN
    /\ pc[Maint] = "cleanup" /\ writer = Nil /\ readers = {}
    /\ freed' = freed \cup T
    /\ key' = [n \in AllNodes |-> IF \E l \in L : keyRef[l] = n THEN NoKey
                                  ELSE key[n]]
    /\ children' = [n \in AllNodes |-> IF n \in T \cup {Root} THEN <<>>
                                       ELSE children[n]]
    /\ pc' = [pc EXCEPT ![Maint] = "exited"]
    /\ UNCHANGED <<parent, nid, level, keyRef, cb, flags, used, lock, arg, nd,
                   el, walk, olink, expiring, deleted, ghost>>

(* tp_wait_for_thread returns; the context is freed.                       *)
StoreTerminateEnd(t) ==
    /\ pc[t] = "joining" /\ pc[Maint] = "exited"
    /\ pc' = [pc EXCEPT ![t] = "terminated"]
    /\ UNCHANGED <<tree, flags, heap, lock, arg, nd, el, walk, olink, expiring,
                   deleted, ghost>>

Terminated == \E t \in Threads : pc[t] = "terminated"

-----------------------------------------------------------------------------
(* A thread inside an operation keeps running (it waits for no one once it *)
(* holds the reader lock); starting an operation is optional.              *)
ThreadStep(t) ==
    \/ AddFindNode(t) \/ AddCheck(t) \/ AddSplit(t) \/ AddInsert(t)
    \/ AddOList(t) \/ AddLink(t) \/ FindNodeStep(t) \/ FindCheck(t)
    \/ DeleteFind(t) \/ DeleteMark(t)
    \/ StoreCancel(t) \/ StoreTerminateEnd(t)

MaintStep ==
    \/ StoreThreadSwap \/ StoreThreadExpire \/ DeleteFind(Maint)
    \/ DeleteMark(Maint) \/ StorePruneBegin \/ StorePruneStep
    \/ StoreCleanup

Next ==
    \/ \E t \in Threads, k \in Keys :
          StoreAddBegin(t, k) \/ StoreDeleteBegin(t, k) \/ StoreFindBegin(t, k)
    \/ \E t \in Threads : ThreadStep(t) \/ StoreTerminate(t)
    \/ MaintStep
    \/ Terminated /\ UNCHANGED vars     \* the program has ended

Fairness == (\A t \in Threads : WF_vars(ThreadStep(t))) /\ WF_vars(MaintStep)

Spec == Init /\ [][Next]_vars /\ Fairness

-----------------------------------------------------------------------------
(* The comparison of get_bits with the arithmetic slice over every slice  *)
(* of up to eight bits of the two-byte buffers of SliceBytes.  It depends  *)
(* on constants only, so TLC evaluates it once, before the search.         *)
SlicesAgree ==
    \A b1, b2 \in SliceBytes, index \in 0..15, len \in 1..8 :
        index + len <= 16 =>
            get_bits(<<b1, b2>>, index, len) = Slice(b1 * 256 + b2, 16, index, len)

(* A key of KeyBits <= 8 bits as the one-byte buffer find_node slices:   *)
(* its bits first, most significant first.                                *)
KeyBuf(k) == <<k * 2^(8 - KeyBits)>>

(* get_bits, which find_node, the split and the insert call with the     *)
(* level's bit index, returns the slice of the key's bitstream that       *)
(* GetBits takes: for the id of every hooked node with a key, and for     *)
(* every slice of up to eight bits of a two-byte buffer, those that span  *)
(* the byte boundary (where the recursion splits the slice and the shift  *)
(* is truncated to uint8_t) included.                                     *)
BitSliceMatches ==
    /\ SlicesAgree
    /\ \A n \in Reach \ {Root} :
           KeyOf(n) # NoKey =>
               nid[n] = get_bits(KeyBuf(KeyOf(n)), level[n] * Bits, Bits)

(* K1: on the path to every hooked node that still has its key, each       *)
(* node's id is the key slice of its level, as the split and the insert    *)
(* compute it from the key owner's bytes.                                  *)
PathMatchesKey ==
    \A n \in Reach \ {Root} :
        KeyOf(n) # NoKey =>
            \A a \in Ancestors(n) \cup {n} :
                nid[a] = GetBits(KeyOf(n), level[a] * Bits, Bits)

(* K2: no two leaves that find_node can reach hold the same key, although *)
(* concurrent adds, splits and deletes race on the same child lists.       *)
UniqueLiveKey ==
    \A a, b \in LiveLeaves : a # b => KeyOf(a) # KeyOf(b)

(* MASK_DEAD sequencing (spec 9): a dead node is unhooked, and still on    *)
(* the expiry list so that the expiry scan will free it.                   *)
DeadIsPending ==
    \A n \in dead \ freed :
        /\ n \notin Reach
        /\ n \in ExpiryLists

(* The lifespan of store_init: every element an add has published and    *)
(* that is still hooked into the trie (or dead, waiting to be freed) with  *)
(* MASK_TIME_LIST set is on an expiry list, so a later scan will delete    *)
(* it, although store_add publishes itself and links the older elements   *)
(* behind it in two steps while the maintenance thread swaps and scans     *)
(* the lists.                                                              *)
ExpiryTracked ==
    \A n \in tflag \ freed :
        \/ n \in ExpiryLists
        \/ \E t \in Threads : el[t] = n /\ pc[t] \in {"add_insert", "add_olist"}
        \/ n \notin dead \cup Reach

(* Memory safety: nothing reachable, listed or held by a thread has been  *)
(* freed, nor has the parent or key owner of such a node.                  *)
NoUseAfterFree ==
    \A n \in InUse :
        /\ n \notin freed
        /\ parent[n] \notin freed
        /\ keyRef[n] \notin freed

(* The expiry scan's store_delete marks the leaf that holds the expiring  *)
(* node's own value, never a later value of the same key.                  *)
ExpiryDeletesOwnValue ==
    pc[Maint] = "del_mark" => keyRef[nd[Maint]] = expiring

(* store_find is linearizable: when the key's presence did not change     *)
(* during the call, the result is that presence.                           *)
FindLinearizable ==
    [][\A t \in Threads :
         (pc[t] = "find_check" /\ ~stale[t]) =>
             FindResult(t) = (arg[t] \in present)]_vars

=============================================================================
