# TLA+ models of eneq/misc

This directory holds TLA+ models of the concurrent parts of the library, of the
linked list, of the block allocator and of the configuration manager, the
TLC configurations that check them, and `PROJECT.json`. That file records the
modules, the runs, the source lines each definition models, the findings and
the hazards. Everything here was written from the C source under `src/`.

## The system

The library is a set of C building blocks. Two of them carry the concurrency:

* **Radix store** (`src/c-code/store.c`) is a bit-sliced trie from fixed-size
  keys to values.
  * `store_add`, `store_find` and `store_delete` run in client threads. They
    take the store's rwlock for reading. The trie is changed under per-node
    spin locks, and new elements are prepended to the expiry list `olist`
    with an atomic exchange.
  * Deletion is logical: `store_delete` sets `MASK_DELETE_LIST` and prepends
    the leaf to the delete list `dlist`.
  * One maintenance thread (`store_thread`) sleeps for the lifespan and then,
    under the reader lock:
    1. swaps out the expiry list;
    2. scans the previous generation. Dead nodes are freed. Every other node
       loses `MASK_TIME_LIST` and its key is passed to `store_delete`.
  * The maintenance thread then calls `store_prune`. Only prune takes the
    writer lock. It detaches the delete list and unhooks each node. A parent
    left childless is collapsed onto the list. A node is freed unless it is
    still on the expiry list, in which case it is marked `MASK_DEAD` for the
    expiry scan to free.
  * A key's bytes are owned by one node (`key_ref`). A split (pushing a leaf
    down one level when a second key shares its prefix) creates a node that
    copies `data`, `cb` and `key_ref`.
* **Event engine** (`src/c-code/event.c`) dispatches events to listeners.
  * Clients register event types (`evm_register_type`), add listeners and
    remove them. Removal is logical: the callback is cleared.
  * Type definitions and listener lists are prepended with `ATOMIC_store`.
    Adds and dispatches hold the listener rwlock for reading.
  * `evm_start_session` queues a session under a spin lock and signals a
    condition variable. Worker threads (`evm_worker`) pop sessions under
    the mutex, or wait.
  * `evm_session_process` dispatches the session's events generation by
    generation. Listeners append children to the next generation, and the
    session callback may halt.
  * A maintenance thread unlinks removed listeners under the writer lock
    and destroys them after releasing it.
* **Linked list** (`src/c-code/list.c`) is a sequential doubly linked list
  of data pointers. The configuration manager keeps its sets, domains and
  keys in it.
* **Block allocator** (`src/unnamed/part_003`, declared in
  `src/c-code/mem_mgr.h`) serves `m_alloc`/`m_free` from one static area.
  * Each block is a `mem_block` header (`data_len`, `state`, `p_prev`,
    `p_next`) followed by its data. The blocks lie back to back over the
    area.
  * Free blocks are on `p_free` and allocated ones on `p_allocated`.
  * `m_alloc` takes the first free block with `data_len > size`. It splits
    the allocation off that block's end when there is room for a header and
    `ALIGNMENT` bytes more; otherwise it takes the whole block.
  * `m_free` marks the block free and pushes it on `p_free`. It then merges
    neighbouring free blocks in one walk from the start of the area.
* **Configuration manager** (`src/unnamed/part_000` from line 48, declared
  in `part_006`) keeps a list of sets. Each set holds a list of domains, and
  each domain a list of key/value pairs, all in list.c lists whose
  destructors (`set_destructor`, `domain_destructor`, `kv_destructor`) free
  the nested lists. Keys compare case-insensitively. Lookups walk the lists
  with `iterate` and a comparison callback; removals use
  `remove_data_by_key`.

## Modules

| Module | Models |
|---|---|
| `Store.tla` | store.c: `store_add`, `store_find`, `store_delete`, `find_node`, `store_thread` (expiry scan), `store_prune`, `store_unhook`, `store_release_node`; `get_bits` of logger.h |
| `MCStore.tla` | Instantiates `Store` for TLC: a pool of three node identities and thread symmetry |
| `EvmListeners.tla` | event.c: `evm_register_type`, `evm_add_listener`, `evm_remove_listener`, the listener walk of `evm_dispatch_event`, `evm_maintenance` |
| `MCEvmListeners.tla` | Two definitions, two listeners, client symmetry |
| `EvmSessions.tla` | event.c: `evm_start_session`, `evm_cancel_session`, the session queue, `evm_worker`, `evm_session_process`, `evm_session_append`, the destroy functions |
| `MCEvmSessions.tla` | Two sessions, four events, worker symmetry |
| `AbstractList.tla` | The contract of list.h: a sequence of data pointers and the value each call returns |
| `List.tla` | list.c: every function, on a heap of node cells; refines `AbstractList` |
| `MCList.tla` | A pool of four node cells |
| `AbstractAlloc.tla` | The contract of mem_mgr.h: the set of live regions and what `m_alloc`/`m_free` return |
| `MemMgr.tla` | part_003: `init_mem`, `remove_from_list`, `split_mem_blk`, `m_alloc`, `merge_free_blk`, `m_free`; refines `AbstractAlloc` |
| `MCMemMgr.tla` | A 36-byte area with 8-byte headers and requests of 0, 3 and 8 bytes |
| `ConfigMgr.tla` | part_000: `cm_initialize`, `cm_create_set`, `cm_remove_set`, `cm_clear_set`, `cm_add_key`, `cm_remove_key`, `cm_remove_domain`, `cm_merge_set`, `cm_release`, with `add_kv`, `create_domain`, `create_kv`, `merge_domains`, `merge_kv`, the destructors and the list.c functions they call |
| `MCConfigMgr.tla` | One set name, two domains, keys `a`, `A` and `b` |

### Store.tla

The state is the heap of `store_elem_t`:

* **Tree fields:** `children` (the sibling chain of each node as a sequence,
  head first), `parent`, `nid`, `level`, `keyRef`, `key` (the key bytes a
  node owns, or `NoKey` once freed) and `cb`.
* **Mask bits:** `tflag`, `dflag` and `dead`.
* **Delete list:** the `dnext` pointers and the head `dhead`. They are kept
  as pointers because prune relinks them.
* **Expiry list and its previous generation:** the sequences `olist` and
  `expired`. Each thread's `olink` is the old list head that store_add's
  `__atomic_exchange` returned, held until the thread writes it into
  `el->olist`.
* **Allocator:** the sets `used` and `freed` of node identities. Freed
  identities are never reused, so a later access is visible.
* **Locks and threads:** the rwlock (`readers`, `writer`) and each thread's
  program counter and locals.

Keys are integers of `KeyBits` bits, and `GetBits` is `Slice`, the
arithmetic meaning of `get_bits` on that bitstream (most significant bit
first). `get_bits` itself (logger.h 84-107) works byte by byte: it shifts the
byte that holds the slice down and masks it with `bitmasks[bit_len]`, and a
slice that spans two bytes is split into `part1` bits of the first byte and
`part2 = ABS(shift)` bits of the second, each fetched recursively, the first
shifted left by `part2` in a `uint8_t`. The module has it as the RECURSIVE
operator `get_bits` over a sequence of bytes, with the `uint8_t` truncation
(`% 256`) kept; `>>` and the mask are written as `\div` and `%` by powers of
two, their meaning on bytes. `BitSliceMatches` checks it against `Slice` for
every slice (index 0..15, length 1..8) of two-byte buffers drawn from
`SliceBytes`, and checks that the id of every hooked node is what `get_bits`
returns on its key's buffer (`KeyBuf`: the key's bits at the top of a byte).
The two-byte comparison depends on constants only, so TLC evaluates it once.

Every operation is split at the points where another thread can change what
it reads:

* **store_add:** find_node; the leaf check; the split attempt (or an
  allocation failure); the insert, including the rescan for a racing
  duplicate; the expiry-list exchange (`AddOList`: `olist` becomes
  `<<el>>`, the old head goes to `olink`); the link (`AddLink`: the old
  list is appended after `el` wherever `el` is now reachable, in `olist`,
  in the maintenance thread's `expired`/`walk`, or in another adder's
  `olink`). Between the two steps the older elements are reachable from no
  list. Only the reader lock keeps `store_prune`, and so a second swap,
  out of that gap: `ExpiryTracked` checks that no element is lost.
* **store_delete:** find_node together with the childless and key check
  (`DeleteFind`); the mark under the spin (`DeleteMark`).
* **store_find:** find_node; the key and childless check.
* **store_thread:** the swap; one scan step per expired node, where the
  nested `store_delete` runs as the maintenance thread's `DeleteFind` and
  `DeleteMark`.
* **store_prune:** taking the writer lock; one loop iteration per step.

A step under a node's spin, or one atomic exchange, is a single action.
`find_node` is one snapshot step. It runs under the reader lock, and every
change it can observe is a single pointer store.

Three ghost variables support the properties:

* `present` is the set of keys a linearizable store would hold.
* `stale[t]` records whether the presence of the key t is looking up changed
  during t's find.
* `visited` is the set of nodes prune has taken off its chain in the
  current pass.


### EvmListeners.tla

The state is the definition list (`defs`, `dnext`, `deid`), each
definition's listener list (`lhead`, `lnext`), each listener's definition
and callback (`ldef`, `lcb`), the allocator sets and the readers of the
rwlock. Both lists are kept as `next` pointers because `ATOMIC_store`
(`__atomic_exchange`, atomic.h:41) publishes the new head before it writes
the new element's `next`. Each prepend is therefore two actions: the
exchange (`RegisterXchg`, `AddListenerXchg`) and the link (`RegisterLink`,
`AddListenerLink`).

* A dispatch (`DispatchBegin`, `DispatchStep`, `DispatchEnd`) takes the read
  lock, finds the definition, walks the list one listener per step and calls
  a listener whose callback is still set.
* The maintenance pass reads `ctx->defs` (`MaintFetch`), sweeps every list
  under the writer lock (`MaintSweep`), and threads the unlinked listeners
  onto a dead list that it destroys after the unlock (`MaintDestroy`).
* The ghosts `added`, `expect` and `invoked` record what a
  dispatch should and did call. `expect` holds the listeners added for the
  event's type, whichever definition of the type they hang on. Because
  `evm_register_type` checks and prepends without a lock (`RegisterFind`
  passes for two clients at once), a type can have two definitions.

### EvmSessions.tla

The state is the session queue (`qhead`, `qtail`, `snext`), each session's
group list (a sequence of `[depth, evs]`), the events' session, generation,
place in the order of creation (the ghost `born`) and dispatched flag, how often each event's destroy callback fired,
the mutex owner, and the set of threads waiting on the condition variable.

* `Init` starts from any nonempty set of created workers (`WorkerPCs`).
  `evm_initialize` stops creating workers at the first failed
  `tp_request_thread` and keeps the ones it has. The slots never filled
  stay `"absent"`, and `evm_destroy` releases only the `Started` ones.

* `StartSession` pushes the session under the spin. `StartSignal` is the
  following `pthread_cond_signal`, taken without the mutex.
* `CancelSession` unlinks a queued session under the spin and destroys it.
* A worker runs `WorkerLock`, `WorkerPop` or `WorkerPopEmpty`, `WorkerWait`,
  and `WorkerRelock`. `SpuriousWake` is a wakeup without a signal.
* Processing is `ProcessGroup` (pop a group and push the next one, whose
  allocation may fail), `DispatchEvent` (listeners may append up to
  `MaxAppend` children, each pushed at the tail of the session's back group,
  and the callback may halt), `GroupDone`, `SkipGroup` and `SessionDone`.

### List.tla and AbstractList.tla

`List` has the header fields `head`, `tail` and `size`, and the node fields
`nxt`, `prv` and `data` over a pool of node cells. `used` and `freed` are
the allocator's sets.

* A freed cell keeps its fields and is never reused. A pointer left to it
  stays visible, and a read through it returns the stale value.
* Every function of list.c is one action, including `remove_node_by_node`
  (`RemoveNode`) and `get_node_by_key` (`NodeByKey`).
* `ALLOC` fails when the pool is exhausted.
* `call` and `ret` record the last call and its result.

`AbstractList` states what list.h promises: a sequence `seq` and, for
each call, its effect and return value. The iterator callback is the
comparison callback the header describes. `List` is shown to implement it
through `AL == INSTANCE AbstractList WITH seq <- Contents`, where
`Contents` is the data reached from `head` through `next`. `SafeSpec`
leaves out `remove_from_tail`, `remove_data_by_key` and `enumerate` from an
element; `Spec` has every call.

### ConfigMgr.tla

The whole heap is one record `h`:

* `lh` and `lt` are the `head` and `tail` of every `list_t`.
* `nx`, `pv` and `dt` are the `next`, `prev` and `data` of every `node_t`.
* `kind`, `nm`, `vl`, `own` and `par` describe every cm object: set, domain
  or pair; its name or key; its value; the list it owns; and the object
  whose list holds it.
* `lnew`/`lgone`, `nnew`/`ngone` and `onew`/`ogone` are the identities
  handed out and freed. No identity is reused, so a pointer left to a freed
  cell stays visible.

The list.c functions are operators on `h`:

* `AddToTail`, `RemoveNode` and `RemoveDataByKey`.
* `Iterate`, a non-recursive `SelectInSeq` over the walk from `head`,
  because a RECURSIVE operator cannot take an operator argument.
* `DestroyList`, `DestroyFrom` and `Destructor`, which are mutually
  recursive, as `destroy_list` and the destructors are.

Each `cm_*` call is one action and includes every list operation and
destructor it runs. An allocation beyond a pool sets `short`, and that call
is not taken (`Do`).

### MemMgr.tla and AbstractAlloc.tla

`MemMgr` keeps the header fields `len` (`data_len`), `state` and `nxt`
(`p_next`) as functions of the byte offset where a header may start. The
area starts zeroed, as the static array does.

* `pfree`, `palloc` and `init` are the three statics. `held` is the
  client's set of pointers.
* `p_prev` is written but never read, so it is left out.
* `m_alloc` is one action. It runs `init_mem` first when `init` is 0, then
  the first-fit loop (`FirstFit`), `split_mem_blk` (`SplitAt`, `SplitLen`)
  or `remove_from_list`, and the push on `p_allocated`.
* `m_free` is one action. It removes the block from `p_allocated` (the
  `assert(0)` branch stops the program, so the action is disabled), pushes
  it on `p_free` and runs the whole `merge_free_blk` walk (`MergeFrom`).
* The lists and walks are RECURSIVE operators with a fuel bound of `SIZE`
  steps, which no correct list reaches.

`AbstractAlloc` states the header's promise. `m_alloc(n)` returns NULL or
an aligned pointer to at least `n` bytes inside the area, apart from every
live region. `m_free` releases the region of a pointer `m_alloc` returned.
`MemMgr` refines it with `live <- Regions`, the regions of the blocks on
`p_allocated`.

## Runs

| Run | cfg | Expect | What it shows |
|---|---|---|---|
| store_safety | `MCStore.cfg` | pass | The byte-wise `get_bits` returns the arithmetic slice of the key for every slice of length 1..8 of every two-byte buffer from `SliceBytes`, spanning slices included (`BitSliceMatches`). K1 (`PathMatchesKey`), K2 (`UniqueLiveKey`) and the MASK_DEAD hand-off (`DeadIsPending`) hold under every interleaving of two clients and the maintenance thread. No expiring element is lost in the gap between store_add's `__atomic_exchange` of the expiry-list head and its link of the old list, even when the maintenance thread swaps the list inside that gap (`ExpiryTracked`). `store_terminate` and its cleanup run in this spec too, but no property of the run speaks of them (see Not modelled). About 1,677,000 distinct states. |
| store_find_split_race | `StoreFindRace.cfg` | violation | `store_find` misses a present key when a split happens between `find_node` and the childless check (store.c:410). |
| store_delete_split_uaf | `StoreDeleteSplit.cfg` | violation | `store_delete`'s unlocked childless check (store.c:461) lets an interior node be marked and freed while its children still point to it. |
| store_expiry_readd | `StoreExpiryReAdd.cfg` | violation | The expiry scan deletes by key (store.c:681), so a value re-added after a delete is deleted at the old value's expiry. |
| evm_listener_safety | `MCEvmListeners.cfg` | pass | No dispatch reaches a freed listener (E2, `NoFreedListenerReached`). Every removed listener is eventually destroyed (`RemovedEventuallyDestroyed`). After `evm_destroy`, every listener ever created has been destroyed exactly once (`ListenersReleased`). About 213,000 distinct states. |
| evm_add_window | `EvmAddWindow.cfg` | violation | With a single client, so that every type is registered once, a dispatch that starts between `evm_add_listener`'s exchange and its link (event.c:415) sees only the new listener and skips every earlier one (E3, `DispatchSeesAdded`). The trace: register `e1`, add `l1`, exchange `l2` in, dispatch `e1`. With two clients the same property also fails through the unlocked check-then-prepend of `evm_register_type` (event.c:363); the run keeps one client so that its trace is the add window. |
| evm_session_safety | `MCEvmSessions.cfg` | pass | The listeners of one event append up to two children, so a group holds siblings and a sibling's children wait in the next group. A session dispatches its events breadth first: no event is dispatched while an event of its session created earlier is still pending, whether an earlier sibling or an event of an earlier generation (E4, `DispatchOrder`). Every event of a freed session is destroyed exactly once, after a halt, a cancel or a failed group allocation (`EventsReleased`). The engine may have fewer workers than requested. About 310,000 distinct states. |
| evm_cancel_tail | `EvmCancelTail.cfg` | violation | `evm_cancel_session` unlinks the last queued session without moving `ctx->tail` (event.c:569). The next push writes into the freed session, and the new session is lost (`QueueWellFormed`). |
| evm_lost_wakeup | `EvmLostWakeup.cfg` | violation | `pthread_cond_signal` without the mutex (event.c:511) is lost when the only worker is between its empty pop and its wait. The queued session then waits forever (`HeadEventuallyPopped`). |
| list_contract | `MCList.cfg` | pass | Under `SafeSpec` the links stay well formed (`ListWellFormed`), and every call changes the list and returns what list.h promises (`ListContract`, the refinement). About 52,000 distinct states. |
| memmgr_contract | `MCMemMgr.cfg` | pass | The blocks tile the area, the two lists hold exactly the free and the allocated blocks, and no two free blocks are neighbours (`HeapConsistent`). Every result is an aligned, in-bounds region of at least the size asked that overlaps no live one (`AllocContract`, the refinement). About 92,000 distinct states. |
| cm_lost_element | `CmLostKey.cfg` | violation | `remove_node_by_node` unlinks the last node of a list without moving `list->tail` (list.c:224). After `cm_remove_set` of the last set, the next `cm_create_set` appends to the freed node, and the new set is unreachable from `cm->sets` (`CfgElementsReachable`). The same path loses domains and keys after `cm_remove_domain` and `cm_remove_key`. |

`PROJECT.json` ("findings") states what each violation means for the code.
Each property of the passing run has a mutant: a plausible slip in the code
it covers that makes TLC report the property violated.

| Property | Mutant |
|---|---|
| `TypeOK` | `get_bits` without the final mask |
| `BitSliceMatches` | `get_bits` splitting a spanning slice with the parts swapped (`part1 = ABS(shift)`) |
| `PathMatchesKey` | the split id computed at the parent's level |
| `UniqueLiveKey` | no rescan of the child list under the spin |
| `DeadIsPending` | the expiry scan does not clear `MASK_TIME_LIST` |
| `EvmListeners` `TypeOK` | the dead list pushed with its arguments swapped |
| `NoFreedListenerReached` | dispatch without the reader lock |
| `RemovedEventuallyDestroyed` | the maintenance sweep visits only the first definition |
| `ListenersReleased` | `evm_destroy_def` destroying only the first listener of a definition |
| `EvmSessions` `TypeOK` | the group's event list not popped after a dispatch |
| `DispatchOrder` | `evm_grp_push_event` linking the new event at the group's head |
| `EventsReleased` | `evm_destroy_session` not destroying the remaining groups |
| `List` `TypeOK` | `get_data_by_key` returning the node it found instead of the node's data |
| `ListWellFormed` | `remove_from_head` not resetting `tail` when the list becomes empty |
| `ListContract` | `get_next` returning the key's own node instead of its `next` |
| `MemMgr` `TypeOK` | `split_mem_blk` without rounding the size up to `ALIGNMENT` |
| `HeapConsistent` | `merge_free_blk` adding the absorbed block's `data_len` without its header |
| `AllocContract` | `m_alloc` returning the block's header instead of `p_new + HEADERSIZE` |

## Bounds

| Constant | Value | Why it is enough |
|---|---|---|
| `Threads` | 2 | Every race found needs two clients plus the maintenance thread; a third adds only symmetric interleavings. |
| `Keys` | `{2, 3}` over `KeyBits = 2`, `Bits = 1` | The keys share their first slice, so a second key splits the first key's leaf, and the trie has its full depth of two levels. |
| `SliceBytes` | `{0, 1, 90, 128, 165, 255}` | All-zero, all-one, lowest-bit-only, highest-bit-only and the alternating patterns `01011010` and `10100101`: every bit position of either byte is 0 in one buffer and 1 in another, so a misplaced shift or mask changes some slice. |
| `Nodes` | 3 | One leaf, one split node and one new leaf: the smallest pool in which a split completes. When the pool is exhausted, the allocation-failure branch of the split runs. |

Clients start operations without bound. Only the pool bounds the state space:
no node identity is ever reused, so a run ends when all three are allocated
and reclaimed.

`Threads` is a symmetry set in every store run.

| Module | Constant | Value | Why it is enough |
|---|---|---|---|
| EvmListeners | `Clients`, `Workers` | 2, 1 | Two clients are needed for two overlapping adds or removes; one dispatching worker is enough to race them against the maintenance pass. `EvmAddWindow.cfg` has one client: the add window needs only one. |
| EvmListeners | `Eids`, `Defs`, `Listeners` | 2, 2, 2 | Two definitions make the maintenance sweep walk a list of definitions. Two listeners on one definition give a list in which the add window hides one. |
| EvmListeners | `MaxDispatch` | 1 | Each worker dispatches once. This bounds the readers, so the maintenance pass eventually gets the writer lock. |
| EvmSessions | `Clients`, `Workers` | 1, 2 | One client starts and cancels. Two workers process two sessions at once (`MCEvmSessions.cfg`). One worker is enough for the lost wakeup. |
| EvmSessions | `Sessions`, `Events`, `MaxDepth`, `MaxAppend` | 2, 5, 2, 2 | Two queued sessions give a queue with a tail to cancel. Five events give a root, two siblings and two grandchildren: three generations, with siblings in one group and the children of both siblings in the next. Events take the lowest free identity, as the allocator of `List` does, so a choice of identity adds no states. |
| List | `Data`, `MaxNodes` | `{a, b}`, 4 | Two data pointers give a repeated key and a missing one. Four cells allow three live nodes plus one freed, so every removal case (head, middle, tail) happens before `ALLOC` fails. |
| MemMgr | `SIZE`, `HEADERSIZE`, `ALIGNMENT` | 36, 8, 4 | The real values are 4096, `sizeof(mem_block)` and 4. What matters is their relation: a header is a multiple of `ALIGNMENT`, and the area holds up to four blocks. Requests of 8 bytes split, 3 bytes are rounded up, and a block too small to split is taken whole. The area fills up, so `m_alloc` also returns NULL. |
| ConfigMgr | `SetNames`, `DomNames`, `Keys` | `{s}`, `{d1, d2}`, `{a, A, b}` | Two domains and two keys give a list of two, whose last element can be removed; `a` and `A` compare equal. |
| ConfigMgr | `MaxObjs`, `MaxLists`, `MaxNodes` | 5, 4, 6 | Enough for three sets, or a set with a domain and two pairs, plus the element added after a removal. |
| MemMgr | `Sizes` | `{0, 3, 8}` | A zero-byte request (a header with no data), one below `ALIGNMENT`, and a multiple of it. A 40-byte area with zero-byte requests exceeds five minutes of checking. |

`EvmListeners` and `EvmSessions` run out of identities: nothing is reused.
The event-engine runs set `CHECK_DEADLOCK FALSE`: after `evm_destroy` nothing can move, and once every session is done,
the workers legitimately idle on the condition variable.

## Fairness

* `Spec` gives weak fairness to every client's in-progress steps. Once a
  thread holds the reader lock it waits for no one: spins are held for a
  bounded scan.
* `Spec` also gives weak fairness to the maintenance thread, which loops
  forever.
* Starting an operation is not fair: clients may stop calling the store.
* `EvmListeners`:
  * A client that has done the exchange of a prepend goes on to link.
  * A worker inside a dispatch finishes it.
  * The maintenance thread, which loops forever, is weakly fair.
* `EvmSessions`:
  * Every worker step is weakly fair except a spurious wakeup.
  * A client that has pushed a session goes on to signal.
  * Starting and cancelling sessions are not fair.
* `EvmListeners`: the client that stopped the engine for `evm_destroy`
  goes on to destroy the definitions.
* `List`, `MemMgr` and `ConfigMgr` are sequential and have no fairness: their
  properties are safety and refinement.

## Not modelled

* **Store:**
  * `store_singleton` and `store_dump`.
  * The values and the destructor calls. The callback has no effect on the
    store.
  * Timestamps: a node expires after one full generation, which is what
    the sleep-based scan does.
  * The read beyond the key buffer when `B` does not divide `8K`. The model
    assumes it does.
  * Leaks of `el` and of dropped split nodes. They are listed as hazards;
    no property covers them yet.
  * What `store_terminate` releases. `store_cleanup` is modelled by the set
    of nodes its walk reaches from `ctx->data`, not step by step. It does not
    release a node that was deleted while on the expiry list and is waiting
    there for the expiry scan: prune unhooks such a node and leaves it
    (`MASK_TIME_LIST`), and the cancelled thread never scans again. The
    comment of `store_terminate` (store.c:207-209) promises to release all
    resources, so the property that states that promise fails by design of
    the cleanup. It is listed as a hazard at store.c:709, at program exit.
* **Event engine:**
  * What `evm_destroy` releases of the sessions. It destroys the sessions
    linked from `ctx->head`. With three sessions, the `evm_cancel_session`
    tail bug (event.c:569) makes a session unreachable from `ctx->head`, and
    its events are never destroyed. With two sessions no push can follow
    such a cancel, so a release property would pass only at that bound. The
    run `evm_cancel_tail` shows the broken tail itself.
  * The paths of `evm_initialize` that return NULL (no worker, or no
    maintenance thread), listed as a hazard because the maintenance thread
    keeps running on the freed context; `evm_terminate` and the singleton.
    A partial worker start-up is modelled.
  * The formatter-based event strings.
  * The listener callbacks' results, which reach the session callback, are
    abstracted to the halt decision.
  * `evm_session_append` from a thread other than the session's own
    listeners. That is a data race with no defined outcome.
* **List:** the destructor callbacks, which have no effect on the list. Calls
  with a NULL handle are not modelled; every function returns early on one.
* **MemMgr:** `p_prev`, which is never read; the debugging getters; the
  bytes of the data areas. Request sizes near `SIZE_MAX`, where
  `size + HEADERSIZE + ALIGNMENT` wraps, are not among the sizes tried.
* **ConfigMgr:** `cm_load_set`, `cm_write_set` and `print_set`, which parse
  and write files; `cm_default_set`, which is `cm_create_set` followed by
  `cm_add_key` calls; the lookups and enumerations, which only read. A
  failing `ALLOC` is not explored: a call that would exhaust a pool is not
  taken.
* **Subprocess (`subprocess.c`):** `sp_create`, `sp_wait`, `sp_poll` and
  `sp_destroy` are wrappers around `pipe`, `fork`, `waitpid` and `kill`.
  They have no state of their own beyond a pid and two descriptors, so a
  model would be a model of the operating system's process table. Two
  points are worth a model later (see Plan):
  * When the first `pipe` succeeds and the second fails, `sp_create`
    frees the child record without closing the first pipe's two
    descriptors.
  * `sp_destroy` waits without a timeout after a successful `kill(SIGTERM)`.
    A successful `kill` only means the signal was sent. A command that
    traps or ignores SIGTERM therefore blocks `sp_destroy` for as long as
    it runs.
* **Collaborators:** the logger (`logger.c`), the string and path helpers
  of `list.h`, `itoa`, `hash_djb2` and the DNS helpers. They are
  sequential string and I/O code that no modelled component calls on its
  core path, and a model of them would be a character-level
  transliteration. Defects seen while reading them are left unchecked:
  `log_this` writes `buf[n - 1]` when vsnprintf reports a truncated
  message (`n > SIZE`), `itoa` puts the sign of a negative value last, and
  `path_join(p, "")` ends in `/`.
* **Atomic primitives:** the pre-4.7 GCC `__sync` variants of `atomic.h`.
  The delete-list exchange, the spin and the release are atomic steps; the
  expiry-list exchange is split into its exchange and its link.

## Plan

1. A passing run of `ConfigMgr` over the sequences that avoid the tail bug
   (no removal of a last element), with a contract for lookups and merges.
2. Abstract specifications: a key/value map for `Store` and an abstract
   event dispatcher. Stating the store.h contract (a key is found after
   its add until its delete) as a refinement showed that it fails within
   the bounds of `MCStore` because of the delete/split race: deleting one
   key marks an interior node and hides another key below it. A refinement
   has to wait for that race to be fixed, or be restricted to histories
   without concurrent deletes.
3. A `Subprocess` module whose environment is a small process table (a
   child that exits, or ignores SIGTERM, or whose pid is reused), checking
   that `sp_destroy` returns and that no descriptor outlives its record.
4. The reader-preferring rwlock starvation of `store_prune` (store.c:202).
   It needs a run with unbounded overlapping readers and a stated fairness
   assumption on lock hand-off. It is listed as a hazard for now.
