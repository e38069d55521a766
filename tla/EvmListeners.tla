---------------------------- MODULE EvmListeners ----------------------------
(***************************************************************************)
(* Event type definitions and their listener lists in src/c-code/event.c. *)
(*                                                                         *)
(* Definitions and listeners are drawn from finite pools of identities.    *)
(* Both lists are kept as next pointers, as in the code, because they are  *)
(* prepended with ATOMIC_store (__atomic_exchange): the new head is        *)
(* published first and its next pointer is written afterwards, a window   *)
(* another thread can observe.  Client threads register types, add and     *)
(* remove listeners; worker threads run evm_dispatch_event over a type's   *)
(* listener list under the reader lock; the maintenance thread unlinks     *)
(* logically removed listeners under the writer lock and destroys them     *)
(* after releasing it.                                                     *)
(***************************************************************************)
EXTENDS Integers, Sequences, SequencesExt, FiniteSets

CONSTANTS
    Clients,     \* threads calling evm_register_type/add_listener/remove_listener
    Workers,     \* worker threads dispatching events
    Maint,       \* the maintenance thread started by evm_initialize
    Eids,        \* event type identifiers
    Defs,        \* identities of evm_def_t allocations
    Listeners,   \* identities of evm_listener_t allocations
    MaxDispatch, \* events each worker dispatches
    NoEid        \* the eid of a definition not yet made

ASSUME /\ Maint \notin Clients \cup Workers
       /\ Defs \subseteq Nat \ {0} /\ Listeners \subseteq Nat \ {0}
       /\ MaxDispatch \in Nat /\ NoEid \notin Eids

Nil   == 0                          \* NULL
Procs == Clients \cup Workers \cup {Maint}

VARIABLES
    defs,       \* ctx->defs, head of the definition list
    dnext,      \* def->next
    deid,       \* def->eid
    lhead,      \* def->listeners
    lnext,      \* listener->next
    ldef,       \* listener->def
    lcb,        \* listeners whose cb is not NULL
    dused,      \* definitions allocated
    lused,      \* listeners allocated
    lfreed,     \* listeners freed by evm_destroy_listener
    destroyed,  \* destroyed[l]: calls of evm_destroy_listener on l
    readers,    \* threads holding ctx->lock for reading
    pc,         \* program counter of every thread
    obj,        \* the definition or listener a thread is inserting / dispatching
    old,        \* the old head returned by the exchange
    cursor,     \* evm_dispatch_event's `listener`
    ndisp,      \* events each worker has dispatched
    mdef,       \* evm_maintenance's `def`
    mdead,      \* evm_maintenance's `dead` list head (linked through next)
    added,      \* ghost: listeners whose evm_add_listener has returned
    expect,     \* ghost: live, added listeners of the type when dispatch began
    invoked     \* ghost: listeners whose callback the dispatch has called

lists  == <<defs, dnext, deid, lhead, lnext, ldef, lcb>>
heap   == <<dused, lused, lfreed, destroyed>>
local  == <<pc, obj, old, cursor, ndisp, mdef, mdead>>
ghost  == <<added, expect, invoked>>
vars   == <<lists, heap, readers, local, ghost>>

PCs == {"idle", "reg_xchg", "reg_link", "add_xchg", "add_link",
        "disp_loop", "sleep", "m_lock", "m_destroy",
        "destroy", "destroyed", "exited"}

(* Type correctness; a listener is destroyed at most once (spec scenario  *)
(* 6: its destroy callback fires exactly once).                            *)
TypeOK ==
    /\ defs \in Defs \cup {Nil}
    /\ dnext \in [Defs -> Defs \cup {Nil}]
    /\ deid \in [Defs -> Eids \cup {NoEid}]
    /\ lhead \in [Defs -> Listeners \cup {Nil}]
    /\ lnext \in [Listeners -> Listeners \cup {Nil}]
    /\ ldef \in [Listeners -> Defs \cup {Nil}]
    /\ {lcb, lused, lfreed, added} \subseteq SUBSET Listeners
    /\ dused \subseteq Defs
    /\ destroyed \in [Listeners -> 0..1]
    /\ readers \subseteq Clients \cup Workers
    /\ pc \in [Procs -> PCs]
    /\ mdef \in Defs \cup {Nil} /\ mdead \in Listeners \cup {Nil}
    /\ cursor \in [Workers -> Listeners \cup {Nil}]
    /\ ndisp \in [Workers -> 0..MaxDispatch]

-----------------------------------------------------------------------------
(* evm_find_def (799-825): walk the definitions from the atomically read   *)
(* head to the first one with the eid.                                     *)
RECURSIVE FindDefFrom(_, _)
FindDefFrom(d, e) ==
    IF d = Nil THEN Nil
    ELSE IF deid[d] = e THEN d ELSE FindDefFrom(dnext[d], e)

FindDef(e) == FindDefFrom(defs, e)

(* The definitions evm_maintenance walks from the head it read.            *)
DefListHeadOnly(d) == IF d = Nil THEN <<>> ELSE <<d>>

RECURSIVE DefList(_)
DefList(d) == IF d = Nil THEN <<>> ELSE <<d>> \o DefList(dnext[d])

RECURSIVE ListenerList(_)
ListenerList(l) == IF l = Nil THEN <<>> ELSE <<l>> \o ListenerList(lnext[l])

(* The reader lock (default attributes: a reader waits only for a writer, *)
(* and the writer only ever holds it inside one atomic sweep below).       *)
NoReadLock(p) == UNCHANGED readers

ReadLock(p) == readers' = readers \cup {p}

Unlock(p) == readers' = readers \ {p}

DefListenersHead(d) == IF lhead[d] = Nil THEN <<>> ELSE <<lhead[d]>>

(* evm_destroy_def (902-916): the listeners it walks from def->listeners.  *)
DefListeners(d) == ListenerList(lhead[d])

(* The engine context has been freed by evm_destroy.                       *)
EngineGone == pc[Maint] = "exited"

Init ==
    /\ defs = Nil
    /\ dnext = [d \in Defs |-> Nil]
    /\ deid = [d \in Defs |-> NoEid]
    /\ lhead = [d \in Defs |-> Nil]
    /\ lnext = [l \in Listeners |-> Nil]
    /\ ldef = [l \in Listeners |-> Nil]
    /\ lcb = {} /\ dused = {} /\ lused = {} /\ lfreed = {}
    /\ destroyed = [l \in Listeners |-> 0]
    /\ readers = {}
    /\ pc = [p \in Procs |-> IF p = Maint THEN "sleep" ELSE "idle"]
    /\ obj = [p \in Procs |-> Nil] /\ old = [p \in Procs |-> Nil]
    /\ cursor = [w \in Workers |-> Nil] /\ ndisp = [w \in Workers |-> 0]
    /\ mdef = Nil /\ mdead = Nil
    /\ added = {} /\ expect = [w \in Workers |-> {}]
    /\ invoked = [w \in Workers |-> {}]

(* evm_create_def: a fresh definition carrying its event id, not yet      *)
(* linked anywhere.                                                        *)
CreateDef(d, e) ==
    /\ dused' = dused \cup {d}
    /\ deid' = [deid EXCEPT ![d] = e]

(* evm_create_listener: a fresh listener of definition d with a callback.  *)
CreateListener(l, d) ==
    /\ lused' = lused \cup {l}
    /\ ldef' = [ldef EXCEPT ![l] = d]
    /\ lcb' = lcb \cup {l}

-----------------------------------------------------------------------------
(* evm_register_type (346-383): the unlocked evm_find_def check, then      *)
(* evm_create_def (827-839) of a fresh allocation.                         *)
RegisterFind(c, e) ==
    /\ pc[c] = "idle"
    /\ FindDef(e) = Nil
    /\ \E d \in Defs \ dused :
         /\ CreateDef(d, e)
         /\ obj' = [obj EXCEPT ![c] = d]
    /\ pc' = [pc EXCEPT ![c] = "reg_xchg"]
    /\ UNCHANGED <<defs, dnext, lhead, lnext, ldef, lcb, lused, lfreed,
                   destroyed, readers, old, cursor, ndisp, mdef, mdead, ghost>>

(* ATOMIC_store(&ctx->defs, &def, &def->next): the exchange publishes the  *)
(* definition ...                                                          *)
RegisterXchg(c) ==
    /\ pc[c] = "reg_xchg"
    /\ defs' = obj[c]
    /\ old' = [old EXCEPT ![c] = defs]
    /\ pc' = [pc EXCEPT ![c] = "reg_link"]
    /\ UNCHANGED <<dnext, deid, lhead, lnext, ldef, lcb, heap, readers, obj,
                   cursor, ndisp, mdef, mdead, ghost>>

(* ... and the old head is written to def->next afterwards.                *)
RegisterLink(c) ==
    /\ pc[c] = "reg_link"
    /\ dnext' = [dnext EXCEPT ![obj[c]] = old[c]]
    /\ pc' = [pc EXCEPT ![c] = "idle"]
    /\ obj' = [obj EXCEPT ![c] = Nil]
    /\ old' = [old EXCEPT ![c] = Nil]
    /\ UNCHANGED <<defs, deid, lhead, lnext, ldef, lcb, heap, readers,
                   cursor, ndisp, mdef, mdead, ghost>>

(* evm_add_listener (385-426): find the definition, evm_create_listener   *)
(* (841-854) with the callback set and next NULL, take the reader lock.    *)
AddListenerFind(c, e) ==
    /\ pc[c] = "idle"
    /\ FindDef(e) # Nil
    /\ \E l \in Listeners \ lused :
         /\ CreateListener(l, FindDef(e))
         /\ obj' = [obj EXCEPT ![c] = l]
    /\ ReadLock(c)
    /\ pc' = [pc EXCEPT ![c] = "add_xchg"]
    /\ UNCHANGED <<defs, dnext, deid, lhead, lnext, dused, lfreed, destroyed,
                   old, cursor, ndisp, mdef, mdead, ghost>>

(* ATOMIC_store(&def->listeners, &retval, &retval->next): publish ...      *)
AddListenerXchg(c) ==
    /\ pc[c] = "add_xchg"
    /\ lhead' = [lhead EXCEPT ![ldef[obj[c]]] = obj[c]]
    /\ old' = [old EXCEPT ![c] = lhead[ldef[obj[c]]]]
    /\ pc' = [pc EXCEPT ![c] = "add_link"]
    /\ UNCHANGED <<defs, dnext, deid, lnext, ldef, lcb, heap, readers, obj,
                   cursor, ndisp, mdef, mdead, ghost>>

(* ... then link the old head, release the lock and return the listener.  *)
AddListenerLink(c) ==
    /\ pc[c] = "add_link"
    /\ lnext' = [lnext EXCEPT ![obj[c]] = old[c]]
    /\ Unlock(c)
    /\ added' = added \cup {obj[c]}
    /\ pc' = [pc EXCEPT ![c] = "idle"]
    /\ obj' = [obj EXCEPT ![c] = Nil]
    /\ old' = [old EXCEPT ![c] = Nil]
    /\ UNCHANGED <<defs, dnext, deid, lhead, ldef, lcb, heap,
                   cursor, ndisp, mdef, mdead, expect, invoked>>

(* evm_remove_listener (428-461): under the reader lock, atomically store  *)
(* NULL into the callback.  A handle is removed once, and only while the   *)
(* caller still owns it (before maintenance frees it).                     *)
RemoveListener(c, l) ==
    /\ pc[c] = "idle"
    /\ l \in added \cap lcb
    /\ lcb' = lcb \ {l}
    /\ UNCHANGED <<defs, dnext, deid, lhead, lnext, ldef, heap, readers,
                   local, ghost>>

(* evm_dispatch_event (712-797): set dispatched, take the reader lock and  *)
(* atomically fetch the head of the type's listener list.  The event's     *)
(* definition was found when the event was created.                        *)
DispatchBegin(w, e) ==
    /\ pc[w] = "idle"
    /\ ndisp[w] < MaxDispatch
    /\ FindDef(e) # Nil
    /\ ReadLock(w)
    /\ cursor' = [cursor EXCEPT ![w] = lhead[FindDef(e)]]
    /\ expect' = [expect EXCEPT ![w] =
                    {l \in added \cap lcb : deid[ldef[l]] = e}]
    /\ invoked' = [invoked EXCEPT ![w] = {}]
    /\ pc' = [pc EXCEPT ![w] = "disp_loop"]
    /\ UNCHANGED <<lists, heap, obj, old, ndisp, mdef, mdead, added>>

(* Whether the atomically fetched callback is called.                      *)
Invokes(l) == l \in lcb

(* One loop iteration: fetch cb, call it if not NULL (and report           *)
(* ListenerResult to the session), move to listener->next.                 *)
DispatchStep(w) ==
    /\ pc[w] = "disp_loop"
    /\ cursor[w] # Nil
    /\ invoked' = [invoked EXCEPT ![w] =
                     IF Invokes(cursor[w]) THEN @ \cup {cursor[w]} ELSE @]
    /\ cursor' = [cursor EXCEPT ![w] = lnext[cursor[w]]]
    /\ UNCHANGED <<lists, heap, readers, pc, obj, old, ndisp, mdef, mdead,
                   added, expect>>

(* End of the list: release the lock and report EventComplete.             *)
DispatchEnd(w) ==
    /\ pc[w] = "disp_loop"
    /\ cursor[w] = Nil
    /\ Unlock(w)
    /\ ndisp' = [ndisp EXCEPT ![w] = @ + 1]
    /\ pc' = [pc EXCEPT ![w] = "idle"]
    /\ expect' = [expect EXCEPT ![w] = {}]
    /\ invoked' = [invoked EXCEPT ![w] = {}]
    /\ UNCHANGED <<lists, heap, obj, old, cursor, mdef, mdead, added>>

-----------------------------------------------------------------------------
(* evm_maintenance (1255-1360).  After the sleep, the head of the          *)
(* definitions is fetched before the writer lock is taken.                 *)
MaintFetch ==
    /\ pc[Maint] = "sleep"
    /\ mdef' = defs
    /\ pc' = [pc EXCEPT ![Maint] = "m_lock"]
    /\ UNCHANGED <<lists, heap, readers, obj, old, cursor, ndisp, mdead, ghost>>

(* `curr->next = dead; dead = curr`: the next pointer a removed listener   *)
(* gets when it is pushed on the dead list whose head was prevHead.        *)
PushDeadSwapped(l, prevHead) == l

PushDead(l, prevHead) == prevHead

After(s, i)  == IF i < Len(s) THEN s[i + 1] ELSE Nil
Before(s, i) == IF i > 1 THEN s[i - 1] ELSE Nil

(* The sweep under the writer lock: every listener of every definition     *)
(* reachable from mdef is visited; those with a NULL callback are unlinked *)
(* (prev->next or def->listeners = curr->next) and pushed on the dead      *)
(* list, in visiting order.  No reader holds the lock meanwhile.           *)
MaintSweep ==
    LET Ds       == ToSet(DefList(mdef))
        Walk(d)  == ListenerList(lhead[d])
        Keep(d)  == SelectSeq(Walk(d), LAMBDA l : l \in lcb)
        DsSeq    == DefList(mdef)
        Gone     == FlattenSeq([i \in DOMAIN DsSeq |->
                        SelectSeq(Walk(DsSeq[i]), LAMBDA l : l \notin lcb)])
        Kept     == UNION {ToSet(Keep(d)) : d \in Ds}
        Pos(s, l) == SelectInSeq(s, LAMBDA x : x = l)
    IN
    /\ pc[Maint] = "m_lock"
    /\ readers = {}
    /\ lhead' = [d \in Defs |->
                   IF d \in Ds THEN After(Keep(d), 0) ELSE lhead[d]]
    /\ lnext' = [l \in Listeners |->
                   IF l \in Kept
                   THEN After(Keep(ldef[l]), Pos(Keep(ldef[l]), l))
                   ELSE IF l \in ToSet(Gone)
                   THEN PushDead(l, Before(Gone, Pos(Gone, l)))
                   ELSE lnext[l]]
    /\ mdead' = IF Gone = <<>> THEN Nil ELSE Last(Gone)
    /\ mdef' = Nil
    /\ pc' = [pc EXCEPT ![Maint] = IF Gone = <<>> THEN "sleep" ELSE "m_destroy"]
    /\ UNCHANGED <<defs, dnext, deid, ldef, lcb, heap, readers, obj, old,
                   cursor, ndisp, ghost>>

(* evm_destroy_listener (917-933): the destroy callback runs, whose effect *)
(* is outside the engine, and each listener of Ls is freed.                *)
DestroyListeners(Ls) ==
    /\ destroyed' = [l \in Listeners |->
                       IF l \in Ls THEN destroyed[l] + 1 ELSE destroyed[l]]
    /\ lfreed' = lfreed \cup Ls

(* After the unlock, `tmp = dead->next; evm_destroy_listener(dead)`        *)
(* (DestroyListeners).                                                    *)
MaintDestroy ==
    /\ pc[Maint] = "m_destroy"
    /\ DestroyListeners({mdead})
    /\ mdead' = lnext[mdead]
    /\ pc' = [pc EXCEPT ![Maint] = IF lnext[mdead] = Nil THEN "sleep"
                                                          ELSE "m_destroy"]
    /\ UNCHANGED <<lists, dused, lused, readers, obj, old, cursor, ndisp,
                   mdef, ghost>>

-----------------------------------------------------------------------------
(* evm_destroy (281-345), called while no other engine call is in          *)
(* progress.  tp_release_thread and tp_wait_for_thread stop each worker    *)
(* and then the maintenance thread; each observes the release where it     *)
(* blocks (a worker between dispatches, the maintenance thread in its      *)
(* sleep), so a dispatch or a maintenance pass in progress completes.      *)
DestroyStop(c) ==
    /\ pc[c] = "idle"
    /\ \A p \in Clients : pc[p] = "idle"
    /\ \A w \in Workers : pc[w] = "idle"
    /\ pc[Maint] = "sleep"
    /\ pc' = [p \in Procs |-> IF p = c THEN "destroy"
                              ELSE IF p \in Clients THEN pc[p]
                              ELSE "exited"]
    /\ UNCHANGED <<lists, heap, readers, obj, old, cursor, ndisp, mdef, mdead,
                   ghost>>

(* Then evm_destroy_def on every definition from ctx->defs: each listener  *)
(* still linked is passed to evm_destroy_listener (919-933).               *)
DestroyDefs(c) ==
    LET Ls == UNION {ToSet(DefListeners(d)) : d \in ToSet(DefList(defs))} IN
    /\ pc[c] = "destroy"
    /\ DestroyListeners(Ls)
    /\ pc' = [pc EXCEPT ![c] = "destroyed"]
    /\ UNCHANGED <<lists, dused, lused, readers, obj, old, cursor, ndisp,
                   mdef, mdead, ghost>>

ClientStep(c) ==
    \/ /\ ~EngineGone
       /\ \/ \E e \in Eids : RegisterFind(c, e) \/ AddListenerFind(c, e)
          \/ \E l \in Listeners : RemoveListener(c, l)
          \/ RegisterXchg(c) \/ RegisterLink(c)
          \/ AddListenerXchg(c) \/ AddListenerLink(c)
          \/ DestroyStop(c)
    \/ DestroyDefs(c)

WorkerStep(w) ==
    \/ \E e \in Eids : DispatchBegin(w, e)
    \/ DispatchStep(w) \/ DispatchEnd(w)

MaintStep == MaintFetch \/ MaintSweep \/ MaintDestroy

Next ==
    \/ \E c \in Clients : ClientStep(c)
    \/ \E w \in Workers : WorkerStep(w)
    \/ MaintStep

(* A thread inside an operation finishes it (spins and list walks are      *)
(* bounded); the maintenance thread loops forever.  Starting an operation  *)
(* is not fair.                                                            *)
Spec ==
    /\ Init /\ [][Next]_vars
    /\ \A c \in Clients : WF_vars(RegisterXchg(c) \/ RegisterLink(c)
                                  \/ AddListenerXchg(c) \/ AddListenerLink(c))
    /\ \A w \in Workers : WF_vars(DispatchStep(w) \/ DispatchEnd(w))
    /\ WF_vars(MaintStep)
    /\ \A c \in Clients : WF_vars(DestroyDefs(c))

-----------------------------------------------------------------------------
(* E2 (evm_maintenance against evm_dispatch_event): no dispatch loop ever  *)
(* stands on a freed listener, and no definition's list links one while   *)
(* the definitions exist (evm_destroy_def frees them with their lists).    *)
NoFreedListenerReached ==
    /\ \A w \in Workers : cursor[w] \notin lfreed
    /\ (\A c \in Clients : pc[c] # "destroyed") =>
          \A d \in dused : ToSet(ListenerList(lhead[d])) \cap lfreed = {}

(* E3: when a dispatch has walked the whole list, every listener that      *)
(* evm_add_listener had returned for the event's type before dispatch     *)
(* began, and that is still not removed, has been called, whichever       *)
(* definition of the type it was linked to.                               *)
DispatchSeesAdded ==
    \A w \in Workers :
        (pc[w] = "disp_loop" /\ cursor[w] = Nil)
            => expect[w] \cap lcb \subseteq invoked[w]

(* Spec scenario 6 and evm_destroy (281-345): once evm_destroy has        *)
(* returned, every listener ever created has been destroyed exactly once:  *)
(* by a maintenance pass if it was removed and swept, by evm_destroy_def   *)
(* if it was still linked.                                                 *)
ListenersReleased ==
    \A c \in Clients :
        pc[c] = "destroyed" => \A l \in lused : destroyed[l] = 1

(* Spec scenario 6: a removed listener is eventually destroyed by a        *)
(* maintenance pass.                                                       *)
RemovedEventuallyDestroyed ==
    \A l \in Listeners : (l \in added /\ l \notin lcb) ~> l \in lfreed

=============================================================================
