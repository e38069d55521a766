---------------------------- MODULE EvmSessions ----------------------------
(***************************************************************************)
(* Sessions, event generations and the worker pool of                      *)
(* src/c-code/event.c.                                                     *)
(*                                                                         *)
(* evm_start_session builds a session holding one group of depth 0 with    *)
(* one event, pushes it on the context's session queue under the qspin     *)
(* spin lock and signals the condition variable without holding the        *)
(* mutex.  A worker (evm_worker) locks the mutex, pops a session or waits  *)
(* on the condition variable, unlocks and runs evm_session_process: it     *)
(* pops groups one by one; for a non-empty group it first pushes a new     *)
(* group one level deeper, then dispatches and destroys the group's        *)
(* events until a session callback halts.  Listeners append child events   *)
(* to the session's back group with evm_session_append.                    *)
(* evm_cancel_session unlinks a queued session under the spin and destroys *)
(* it.                                                                     *)
(*                                                                         *)
(* The listener walk of a dispatch is the subject of EvmListeners; here a  *)
(* dispatch is one step whose effect on the session is what the listeners  *)
(* and the session callback may do: append children and halt.             *)
(***************************************************************************)
EXTENDS Integers, Sequences, SequencesExt, FiniteSets

CONSTANTS
    Clients,   \* threads calling evm_start_session / evm_cancel_session
    Workers,   \* the worker threads
    Sessions,  \* identities of evm_session_t allocations
    Events,    \* identities of evm_event_t allocations
    MaxDepth,  \* listeners append children only to events shallower than this
    MaxAppend, \* evm_session_append calls the listeners of one event make
    NoThread   \* the owner of a free mutex

ASSUME /\ Sessions \subseteq Nat \ {0} /\ Events \subseteq Nat \ {0}
       /\ MaxDepth \in Nat /\ MaxAppend \in Nat /\ NoThread \notin Clients \cup Workers

Nil == 0

VARIABLES
    qhead, qtail, snext,  \* ctx->head, ctx->tail, session->next
    sgroups,   \* sgroups[s]: the session's group list, each [depth, evs]
    sused,     \* sessions allocated
    sfreed,    \* sessions freed by evm_destroy_session
    eused,     \* events allocated
    esess,     \* the session an event belongs to
    egen,      \* the depth of the group an event was pushed into
    born,      \* ghost: every event created, in the order of creation
    edisp,     \* events with dispatched = true
    destroyed, \* destroyed[e]: calls of evm_destroy_event on e
    mutex,     \* the owner of ctx->mutex
    waiting,   \* workers blocked in pthread_cond_wait
    pc,        \* program counter of every thread
    cur,       \* the session a worker processes
    grp,       \* the group a worker has popped ([depth, evs])
    run,       \* evm_session_process's `run`
    released   \* workers tp_release_thread was called on by evm_destroy

queue  == <<qhead, qtail, snext>>
heap   == <<sgroups, sused, sfreed, eused, esess, egen, born, edisp,
           destroyed>>
sync   == <<mutex, waiting, released>>
local  == <<pc, cur, grp, run>>
vars   == <<queue, heap, sync, local>>

Threads == Clients \cup Workers
Group   == [depth : 0..MaxDepth + 1, evs : Seq(Events)]
NoGroup == [depth |-> 0, evs |-> <<>>]

TypeOK ==
    /\ qhead \in Sessions \cup {Nil} /\ qtail \in Sessions \cup {Nil}
    /\ snext \in [Sessions -> Sessions \cup {Nil}]
    /\ \A s \in Sessions : sgroups[s] \in Seq(Group)
    /\ {sused, sfreed} \subseteq SUBSET Sessions
    /\ {eused, edisp} \subseteq SUBSET Events
    /\ esess \in [Events -> Sessions \cup {Nil}]
    /\ egen \in [Events -> 0..MaxDepth + 1]
    /\ born \in Seq(Events)
    /\ destroyed \in [Events -> 0..1]
    /\ mutex \in Workers \cup {NoThread}
    /\ waiting \subseteq Workers /\ released \subseteq Workers
    /\ cur \in [Workers -> Sessions \cup {Nil}]
    /\ grp \in [Workers -> Group]
    /\ run \in [Workers -> BOOLEAN]

-----------------------------------------------------------------------------
(* The sessions linked from ctx->head.                                     *)
RECURSIVE QueueFrom(_, _)
QueueFrom(s, n) ==
    IF s = Nil \/ n = 0 THEN <<>> ELSE <<s>> \o QueueFrom(snext[s], n - 1)

QueueList == QueueFrom(qhead, Cardinality(Sessions))

(* evm_ctx_push_session (988-1014): append at ctx->tail under the spin.    *)
PushSession(s) ==
    /\ snext' = IF qtail # Nil THEN [snext EXCEPT ![qtail] = s] ELSE snext
    /\ qtail' = s
    /\ qhead' = IF qtail # Nil THEN qhead ELSE s

(* Whether evm_cancel_session found the session on the queue.              *)
Found(s) == s \in ToSet(QueueList)

(* The events still held by a session's groups.                            *)
EventsOf(gs) == UNION {ToSet(gs[i].evs) : i \in DOMAIN gs}

(* evm_destroy_session (935-956) after the groups in gs: evm_destroy_grp   *)
(* on every group, evm_destroy_event on every event of it.                 *)
DestroyNoGroups(gs) == destroyed' = destroyed

DestroyGroups(gs) ==
    destroyed' = [e \in Events |->
                    IF e \in EventsOf(gs) THEN destroyed[e] + 1
                    ELSE destroyed[e]]

(* evm_create_grp (870-881): an empty group of the given depth.            *)
NewGroup(d) == [depth |-> d, evs |-> <<>>]

PushEventFront(g, e) == [g EXCEPT !.evs = <<e>> \o @]

(* evm_grp_push_event (1144-1162): the event appended at the group's tail. *)
PushEvent(g, e) == [g EXCEPT !.evs = Append(@, e)]

(* evm_session_push_grp (1081-1098): the group appended at the tail.       *)
PushGroup(gs, g) == Append(gs, g)

(* ALLOC of n events in turn: the n lowest identities never allocated.     *)
NewEvents(n) == SubSeq(SetToSortSeq(Events \ eused, <), 1, n)

(* evm_create_event (883-900), once for each event of cs in turn: new     *)
(* events of session s in a group of depth d.                              *)
CreateEvents(cs, s, d) ==
    /\ eused' = eused \cup ToSet(cs)
    /\ esess' = [e \in Events |-> IF e \in ToSet(cs) THEN s ELSE esess[e]]
    /\ egen' = [e \in Events |-> IF e \in ToSet(cs) THEN d ELSE egen[e]]
    /\ born' = born \o cs

(* evm_initialize (236-266) requests the workers one at a time and stops *)
(* at the first tp_request_thread that fails; the engine then runs with    *)
(* the wcnt workers created so far.  With none the context is freed and    *)
(* NULL returned, so every engine has a nonempty set W of workers; the     *)
(* slots never filled stay "absent".                                       *)
WorkerPCs(W) ==
    [t \in Threads |-> IF t \in W THEN "lock"
                       ELSE IF t \in Workers THEN "absent" ELSE "idle"]

Started == {w \in Workers : pc[w] # "absent"}

Init ==
    /\ qhead = Nil /\ qtail = Nil /\ snext = [s \in Sessions |-> Nil]
    /\ sgroups = [s \in Sessions |-> <<>>]
    /\ sused = {} /\ sfreed = {} /\ eused = {} /\ edisp = {}
    /\ esess = [e \in Events |-> Nil] /\ egen = [e \in Events |-> 0]
    /\ born = <<>>
    /\ destroyed = [e \in Events |-> 0]
    /\ mutex = NoThread /\ waiting = {} /\ released = {}
    /\ \E W \in SUBSET Workers \ {{}} : pc = WorkerPCs(W)
    /\ cur = [w \in Workers |-> Nil] /\ grp = [w \in Workers |-> NoGroup]
    /\ run = [w \in Workers |-> TRUE]

(* evm_create_session (856-868): a fresh session with no groups yet.      *)
CreateSession(s) == sused' = sused \cup {s}

-----------------------------------------------------------------------------
(* evm_start_session (463-537): evm_find_def, create the session, a group  *)
(* of depth 0 and its event, and push the session on the queue.            *)
StartSession(c) ==
    /\ pc[c] = "idle"
    /\ Events \ eused # {}
    /\ \E s \in Sessions \ sused, e \in {Head(NewEvents(1))} :
         /\ CreateSession(s)
         /\ CreateEvents(<<e>>, s, 0)
         /\ sgroups' = [sgroups EXCEPT ![s] = PushGroup(<<>>, PushEvent(NewGroup(0), e))]
         /\ PushSession(s)
    /\ pc' = [pc EXCEPT ![c] = "signal"]
    /\ UNCHANGED <<sfreed, edisp, destroyed, sync, cur, grp, run>>

(* pthread_cond_signal (511), made without holding the mutex: it wakes one *)
(* waiting worker, or nobody when none is waiting yet.                     *)
StartSignal(c) ==
    /\ pc[c] = "signal"
    /\ IF waiting = {}
       THEN /\ pc' = [pc EXCEPT ![c] = "idle"]
            /\ UNCHANGED waiting
       ELSE \E w \in waiting :
            /\ waiting' = waiting \ {w}
            /\ pc' = [pc EXCEPT ![c] = "idle", ![w] = "relock"]
    /\ UNCHANGED <<queue, heap, mutex, released, cur, grp, run>>

(* evm_cancel_session (539-607): search the queue under the spin; unlink   *)
(* the session (prev->next, or ctx->head and, when it empties, ctx->tail)  *)
(* and destroy it.                                                         *)
CancelSession(c, s) ==
    /\ pc[c] = "idle"
    /\ s \in sused
    /\ IF Found(s)
       THEN LET i == SelectInSeq(QueueList, LAMBDA x : x = s) IN
            /\ IF i > 1
               THEN /\ snext' = [snext EXCEPT ![QueueList[i - 1]] = snext[s]]
                    /\ UNCHANGED <<qhead, qtail>>
               ELSE /\ qhead' = snext[s]
                    /\ qtail' = IF snext[s] = Nil THEN Nil ELSE qtail
                    /\ UNCHANGED snext
            /\ DestroyGroups(sgroups[s])
            /\ sfreed' = sfreed \cup {s}
            /\ sgroups' = [sgroups EXCEPT ![s] = <<>>]
       ELSE UNCHANGED <<queue, sgroups, sfreed, destroyed>>
    /\ UNCHANGED <<sused, eused, esess, egen, born, edisp, sync, local>>

-----------------------------------------------------------------------------
(* evm_worker (1215-1253): lock the mutex ...                              *)
WorkerLock(w) ==
    /\ pc[w] = "lock"
    /\ mutex = NoThread
    /\ mutex' = w
    /\ pc' = [pc EXCEPT ![w] = "pop"]
    /\ UNCHANGED <<queue, heap, waiting, released, cur, grp, run>>

(* ... evm_ctx_pop_session (1016-1056) under the spin finds a session:     *)
(* unlock the mutex and start evm_session_process on it ...                *)
WorkerPop(w) ==
    /\ pc[w] = "pop"
    /\ qhead # Nil
    /\ cur' = [cur EXCEPT ![w] = qhead]
    /\ qhead' = snext[qhead]
    /\ qtail' = IF snext[qhead] = Nil THEN Nil ELSE qtail
    /\ snext' = [snext EXCEPT ![qhead] = Nil]
    /\ mutex' = NoThread
    /\ run' = [run EXCEPT ![w] = TRUE]
    /\ pc' = [pc EXCEPT ![w] = "grp"]
    /\ UNCHANGED <<heap, waiting, released, grp>>

(* ... or finds the queue empty and is about to wait ...                   *)
WorkerPopEmpty(w) ==
    /\ pc[w] = "pop"
    /\ qhead = Nil
    /\ pc' = [pc EXCEPT ![w] = "wait"]
    /\ UNCHANGED <<queue, heap, sync, cur, grp, run>>

(* ... pthread_cond_wait releases the mutex and blocks ...                 *)
WorkerWait(w) ==
    /\ pc[w] = "wait"
    /\ mutex' = NoThread
    /\ waiting' = waiting \cup {w}
    /\ pc' = [pc EXCEPT ![w] = "waiting"]
    /\ UNCHANGED <<queue, heap, released, cur, grp, run>>

(* ... a wait may also return without a signal (POSIX allows it) ...       *)
SpuriousWake(w) ==
    /\ w \in waiting
    /\ waiting' = waiting \ {w}
    /\ pc' = [pc EXCEPT ![w] = "relock"]
    /\ UNCHANGED <<queue, heap, mutex, released, cur, grp, run>>

(* ... and returns with the mutex locked again, to retry the pop.          *)
WorkerRelock(w) ==
    /\ pc[w] = "relock"
    /\ mutex = NoThread
    /\ mutex' = w
    /\ pc' = [pc EXCEPT ![w] = "pop"]
    /\ UNCHANGED <<queue, heap, waiting, released, cur, grp, run>>

-----------------------------------------------------------------------------
(* evm_session_process (654-710).  The depth of the group created for the  *)
(* events the current group's listeners append.                            *)
NextDepth(g) == g.depth + 1

(* A non-empty group is popped: evm_create_grp(session, grp->depth+1),     *)
(* which may fail to allocate, is pushed at the back (run is whether that  *)
(* succeeded) before any event of the group is dispatched.                 *)
ProcessGroup(w) ==
    LET s == cur[w]  g == Head(sgroups[s]) IN
    /\ pc[w] = "grp"
    /\ run[w] /\ sgroups[s] # <<>>
    /\ g.evs # <<>>
    /\ \E ok \in BOOLEAN :
         /\ sgroups' = [sgroups EXCEPT ![s] =
                          IF ok THEN PushGroup(Tail(@), NewGroup(NextDepth(g)))
                          ELSE Tail(@)]
         /\ run' = [run EXCEPT ![w] = ok]
    /\ grp' = [grp EXCEPT ![w] = g]
    /\ pc' = [pc EXCEPT ![w] = "event"]
    /\ UNCHANGED <<queue, sused, sfreed, eused, esess, egen, born, edisp,
                   destroyed, sync, cur>>

(* An empty group is popped and destroyed.                                 *)
SkipGroup(w) ==
    /\ pc[w] = "grp"
    /\ run[w] /\ sgroups[cur[w]] # <<>>
    /\ Head(sgroups[cur[w]]).evs = <<>>
    /\ sgroups' = [sgroups EXCEPT ![cur[w]] = Tail(@)]
    /\ UNCHANGED <<queue, sused, sfreed, eused, esess, egen, born, edisp,
                   destroyed, sync, local>>

(* The loop ends (halted, or no group left): evm_destroy_session destroys  *)
(* the groups still on the session with their events, and frees it.        *)
SessionDone(w) ==
    /\ pc[w] = "grp"
    /\ ~run[w] \/ sgroups[cur[w]] = <<>>
    /\ DestroyGroups(sgroups[cur[w]])
    /\ sfreed' = sfreed \cup {cur[w]}
    /\ sgroups' = [sgroups EXCEPT ![cur[w]] = <<>>]
    /\ cur' = [cur EXCEPT ![w] = Nil]
    /\ pc' = [pc EXCEPT ![w] = "lock"]
    /\ UNCHANGED <<queue, sused, eused, esess, egen, born, edisp, sync,
                   grp, run>>

(* evm_session_back_grp (1112-1122): the index of session->tail, 0 when   *)
(* the session has no group.                                               *)
BackGroup(s) == Len(sgroups[s])

(* evm_session_append (609-641), called by the listeners once for each     *)
(* event of cs in turn: each new event of the session is pushed on the     *)
(* session's back group.                                                   *)
SessionAppend(s, cs) ==
    LET back == BackGroup(s) IN
    /\ back > 0
    /\ CreateEvents(cs, s, sgroups[s][back].depth)
    /\ sgroups' = [sgroups EXCEPT ![s][back] = FoldLeft(PushEvent, @, cs)]

(* evm_grp_pop_event (1164-1182): the group's events after its head.       *)
FrontEvent(evs) == evs

PopEvent(evs) == Tail(evs)

(* evm_grp_pop_event and evm_dispatch_event (712-797): the event is marked *)
(* dispatched, its listeners run (and may append up to MaxAppend child     *)
(* events while the event is shallower than MaxDepth), the session         *)
(* callback may set halt; then evm_destroy_event.                          *)
DispatchEvent(w) ==
    LET e == Head(grp[w].evs) IN
    /\ pc[w] = "event"
    /\ run[w] /\ grp[w].evs # <<>>
    /\ edisp' = edisp \cup {e}
    /\ \/ /\ egen[e] < MaxDepth
          /\ \E n \in 1..MaxAppend :
                /\ n <= Cardinality(Events \ eused)
                /\ SessionAppend(cur[w], NewEvents(n))
       \/ UNCHANGED <<eused, esess, egen, born, sgroups>>
    /\ \E halt \in BOOLEAN : run' = [run EXCEPT ![w] = ~halt]
    /\ destroyed' = [destroyed EXCEPT ![e] = @ + 1]
    /\ grp' = [grp EXCEPT ![w].evs = PopEvent(@)]
    /\ UNCHANGED <<queue, sused, sfreed, sync, pc, cur>>

(* The event loop ends (halted or group empty): evm_destroy_grp destroys   *)
(* the events not dispatched.                                              *)
GroupDone(w) ==
    /\ pc[w] = "event"
    /\ ~run[w] \/ grp[w].evs = <<>>
    /\ DestroyGroups(<<grp[w]>>)
    /\ grp' = [grp EXCEPT ![w] = NoGroup]
    /\ pc' = [pc EXCEPT ![w] = "grp"]
    /\ UNCHANGED <<queue, sgroups, sused, sfreed, eused, esess, egen, born,
                   edisp, sync, cur, run>>

-----------------------------------------------------------------------------
(* evm_destroy (281-345).  For each of the wcnt workers in turn,           *)
(* tp_release_thread asks it to stop and tp_wait_for_thread waits until it *)
(* has: a worker is released only once every worker released before it    *)
(* has exited.  The call starts from a client with no call of its own in   *)
(* progress.                                                               *)
StopWorker(c, w) ==
    /\ pc[c] \in {"idle", "stop"}
    /\ w \in Started \ released
    /\ \A v \in released : pc[v] = "exited"
    /\ released' = released \cup {w}
    /\ pc' = [pc EXCEPT ![c] = "stop"]
    /\ UNCHANGED <<queue, heap, mutex, waiting, cur, grp, run>>

(* The release is observed where the worker blocks, in pthread_cond_wait:  *)
(* the wait takes the mutex back and evm_worker_cleanup (1206-1213)        *)
(* unlocks it as the thread exits.                                         *)
WorkerCancelled(w) ==
    /\ w \in released /\ w \in waiting
    /\ mutex = NoThread
    /\ waiting' = waiting \ {w}
    /\ pc' = [pc EXCEPT ![w] = "exited"]
    /\ UNCHANGED <<queue, heap, mutex, released, cur, grp, run>>

(* The sessions evm_destroy walks from ctx->head through next.             *)
QueuedSessions == QueueList

(* Once every worker has exited (the maintenance thread is stopped the     *)
(* same way and is the subject of EvmListeners), evm_destroy destroys the  *)
(* sessions still queued with evm_destroy_session, and frees the context.  *)
DestroyQueued(c) ==
    LET q == QueuedSessions IN
    /\ pc[c] = "stop"
    /\ released = Started /\ \A w \in Started : pc[w] = "exited"
    /\ DestroyGroups(FlattenSeq([i \in DOMAIN q |-> sgroups[q[i]]]))
    /\ sfreed' = sfreed \cup ToSet(q)
    /\ sgroups' = [s \in Sessions |-> IF s \in ToSet(q) THEN <<>> ELSE sgroups[s]]
    /\ pc' = [pc EXCEPT ![c] = "destroyed"]
    /\ UNCHANGED <<queue, sused, eused, esess, egen, born, edisp, sync,
                   cur, grp, run>>

-----------------------------------------------------------------------------
ClientStep(c) ==
    \/ StartSession(c) \/ StartSignal(c)
    \/ \E s \in Sessions : CancelSession(c, s)
    \/ \E w \in Workers : StopWorker(c, w)
    \/ DestroyQueued(c)

WorkerStep(w) ==
    \/ WorkerLock(w) \/ WorkerPop(w) \/ WorkerPopEmpty(w) \/ WorkerWait(w)
    \/ WorkerRelock(w)
    \/ ProcessGroup(w) \/ SkipGroup(w) \/ SessionDone(w)
    \/ DispatchEvent(w) \/ GroupDone(w) \/ WorkerCancelled(w)

Next ==
    \/ \E c \in Clients : ClientStep(c)
    \/ \E w \in Workers : WorkerStep(w) \/ SpuriousWake(w)

(* Workers are scheduled (every step of theirs but a spurious wakeup is    *)
(* weakly fair) and a client that pushed a session goes on to signal.      *)
(* Starting and cancelling sessions are not fair: clients may stop.        *)
Spec ==
    /\ Init /\ [][Next]_vars
    /\ \A w \in Workers : WF_vars(WorkerStep(w))
    /\ \A c \in Clients : WF_vars(StartSignal(c))

-----------------------------------------------------------------------------
(* E4 and the session ordering of spec section 8 (evm_session_process,    *)
(* evm_session_append and the group and event FIFOs): a session dispatches *)
(* its events breadth first, so no event is dispatched while an event of   *)
(* its session created before it is still pending: neither a sibling       *)
(* appended earlier by the same listeners, nor an event of an earlier      *)
(* generation.                                                             *)
DispatchOrder ==
    LET Pos(x) == SelectInSeq(born, LAMBDA y : y = x) IN
    \A e \in edisp, e2 \in eused :
        (esess[e2] = esess[e] /\ Pos(e2) < Pos(e))
            => (e2 \in edisp \/ destroyed[e2] = 1)

(* Spec scenario 5 (evm_destroy_grp / evm_destroy_session after a halt or  *)
(* a cancel): once a session is freed, the destroy callback of every one   *)
(* of its events has fired exactly once.                                   *)
EventsReleased ==
    \A e \in eused : esess[e] \in sfreed => destroyed[e] = 1

(* evm_ctx_push_session relies on ctx->tail being the last session linked  *)
(* from ctx->head (NULL for an empty queue).                               *)
QueueWellFormed ==
    qtail = IF QueueList = <<>> THEN Nil ELSE Last(QueueList)

(* A session at the head of the queue is eventually taken by a worker (or  *)
(* cancelled, or destroyed with the engine): the condition-variable        *)
(* handshake loses no wakeup.                                              *)
HeadEventuallyPopped ==
    \A s \in Sessions : qhead = s ~> (qhead # s \/ s \in sfreed)

=============================================================================
