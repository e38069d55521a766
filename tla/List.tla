-------------------------------- MODULE List --------------------------------
(***************************************************************************)
(* The doubly linked list of list.c: the list_t header (head, tail, size)  *)
(* and the node_t cells (next, prev, data) on a heap of node identities.   *)
(* A freed node keeps its fields and its identity is never handed out      *)
(* again, so a pointer left to it stays visible, and what the code reads   *)
(* through it is the stale value.  Every function is one action: the list  *)
(* is not thread safe and its callers use it from one thread.  SafeSpec    *)
(* leaves out the two functions that unlink the tail node and enumerate    *)
(* from a given element; Spec has every call.                              *)
(***************************************************************************)
EXTENDS Integers, Sequences, SequencesExt, FiniteSets

CONSTANTS
    Data,       \* the data pointers a client stores
    NULL,       \* the null pointer
    MaxNodes    \* node_t allocations before ALLOC fails

Nil == 0
Nodes == 1..MaxNodes
Args == Data \cup {NULL}

VARIABLES
    alive,      \* the handle returned by create_list is live
    head, tail, size,
    nxt, prv, data,
    used,       \* allocated node_t cells
    freed,      \* node_t cells passed to FREE
    call,       \* the last call and its arguments
    ret         \* the value it returned

vars == <<alive, head, tail, size, nxt, prv, data, used, freed, call, ret>>

\* The nodes reached from head through next, at most MaxNodes of them.
RECURSIVE Walk(_, _)
Walk(n, k) == IF n = Nil \/ k = 0 THEN <<>> ELSE <<n>> \o Walk(nxt[n], k - 1)

Chain == Walk(head, MaxNodes)

\* The data a traversal from head sees: the abstract list.
Contents == [i \in 1..Len(Chain) |-> data[Chain[i]]]

\* get_node_by_key: the first node on the chain holding ptr, or NULL.
NodeByKey(ptr) ==
    LET i == SelectInSeq(Chain, LAMBDA n : data[n] = ptr)
    IN IF i = 0 THEN Nil ELSE Chain[i]

\* ALLOC of a node_t: the lowest identity never allocated, if any.
Fresh == Nodes \ (used \cup freed)
NewNode == CHOOSE n \in Fresh : \A m \in Fresh : n <= m

\* A store through a pointer that may be NULL, where the code tests for it.
Set(f, n, v) == IF n = Nil THEN f ELSE [f EXCEPT ![n] = v]

FreeNode(n) == used' = used \ {n} /\ freed' = freed \cup {n}

NodeNotData(n) == n

\* The result of res = p_node->data for a node found or NULL.
DataOf(n) == IF n = Nil THEN NULL ELSE data[n]

TailKept(nh) == tail

\* The tail after remove_from_head: reset when the list became empty.
TailAfterHeadRemoval(nh) == IF nh = Nil THEN Nil ELSE tail

Init ==
    /\ alive = FALSE /\ head = Nil /\ tail = Nil /\ size = 0
    /\ nxt = [n \in Nodes |-> Nil] /\ prv = [n \in Nodes |-> Nil]
    /\ data = [n \in Nodes |-> NULL]
    /\ used = {} /\ freed = {} /\ call = <<>> /\ ret = NULL

\* create_list: a zeroed header, or NULL when ALLOC fails.
create_list ==
    /\ call' = <<"create_list">>
    /\ ~alive
    /\ \/ alive' = TRUE /\ head' = Nil /\ tail' = Nil /\ size' = 0
          /\ ret' = 0
       \/ ret' = NULL /\ UNCHANGED <<alive, head, tail, size>>
    /\ UNCHANGED <<nxt, prv, data, used, freed>>

\* destroy_list: FREE every node reached through next, then the header.
destroy_list ==
    /\ call' = <<"destroy_list">>
    /\ alive
    /\ used' = used \ ToSet(Chain)
    /\ freed' = freed \cup ToSet(Chain)
    /\ alive' = FALSE /\ head' = Nil /\ tail' = Nil /\ size' = 0
    /\ ret' = NULL
    /\ UNCHANGED <<nxt, prv, data>>

\* Both adds return -1 for NULL data or when ALLOC fails.
AddFails(d) ==
    /\ d = NULL \/ Fresh = {}
    /\ ret' = -1
    /\ UNCHANGED <<alive, head, tail, size, nxt, prv, data, used, freed>>

add_to_head(d) ==
    /\ call' = <<"add_to_head", d>>
    /\ alive
    /\ \/ AddFails(d)
       \/ /\ d # NULL /\ Fresh # {}
          /\ LET n == NewNode IN
             /\ data' = [data EXCEPT ![n] = d]
             /\ nxt' = [nxt EXCEPT ![n] = head]
             /\ prv' = [Set(prv, head, n) EXCEPT ![n] = Nil]
             /\ head' = n
             /\ tail' = IF tail = Nil THEN n ELSE tail
             /\ used' = used \cup {n}
          /\ size' = size + 1 /\ ret' = 0
          /\ UNCHANGED <<alive, freed>>

add_to_tail(d) ==
    /\ call' = <<"add_to_tail", d>>
    /\ alive
    /\ \/ AddFails(d)
       \/ /\ d # NULL /\ Fresh # {}
          /\ LET n == NewNode IN
             /\ data' = [data EXCEPT ![n] = d]
             /\ nxt' = [Set(nxt, tail, n) EXCEPT ![n] = Nil]
             /\ prv' = [prv EXCEPT ![n] = tail]
             /\ tail' = n
             /\ head' = IF head = Nil THEN n ELSE head
             /\ used' = used \cup {n}
          /\ size' = size + 1 /\ ret' = 0
          /\ UNCHANGED <<alive, freed>>

\* remove_node_by_node for a node on the chain.  Unlinking the head moves
\* head only; any other node is unlinked through its prev.  The header is
\* reset only when head or tail has become NULL.
RemoveNode(n) ==
    LET h == IF head = n THEN nxt[n] ELSE head IN
    /\ IF head = n
          THEN UNCHANGED <<nxt, prv>>
          ELSE /\ nxt' = [nxt EXCEPT ![prv[n]] = nxt[n]]
               /\ prv' = Set(prv, nxt[n], prv[n])
    /\ size' = size - 1
    /\ FreeNode(n)
    /\ IF h = Nil \/ tail = Nil
          THEN head' = Nil /\ tail' = Nil
          ELSE head' = h /\ tail' = tail

\* remove_data_by_key: get_node_by_key with remove set.
remove_data_by_key(k) ==
    /\ call' = <<"remove_data_by_key", k>>
    /\ alive
    /\ LET n == IF k = NULL THEN Nil ELSE NodeByKey(k) IN
       \/ n # Nil /\ RemoveNode(n) /\ ret' = 1
          /\ UNCHANGED <<alive, data>>
       \/ n = Nil /\ ret' = 0
          /\ UNCHANGED <<alive, head, tail, size, nxt, prv, data, used, freed>>

get_data_by_key(k) ==
    /\ call' = <<"get_data_by_key", k>>
    /\ alive
    /\ ret' = IF k = NULL THEN NULL ELSE DataOf(NodeByKey(k))
    /\ UNCHANGED <<alive, head, tail, size, nxt, prv, data, used, freed>>

SelfOf(n) == n

\* p_node = p_node->next for the node found, if any.
NextOf(n) == IF n = Nil THEN Nil ELSE nxt[n]

get_next(k) ==
    /\ call' = <<"get_next", k>>
    /\ alive
    /\ ret' = DataOf(IF k = NULL THEN head ELSE NextOf(NodeByKey(k)))
    /\ UNCHANGED <<alive, head, tail, size, nxt, prv, data, used, freed>>

\* remove_from_head: the new head keeps its prev to the freed node.
remove_from_head ==
    /\ call' = <<"remove_from_head">>
    /\ alive
    /\ IF head # Nil
          THEN /\ ret' = data[head]
               /\ head' = nxt[head]
               /\ FreeNode(head)
               /\ size' = size - 1
               /\ tail' = TailAfterHeadRemoval(nxt[head])
          ELSE ret' = NULL /\ UNCHANGED <<head, tail, size, used, freed>>
    /\ UNCHANGED <<alive, nxt, prv, data>>

\* remove_from_tail: the new tail keeps its next to the freed node.
remove_from_tail ==
    /\ call' = <<"remove_from_tail">>
    /\ alive
    /\ IF tail # Nil
          THEN /\ ret' = data[tail]
               /\ tail' = prv[tail]
               /\ FreeNode(tail)
               /\ size' = size - 1
               /\ head' = IF prv[tail] = Nil THEN Nil ELSE head
          ELSE ret' = NULL /\ UNCHANGED <<head, tail, size, used, freed>>
    /\ UNCHANGED <<alive, nxt, prv, data>>

get_size ==
    /\ call' = <<"get_size">>
    /\ alive
    /\ ret' = size
    /\ UNCHANGED <<alive, head, tail, size, nxt, prv, data, used, freed>>

\* iterate with the comparison callback: the first node from head whose
\* data is userdata gives the result.
iterate(u) ==
    /\ call' = <<"iterate", u>>
    /\ alive
    /\ ret' = DataOf(NodeByKey(u))
    /\ UNCHANGED <<alive, head, tail, size, nxt, prv, data, used, freed>>

\* enumerate: for a non-NULL data the scan compares node pointers with the
\* data pointer (iter != data), which never match, so it runs off the end
\* and returns NULL; for NULL it is iterate.
enumerate(k, u) ==
    /\ call' = <<"enumerate", k, u>>
    /\ alive
    /\ ret' = IF k = NULL THEN DataOf(NodeByKey(u)) ELSE NULL
    /\ UNCHANGED <<alive, head, tail, size, nxt, prv, data, used, freed>>

\* The calls that keep a well-formed list well formed: not the two that
\* unlink the tail node, and enumerate only from the head.
SafeNext ==
    \/ create_list \/ destroy_list \/ remove_from_head \/ get_size
    \/ \E d \in Args : \/ add_to_head(d) \/ add_to_tail(d)
                       \/ get_data_by_key(d) \/ get_next(d)
    \/ \E u \in Data : iterate(u) \/ enumerate(NULL, u)

\* Every call of list.h.
Next ==
    \/ SafeNext
    \/ \E k \in Data, u \in Data : enumerate(k, u)
    \/ remove_from_tail
    \/ \E d \in Args : remove_data_by_key(d)

SafeSpec == Init /\ [][SafeNext]_vars

Spec == Init /\ [][Next]_vars

-----------------------------------------------------------------------------
\* What each function of list.h returns: a status for the adds and for
\* remove_data_by_key, a count for get_size, a data pointer or NULL for the
\* lookups and removals.
RetType ==
    CASE call = <<>> -> {NULL}
      [] call[1] \in {"add_to_head", "add_to_tail"} -> {0, -1}
      [] call[1] = "create_list" -> {0, NULL}
      [] call[1] = "remove_data_by_key" -> {0, 1}
      [] call[1] = "get_size" -> 0..MaxNodes
      [] OTHER -> Args

TypeOK ==
    /\ alive \in BOOLEAN
    /\ {head, tail} \subseteq Nodes \cup {Nil}
    /\ size \in 0..MaxNodes
    /\ nxt \in [Nodes -> Nodes \cup {Nil}]
    /\ prv \in [Nodes -> Nodes \cup {Nil}]
    /\ data \in [Nodes -> Args]
    /\ used \subseteq Nodes /\ freed \subseteq Nodes
    /\ call \in Seq(STRING \cup Args)
    /\ ret \in RetType

\* The header and the links of a live list describe one chain of allocated
\* nodes: head and tail are NULL together, the chain from head through
\* next ends at tail, every node on it is allocated, each node's prev is
\* the node before it, and size counts them.  This is what every function
\* of list.c assumes of the list it is given (remove_node_by_node writes
\* through prev, add_to_tail through tail).
ListWellFormed ==
    alive =>
      /\ (head = Nil) = (tail = Nil)
      /\ ToSet(Chain) \subseteq used
      /\ tail = IF Chain = <<>> THEN Nil ELSE Last(Chain)
      /\ tail # Nil => nxt[tail] = Nil
      /\ \A i \in 2..Len(Chain) : prv[Chain[i]] = Chain[i - 1]
      /\ size = Len(Chain)

AL == INSTANCE AbstractList WITH seq <- Contents

\* list.c implements the contract of list.h: the data reached from head
\* change as AbstractList says each call changes the sequence, and every
\* call returns what it promises.
ListContract == AL!Spec

=============================================================================
