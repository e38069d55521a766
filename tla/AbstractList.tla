---------------------------- MODULE AbstractList ----------------------------
(***************************************************************************)
(* What list.h promises of the doubly linked list: a sequence of data      *)
(* pointers and, for each call, the value it returns.  Data are compared   *)
(* by pointer, so the same pointer may be in the list more than once and   *)
(* a lookup by key finds its first occurrence.  Every adding call may      *)
(* fail (-1) because it allocates.  The iterator callbacks are the         *)
(* comparison callbacks the header describes: cb(data, user) returns data  *)
(* when data is user and NULL otherwise.                                   *)
(***************************************************************************)
EXTENDS Integers, Sequences, SequencesExt

CONSTANTS
    Data,       \* the data pointers a client stores
    NULL        \* the null pointer

VARIABLES
    alive,      \* a handle returned by create_list and not yet destroyed
    seq,        \* the data from head to tail
    call,       \* the last call and its arguments
    ret         \* the value it returned

vars == <<alive, seq, call, ret>>

Args == Data \cup {NULL}

\* Index of the first occurrence of key k, or 0.
KeyIndex(k) == SelectInSeq(seq, LAMBDA x : x = k)

\* What cb(data, u) returns for the first element at index from or later.
FirstMatch(from, u) ==
    IF \E i \in from..Len(seq) : seq[i] = u THEN u ELSE NULL

Init == alive = FALSE /\ seq = <<>> /\ call = <<>> /\ ret = NULL

\* create_list: an empty list, or NULL when the allocation fails.
CreateList ==
    /\ call' = <<"create_list">>
    /\ ~alive
    /\ \/ alive' = TRUE /\ ret' = 0
       \/ UNCHANGED alive /\ ret' = NULL
    /\ UNCHANGED seq

\* destroy_list: the handle and every element are released.
DestroyList ==
    /\ call' = <<"destroy_list">>
    /\ alive
    /\ alive' = FALSE /\ seq' = <<>> /\ ret' = NULL

\* add_to_head / add_to_tail: 0 if added, -1 for NULL data or no memory.
AddToHead(d) ==
    /\ call' = <<"add_to_head", d>>
    /\ alive
    /\ \/ d # NULL /\ seq' = <<d>> \o seq /\ ret' = 0
       \/ UNCHANGED seq /\ ret' = -1
    /\ UNCHANGED alive

AddToTail(d) ==
    /\ call' = <<"add_to_tail", d>>
    /\ alive
    /\ \/ d # NULL /\ seq' = Append(seq, d) /\ ret' = 0
       \/ UNCHANGED seq /\ ret' = -1
    /\ UNCHANGED alive

\* remove_from_head / remove_from_tail: the data removed, NULL if empty.
RemoveFromHead ==
    /\ call' = <<"remove_from_head">>
    /\ alive
    /\ ret' = IF seq = <<>> THEN NULL ELSE Head(seq)
    /\ seq' = IF seq = <<>> THEN seq ELSE Tail(seq)
    /\ UNCHANGED alive

RemoveFromTail ==
    /\ call' = <<"remove_from_tail">>
    /\ alive
    /\ ret' = IF seq = <<>> THEN NULL ELSE Last(seq)
    /\ seq' = IF seq = <<>> THEN seq ELSE Front(seq)
    /\ UNCHANGED alive

\* remove_data_by_key: 1 if deleted, 0 if not.
RemoveDataByKey(k) ==
    /\ call' = <<"remove_data_by_key", k>>
    /\ alive
    /\ ret' = IF k # NULL /\ KeyIndex(k) # 0 THEN 1 ELSE 0
    /\ seq' = IF k # NULL THEN RemoveFirst(seq, k) ELSE seq
    /\ UNCHANGED alive

\* get_data_by_key: the key if it is in the list, NULL otherwise.
GetDataByKey(k) ==
    /\ call' = <<"get_data_by_key", k>>
    /\ alive
    /\ ret' = IF k # NULL /\ KeyIndex(k) # 0 THEN k ELSE NULL
    /\ UNCHANGED <<alive, seq>>

\* get_next: the first element for NULL, else the one after the key.
GetNext(k) ==
    /\ call' = <<"get_next", k>>
    /\ alive
    /\ LET i == IF k = NULL THEN 0 ELSE KeyIndex(k)
       IN ret' = IF (k = NULL \/ i # 0) /\ i < Len(seq) THEN seq[i + 1]
                 ELSE NULL
    /\ UNCHANGED <<alive, seq>>

GetSize ==
    /\ call' = <<"get_size">>
    /\ alive
    /\ ret' = Len(seq)
    /\ UNCHANGED <<alive, seq>>

\* iterate: the first non-NULL result of the callback, head first.
Iterate(u) ==
    /\ call' = <<"iterate", u>>
    /\ alive
    /\ ret' = FirstMatch(1, u)
    /\ UNCHANGED <<alive, seq>>

\* enumerate: as iterate, starting after the element k last returned, or
\* at the head when k is NULL.
Enumerate(k, u) ==
    /\ call' = <<"enumerate", k, u>>
    /\ alive
    /\ LET from == IF k = NULL THEN 1
                   ELSE IF KeyIndex(k) # 0 THEN KeyIndex(k) + 1
                   ELSE Len(seq) + 1
       IN ret' = FirstMatch(from, u)
    /\ UNCHANGED <<alive, seq>>

Next ==
    \/ CreateList \/ DestroyList \/ RemoveFromHead \/ RemoveFromTail
    \/ GetSize
    \/ \E d \in Args : \/ AddToHead(d) \/ AddToTail(d)
                       \/ RemoveDataByKey(d) \/ GetDataByKey(d)
                       \/ GetNext(d)
    \/ \E u \in Data : \/ Iterate(u)
                       \/ \E k \in Args : Enumerate(k, u)

Spec == Init /\ [][Next]_vars

=============================================================================
