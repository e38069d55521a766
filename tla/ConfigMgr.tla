------------------------------ MODULE ConfigMgr ------------------------------
(***************************************************************************)
(* The configuration manager of src/unnamed/part_000 (cm.h in part_006): a *)
(* list of sets, each with a list of domains, each with a list of key/value *)
(* pairs, all kept in list.c lists.  The whole heap is one record h: the   *)
(* list_t headers (head, tail), the node_t cells (next, prev, data) and the *)
(* cm objects (kind, name, value, the list they own, the object whose list *)
(* holds them).  Identities of lists, nodes and objects are never reused, *)
(* so a pointer left to a freed cell stays visible.  The list.c functions  *)
(* the manager calls are operators on h, so every cm_* call is one action  *)
(* that includes the list operations and destructor callbacks it runs.    *)
(* The pools bound the model: a call that would exhaust one is not taken.  *)
(* Names, keys and values are short strings; keys compare case-            *)
(* insensitively through Lower, as strcasecmp does.                        *)
(***************************************************************************)
EXTENDS Integers, Sequences, SequencesExt, FiniteSets

CONSTANTS
    SetNames,   \* set names passed to cm_create_set
    DomNames,   \* domain names
    Keys,       \* key strings
    Lower(_),   \* a key folded to lower case
    Values,     \* value strings
    MaxObjs,    \* cm_set_t, cm_domain_t and cm_kv_t allocations
    MaxLists,   \* list_t allocations, cm->sets included
    MaxNodes    \* node_t allocations

Nil == 0
None == "none"
Objs == 1..MaxObjs
Lists == 1..MaxLists
Nodes == 1..MaxNodes
Sets == 1           \* cm->sets, created by cm_initialize

VARIABLES
    h,      \* the heap
    call    \* the last cm call and its arguments

vars == <<h, call>>

-----------------------------------------------------------------------------
(* The lowest identity of a pool not yet handed out, or Nil.               *)
NewId(H, f, pool) == IF pool \ H[f] = {} THEN Nil ELSE Min(pool \ H[f])

\* The nodes reached from n through next.
RECURSIVE Walk(_, _, _)
Walk(H, n, k) == IF n = Nil \/ k = 0 THEN <<>> ELSE <<n>> \o Walk(H, H.nx[n], k - 1)

Chain(H, l) == IF l = Nil THEN <<>> ELSE Walk(H, H.lh[l], MaxNodes)

\* The data pointers a walk of list l from its head sees.
DataOf(H, l) == [i \in 1..Len(Chain(H, l)) |-> H.dt[Chain(H, l)[i]]]

(* iterate (list.c 474-494) with a comparison callback, given as the set  *)
(* M of data it matches: the first data on the list in M, NULL for a NULL  *)
(* handle.  The lists are not changed during a lookup.                     *)
Iterate(H, l, M) ==
    LET i == SelectInSeq(DataOf(H, l), LAMBDA o : o \in M) IN
    IF i = 0 THEN Nil ELSE DataOf(H, l)[i]

\* cm_lookup_domain with a set (domain_string_compare).
FindDomain(H, s, d) == Iterate(H, H.own[s], {o \in Objs : H.nm[o] = d})

\* iterate(kvs, key, key_string_compare): strcasecmp.
FindKey(H, dom, k) ==
    Iterate(H, H.own[dom], {o \in Objs : H.kind[o] = "kv" /\ Lower(H.nm[o]) = Lower(k)})

(* add_to_tail (list.c 142-181): a new node after list->tail, which       *)
(* becomes head too if the list had none.  A NULL handle is refused.       *)
AddToTail(H, l, o) ==
    LET n == NewId(H, "nnew", Nodes)
        t == H.lt[l]
        nx1 == IF t = Nil THEN H.nx ELSE [H.nx EXCEPT ![t] = n]
    IN IF l = Nil THEN H
       ELSE IF n = Nil THEN [H EXCEPT !.short = TRUE]
       ELSE [H EXCEPT !.nnew = @ \cup {n}, !.dt[n] = o,
                      !.nx = [nx1 EXCEPT ![n] = Nil], !.pv[n] = t,
                      !.lt[l] = n,
                      !.lh[l] = IF @ = Nil THEN n ELSE @]

(* destroy_list (list.c 52-86) walks the list from head, calls the        *)
(* destructor on each data and frees each node, then the header.  The     *)
(* destructors (part_000 842-880): set_destructor and domain_destructor   *)
(* destroy the list the object owns, then every object is freed.  f       *)
(* bounds the nesting: sets, domains, pairs.                               *)
RECURSIVE DestroyList(_, _, _), DestroyFrom(_, _, _, _), Destructor(_, _, _)
DestroyList(H, l, f) ==
    IF l = Nil THEN H
    ELSE [DestroyFrom(H, H.lh[l], MaxNodes, f) EXCEPT !.lgone = @ \cup {l}]

DestroyFrom(H, n, k, f) ==
    IF n = Nil \/ k = 0 THEN H
    ELSE LET H1 == IF H.dt[n] # Nil THEN Destructor(H, H.dt[n], f) ELSE H
         IN DestroyFrom([H1 EXCEPT !.ngone = @ \cup {n}], H.nx[n], k - 1, f)

Destructor(H, o, f) ==
    LET H1 == IF H.kind[o] = "kv" \/ f = 0 THEN H ELSE DestroyList(H, H.own[o], f - 1)
    IN [H1 EXCEPT !.ogone = @ \cup {o}]

(* remove_node_by_node (list.c 183-228): unlink n (the head, or through    *)
(* its prev), call the destructor, free the node, and clear head and tail *)
(* only when one of them is NULL.  A removed tail leaves list->tail at the *)
(* freed node.                                                             *)
RemoveNode(H, l, n) ==
    LET p == H.pv[n]
        x == H.nx[n]
        H1 == IF H.lh[l] = n THEN [H EXCEPT !.lh[l] = x]
              ELSE [H EXCEPT !.nx = IF p = Nil THEN @ ELSE [@ EXCEPT ![p] = x],
                             !.pv = IF x = Nil THEN @ ELSE [@ EXCEPT ![x] = p]]
        H2 == [Destructor(H1, H.dt[n], 2) EXCEPT !.ngone = @ \cup {n}]
    IN IF H2.lh[l] = Nil \/ H2.lt[l] = Nil
       THEN [H2 EXCEPT !.lh[l] = Nil, !.lt[l] = Nil] ELSE H2

(* remove_data_by_key (list.c 292-301) through get_node_by_key (241-283):  *)
(* the first node holding o is removed; nothing happens if there is none. *)
RemoveDataByKey(H, l, o) ==
    LET i == SelectInSeq(Chain(H, l), LAMBDA n : H.dt[n] = o) IN
    IF l = Nil \/ i = 0 THEN H ELSE RemoveNode(H, l, Chain(H, l)[i])

-----------------------------------------------------------------------------
(* create_domain (974-991): the domain found by cm_lookup_domain, or a new *)
(* one with an empty kv list appended to the set's domain list.            *)
DomainOf(H, s, d) ==
    IF FindDomain(H, s, d) # Nil THEN FindDomain(H, s, d) ELSE NewId(H, "onew", Objs)

CreateDomain(H, d, s) ==
    LET o == NewId(H, "onew", Objs)
        l == NewId(H, "lnew", Lists)
    IN IF FindDomain(H, s, d) # Nil THEN H
       ELSE IF o = Nil \/ l = Nil THEN [H EXCEPT !.short = TRUE]
       ELSE AddToTail([H EXCEPT !.onew = @ \cup {o}, !.lnew = @ \cup {l},
                                !.kind[o] = "domain", !.nm[o] = d,
                                !.own[o] = l, !.par[o] = s],
                      H.own[s], o)

(* create_kv (939-963) and merge_kv's copy (1002-1030): a new pair        *)
(* appended to the domain's list; the result of add_to_tail is ignored.   *)
CreateKv(H, dom, k, v) ==
    LET o == NewId(H, "onew", Objs) IN
    IF o = Nil THEN [H EXCEPT !.short = TRUE]
    ELSE AddToTail([H EXCEPT !.onew = @ \cup {o}, !.kind[o] = "kv",
                             !.nm[o] = k, !.vl[o] = v, !.par[o] = dom],
                   H.own[dom], o)

(* add_kv (691-717): find or create the domain, then replace the value of *)
(* a key that compares equal, or create the pair.                          *)
AddKv(H, s, d, k, v) ==
    LET dom == DomainOf(H, s, d)
        H1 == CreateDomain(H, d, s)
        kv == FindKey(H1, dom, k)
    IN IF kv = Nil THEN CreateKv(H1, dom, k, v) ELSE [H1 EXCEPT !.vl[kv] = v]

\* merge_kv over the source pairs: keys already in dst are left alone.
RECURSIVE MergeKvs(_, _, _)
MergeKvs(H, dst, kvs) ==
    IF kvs = <<>> THEN H
    ELSE LET kv == Head(kvs) IN
         MergeKvs(IF FindKey(H, dst, H.nm[kv]) # Nil THEN H
                  ELSE CreateKv(H, dst, H.nm[kv], H.vl[kv]),
                  dst, Tail(kvs))

\* merge_domains (1041-1050) over the source domains.
RECURSIVE MergeDomains(_, _, _)
MergeDomains(H, s, ds) ==
    IF ds = <<>> THEN H
    ELSE LET d == Head(ds)
             dst == DomainOf(H, s, H.nm[d])
             H1 == CreateDomain(H, H.nm[d], s)
         IN MergeDomains(MergeKvs(H1, dst, DataOf(H1, H1.own[d])), s, Tail(ds))

-----------------------------------------------------------------------------
LiveOf(H, k) == {o \in H.onew \ H.ogone : H.kind[o] = k}

Init ==
    /\ h = [lh |-> [l \in Lists |-> Nil], lt |-> [l \in Lists |-> Nil],
            lnew |-> {Sets}, lgone |-> {},
            nx |-> [n \in Nodes |-> Nil], pv |-> [n \in Nodes |-> Nil],
            dt |-> [n \in Nodes |-> Nil], nnew |-> {}, ngone |-> {},
            kind |-> [o \in Objs |-> None], nm |-> [o \in Objs |-> None],
            vl |-> [o \in Objs |-> None], own |-> [o \in Objs |-> Nil],
            par |-> [o \in Objs |-> Nil], onew |-> {}, ogone |-> {},
            short |-> FALSE, released |-> FALSE]
    /\ call = <<"cm_initialize">>

\* A call is taken when the pools held every allocation it made.
Do(H, c) == ~H.short /\ h' = H /\ call' = c

(* cm_create_set (220-247): a set with an empty domain list, appended to  *)
(* cm->sets by add_set (670-679).                                          *)
cm_create_set(nm) ==
    LET o == NewId(h, "onew", Objs)
        l == NewId(h, "lnew", Lists)
    IN /\ o # Nil /\ l # Nil
       /\ Do(AddToTail([h EXCEPT !.onew = @ \cup {o}, !.lnew = @ \cup {l},
                                 !.kind[o] = "set", !.nm[o] = nm, !.own[o] = l],
                       Sets, o),
             <<"cm_create_set", nm>>)

\* cm_remove_set (255-266): set_destructor does the cleanup.
cm_remove_set(s) == Do(RemoveDataByKey(h, Sets, s), <<"cm_remove_set", s>>)

\* cm_clear_set (392-399): the domains are destroyed, set->domains = NULL.
cm_clear_set(s) ==
    Do([DestroyList(h, h.own[s], 1) EXCEPT !.own[s] = Nil], <<"cm_clear_set", s>>)

\* cm_add_key (427-430).
cm_add_key(s, d, k, v) == Do(AddKv(h, s, d, k, v), <<"cm_add_key", s, d, k, v>>)

\* cm_remove_key (440-457): the pair is removed from its domain's list.
cm_remove_key(s, d, k) ==
    LET dom == FindDomain(h, s, d)
        kv == IF dom = Nil THEN Nil ELSE FindKey(h, dom, k)
    IN Do(IF kv = Nil THEN h ELSE RemoveDataByKey(h, h.own[dom], kv),
          <<"cm_remove_key", s, d, k>>)

\* cm_remove_domain (561-588) with a set.
cm_remove_domain(s, d) ==
    LET dom == FindDomain(h, s, d) IN
    Do(IF dom = Nil THEN h ELSE RemoveDataByKey(h, h.own[s], dom),
       <<"cm_remove_domain", s, d>>)

\* cm_merge_set (408-414): iterate(set2->domains, set1, merge_domains).
cm_merge_set(s1, s2) ==
    Do(MergeDomains(h, s1, DataOf(h, h.own[s2])), <<"cm_merge_set", s1, s2>>)

\* cm_release (163-179): destroy_list(cm->sets); the manager is gone.
cm_release ==
    Do([DestroyList(h, Sets, 2) EXCEPT !.released = TRUE], <<"cm_release">>)

Next ==
    \/ /\ ~h.released
       /\ \/ \E nm \in SetNames : cm_create_set(nm)
          \/ \E s \in LiveOf(h, "set") :
                \/ cm_remove_set(s) \/ cm_clear_set(s)
                \/ \E d \in DomNames, k \in Keys :
                      \/ \E v \in Values : cm_add_key(s, d, k, v)
                      \/ cm_remove_key(s, d, k)
                \/ \E d \in DomNames : cm_remove_domain(s, d)
                \/ \E s2 \in LiveOf(h, "set") : cm_merge_set(s, s2)
          \/ cm_release
    \/ h.released /\ UNCHANGED vars     \* the program has ended

Spec == Init /\ [][Next]_vars

-----------------------------------------------------------------------------
TypeOK ==
    /\ h.lh \in [Lists -> Nodes \cup {Nil}] /\ h.lt \in [Lists -> Nodes \cup {Nil}]
    /\ h.nx \in [Nodes -> Nodes \cup {Nil}] /\ h.pv \in [Nodes -> Nodes \cup {Nil}]
    /\ h.dt \in [Nodes -> Objs \cup {Nil}]
    /\ h.kind \in [Objs -> {None, "set", "domain", "kv"}]
    /\ h.own \in [Objs -> Lists \cup {Nil}] /\ h.par \in [Objs -> Objs \cup {Nil}]
    /\ h.lgone \subseteq h.lnew /\ h.ngone \subseteq h.nnew /\ h.ogone \subseteq h.onew

(* cm.h: once loaded, a domain or key/value element stays in place and can *)
(* be used as a reference.  Every set, domain and pair still allocated is  *)
(* reachable from the list of the object that holds it (while that object *)
(* is live and has its list), so cm_lookup_domain and cm_lookup_value find *)
(* it, after any sequence of adds, removals and merges.                    *)
CfgElementsReachable ==
    ~h.released =>
        /\ LiveOf(h, "set") \subseteq ToSet(DataOf(h, Sets))
        /\ \A o \in LiveOf(h, "domain") \cup LiveOf(h, "kv") :
              LET p == h.par[o] IN
              (p \in h.onew \ h.ogone /\ h.own[p] # Nil) =>
                  o \in ToSet(DataOf(h, h.own[p]))

=============================================================================
