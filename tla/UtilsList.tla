------------------------------- MODULE UtilsList -------------------------------
(***************************************************************************)
(* The singly linked lists the radio firmware is given                     *)
(* (wifi_vendor_support.c, utils_list_...): elements carry their next      *)
(* pointer, a list its first and last one.  ref is the sequence each list  *)
(* stands for, kept by what the operations promise.                        *)
(***************************************************************************)
EXTENDS Integers, Sequences, FiniteSets, SequencesExt

CONSTANTS Elements,     \* a sequence, in the order of the pool
          Lists,
          Pool,         \* the list all elements start in
          Rank,         \* element -> its place for utils_list_insert
          MaxOps        \* bound on calls

VARIABLES s,            \* next of each element, first and last of each list, ref
          ops           \* calls so far

vars == <<s, ops>>
Null == "null"
Elems == ToSet(Elements)

----------------------------------------------------------------------------
utils_list_init(d, l) == [d EXCEPT !.first[l] = Null, !.last[l] = Null]

utils_list_push_back(d, l, e) ==
  LET a == [d EXCEPT !.next[e] = Null]
      b == IF d.last[l] # Null THEN [a EXCEPT !.next[d.last[l]] = e] ELSE [a EXCEPT !.first[l] = e]
  IN [b EXCEPT !.last[l] = e]

utils_list_push_front(d, l, e) ==
  [d EXCEPT !.next[e] = d.first[l], !.first[l] = e,
            !.last[l] = IF @ = Null THEN e ELSE @]

utils_list_pool_init(d, l) ==
  FoldLeft(LAMBDA a, e : utils_list_push_back(a, l, e), utils_list_init(d, l), Elements)

utils_list_pop_front(d, l) ==
  LET e == d.first[l]
  IN IF e = Null THEN d
     ELSE [d EXCEPT !.first[l] = d.next[e], !.next[e] = Null,
                    !.last[l] = IF d.next[e] = Null THEN Null ELSE @]

utils_list_remove(d, l, prev, e) ==
  IF prev = Null /\ d.first[l] # e THEN d
  ELSE LET a == IF prev # Null THEN [d EXCEPT !.next[prev] = d.next[e]]
                ELSE [d EXCEPT !.first[l] = d.next[e]]
       IN [a EXCEPT !.last[l] = IF @ = e THEN prev ELSE @, !.next[e] = Null]

\* The elements met when following the pointers of a list.
Walk(d, l) ==
  LET from[n \in 0 .. Len(Elements)] ==
        IF n = 0 THEN d.first[l]
        ELSE IF from[n - 1] = Null THEN Null ELSE d.next[from[n - 1]]
      met == {n \in 0 .. Len(Elements) : from[n] # Null}
  IN [n \in 1 .. Cardinality(met) |-> from[n - 1]]

\* The element before the first one that test holds of (Null: none before it),
\* and that one (Null: there is none).
PrevOf(w, test(_)) == LET i == SelectInSeq(w, test) IN
                   IF i = 0 THEN (IF w = <<>> THEN Null ELSE Last(w))
                   ELSE IF i = 1 THEN Null ELSE w[i - 1]
HitOf(w, test(_)) == LET i == SelectInSeq(w, test) IN IF i = 0 THEN Null ELSE w[i]

utils_list_find(d, l, e) == e \in ToSet(Walk(d, l))

utils_list_extract(d, l, e) ==
  IF ~utils_list_find(d, l, e) THEN d
  ELSE utils_list_remove(d, l, PrevOf(Walk(d, l), LAMBDA x : x = e), e)

\* In front of the first element that cmp puts after the new one.
utils_list_insert(d, l, e) ==
  LET w == Walk(d, l)
      after(x) == Rank[e] < Rank[x]
      prev == PrevOf(w, after)
      cur == HitOf(w, after)
  IN IF prev = Null THEN utils_list_push_front(d, l, e)
     ELSE [d EXCEPT !.next[e] = cur, !.next[prev] = e, !.last[l] = IF cur = Null THEN e ELSE @]

utils_list_insert_after(d, l, p, e) ==
  CASE p = Null -> utils_list_push_front(d, l, e)
    [] p # Null /\ ~utils_list_find(d, l, p) -> d
    [] OTHER -> [d EXCEPT !.next[e] = d.next[p], !.next[p] = e, !.last[l] = IF @ = p THEN e ELSE @]

utils_list_insert_before(d, l, n, e) ==
  LET prev == PrevOf(Walk(d, l), LAMBDA x : x = n)
  IN CASE ~utils_list_find(d, l, n) -> d
       [] utils_list_find(d, l, n) /\ prev = Null -> utils_list_push_front(d, l, e)
       [] OTHER -> [d EXCEPT !.next[e] = n, !.next[prev] = e]

utils_list_concat(d, l, m) ==
  IF d.first[m] = Null THEN d
  ELSE LET a == IF d.last[l] # Null THEN [d EXCEPT !.next[d.last[l]] = d.first[m]]
                ELSE [d EXCEPT !.first[l] = d.first[m]]
       IN utils_list_init([a EXCEPT !.last[l] = d.last[m]], m)

utils_list_cnt(d, l) == Len(Walk(d, l))

----------------------------------------------------------------------------
\* The callers keep an element in at most one list.
Free(d) == Elems \ UNION {ToSet(d.ref[l]) : l \in Lists}

Init == /\ s = [utils_list_pool_init([next |-> [e \in Elems |-> Null],
                                      first |-> [l \in Lists |-> Null],
                                      last |-> [l \in Lists |-> Null],
                                      ref |-> [l \in Lists |-> <<>>]], Pool)
                EXCEPT !.ref[Pool] = Elements]
        /\ ops = 0

Calls(d, l, to) == ops < MaxOps /\ ops' = ops + 1 /\ s' = [d EXCEPT !.ref[l] = to]

PushBack == \E l \in Lists, e \in Free(s) :
              Calls(utils_list_push_back(s, l, e), l, Append(s.ref[l], e))
PushFront == \E l \in Lists, e \in Free(s) :
               Calls(utils_list_push_front(s, l, e), l, <<e>> \o s.ref[l])
PopFront == \E l \in Lists :
              Calls(utils_list_pop_front(s, l), l, IF s.ref[l] = <<>> THEN <<>> ELSE Tail(s.ref[l]))
Extract == \E l \in Lists, e \in Elems :
             Calls(utils_list_extract(s, l, e), l, SelectSeq(s.ref[l], LAMBDA x : x # e))
\* Without a predecessor only the first element is removed.
RemoveHead == \E l \in Lists, e \in Elems :
                 Calls(utils_list_remove(s, l, Null, e), l,
                       IF s.ref[l] # <<>> /\ s.ref[l][1] = e THEN Tail(s.ref[l]) ELSE s.ref[l])
Insert == \E l \in Lists, e \in Free(s) :
            LET i == SelectInSeq(s.ref[l], LAMBDA x : Rank[e] < Rank[x])
            IN Calls(utils_list_insert(s, l, e), l,
                     InsertAt(s.ref[l], IF i = 0 THEN Len(s.ref[l]) + 1 ELSE i, e))
InsertAfter == \E l \in Lists, e \in Free(s), p \in Elems \cup {Null} :
                 LET i == SelectInSeq(s.ref[l], LAMBDA x : x = p)
                 IN /\ p # e
                    /\ Calls(utils_list_insert_after(s, l, p, e), l,
                             IF p # Null /\ i = 0 THEN s.ref[l] ELSE InsertAt(s.ref[l], i + 1, e))
InsertBefore == \E l \in Lists, e \in Free(s) : \E n \in Elems \ {e} :
                  LET i == SelectInSeq(s.ref[l], LAMBDA x : x = n)
                  IN Calls(utils_list_insert_before(s, l, n, e), l,
                           IF i = 0 THEN s.ref[l] ELSE InsertAt(s.ref[l], i, e))
Concat == \E l \in Lists, m \in Lists :
            /\ l # m
            /\ LET d == utils_list_concat(s, l, m)
               IN Calls([d EXCEPT !.ref[m] = <<>>], l, s.ref[l] \o s.ref[m])

Next == \/ PushBack \/ PushFront \/ PopFront \/ Extract \/ RemoveHead
        \/ Insert \/ InsertAfter \/ InsertBefore \/ Concat

Spec == Init /\ [][Next]_vars

----------------------------------------------------------------------------
\* Whatever was called, following the pointers of a list meets exactly the
\* elements it should hold, in order, and last points at the last of them.
ListsFaithful ==
  \A l \in Lists : /\ Walk(s, l) = s.ref[l]
                   /\ utils_list_cnt(s, l) = Len(s.ref[l])
                   /\ s.last[l] = IF s.ref[l] = <<>> THEN Null ELSE Last(s.ref[l])

\* An element that was taken out points nowhere, so that nothing reaches the
\* list it left through it.
TakenDetached == \A e \in Free(s) : s.next[e] = Null
===============================================================================
