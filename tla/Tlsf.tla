--------------------------------- MODULE Tlsf ---------------------------------
(***************************************************************************)
(* The heap of the kernel (src/bl808/kernel/tlsf.c): one pool of blocks    *)
(* behind headers, the free ones in lists by class of size that two levels *)
(* of bitmaps index.  Addresses count from the start of the pool.  Flags   *)
(* and the size they share a word with are fields of their own; what the   *)
(* program stores in a block is left out but for the canary behind it, so  *)
(* a header that a merge left inside a block stays there to be misread.    *)
(***************************************************************************)
EXTENDS Integers, FiniteSets, FiniteSetsExt

CONSTANTS Pool,         \* bytes of the heap
          Overhead,     \* BLOCK_OVERHEAD
          Align,        \* BLOCK_ALIGN
          MinSize,      \* BLOCK_SIZE_MIN
          Canary,       \* BLOCK_CANARY_SIZE
          SlLog2,       \* SL_INDEX_LOG2
          FlMax,        \* FL_INDEX_MAX
          SizeMax,      \* the largest size_t
          Requests,     \* sizes asked for
          MaxOps        \* bound on calls

VARIABLES s,            \* tlsf_pool and the headers; held is what the program
                        \* was given (0: nothing), stale what it gave back,
                        \* bad the blocks whose canary it overwrote, missed
                        \* whether a fitting block was not found
          ops           \* calls so far

vars == <<s, ops>>

Null == -1
Addrs == {a \in 0 .. Pool - 1 : a % Align = 0}
SlCount == 2^SlLog2
Classes == (0 .. FlMax - 1) \X (0 .. SlCount - 1)

NoHeader == [size |-> 0, free |-> FALSE, prev_is_free |-> FALSE, prev_phys |-> Null,
             next_free |-> Null, prev_free |-> Null, requested |-> 0, magic |-> "none"]

----------------------------------------------------------------------------
block_size(d, b) == d.hdr[b].size

block_next(d, b) == b + Overhead + block_size(d, b)

accounted_block_size(d, b) == block_size(d, b) + Overhead

\* The block after b learns where b begins, and whether b is free.
tell_next(d, b) == LET n == block_next(d, b)
                   IN IF n < Pool THEN [d EXCEPT !.hdr[n].prev_phys = b] ELSE d
mark_next(d, b, free) == LET n == block_next(d, b)
                         IN IF n < Pool THEN [d EXCEPT !.hdr[n].prev_is_free = free] ELSE d

update_watermarks(d) == [d EXCEPT !.high_water = Max({@, d.used}),
                                  !.min_free = Min({@, Pool - d.used})]

Wrapped(x) == x % (SizeMax + 1)

align_up(x) == (Wrapped(x + Align - 1) \div Align) * Align

\* Null where the size with its canary cannot be represented; aligning it may
\* still wrap to nothing.
size_with_canary(requested) ==
  IF requested > SizeMax - Canary THEN Null ELSE Max({MinSize, align_up(requested + Canary)})

write_tail_canary(d, b) ==
  IF d.hdr[b].requested + Canary > block_size(d, b) THEN d ELSE [d EXCEPT !.bad = @ \ {b}]

tail_canary_ok(d, b) == d.hdr[b].requested + Canary <= block_size(d, b) /\ b \notin d.bad

block_header_valid(d, b) == /\ b \in Addrs
                            /\ block_size(d, b) >= MinSize
                            /\ block_next(d, b) <= Pool
                            /\ d.hdr[b].magic \in {"used", "free"}

tlsf_fls(x) == CHOOSE n \in 0 .. x : 2^n <= x /\ x < 2^(n + 1)

mapping_insert(size) ==
  IF size < MinSize THEN <<0, size \div (MinSize \div SlCount)>>
  ELSE <<tlsf_fls(size), size \div 2^(tlsf_fls(size) - SlLog2) - SlCount>>

rounded(size) == IF size < MinSize THEN size ELSE size + 2^(tlsf_fls(size) - SlLog2) - 1

mapping_search(size) == mapping_insert(Wrapped(rounded(size)))

ClassOf(size) == LET c == mapping_insert(size)
                 IN <<Min({c[1], FlMax - 1}), Min({c[2], SlCount - 1})>>

----------------------------------------------------------------------------
insert_free_block(d, b) ==
  LET c == ClassOf(block_size(d, b))
      head == d.blocks[c]
      e == [d EXCEPT !.hdr[b].next_free = head, !.hdr[b].prev_free = Null, !.blocks[c] = b,
                     !.fl_bitmap = @ \cup {c[1]}, !.sl_bitmap[c[1]] = @ \cup {c[2]}]
  IN IF head = Null THEN e ELSE [e EXCEPT !.hdr[head].prev_free = b]

unlink(d, b, c) ==
  LET p == d.hdr[b].prev_free
      n == d.hdr[b].next_free
      e == IF p # Null THEN [d EXCEPT !.hdr[p].next_free = n] ELSE [d EXCEPT !.blocks[c] = n]
  IN IF n # Null THEN [e EXCEPT !.hdr[n].prev_free = p] ELSE e

remove_free_block(d, b) ==
  LET c == ClassOf(block_size(d, b))
      e == unlink(d, b, c)
      sl == e.sl_bitmap[c[1]] \ {c[2]}
  IN IF e.blocks[c] # Null THEN e
     ELSE [e EXCEPT !.sl_bitmap[c[1]] = sl,
                    !.fl_bitmap = IF sl = {} THEN @ \ {c[1]} ELSE @]

can_split(d, b, size) == block_size(d, b) >= Wrapped(size + Overhead + MinSize)

\* The rest of the block becomes one of its own, not in a list yet.
split_block(d, b, size) ==
  LET rest == b + Overhead + size
      e == [d EXCEPT !.hdr[rest] = [NoHeader EXCEPT !.size = block_size(d, b) - size - Overhead,
                                                    !.free = TRUE, !.prev_phys = b,
                                                    !.magic = "free"],
                     !.hdr[b].size = size]
  IN mark_next(tell_next(e, rest), rest, TRUE)

merge_prev(d, b) ==
  LET p == d.hdr[b].prev_phys
  IN IF ~d.hdr[b].prev_is_free THEN d
     ELSE tell_next([remove_free_block(d, p) EXCEPT
                       !.hdr[p].size = @ + Overhead + block_size(d, b)], p)

\* Mutant: the header between two merged blocks is not counted.
mergeLosesHeader(d, b) ==
  LET n == block_next(d, b)
  IN IF n >= Pool THEN d
     ELSE IF ~d.hdr[n].free THEN d
     ELSE tell_next([remove_free_block(d, n) EXCEPT !.hdr[b].size = @ + block_size(d, n)], b)

merge_next(d, b) ==
  LET n == block_next(d, b)
  IN IF n >= Pool THEN d
     ELSE IF ~d.hdr[n].free THEN d
     ELSE tell_next([remove_free_block(d, n) EXCEPT
                       !.hdr[b].size = @ + Overhead + block_size(d, n)], b)

find_suitable_block(d, size) ==
  LET c == mapping_search(size)
      here == IF c[1] >= FlMax THEN {} ELSE {l \in d.sl_bitmap[c[1]] : l >= c[2]}
      above == {l \in d.fl_bitmap : l > c[1]}
  IN CASE c[1] >= FlMax -> Null
       [] c[1] < FlMax /\ here # {} -> d.blocks[<<c[1], Min(here)>>]
       [] OTHER -> IF above = {} THEN Null
                   ELSE d.blocks[<<Min(above), Min(d.sl_bitmap[Min(above)])>>]

----------------------------------------------------------------------------
\* The blocks a walk from the start of the pool meets.
BlocksOf(d) ==
  LET walk[a \in 0 .. Pool] == IF a \in Addrs /\ block_size(d, a) > 0
                               THEN {a} \cup walk[Min({block_next(d, a), Pool})] ELSE {}
  IN walk[0]

\* A block is marked used and given to the program.
hand_out(d, b, requested) ==
  LET e == [d EXCEPT !.hdr[b].free = FALSE, !.hdr[b].requested = requested,
                     !.hdr[b].magic = "used", !.held[b + Overhead] = requested,
                     !.stale = @ \ {b + Overhead}]
  IN write_tail_canary(e, b)

fail(d) == [d EXCEPT !.alloc_fail = @ + 1]

\* The largest free block that has a class of its own; those of 2^FlMax bytes
\* and more are put among the last classes.
largest_classed(d) ==
  Max({0} \cup {block_size(d, b) :
                  b \in {x \in BlocksOf(d) : d.hdr[x].free /\ block_size(d, x) < 2^FlMax}})

\* The block, or Null, that a request takes.
taken(d, requested) ==
  LET size == size_with_canary(requested)
  IN IF requested = 0 \/ size = Null THEN Null ELSE find_suitable_block(d, size)

tlsf_malloc(d, requested) ==
  LET size == size_with_canary(requested)
      b == taken(d, requested)
      e == remove_free_block(d, b)
      f == IF can_split(e, b, size)
           THEN insert_free_block(split_block(e, b, size), b + Overhead + size) ELSE e
      g == mark_next(hand_out(f, b, requested), b, FALSE)
  IN CASE requested = 0 -> d
       [] requested # 0 /\ size = Null -> fail(d)
       [] requested # 0 /\ size # Null /\ b = Null ->
            [fail(d) EXCEPT !.missed = @ \/ largest_classed(d) >= rounded(size)]
       [] OTHER -> update_watermarks([g EXCEPT !.used = @ + accounted_block_size(g, b)])

live_block(d, b) == block_header_valid(d, b) /\ d.hdr[b].magic = "used" /\ ~d.hdr[b].free

tlsf_free(d, ptr) ==
  LET b == ptr - Overhead
      e == [d EXCEPT !.used = @ - accounted_block_size(d, b),
                     !.canary_fail = IF tail_canary_ok(d, b) THEN @ ELSE @ + 1,
                     !.hdr[b].free = TRUE, !.hdr[b].requested = 0, !.hdr[b].magic = "free",
                     !.held[ptr] = 0, !.stale = @ \cup {ptr}]
      m == IF d.hdr[b].prev_is_free THEN d.hdr[b].prev_phys ELSE b
      f == insert_free_block(merge_next(merge_prev(e, b), m), m)
  IN IF ~live_block(d, b) THEN [d EXCEPT !.invalid_free = @ + 1]
     ELSE mark_next(tell_next(f, m), m, TRUE)

----------------------------------------------------------------------------
shrink(d, b, size, requested) ==
  LET rest == b + Overhead + size
      e == merge_next(split_block(d, b, size), rest)
      f == IF can_split(d, b, size)
           THEN mark_next(tell_next(insert_free_block(e, rest), rest), rest, TRUE) ELSE d
  IN [hand_out(f, b, requested) EXCEPT
        !.used = @ - (accounted_block_size(d, b) - accounted_block_size(f, b))]

expand(d, b, size, requested) ==
  LET n == block_next(d, b)
      e == [remove_free_block(d, n) EXCEPT !.hdr[b].size = @ + Overhead + block_size(d, n)]
      f == IF can_split(e, b, size)
           THEN insert_free_block(split_block(e, b, size), b + Overhead + size) ELSE e
      g == mark_next(tell_next(f, b), b, FALSE)
  IN update_watermarks([hand_out(g, b, requested) EXCEPT
        !.used = @ + (accounted_block_size(g, b) - accounted_block_size(d, b))])

can_expand(d, b, size) ==
  LET n == block_next(d, b)
  IN IF n >= Pool THEN FALSE
     ELSE d.hdr[n].free /\ block_size(d, b) + Overhead + block_size(d, n) >= size

\* A block the program resizes is shrunk or grown in place, or moved.
tlsf_realloc(d, ptr, requested) ==
  LET b == ptr - Overhead
      size == size_with_canary(requested)
      moved == tlsf_malloc(d, requested)
  IN CASE requested = 0 -> tlsf_free(d, ptr)
       [] requested # 0 /\ size = Null -> fail(d)
       [] OTHER ->
            IF ~live_block(d, b) THEN [d EXCEPT !.invalid_free = @ + 1]
            ELSE IF ~tail_canary_ok(d, b) THEN [d EXCEPT !.canary_fail = @ + 1]
            ELSE IF block_size(d, b) >= size THEN shrink(d, b, size, requested)
            ELSE IF can_expand(d, b, size) THEN expand(d, b, size, requested)
            ELSE IF taken(d, requested) = Null THEN moved ELSE tlsf_free(moved, ptr)

tlsf_calloc(d, count, size) ==
  IF count > SizeMax \div size THEN fail(d) ELSE tlsf_malloc(d, count * size)

EmptyPool == [hdr |-> [a \in Addrs |-> NoHeader], blocks |-> [c \in Classes |-> Null],
              fl_bitmap |-> {}, sl_bitmap |-> [f \in 0 .. FlMax - 1 |-> {}],
              used |-> 0, high_water |-> 0, min_free |-> Pool, alloc_fail |-> 0,
              invalid_free |-> 0, canary_fail |-> 0, held |-> [a \in Addrs |-> 0],
              stale |-> {}, bad |-> {}, missed |-> FALSE]

tlsf_init ==
  IF Pool < MinSize + 2 * Overhead THEN EmptyPool
  ELSE insert_free_block([EmptyPool EXCEPT !.hdr[0] = [NoHeader EXCEPT !.size = Pool - Overhead,
                                                                      !.free = TRUE,
                                                                      !.magic = "free"]], 0)

Init == s = tlsf_init /\ ops = 0

Step(d) == ops < MaxOps /\ ops' = ops + 1 /\ s' = d

Held == {p \in Addrs : s.held[p] # 0}

Malloc == \E n \in Requests : Step(tlsf_malloc(s, n))
Calloc == \E n \in Requests, count \in {2, SizeMax} : Step(tlsf_calloc(s, count, n))
\* A block that is held, or one given back before.
Free == \E p \in Held \cup s.stale : Step(tlsf_free(s, p))
Realloc == \E p \in Held, n \in Requests : Step(tlsf_realloc(s, p, n))
\* The program writes past the end of what it asked for.
Overrun == \E p \in Held : Step([s EXCEPT !.bad = @ \cup {p - Overhead}])

Next == Malloc \/ Calloc \/ Free \/ Realloc \/ Overrun

Spec == Init /\ [][Next]_vars

----------------------------------------------------------------------------
Blocks == BlocksOf(s)
UsedBlocks == {b \in Blocks : ~s.hdr[b].free}

\* The blocks fill the pool, a block knows whether the one before it is free
\* and then where it begins, no two free blocks are neighbours, and the bytes
\* in use are those of the used blocks.
HeapSound ==
  LET all == Blocks
  IN /\ \E b \in all : block_next(s, b) = Pool
     /\ \A b \in all : s.hdr[b].magic = IF s.hdr[b].free THEN "free" ELSE "used"
     /\ \A b \in all : LET n == block_next(s, b)
                       IN n < Pool => /\ s.hdr[n].prev_is_free = s.hdr[b].free
                                      /\ s.hdr[b].free => s.hdr[n].prev_phys = b /\ ~s.hdr[n].free
     /\ s.used = MapThenSumSet(LAMBDA b : accounted_block_size(s, b), {b \in all : ~s.hdr[b].free})

\* What the list of a class reaches, link by link.
Listed(c) ==
  LET from[b \in Addrs \cup {Null}] == IF b = Null THEN {} ELSE {b} \cup from[s.hdr[b].next_free]
  IN from[s.blocks[c]]

\* Each free block is in the list of its class, nothing else is, and the
\* bitmaps show exactly the lists that are not empty.
FreeListsExact ==
  LET free == {b \in Blocks : s.hdr[b].free}
  IN /\ \A c \in Classes :
          /\ Listed(c) = {b \in free : ClassOf(block_size(s, b)) = c}
          /\ c[2] \in s.sl_bitmap[c[1]] <=> s.blocks[c] # Null
     /\ s.fl_bitmap = {f \in 0 .. FlMax - 1 : s.sl_bitmap[f] # {}}

\* The size of a request, rounded up for the search, fits a size_t.
Representable(requested) ==
  LET aligned == ((requested + Canary + Align - 1) \div Align) * Align
  IN rounded(Max({MinSize, aligned})) <= SizeMax

\* What the program holds is a used block of its own, with room for what was
\* asked for and the canary.  The room is not claimed for a request so near
\* the largest size_t that aligning it, or rounding it up to its class, wraps:
\* the code gives it a small block.
HeldIntact ==
  LET used == UsedBlocks
  IN \A p \in Held : /\ p - Overhead \in used
                     /\ s.hdr[p - Overhead].requested = s.held[p]
                     /\ Representable(s.held[p]) =>
                          s.held[p] + Canary <= block_size(s, p - Overhead)

\* A request fails only when no free block below 2^FlMax has the size of its
\* class.  (A larger free block is listed under a class it does not belong to,
\* where a request that it would hold may miss it.)
FitFound == ~s.missed
===============================================================================
