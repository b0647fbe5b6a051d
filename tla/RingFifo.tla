------------------------------- MODULE RingFifo -------------------------------
(***************************************************************************)
(* The ring buffers of devices and of the kernel: an array with the index  *)
(* of the oldest element, of the next free place, and the element count.   *)
(***************************************************************************)
EXTENDS Integers, Sequences, FiniteSets

ring(n) == [buf |-> [i \in 0 .. n - 1 |-> 0], head |-> 0, tail |-> 0, count |-> 0]

size(r) == Cardinality(DOMAIN r.buf)

push(r, b) ==
  [r EXCEPT !.buf[r.tail] = b, !.tail = (@ + 1) % size(r), !.count = @ + 1]

pop(r) == [r EXCEPT !.head = (@ + 1) % size(r), !.count = @ - 1]

first(r) == r.buf[r.head]

\* The elements from the oldest to the newest.
contents(r) == [i \in 1 .. r.count |-> r.buf[(r.head + i - 1) % size(r)]]

\* n elements at once.
popN(r, n) == [r EXCEPT !.head = (@ + n) % size(r), !.count = @ - n]

pushAll(r, bytes) ==
  [r EXCEPT !.buf = [i \in DOMAIN @ |->
              LET k == ((i - r.tail) % size(r)) + 1
              IN IF k <= Len(bytes) THEN bytes[k] ELSE @[i]],
            !.tail = (@ + Len(bytes)) % size(r), !.count = @ + Len(bytes)]
===============================================================================
