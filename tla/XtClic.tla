-------------------------------- MODULE XtClic --------------------------------
(***************************************************************************)
(* The core local interrupt controller of one hart (hw/intc/xt_clic.c).    *)
(* It keeps the enabled interrupts in a list sorted by priority, so that   *)
(* delivery is a scan, and asserts CPU_INTERRUPT_CLIC with the number and  *)
(* level of the interrupt to take (exccode).  The hart it serves is the    *)
(* environment: it takes the interrupt, returns, waits for interrupts and  *)
(* reads mnxti; its part of QEMU is not in the repository and is modelled  *)
(* from the functions it calls here.                                       *)
(***************************************************************************)
EXTENDS Integers, Sequences, SequencesExt, FiniteSets, FiniteSetsExt

CONSTANTS Irqs,         \* interrupt numbers
          CtlBits,      \* clicintctlbits: implemented bits of clicintctl
          Ctls,         \* values the guest writes to clicintctl
          Thresholds,   \* values the guest writes to mintthresh
          NlBits,       \* values of cliccfg.nlbits
          Trigs,        \* trigger types in use
          Vector,       \* nvbits: hardware vectoring implemented
          MaxNest       \* bound on nested handlers

VARIABLES s,            \* XTCLICState
          cpu           \* the hart: interrupt line, exccode, levels

vars == <<s, cpu>>

UINT8_MAX == 255
POSITIVE_LEVEL == 0
POSITIVE_EDGE == 1
NEG_LEVEL == 2
NEG_EDGE == 3
None == [irq |-> -1, level |-> 0]

----------------------------------------------------------------------------
(* Priority arithmetic.                                                    *)

ones == 2^(8 - CtlBits) - 1          \* the bits that are not implemented

intctl_storage(v) == v - (v % (ones + 1))
intctl_effective(v) == intctl_storage(v) + ones
intctl_priority_valid(v) == intctl_storage(v) # 0

get_interrupt_level(d, intctl) ==
  IF d.nlbits = 0 THEN UINT8_MAX
  ELSE LET low == 2^(8 - d.nlbits) IN intctl - (intctl % low) + low - 1

is_edge_triggered(d, i) == d.trig[i] \in {POSITIVE_EDGE, NEG_EDGE}
is_shv_interrupt(d, i) == i \in d.shv /\ Vector

encode_priority(e) == e.intcfg * 4096 + e.irq

SortActive(list) == SetToSortSeq({list[k] : k \in DOMAIN list},
                      LAMBDA a, b : encode_priority(a) > encode_priority(b))

----------------------------------------------------------------------------
(* Delivery: the first entry of the list that is pending, unless the scan  *)
(* meets a level at or below the threshold before it.                      *)

find_pending(d, threshold, non_shv_only) ==
  LET list == d.active
      level(k) == get_interrupt_level(d, list[k].intcfg)
      stop == {k \in DOMAIN list : /\ intctl_priority_valid(d.ctl[list[k].irq])
                                   /\ level(k) <= threshold \/ d.ip[list[k].irq]}
      k == Min(stop)
  IN IF stop = {} \/ level(k) <= threshold THEN None
     ELSE IF non_shv_only /\ is_shv_interrupt(d, list[k].irq) THEN None
     ELSE [irq |-> list[k].irq, level |-> level(k)]

\* next_interrupt, as the hart c sees it afterwards; it reads exccode only
\* while the line is up.
next_interrupt(d, c) ==
  LET found == find_pending(d, Max({c.mil, d.mintthresh}), FALSE)
      woken == find_pending(d, 0, FALSE)
  IN IF found # None
       THEN [c EXCEPT !.line = TRUE, !.exccode = found, !.wake_only = FALSE]
     ELSE IF c.wfe /\ woken # None
       THEN [c EXCEPT !.line = TRUE, !.exccode = woken, !.wake_only = TRUE]
       ELSE [c EXCEPT !.line = FALSE, !.exccode = None, !.wake_only = FALSE]

\* Every handler that ends in next_interrupt.
Deliver(d, c) == s' = d /\ cpu' = [next_interrupt(d, c) EXCEPT !.fresh = TRUE]

update_intip(d, i, v) == [d EXCEPT !.ip[i] = v]

----------------------------------------------------------------------------
(* Register writes.                                                        *)

enable_irq(d, i) ==
  [d EXCEPT !.active = SortActive(Append(@,
     [intcfg |-> intctl_effective(d.ctl[i]), irq |-> i]))]

\* bsearch by the key that the current clicintctl gives; disable_irq asserts
\* that it finds the entry.
entry(d, i) == [intcfg |-> intctl_effective(d.ctl[i]), irq |-> i]
found_active(d, i) == \E k \in DOMAIN d.active : d.active[k] = entry(d, i)
without(list, e) == SelectSeq(list, LAMBDA x : x # e)

disable_irq(d, i) ==
  IF found_active(d, i)
    THEN [d EXCEPT !.active = SortActive(without(@, entry(d, i)))]
    ELSE [d EXCEPT !.aborted = TRUE]

\* Mutant: the entry keeps its place in the list.
intctlInPlace(d, i, new) == [d EXCEPT !.ctl[i] = new]

update_intctl(d, i, new) ==
  LET moved == [intcfg |-> intctl_effective(new), irq |-> i]
      list == IF found_active(d, i)
                THEN SortActive(Append(without(d.active, entry(d, i)), moved))
                ELSE d.active
  IN [d EXCEPT !.active = list, !.ctl[i] = new]

update_intie(d, i, new) ==
  LET e == [d EXCEPT !.ie[i] = new]
  IN IF new /\ ~d.ie[i] THEN enable_irq(e, i)
     ELSE IF ~new /\ d.ie[i] THEN disable_irq(e, i) ELSE e

\* A software write to the pending bit of a level-triggered interrupt is ignored.
WriteIp == \E i \in Irqs, v \in BOOLEAN :
  /\ is_edge_triggered(s, i) /\ v # s.ip[i]
  /\ Deliver(update_intip(s, i, v), cpu)

WriteIe == \E i \in Irqs, v \in BOOLEAN :
  v # s.ie[i] /\ Deliver(update_intie(s, i, v), cpu)

WriteAttr == \E i \in Irqs, t \in Trigs, v \in BOOLEAN :
  Deliver([s EXCEPT !.trig[i] = t,
                    !.shv = IF v THEN @ \cup {i} ELSE @ \ {i}], cpu)

WriteCtl == \E i \in Irqs, v \in Ctls :
  /\ intctl_storage(v) # s.ctl[i]
  /\ Deliver(update_intctl(s, i, intctl_storage(v)), cpu)

WriteCfg == \E n \in NlBits :
  Deliver([s EXCEPT !.nlbits = Min({n, CtlBits})], cpu)

WriteThreshold == \E t \in Thresholds : Deliver([s EXCEPT !.mintthresh = t], cpu)

----------------------------------------------------------------------------
(* The wires into the controller.                                          *)

set_irq(d, i, level) ==
  CASE d.trig[i] = POSITIVE_LEVEL -> update_intip(d, i, level)
    [] d.trig[i] = POSITIVE_EDGE -> IF level THEN update_intip(d, i, TRUE) ELSE d
    [] d.trig[i] = NEG_LEVEL -> update_intip(d, i, ~level)
    [] d.trig[i] = NEG_EDGE -> IF level THEN d ELSE update_intip(d, i, TRUE)

Wire == \E i \in Irqs :
  LET d == [s EXCEPT !.wire[i] = ~@]
      e == set_irq(d, i, d.wire[i])
  IN IF \/ d.trig[i] = POSITIVE_EDGE /\ ~d.wire[i]
        \/ d.trig[i] = NEG_EDGE /\ d.wire[i]
       THEN s' = e /\ UNCHANGED cpu
       ELSE Deliver(e, cpu)

----------------------------------------------------------------------------
(* The hart.                                                               *)

clean_pending(d, i) == [d EXCEPT !.ip[i] = FALSE]

\* The hart takes the interrupt of exccode: its level becomes the hart's, the
\* interrupted level is kept, and an edge is acknowledged.
TakeInterrupt ==
  LET i == cpu.exccode.irq
      c == [cpu EXCEPT !.mil = cpu.exccode.level, !.line = FALSE, !.wfe = FALSE,
                       !.mpil = <<cpu.mil>> \o @]
  IN /\ cpu.line /\ ~cpu.wake_only /\ Len(cpu.mpil) < MaxNest
     /\ Deliver(IF is_edge_triggered(s, i) THEN clean_pending(s, i) ELSE s, c)

Mret == /\ cpu.mpil # <<>>
        /\ Deliver(s, [cpu EXCEPT !.mil = Head(cpu.mpil), !.mpil = Tail(@)])

Wfi == /\ ~cpu.wfe /\ Deliver(s, [cpu EXCEPT !.wfe = TRUE])

Wake == /\ cpu.line /\ cpu.wfe
        /\ Deliver(s, [cpu EXCEPT !.wfe = FALSE])

\* mnxti in a handler: take the next interrupt above the interrupted level
\* without leaving.
mnxti_read == \E ack \in BOOLEAN :
  /\ cpu.mpil # <<>>
  /\ LET found == find_pending(s, Head(cpu.mpil), TRUE)
         c == [cpu EXCEPT !.mil = found.level]
     IN /\ found # None
        /\ IF ack /\ is_edge_triggered(s, found.irq)
             THEN Deliver(clean_pending(s, found.irq), c)
             ELSE s' = s /\ cpu' = [c EXCEPT !.fresh = FALSE]

Init ==
  /\ s = [ip |-> [i \in Irqs |-> FALSE], ie |-> [i \in Irqs |-> FALSE],
          trig |-> [i \in Irqs |-> POSITIVE_LEVEL], shv |-> {},
          ctl |-> [i \in Irqs |-> 0], wire |-> [i \in Irqs |-> FALSE],
          nlbits |-> 0, mintthresh |-> 0, active |-> <<>>, aborted |-> FALSE]
  /\ cpu = [line |-> FALSE, exccode |-> None, wake_only |-> FALSE, mil |-> 0,
            mpil |-> <<>>, wfe |-> FALSE, fresh |-> TRUE]

Next == \/ WriteIp \/ WriteIe \/ WriteAttr \/ WriteCtl \/ WriteCfg
        \/ WriteThreshold \/ Wire
        \/ TakeInterrupt \/ Mret \/ Wfi \/ Wake \/ mnxti_read

Spec == Init /\ [][Next]_vars

----------------------------------------------------------------------------
(* Properties.                                                             *)

\* The active list holds exactly the enabled interrupts, each with its current
\* priority, highest first: the assertion in disable_irq never fails and the
\* scan may stop at the threshold.
ActiveListExact ==
  /\ ~s.aborted
  /\ Len(s.active) = Cardinality({i \in Irqs : s.ie[i]})
  /\ \A i \in Irqs : s.ie[i] => found_active(s, i)
  /\ \A j, k \in DOMAIN s.active : j < k =>
       encode_priority(s.active[j]) > encode_priority(s.active[k])

\* What may interrupt the hart at a threshold, defined without the list.
Deliverable(t) ==
  {i \in Irqs : /\ s.ie[i] /\ s.ip[i] /\ intctl_priority_valid(s.ctl[i])
                /\ get_interrupt_level(s, intctl_effective(s.ctl[i])) > t}

\* The hart's interrupt line is up exactly when an enabled interrupt above both
\* the running level and the threshold is pending (or one that ends a wait),
\* and exccode names the one with the highest priority.
LineExact ==
  cpu.fresh =>
    LET strong == Deliverable(Max({cpu.mil, s.mintthresh}))
        weak == IF cpu.wfe THEN Deliverable(0) ELSE {}
        best(S) == CHOOSE i \in S : \A j \in S :
                     encode_priority(entry(s, i)) >= encode_priority(entry(s, j))
    IN /\ cpu.line <=> strong \cup weak # {}
       /\ cpu.line => /\ cpu.wake_only <=> strong = {}
                      /\ cpu.exccode.irq = best(IF strong # {} THEN strong ELSE weak)
===============================================================================
