------------------------------- MODULE BL808I2s -------------------------------
(***************************************************************************)
(* The I2S port (hw/audio/bl808_i2s.c): samples written to the transmit    *)
(* FIFO are taken by a bottom half that stands for the serializer; nothing *)
(* ever fills the receive FIFO.  Samples are not told apart.               *)
(***************************************************************************)
EXTENDS Integers, FiniteSets

CONSTANTS Depth,        \* BL808_I2S_FIFO_DEPTH
          Thresholds,   \* FIFO thresholds
          MaxOps        \* bound on accesses and clock changes

VARIABLES s,            \* BL808I2SState, its line and its bottom half
          ops           \* accesses so far

vars == <<s, ops>>

INT == {"TX", "RX", "ERR"}

----------------------------------------------------------------------------
clock_active(d) == d.module_clock /\ d.clock_enabled /\ ~d.reset_asserted

tx_free(d) == Depth - d.tx

dynamic_ints(d) ==
  (IF tx_free(d) > d.tx_thresh THEN {"TX"} ELSE {})
  \cup (IF d.rx > d.rx_thresh THEN {"RX"} ELSE {})
  \cup (IF d.flags # {} THEN {"ERR"} ELSE {})

update_irq(d) ==
  [d EXCEPT !.irq = clock_active(d) /\ (dynamic_ints(d) \cap d.int_en) \ d.int_mask # {}]

flush_fifo(d, tx) ==
  IF tx THEN [d EXCEPT !.tx = 0, !.flags = @ \ {"TX_OVERFLOW"}]
        ELSE [d EXCEPT !.rx = 0, !.flags = @ \ {"RX_UNDERFLOW"}]

tx_bh(d) ==
  LET e == [d EXCEPT !.scheduled = FALSE]
  IN IF clock_active(e) /\ e.tx_en THEN update_irq([e EXCEPT !.tx = 0]) ELSE e

schedule_tx(d) ==
  IF d.tx # 0 /\ clock_active(d) /\ d.tx_en THEN [d EXCEPT !.scheduled = TRUE] ELSE d

push_tx(d) ==
  IF d.tx >= Depth THEN update_irq([d EXCEPT !.flags = @ \cup {"TX_OVERFLOW"}])
                   ELSE update_irq(schedule_tx([d EXCEPT !.tx = @ + 1]))

pop_rx(d) ==
  update_irq(IF d.rx = 0 THEN [d EXCEPT !.flags = @ \cup {"RX_UNDERFLOW"}]
                         ELSE [d EXCEPT !.rx = @ - 1])

dma_can_read(d) == clock_active(d) /\ d.rx_en /\ d.dma_rx /\ d.rx > d.rx_thresh
dma_can_write(d) == clock_active(d) /\ d.tx_en /\ d.dma_tx /\ tx_free(d) > d.tx_thresh

----------------------------------------------------------------------------
(* Registers, clock and reset inputs.                                      *)

write_config(d, tx_en, rx_en) ==
  update_irq(schedule_tx([d EXCEPT !.tx_en = tx_en, !.rx_en = rx_en]))

write_int_sts(d, mask, en) == update_irq([d EXCEPT !.int_mask = mask, !.int_en = en])

write_fifo_config0(d, dma_tx, dma_rx, tx_clr, rx_clr) ==
  LET t == IF tx_clr THEN flush_fifo(d, TRUE) ELSE d
      r == IF rx_clr THEN flush_fifo(t, FALSE) ELSE t
  IN update_irq([r EXCEPT !.dma_tx = dma_tx, !.dma_rx = dma_rx])

write_fifo_config1(d, tx, rx) == update_irq([d EXCEPT !.tx_thresh = tx, !.rx_thresh = rx])

onClock(d, on) ==
  update_irq(IF on THEN schedule_tx(d) ELSE [d EXCEPT !.scheduled = FALSE])

set_clock_enabled(d, on) == onClock([d EXCEPT !.clock_enabled = on], on)

set_module_clock_enabled(d, on) == onClock([d EXCEPT !.module_clock = on], on)

reset(d) ==
  update_irq([d EXCEPT !.tx_en = FALSE, !.rx_en = FALSE, !.int_mask = INT, !.int_en = INT,
                       !.dma_tx = FALSE, !.dma_rx = FALSE, !.flags = {}, !.tx_thresh = 0,
                       !.rx_thresh = 0, !.tx = 0, !.rx = 0, !.scheduled = FALSE])

set_reset_asserted(d, on) ==
  LET e == [d EXCEPT !.reset_asserted = on]
  IN update_irq(IF on THEN reset(e) ELSE schedule_tx(e))

Init ==
  /\ s = [clock_enabled |-> TRUE, module_clock |-> TRUE, reset_asserted |-> FALSE,
          tx_en |-> FALSE, rx_en |-> FALSE, int_mask |-> INT, int_en |-> INT, irq |-> FALSE,
          dma_tx |-> FALSE, dma_rx |-> FALSE, flags |-> {}, tx_thresh |-> 0,
          rx_thresh |-> 0, tx |-> 0, rx |-> 0, scheduled |-> FALSE]
  /\ ops = 0

\* What changes nothing does not count.
Step(d) == ops < MaxOps /\ ops' = ops + 1 /\ s' = d /\ s' # s

Access(d) == ~s.reset_asserted /\ Step(d)

SetConfig == \E tx, rx \in BOOLEAN : Access(write_config(s, tx, rx))
SetInterrupts == \E m \in {{}, INT, {"TX"}} : Access(write_int_sts(s, m, INT))
SetFifo ==
  \E tx, rx, tx_clr, rx_clr \in BOOLEAN : Access(write_fifo_config0(s, tx, rx, tx_clr, rx_clr))
SetThresholds == \E tx, rx \in Thresholds : Access(write_fifo_config1(s, tx, rx))
WriteData == Access(push_tx(s))
DmaWrite == dma_can_write(s) /\ Step(push_tx(s))
ReadData == Step(pop_rx(s))
SetClock == \E on \in BOOLEAN : Step(set_clock_enabled(s, on))
SetModuleClock == \E on \in BOOLEAN : Step(set_module_clock_enabled(s, on))
SetReset == \E on \in BOOLEAN : Step(set_reset_asserted(s, on))

Serialize == s.scheduled /\ s' = tx_bh(s) /\ UNCHANGED ops

Next == \/ SetConfig \/ SetInterrupts \/ SetFifo \/ SetThresholds \/ WriteData \/ DmaWrite
        \/ ReadData \/ SetClock \/ SetModuleClock \/ SetReset \/ Serialize

Spec == Init /\ [][Next]_vars

----------------------------------------------------------------------------
\* Samples that can be played are about to be: whenever the enabled, clocked
\* port holds one its bottom half is scheduled, so that a full FIFO cannot
\* stop a transfer for good; and it is never scheduled for a stopped port.
SamplesDrain ==
  /\ clock_active(s) /\ s.tx_en /\ s.tx > 0 => s.scheduled
  /\ s.scheduled => clock_active(s)

\* The interrupt line shows the FIFO levels, flags and masks of this moment,
\* after every access, DMA transfer, bottom half, clock and reset change.
I2sLineExact == s = update_irq(s)

===============================================================================
