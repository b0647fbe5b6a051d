------------------------------- MODULE BL808Spi -------------------------------
(***************************************************************************)
(* The SPI master (hw/ssi/bl808_spi.c): frames written to the transmit     *)
(* ring are exchanged later, all at once, by a bottom half that the        *)
(* accesses, the clock and the reset inputs schedule and cancel.  Frames   *)
(* are numbered in the order in which they are written, and what comes     *)
(* back carries the number of the frame it answers.                        *)
(***************************************************************************)
EXTENDS RingFifo, FiniteSetsExt

CONSTANTS Depths,       \* FIFO depth per frame size, the first the largest
          Ignores,      \* values of RXD_IGNR
          Thresholds,   \* FIFO thresholds
          MaxOps        \* bound on accesses and clock changes

VARIABLES s,            \* BL808SPIState, its lines and its bottom half
          ops           \* accesses so far

vars == <<s, ops>>

INT == {"END", "TX_FIFO", "RX_FIFO", "TX_UNDER", "FIFO_ERR"}

----------------------------------------------------------------------------
clock_active(d) == d.gate /\ d.module_clock /\ ~d.reset_asserted

fifo_depth(d) == Depths[d.size]

tx_free(d) == Max({fifo_depth(d) - d.tx.count, 0})

dynamic_ints(d) ==
  (IF tx_free(d) > d.tx_thresh THEN {"TX_FIFO"} ELSE {})
  \cup (IF d.rx.count > d.rx_thresh THEN {"RX_FIFO"} ELSE {})
  \cup (IF d.flags # {} THEN {"FIFO_ERR"} ELSE {})

update_irq(d) ==
  [d EXCEPT !.irq = /\ clock_active(d)
                    /\ ((d.int_sts \cup dynamic_ints(d)) \cap d.int_enable) \ d.int_mask # {}]

clear_tx_fifo(d) == [d EXCEPT !.tx = ring(Depths[1]), !.flags = @ \ {"TX_OVERFLOW"}]

clear_rx_fifo(d) ==
  [d EXCEPT !.rx = ring(Depths[1]), !.ignored = 0,
            !.flags = @ \ {"RX_OVERFLOW", "RX_UNDERFLOW"}]

schedule_transfer(d) ==
  IF clock_active(d) /\ d.enabled /\ d.tx.count > 0 THEN [d EXCEPT !.scheduled = TRUE] ELSE d

\* The n oldest frames come back: the first are ignored, the last find no room.
push_rx(d, n) ==
  LET skip == IF d.ignr_en THEN Min({n, Max({d.rxd_ignr - d.ignored, 0})}) ELSE 0
      room == Max({fifo_depth(d) - d.rx.count, 0})
      kept == Min({n - skip, room})
  IN [d EXCEPT !.ignored = @ + skip,
               !.rx = pushAll(@, SubSeq(contents(d.tx), skip + 1, skip + kept)),
               !.flags = IF n - skip > room THEN @ \cup {"RX_OVERFLOW"} ELSE @]

\* The bottom half: every frame in the transmit ring, with the select line
\* down meanwhile.
transfer_bh(d) ==
  LET n == d.tx.count
      e == [push_rx(d, n) EXCEPT !.tx = popN(@, n), !.scheduled = FALSE]
  IN update_irq(IF clock_active(d) /\ d.enabled
                  THEN [e EXCEPT !.int_sts = IF n > 0 THEN @ \cup {"END"} ELSE @]
                  ELSE [d EXCEPT !.scheduled = FALSE])

----------------------------------------------------------------------------
(* Registers and the DMA port.                                             *)

write_config(d, en, ignr_en, sz) ==
  LET e == [d EXCEPT !.enabled = en, !.ignr_en = ignr_en, !.size = sz]
  IN update_irq(schedule_transfer(e))

write_int_sts(d, en, mask, clear) ==
  update_irq([d EXCEPT !.int_enable = en, !.int_mask = mask, !.int_sts = @ \ clear])

write_rxd_ignr(d, n) == update_irq([d EXCEPT !.rxd_ignr = n, !.ignored = 0])

\* The DMA enables are only ever added.
write_fifo_config0(d, dma_tx, dma_rx, tx_clr, rx_clr) ==
  LET e == [d EXCEPT !.flags = {}, !.dma_tx = @ \/ dma_tx, !.dma_rx = @ \/ dma_rx]
      t == IF tx_clr THEN [clear_tx_fifo(e) EXCEPT !.int_sts = @ \ {"END"}] ELSE e
  IN update_irq(IF rx_clr THEN clear_rx_fifo(t) ELSE t)

write_fifo_config1(d, tx, rx) == update_irq([d EXCEPT !.tx_thresh = tx, !.rx_thresh = rx])

\* Mutant: a new frame leaves the end of the previous transfer standing.
sendKeepsEnd(d, v) ==
  IF d.tx.count >= fifo_depth(d) THEN update_irq([d EXCEPT !.flags = @ \cup {"TX_OVERFLOW"}])
  ELSE update_irq(schedule_transfer([d EXCEPT !.tx = push(@, v)]))

\* The first frame of an empty ring restarts the count of ignored frames.
dma_write(d, v) ==
  IF d.tx.count >= fifo_depth(d)
    THEN update_irq([d EXCEPT !.flags = @ \cup {"TX_OVERFLOW"}])
    ELSE update_irq(schedule_transfer(
           [d EXCEPT !.ignored = IF d.tx.count = 0 THEN 0 ELSE @,
                     !.tx = push(@, v), !.int_sts = @ \ {"END"}]))

write_fifo_wdata(d, v) == dma_write(d, v)

dma_read(d) ==
  update_irq(IF d.rx.count = 0 THEN [d EXCEPT !.flags = @ \cup {"RX_UNDERFLOW"}]
                               ELSE [d EXCEPT !.rx = pop(@), !.last = first(d.rx)])

read_fifo_rdata(d) == dma_read(d)

dma_can_read(d) == clock_active(d) /\ d.dma_rx /\ d.rx.count > 0
dma_can_write(d) == clock_active(d) /\ d.dma_tx /\ d.tx.count < fifo_depth(d)

----------------------------------------------------------------------------
(* Clock and reset inputs.                                                 *)

reset(d) ==
  update_irq([clear_rx_fifo(clear_tx_fifo(d)) EXCEPT
      !.enabled = FALSE, !.ignr_en = FALSE, !.size = 1, !.int_sts = {}, !.int_enable = INT,
      !.int_mask = INT, !.rxd_ignr = 0, !.flags = {}, !.dma_tx = FALSE, !.dma_rx = FALSE,
      !.tx_thresh = 0, !.rx_thresh = 0, !.scheduled = FALSE])

set_clock_enabled(d, on) ==
  LET e == [d EXCEPT !.gate = on]
  IN update_irq(IF clock_active(e) THEN schedule_transfer(e)
                                   ELSE [e EXCEPT !.scheduled = FALSE])

set_module_clock_enabled(d, on) ==
  set_clock_enabled([d EXCEPT !.module_clock = on], d.gate)

set_reset_asserted(d, on) ==
  LET e == [d EXCEPT !.reset_asserted = on]
  IN update_irq(IF on THEN reset(e) ELSE schedule_transfer(e))

Init ==
  /\ s = [gate |-> TRUE, module_clock |-> TRUE, reset_asserted |-> FALSE,
          enabled |-> FALSE, ignr_en |-> FALSE, size |-> 1, int_sts |-> {},
          int_enable |-> INT, int_mask |-> INT, irq |-> FALSE, rxd_ignr |-> 0,
          ignored |-> 0, flags |-> {}, dma_tx |-> FALSE, dma_rx |-> FALSE,
          tx_thresh |-> 0, rx_thresh |-> 0, tx |-> ring(Depths[1]),
          rx |-> ring(Depths[1]), scheduled |-> FALSE,
          sent |-> 0, last |-> 0]     \* ghost: frames written, last frame read
  /\ ops = 0

\* What changes nothing does not count.
Step(d) == ops < MaxOps /\ ops' = ops + 1 /\ s' = d /\ s' # s

Access(d) == ~s.reset_asserted /\ Step(d)

SetConfig == \E en, ig \in BOOLEAN, sz \in DOMAIN Depths : Access(write_config(s, en, ig, sz))
SetInterrupts ==
  \E mask \in {{}, INT}, clear \in {{}, INT} : Access(write_int_sts(s, INT, mask, clear))
SetIgnore == \E n \in Ignores : Access(write_rxd_ignr(s, n))
SetFifo ==
  \E tx, rx, tx_clr, rx_clr \in BOOLEAN : Access(write_fifo_config0(s, tx, rx, tx_clr, rx_clr))
SetThresholds == \E tx, rx \in Thresholds : Access(write_fifo_config1(s, tx, rx))
WriteData == Access([write_fifo_wdata(s, s.sent + 1) EXCEPT !.sent = @ + 1])
DmaWrite == dma_can_write(s) /\ Step([dma_write(s, s.sent + 1) EXCEPT !.sent = @ + 1])
ReadData == Step(read_fifo_rdata(s))
DmaRead == dma_can_read(s) /\ Step(dma_read(s))
SetGate == \E on \in BOOLEAN : Step(set_clock_enabled(s, on))
SetModuleClock == \E on \in BOOLEAN : Step(set_module_clock_enabled(s, on))
SetReset == \E on \in BOOLEAN : Step(set_reset_asserted(s, on))

Transfer == s.scheduled /\ s' = transfer_bh(s) /\ UNCHANGED ops

Next == \/ SetConfig \/ SetInterrupts \/ SetIgnore \/ SetFifo \/ SetThresholds
        \/ WriteData \/ DmaWrite \/ ReadData \/ DmaRead
        \/ SetGate \/ SetModuleClock \/ SetReset \/ Transfer

Spec == Init /\ [][Next]_vars

----------------------------------------------------------------------------
\* Frames leave the receive ring in the order in which the frames they answer
\* were written, none twice, across frame-size changes, ignored frames,
\* overflows, cleared rings and stopped clocks.
FramesInOrder ==
  LET all == <<s.last>> \o contents(s.rx) \o contents(s.tx)
  IN \A i, j \in DOMAIN all : i < j => all[i] < all[j]

\* Frames that can be sent are about to be: the bottom half is scheduled
\* whenever the enabled and clocked controller holds one, and never runs for
\* a controller that is stopped.
TransferScheduled ==
  /\ clock_active(s) /\ s.enabled /\ s.tx.count > 0 => s.scheduled
  /\ s.scheduled => clock_active(s)

\* The end of the transfer is reported only while nothing is left to send.
EndMeansSent == "END" \in s.int_sts => s.tx.count = 0
===============================================================================
