------------------------------ MODULE BL808Audio ------------------------------
(***************************************************************************)
(* The audio codec (hw/audio/bl808_audio.c): a transmit FIFO that a bottom *)
(* half empties while all of the converter's enables are on, a receive     *)
(* FIFO that nothing fills, and one interrupt for both.  The receive side  *)
(* is reached through two register windows.  Samples are not told apart.   *)
(***************************************************************************)
EXTENDS Integers, FiniteSets

CONSTANTS Depth,        \* BL808_AUDIO_FIFO_DEPTH
          Thresholds,   \* FIFO thresholds
          MaxOps        \* bound on accesses and clock changes

VARIABLES s,            \* BL808AudioState, its line and its bottom half
          ops           \* accesses so far

vars == <<s, ops>>

INT == {"AVAIL", "UDR", "OVR"}
CTRL0 == {"DAC_EN", "ITF_EN", "CLK_EN"}

\* A FIFO's control register: enabled interrupts, DMA request, channels, threshold.
fifo0 == [int_en |-> {}, drq |-> FALSE, ch_en |-> FALSE, thresh |-> 0]

----------------------------------------------------------------------------
clock_active(d) == d.clock_enabled /\ ~d.reset_asserted

tx_enabled(d) == clock_active(d) /\ d.ctrl0 = CTRL0 /\ d.tx_ctrl.ch_en

rx_enabled(d) == clock_active(d) /\ d.pdm_itf /\ d.rx_ctrl.ch_en

tx_free(d) == Depth - d.tx

update_tx_sts(d) ==
  [d EXCEPT !.tx_sts = IF tx_free(d) > d.tx_ctrl.thresh THEN @ \cup {"AVAIL"}
                                                        ELSE @ \ {"AVAIL"}]

update_rx_sts(d) ==
  [d EXCEPT !.rx_sts = IF d.rx > d.rx_ctrl.thresh THEN @ \cup {"AVAIL"} ELSE @ \ {"AVAIL"}]

\* The status register is rebuilt: the bits that report a volume change, set
\* just before, do not survive it.
update_irq(d) ==
  LET e == update_rx_sts(update_tx_sts(d))
      any == e.tx_sts \cap e.tx_ctrl.int_en # {} \/ e.rx_sts \cap e.rx_ctrl.int_en # {}
  IN [e EXCEPT !.status = IF any THEN {"INT"} ELSE {}, !.irq = clock_active(e) /\ any]

flush_tx(d) == [d EXCEPT !.tx = 0, !.tx_sts = @ \ {"UDR", "OVR"}]
flush_rx(d) == [d EXCEPT !.rx = 0, !.rx_sts = @ \ {"UDR", "OVR"}]

tx_bh(d) ==
  LET e == [d EXCEPT !.scheduled = FALSE]
  IN IF tx_enabled(e) THEN update_irq([e EXCEPT !.tx = 0]) ELSE e

schedule_tx(d) == IF d.tx # 0 /\ tx_enabled(d) THEN [d EXCEPT !.scheduled = TRUE] ELSE d

push_tx(d) ==
  update_irq(IF d.tx >= Depth THEN [d EXCEPT !.tx_sts = @ \cup {"OVR"}]
                              ELSE schedule_tx([d EXCEPT !.tx = @ + 1]))

pop_rx(d) ==
  update_irq(IF d.rx = 0 THEN [d EXCEPT !.rx_sts = @ \cup {"UDR"}]
                         ELSE [d EXCEPT !.rx = @ - 1])

dma_can_read(d) == rx_enabled(d) /\ d.rx_ctrl.drq /\ d.rx > d.rx_ctrl.thresh
dma_can_write(d) == tx_enabled(d) /\ d.tx_ctrl.drq /\ tx_free(d) > d.tx_ctrl.thresh

----------------------------------------------------------------------------
(* Registers, clock and reset inputs.                                      *)

write_ctrl0(d, bits) == update_irq(schedule_tx([d EXCEPT !.ctrl0 = bits]))

write_s0(d) == update_irq([d EXCEPT !.status = @ \cup {"VOL"}])

write_auadc_cmd(d, soft_rst) == update_irq(IF soft_rst THEN flush_rx(d) ELSE d)

write_rx_fifo_ctrl(d, c, flush) ==
  update_irq([(IF flush THEN flush_rx(d) ELSE d) EXCEPT !.rx_ctrl = c])

write_tx_fifo_ctrl(d, c, flush) ==
  update_irq(schedule_tx([(IF flush THEN flush_tx(d) ELSE d) EXCEPT !.tx_ctrl = c]))

write_pdm_itf(d, on) == update_irq([d EXCEPT !.pdm_itf = on])

set_clock_enabled(d, on) ==
  LET e == [d EXCEPT !.clock_enabled = on]
  IN update_irq(IF on THEN schedule_tx(e) ELSE [e EXCEPT !.scheduled = FALSE])

reset(d) ==
  update_irq([d EXCEPT !.ctrl0 = {}, !.status = {}, !.tx_ctrl = fifo0, !.tx_sts = {},
                       !.rx_ctrl = fifo0, !.rx_sts = {}, !.pdm_itf = FALSE,
                       !.tx = 0, !.rx = 0, !.scheduled = FALSE])

set_reset_asserted(d, on) ==
  LET e == [d EXCEPT !.reset_asserted = on]
  IN update_irq(IF on THEN reset(e) ELSE schedule_tx(e))

Init ==
  /\ s = [clock_enabled |-> TRUE, reset_asserted |-> FALSE, ctrl0 |-> {}, status |-> {},
          tx_ctrl |-> fifo0, tx_sts |-> {"AVAIL"}, rx_ctrl |-> fifo0, rx_sts |-> {},
          pdm_itf |-> FALSE, tx |-> 0, rx |-> 0, irq |-> FALSE, scheduled |-> FALSE]
  /\ ops = 0

\* What changes nothing does not count.
Step(d) == ops < MaxOps /\ ops' = ops + 1 /\ s' = d /\ s' # s

Access(d) == ~s.reset_asserted /\ Step(d)

FifoCtrls == [int_en : {INT, {"OVR"}}, drq : BOOLEAN, ch_en : BOOLEAN, thresh : Thresholds]

SetCtrl0 == \E bits \in {{}, {"DAC_EN", "ITF_EN"}, CTRL0} : Access(write_ctrl0(s, bits))
SetVolume == Access(write_s0(s))
SetCommand == \E r \in BOOLEAN : Access(write_auadc_cmd(s, r))
SetRxFifo == \E c \in FifoCtrls, f \in BOOLEAN : Access(write_rx_fifo_ctrl(s, c, f))
SetTxFifo == \E c \in FifoCtrls, f \in BOOLEAN : Access(write_tx_fifo_ctrl(s, c, f))
SetPdm == \E on \in BOOLEAN : Access(write_pdm_itf(s, on))
WriteData == Access(push_tx(s))
DmaWrite == dma_can_write(s) /\ Step(push_tx(s))
ReadData == Step(pop_rx(s))
ReadStatus == Step(update_irq(s))
SetClock == \E on \in BOOLEAN : Step(set_clock_enabled(s, on))
SetReset == \E on \in BOOLEAN : Step(set_reset_asserted(s, on))

Serialize == s.scheduled /\ s' = tx_bh(s) /\ UNCHANGED ops

Next == \/ SetCtrl0 \/ SetVolume \/ SetCommand \/ SetRxFifo \/ SetTxFifo \/ SetPdm
        \/ WriteData \/ DmaWrite \/ ReadData \/ ReadStatus \/ SetClock \/ SetReset
        \/ Serialize

Spec == Init /\ [][Next]_vars

----------------------------------------------------------------------------
\* Samples that can be played are about to be: in whatever order the clock,
\* the converter's enables, the channels and the samples come, the bottom half
\* is scheduled once all are there, and never for a stopped clock.
PlaybackDrains ==
  /\ tx_enabled(s) /\ s.tx > 0 => s.scheduled
  /\ s.scheduled => clock_active(s)

\* The interrupt line and the status register show the FIFO levels, errors
\* and enables of this moment, after every access and every clock change, so
\* that reading the status never changes the line.
AudioLineExact == s = update_irq(s)
===============================================================================
