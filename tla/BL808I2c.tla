------------------------------- MODULE BL808I2c -------------------------------
(***************************************************************************)
(* The I2C master (hw/i2c/bl808_i2c.c): a transfer runs on the bus as far  *)
(* as the FIFOs allow in the register access that starts or feeds it, and  *)
(* is completed, refused by the slave, or abandoned when the guest or a    *)
(* clock or reset input stops it.  Bytes are not told apart: a FIFO is the *)
(* number of bytes in it.                                                  *)
(***************************************************************************)
EXTENDS Integers, FiniteSets, FiniteSetsExt

CONSTANTS Depth,        \* BL808_I2C_FIFO_DEPTH
          PktLens,      \* lengths of a transfer, 1 and more
          SubLens,      \* bytes of the sub-address, 0 when it is not sent
          MaxOps        \* bound on accesses and clock changes

VARIABLES s,            \* BL808I2CState, the interrupt line and the bus
          ops           \* accesses so far

vars == <<s, ops>>

INT == {"END", "TX_FIFO", "RX_FIFO", "NAK", "ARB", "FIFO_ERR"}

----------------------------------------------------------------------------
clock_active(d) == d.gate /\ d.module_clock /\ ~d.reset_asserted

update_irq(d) == [d EXCEPT !.irq = clock_active(d) /\ d.int_sts \ d.mask # {}]

set_int(d, bits) == update_irq([d EXCEPT !.int_sts = @ \cup bits])

finish_transfer(d) ==
  [d EXCEPT !.bus_busy = IF d.transfer_active THEN FALSE ELSE @,
            !.transfer_active = FALSE, !.master_en = FALSE]

abort_transfer(d, bits) ==
  IF bits = {} THEN finish_transfer(d) ELSE set_int(finish_transfer(d), bits)

tx_fifo_push(d) ==
  IF d.tx >= Depth THEN set_int(d, {"FIFO_ERR"}) ELSE [d EXCEPT !.tx = @ + 1]

rx_fifo_pop(d) ==
  IF d.rx = 0 THEN set_int(d, {"FIFO_ERR"}) ELSE [d EXCEPT !.rx = @ - 1]

fill_rx(d) ==
  LET n == Min({Depth - d.rx, d.remaining})
  IN [d EXCEPT !.rx = @ + n, !.remaining = @ - n, !.moved = @ + n]

\* The slave takes the first acks bytes of those that can be sent.  The byte
\* it refuses has left the FIFO.
drain_tx(d, acks) ==
  LET n == Min({d.tx, d.remaining})
  IN IF acks < n
       THEN [d EXCEPT !.tx = @ - acks - 1, !.remaining = @ - acks, !.moved = @ + acks]
       ELSE [d EXCEPT !.tx = @ - n, !.remaining = @ - n, !.moved = @ + n]

refused(d, acks) == acks < Min({d.tx, d.remaining})

check_complete(d) ==
  IF d.remaining = 0 THEN set_int(finish_transfer(d), {"END"})
  ELSE IF d.is_read
    THEN IF d.rx > 0 THEN set_int(d, {"RX_FIFO"}) ELSE d
    ELSE IF d.tx < Depth THEN set_int(d, {"TX_FIFO"}) ELSE d

sendOn(d, acks) ==
  IF refused(d, acks) THEN abort_transfer(drain_tx(d, acks), {"NAK", "END"})
                      ELSE check_complete(drain_tx(d, acks))

\* start: the slave answers its address; sub: it takes the sub-address;
\* restart: it answers its address for reading.
start_transfer(d, len, ten, start, sub, restart, acks) ==
  LET e == [d EXCEPT !.int_sts = {}, !.remaining = len, !.len = len, !.moved = 0,
                     !.transfer_active = TRUE, !.bus_busy = TRUE]
  IN IF ~clock_active(d) THEN abort_transfer(d, {})
     ELSE IF ten THEN abort_transfer(d, {"NAK", "END"})
     ELSE IF ~start \/ ~sub THEN abort_transfer(e, {"NAK", "END"})
     ELSE IF d.is_read
       THEN IF restart THEN check_complete(fill_rx(e))
                       ELSE abort_transfer(e, {"NAK", "END"})
       ELSE sendOn(e, acks)

----------------------------------------------------------------------------
(* Registers and the DMA port.                                             *)

write_config(d, en, read, len, ten, start, sub, restart, acks) ==
  LET e == [d EXCEPT !.master_en = en]
  IN IF ~d.master_en /\ en
       THEN start_transfer([e EXCEPT !.is_read = IF clock_active(d) /\ ~ten THEN read
                                                                           ELSE @],
                           len, ten, start, sub, restart, acks)
     ELSE IF d.master_en /\ ~en THEN abort_transfer(e, {})
     ELSE e

write_int_sts(d, mask, clear) ==
  update_irq([d EXCEPT !.mask = mask, !.int_sts = @ \ clear])

write_fifo_config0(d, dma_tx, dma_rx, tx_clr, rx_clr) ==
  update_irq([d EXCEPT !.dma_tx = dma_tx, !.dma_rx = dma_rx,
                       !.tx = IF tx_clr THEN 0 ELSE @, !.rx = IF rx_clr THEN 0 ELSE @])

dma_write(d, acks) ==
  LET e == tx_fifo_push(d)
  IN IF d.transfer_active /\ ~d.is_read THEN sendOn(e, acks) ELSE e

write_fifo_wdata(d, acks) == dma_write(d, acks)

dma_read(d) ==
  LET e == rx_fifo_pop(d)
  IN IF d.transfer_active /\ d.is_read THEN check_complete(fill_rx(e)) ELSE e

read_fifo_rdata(d) == dma_read(d)

dma_can_read(d) == clock_active(d) /\ d.dma_rx /\ d.rx > 0
dma_can_write(d) == clock_active(d) /\ d.dma_tx /\ d.tx < Depth

----------------------------------------------------------------------------
(* Clock and reset inputs.                                                 *)

reset_hold(d) ==
  update_irq([d EXCEPT !.bus_busy = IF d.transfer_active THEN FALSE ELSE @,
                       !.master_en = FALSE, !.int_sts = {}, !.mask = INT,
                       !.dma_tx = FALSE, !.dma_rx = FALSE, !.tx = 0, !.rx = 0,
                       !.transfer_active = FALSE, !.remaining = 0, !.is_read = FALSE])

stopIfInactive(d) ==
  update_irq(IF ~clock_active(d) /\ d.transfer_active THEN abort_transfer(d, {}) ELSE d)

set_clock_enabled(d, on) == stopIfInactive([d EXCEPT !.gate = on])

set_module_clock_enabled(d, on) == stopIfInactive([d EXCEPT !.module_clock = on])

set_reset_asserted(d, on) ==
  LET e == [d EXCEPT !.reset_asserted = on]
  IN IF on THEN reset_hold(e) ELSE update_irq(e)

Init ==
  /\ s = [gate |-> TRUE, module_clock |-> TRUE, reset_asserted |-> FALSE,
          master_en |-> FALSE, int_sts |-> {}, mask |-> INT, irq |-> FALSE,
          dma_tx |-> FALSE, dma_rx |-> FALSE, tx |-> 0, rx |-> 0,
          transfer_active |-> FALSE, is_read |-> FALSE, remaining |-> 0,
          bus_busy |-> FALSE,            \* the bus between start and stop
          len |-> 0, moved |-> 0]        \* ghost: the transfer and what it moved
  /\ ops = 0

\* What changes nothing does not count.
Step(d) == ops < MaxOps /\ ops' = ops + 1 /\ s' = d /\ s' # s

Access(d) == ~s.reset_asserted /\ Step(d)

SetConfig ==
  \E en, read, ten, start, sub, restart \in BOOLEAN, len \in PktLens,
     n \in SubLens, acks \in 0 .. Depth :
     /\ n = 0 => sub
     /\ ~en \/ s.master_en =>          \* nothing is started: one choice is enough
          /\ ~read /\ ~ten /\ start /\ sub /\ restart /\ acks = 0
          /\ \A k \in PktLens : len <= k
     /\ Access(write_config(s, en, read, len, ten, start, sub, restart, acks))

SetInterrupts ==
  \E mask \in {{}, INT, {"TX_FIFO", "RX_FIFO"}}, clear \in {{}, INT} :
     Access(write_int_sts(s, mask, clear))

SetFifo ==
  \E tx, rx, tx_clr, rx_clr \in BOOLEAN : Access(write_fifo_config0(s, tx, rx, tx_clr, rx_clr))

WriteData == \E acks \in 0 .. Depth : Access(write_fifo_wdata(s, acks))

ReadData == Step(read_fifo_rdata(s))

DmaWrite == \E acks \in 0 .. Depth : dma_can_write(s) /\ Step(dma_write(s, acks))

DmaRead == dma_can_read(s) /\ Step(dma_read(s))

SetGate == \E on \in BOOLEAN : Step(set_clock_enabled(s, on))
SetModuleClock == \E on \in BOOLEAN : Step(set_module_clock_enabled(s, on))
SetReset == \E on \in BOOLEAN : Step(set_reset_asserted(s, on))

Next == \/ SetConfig \/ SetInterrupts \/ SetFifo \/ WriteData \/ ReadData
        \/ DmaWrite \/ DmaRead \/ SetGate \/ SetModuleClock \/ SetReset

Spec == Init /\ [][Next]_vars

----------------------------------------------------------------------------
\* The bus is held exactly while a transfer is under way and the controller
\* is enabled and clocked: whichever of completion, refusal, the guest, a
\* clock or a reset ends the transfer, the stop condition is sent.
BusReleased ==
  /\ s.bus_busy <=> s.transfer_active
  /\ s.transfer_active => s.master_en /\ clock_active(s)

\* A transfer that has stopped half-way has done all that the FIFOs allow: a
\* write waits for a byte, a read for room (or for the guest, when it has
\* emptied the FIFO), and neither waits with nothing left to move.
OnlyFifoStalls ==
  s.transfer_active =>
    /\ s.remaining > 0
    /\ ~s.is_read => s.tx = 0
    /\ s.is_read => s.rx \in {0, Depth}

\* A step that moves bytes and reports the end without a refusal has moved
\* exactly the length of the packet.
EndIsExactStep ==
  s'.moved # s.moved /\ "END" \in s'.int_sts /\ "NAK" \notin s'.int_sts
    => s'.moved = s'.len /\ ~s'.transfer_active

EndIsExact == [][EndIsExactStep]_vars
===============================================================================
