------------------------------- MODULE BL808Uart ------------------------------
(***************************************************************************)
(* The serial port (hw/char/bl808_uart.c): two ring buffers between the    *)
(* guest or the DMA controller and the host's character device, fixed      *)
(* length and free-running transmission, threshold and error interrupts,   *)
(* two clock gates and a reset.  The host asks can_receive first and       *)
(* delivers later, when the guest may have changed the port.               *)
(* Bytes are numbered in the order in which they are offered.              *)
(***************************************************************************)
EXTENDS RingFifo, FiniteSetsExt

CONSTANTS Depth,        \* BL808_UART_FIFO_DEPTH
          TxLens,       \* fixed transmit lengths, 0 for none
          RxLens,       \* fixed receive lengths, 0 for none
          Thresholds,   \* FIFO thresholds
          MaxOps        \* bound on accesses, deliveries and clock changes

VARIABLES s,            \* BL808UARTState and the interrupt line
          host,         \* bytes on their way: offered to the port, promised space
          acc,          \* ghost: bytes the FIFOs accepted and did not drop
          out,          \* ghost: bytes sent to the host, bytes the guest read
          ops           \* accesses so far

vars == <<s, host, acc, out, ops>>

----------------------------------------------------------------------------
clock_active(d) == d.gate /\ d.module_clock /\ ~d.reset_asserted

dynamic_ints(d) ==
  (IF Depth - d.tx.count > d.tx_thresh THEN {"UTX_FRDY"} ELSE {})
  \cup (IF d.rx.count >= d.rx_thresh /\ d.rx.count > 0 THEN {"URX_FRDY"} ELSE {})
  \cup (IF d.flags \cap {"TX_OVERFLOW", "TX_UNDERFLOW"} # {} THEN {"UTX_FER"} ELSE {})
  \cup (IF d.flags \cap {"RX_OVERFLOW", "RX_UNDERFLOW"} # {} THEN {"URX_FER"} ELSE {})

update_irq(d) ==
  [d EXCEPT !.irq = /\ clock_active(d)
                    /\ ((d.int_sts \cup dynamic_ints(d)) \cap d.int_en) \ d.int_mask # {}]

can_receive(d) == IF clock_active(d) /\ d.urx_en THEN Depth - d.rx.count ELSE 0

maybe_set_rx_end(d) ==
  IF d.rx_len # 0 /\ d.rx_total >= d.rx_len
    THEN [d EXCEPT !.int_sts = @ \cup {"URX_END"}, !.rx_total = 0] ELSE d

\* Bytes leave until the FIFO is empty or a fixed length is complete, which
\* ends the transmission; wire collects them.
flush_tx(d) ==
  LET left == IF ~d.freerun /\ d.tx_len # 0 THEN Max({d.tx_len - d.tx_total, 1})
                                            ELSE d.tx.count + 1
      n == Min({left, d.tx.count})
      e == [d EXCEPT !.wire = @ \o SubSeq(contents(d.tx), 1, n), !.tx = popN(@, n)]
  IN IF ~clock_active(d) \/ ~d.utx_en THEN d
     ELSE IF n = left
       THEN [e EXCEPT !.int_sts = @ \cup {"UTX_END"}, !.utx_en = FALSE, !.tx_total = 0]
       ELSE [e EXCEPT !.tx_total = @ + n]

\* One byte at a time, until the FIFO is full.
receive(d, bytes) ==
  LET n == Min({Len(bytes), Depth - d.rx.count})
      e == [d EXCEPT !.rx = pushAll(@, SubSeq(bytes, 1, n)), !.rx_total = @ + n,
                     !.flags = IF n < Len(bytes) THEN @ \cup {"RX_OVERFLOW"} ELSE @]
  IN IF ~clock_active(d) \/ ~d.urx_en THEN d ELSE update_irq(maybe_set_rx_end(e))

----------------------------------------------------------------------------
(* Registers.                                                              *)

write_utx_config(d, en, freerun, len) ==
  LET e == [d EXCEPT !.utx_en = en, !.freerun = freerun, !.tx_len = len]
  IN IF ~d.utx_en /\ en THEN flush_tx(e) ELSE e

write_urx_config(d, en, len) == [d EXCEPT !.urx_en = en, !.rx_len = len]

write_int_mask(d, m) == update_irq([d EXCEPT !.int_mask = m])
write_int_en(d, m) == update_irq([d EXCEPT !.int_en = m])
write_int_clear(d, m) == update_irq([d EXCEPT !.int_sts = @ \ m])

write_fifo_config_0(d, dma_tx, dma_rx, clr_tx, clr_rx) ==
  LET e == [d EXCEPT !.dma_tx = dma_tx, !.dma_rx = dma_rx]
      t == IF clr_tx THEN [e EXCEPT !.tx = ring(Depth),
                             !.flags = @ \ {"TX_OVERFLOW", "TX_UNDERFLOW"}] ELSE e
  IN update_irq(IF clr_rx THEN [t EXCEPT !.rx = ring(Depth),
                             !.flags = @ \ {"RX_OVERFLOW", "RX_UNDERFLOW"}] ELSE t)

write_fifo_config_1(d, tx, rx) == update_irq([d EXCEPT !.tx_thresh = tx, !.rx_thresh = rx])

\* A byte from the guest or the DMA controller.  The two test the enable bit
\* and the level in opposite orders, so a full FIFO of a stopped transmitter
\* raises another flag.
write_fifo_wdata(d, b) ==
  IF ~d.utx_en THEN update_irq([d EXCEPT !.flags = @ \cup {"TX_UNDERFLOW"}])
  ELSE IF d.tx.count >= Depth THEN update_irq([d EXCEPT !.flags = @ \cup {"TX_OVERFLOW"}])
  ELSE update_irq(flush_tx([d EXCEPT !.tx = push(@, b)]))

dma_write(d, b) ==
  IF d.tx.count >= Depth THEN update_irq([d EXCEPT !.flags = @ \cup {"TX_OVERFLOW"}])
  ELSE IF ~d.utx_en THEN update_irq([d EXCEPT !.flags = @ \cup {"TX_UNDERFLOW"}])
  ELSE update_irq(flush_tx([d EXCEPT !.tx = push(@, b)]))

read_fifo_rdata(d) ==
  update_irq(IF d.rx.count = 0 THEN [d EXCEPT !.flags = @ \cup {"RX_UNDERFLOW"}]
                               ELSE [d EXCEPT !.rx = pop(@)])

dma_can_read(d) == clock_active(d) /\ d.dma_rx /\ d.rx.count > 0
dma_can_write(d) == clock_active(d) /\ d.dma_tx /\ d.tx.count < Depth

----------------------------------------------------------------------------
(* Clock and reset inputs.                                                 *)

set_clock_enabled(d, on) ==
  LET e == [d EXCEPT !.gate = on]
  IN update_irq(IF clock_active(e) THEN flush_tx(e) ELSE e)

set_module_clock_enabled(d, on) ==
  LET e == [d EXCEPT !.module_clock = on]
  IN update_irq(IF clock_active(e) THEN flush_tx(e) ELSE e)

AllInts == {"UTX_END", "URX_END", "UTX_FRDY", "URX_FRDY", "UTX_FER", "URX_FER"}

reset(d) ==
  update_irq([d EXCEPT !.utx_en = FALSE, !.freerun = FALSE, !.tx_len = 0,
    !.urx_en = FALSE, !.rx_len = 0, !.int_sts = {}, !.int_mask = AllInts,
    !.int_en = AllInts,
    !.dma_tx = FALSE, !.dma_rx = FALSE, !.flags = {}, !.tx_thresh = 0,
    !.rx_thresh = 0, !.tx = ring(Depth), !.rx = ring(Depth), !.tx_total = 0, !.rx_total = 0])

set_reset_asserted(d, on) ==
  LET e == [d EXCEPT !.reset_asserted = on]
  IN update_irq(IF on THEN reset(e) ELSE e)

----------------------------------------------------------------------------
(* Actions.                                                                *)

Init ==
  /\ s = [utx_en |-> FALSE, freerun |-> FALSE, tx_len |-> 0, urx_en |-> FALSE,
          rx_len |-> 0, int_sts |-> {}, int_mask |-> AllInts, int_en |-> AllInts, dma_tx |-> FALSE,
          dma_rx |-> FALSE, flags |-> {}, tx_thresh |-> 0, rx_thresh |-> 0,
          tx |-> ring(Depth), rx |-> ring(Depth), tx_total |-> 0, rx_total |-> 0, gate |-> TRUE,
          module_clock |-> TRUE, reset_asserted |-> FALSE, irq |-> FALSE,
          wire |-> <<>>]
  /\ host = [promised |-> 0, next |-> 1, sent |-> 1]
  /\ acc = [tx |-> <<>>, rx |-> <<>>]
  /\ out = [tx |-> <<>>, rx |-> <<>>]
  /\ ops = 0

Op == ops < MaxOps /\ ops' = ops + 1

\* The step to d; the bytes it put on the wire leave.
Step(d) == /\ s' = [d EXCEPT !.wire = <<>>]
           /\ out' = [out EXCEPT !.tx = @ \o d.wire]

Write(d) == Op /\ ~s.reset_asserted /\ Step(d) /\ acc' = acc /\ UNCHANGED host

Configure ==
  \/ \E en, fr \in BOOLEAN, n \in TxLens : Write(write_utx_config(s, en, fr, n))
  \/ \E en \in BOOLEAN, n \in RxLens : Write(write_urx_config(s, en, n))
  \/ \E t, r \in Thresholds : Write(write_fifo_config_1(s, t, r))

Interrupts ==
  \/ \E m \in {{}, {"UTX_FRDY"}, AllInts} : Write(write_int_mask(s, m))
  \/ \E m \in {{}, AllInts} : Write(write_int_en(s, m))
  \/ Write(write_int_clear(s, {"UTX_END", "URX_END"}))

FifoConfig ==
  \E dma, ct, cr \in BOOLEAN :
    /\ Op /\ ~s.reset_asserted
    /\ Step(write_fifo_config_0(s, dma, dma, ct, cr))
    /\ acc' = [tx |-> IF ct THEN out.tx ELSE acc.tx, rx |-> IF cr THEN out.rx ELSE acc.rx]
    /\ UNCHANGED host

\* The guest or the DMA controller hands over the next byte; it is accepted
\* unless an error flag says otherwise.
Transmit(d, ok) ==
  /\ Op /\ Step(d)
  /\ acc' = IF ok THEN [acc EXCEPT !.tx = Append(@, host.sent)] ELSE acc
  /\ host' = [host EXCEPT !.sent = @ + 1]

Accepts == s.utx_en /\ s.tx.count < Depth

WriteByte == ~s.reset_asserted /\ Transmit(write_fifo_wdata(s, host.sent), Accepts)
DmaWrite == dma_can_write(s) /\ Transmit(dma_write(s, host.sent), Accepts)

Take == /\ Op /\ s' = read_fifo_rdata(s)
        /\ out' = IF s.rx.count > 0 THEN [out EXCEPT !.rx = Append(@, first(s.rx))] ELSE out
        /\ UNCHANGED <<host, acc>>

ReadByte == Take
DmaRead == dma_can_read(s) /\ Take

\* The host's event loop: ask, then deliver at most what was promised.
Poll == /\ host.promised = 0
        /\ host' = [host EXCEPT !.promised = can_receive(s)]
        /\ UNCHANGED <<s, acc, out, ops>>

Deliver ==
  \E n \in 1 .. host.promised :
    LET bytes == [i \in 1 .. n |-> host.next + i - 1]
    IN /\ Op /\ Step(receive(s, bytes))
       /\ host' = [host EXCEPT !.promised = 0, !.next = @ + n]
       /\ acc' = [acc EXCEPT !.rx = @ \o SubSeq(bytes, 1, s'.rx.count - s.rx.count)]

Gate == \E on \in BOOLEAN :
          /\ Op
          /\ Step(set_clock_enabled(s, on)) \/ Step(set_module_clock_enabled(s, on))
          /\ UNCHANGED <<host, acc>>

Reset == \E on \in BOOLEAN :
           /\ Op /\ Step(set_reset_asserted(s, on))
           /\ acc' = IF on THEN out ELSE acc
           /\ UNCHANGED host

Next == \/ Configure \/ Interrupts \/ FifoConfig \/ WriteByte \/ DmaWrite
        \/ ReadByte \/ DmaRead \/ Poll \/ Deliver \/ Gate \/ Reset

Spec == Init /\ [][Next]_vars

----------------------------------------------------------------------------
(* Properties.                                                             *)

\* Every byte a FIFO accepted leaves it once and in order, whether it was
\* written by the guest or by DMA, sent at once or held back by a gated clock
\* or an ended transmission; only a FIFO clear and a reset drop bytes.
BytesInOrder == /\ out.tx \o contents(s.tx) = acc.tx
                /\ out.rx \o contents(s.rx) = acc.rx

\* Received data at the threshold holds the interrupt line up while the
\* interrupt is enabled and unmasked and the clock runs: no byte arrives, no
\* threshold, gate or mask changes without the line being looked at.  (Of what
\* is sent this does not hold: enabling the transmitter may end a transmission
\* and leaves the line as it is until the next access.)
ReceiveSignalled ==
  clock_active(s) /\ "URX_FRDY" \in (dynamic_ints(s) \cap s.int_en) \ s.int_mask
    => s.irq
===============================================================================
