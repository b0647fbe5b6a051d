------------------------------- MODULE BL808Usb -------------------------------
(***************************************************************************)
(* The USB controller in device mode (hw/misc/bl808_usb.c).  A built-in    *)
(* host enumerates the guest, one request after the other, and a timer     *)
(* loops what the guest writes to FIFO 0 back into FIFO 1.  A FIFO holds   *)
(* words, each with how it came in and its number; a request is two words  *)
(* of the control FIFO.                                                    *)
(***************************************************************************)
EXTENDS Integers, Sequences, FiniteSets

CONSTANTS Capacity,     \* BL808_USB_FIFO_CAPACITY, in words
          Lengths,      \* lengths of VDMA transfers, in words
          MaxOps        \* bound on accesses

VARIABLES s,            \* BL808USBState and its line; n numbers the words,
                        \* full: the last loopback found no room for some
          ops           \* accesses so far

vars == <<s, ops>>

Fifos == {0, 1}
Cx == -1                \* the control FIFO
Groups == 0 .. 3        \* of interrupt sources; nothing sets one of group 4
Requests == <<"DEVICE_DESC", "CONFIG_DESC", "SET_ADDRESS", "SET_CONFIG">>

----------------------------------------------------------------------------
raw_group(d) == {g \in Groups : d.isg[g] # {}}
masked_group(d) == raw_group(d) \ d.misg

dev_pending(d) == masked_group(d) # {}

\* The group registers and the line.  Nothing in the emulator raises the
\* host's or the OTG part's interrupts.
update_irq(d) ==
  [d EXCEPT !.igr = raw_group(d), !.migr = masked_group(d),
            !.irq = dev_pending(d) /\ ~d.glb_mask /\ d.glint_en]

reset_fifo(d, f) == [d EXCEPT !.fifo[f] = <<>>]

\* What does not fit is dropped.
fifo_append(q, words) == q \o SubSeq(words, 1, IF Capacity - Len(q) < Len(words)
                                                 THEN Capacity - Len(q) ELSE Len(words))

fifo_pop(q) == IF q = <<>> THEN q ELSE Tail(q)

----------------------------------------------------------------------------
(* Enumeration.                                                            *)

Setup(r) == <<[via |-> r, n |-> 1], [via |-> r, n |-> 2]>>

inject_setup(d, r) ==
  update_irq([reset_fifo(d, Cx) EXCEPT !.fifo[Cx] = Setup(r), !.isg[0] = @ \cup {"setup"}])

autohost_start(d) ==
  IF d.started THEN d
  ELSE update_irq([d EXCEPT !.started = TRUE, !.step = 1, !.isg[2] = @ \cup {"bus_reset"}])

autohost_advance(d) ==
  IF ~d.started \/ d.step > Len(Requests) \/ "setup" \in d.isg[0] THEN d
  ELSE inject_setup([d EXCEPT !.step = @ + 1], Requests[d.step])

----------------------------------------------------------------------------
(* The loopback and the DMA.                                               *)

schedule_loopback(d) == [d EXCEPT !.timer = TRUE]

loopback_timer(d) ==
  LET room == Capacity - Len(d.fifo[1])
      copy == IF room < Len(d.fifo[0]) THEN room ELSE Len(d.fifo[0])
      e == [d EXCEPT !.timer = FALSE, !.full = copy < Len(d.fifo[0])]
  IN IF copy = 0 THEN e
     ELSE update_irq([e EXCEPT !.fifo = [@ EXCEPT ![1] = fifo_append(@, d.fifo[0]),
                                                  ![0] = SubSeq(@, copy + 1, Len(@))],
                               !.isg[1] = @ \cup {"loop"}])

vdma_complete(d, f) ==
  update_irq([d EXCEPT !.isg[3] = @ \cup {f}, !.isg[2] = @ \cup {"dma"}])

\* From memory the FIFO is replaced; to memory its oldest words are taken.
vdma_run(d, f, len, mem_to_fifo) ==
  LET q == d.fifo[f]
      n == IF len < Capacity THEN len ELSE Capacity
  IN vdma_complete(
       IF mem_to_fifo
         THEN [d EXCEPT !.fifo[f] = [i \in 1 .. n |-> [via |-> "dma", n |-> d.n + i]],
                        !.n = @ + n]
         ELSE [d EXCEPT !.fifo[f] = SubSeq(q, n + 1, Len(q))], f)

write_fps1(d, f, len, mem_to_fifo) == IF d.vdma_en THEN vdma_run(d, f, len, mem_to_fifo) ELSE d

----------------------------------------------------------------------------
(* Registers.  A write ends with the line brought up to date.              *)

write_fifo_port(d, f) ==
  LET w == [via |-> IF f = 0 THEN "out" ELSE "in", n |-> d.n + 1]
      e == [d EXCEPT !.fifo[f] = fifo_append(@, <<w>>), !.n = @ + 1]
  IN update_irq(IF f = 0 THEN schedule_loopback(e) ELSE e)

read_fifo_port(d, f) ==
  LET e == [d EXCEPT !.fifo[f] = fifo_pop(@)]
  IN IF f = 1 /\ e.fifo[1] = <<>>
       THEN update_irq([e EXCEPT !.isg[1] = @ \ {"loop"}]) ELSE e

\* The control FIFO's DMA register becomes its port once a host is there.
read_cxport(d) == IF d.started THEN [d EXCEPT !.fifo[Cx] = fifo_pop(@)] ELSE d

write_cxport(d, len, mem_to_fifo) ==
  IF d.started
    THEN update_irq([d EXCEPT !.fifo[Cx] = fifo_append(@, <<[via |-> "answer", n |-> d.n + 1]>>),
                              !.n = @ + 1])
    ELSE write_fps1(d, Cx, len, mem_to_fifo)

write_dev_ctl(d, glint_en, sfrst, chip_en) ==
  LET e == [d EXCEPT !.glint_en = glint_en]
      r == IF sfrst THEN [e EXCEPT !.fifo = [f \in Fifos \cup {Cx} |-> <<>>]] ELSE e
  IN update_irq(IF chip_en THEN autohost_start(r) ELSE r)

write_cxcfe(d, done, stl, clr) ==
  LET e == IF clr THEN reset_fifo(d, Cx) ELSE d
      f == IF done \/ stl THEN [reset_fifo(e, Cx) EXCEPT !.isg[0] = @ \ {"setup"}] ELSE e
  IN update_irq(IF done THEN autohost_advance(f) ELSE f)

write_isg(d, g, bits) ==
  LET e == [d EXCEPT !.isg[g] = @ \ bits]
  IN update_irq(IF g = 2 /\ "bus_reset" \in bits THEN autohost_advance(e) ELSE e)

write_misg(d, masks) == update_irq([d EXCEPT !.misg = masks])

write_glb_int(d, mask) == update_irq([d EXCEPT !.glb_mask = mask])

write_fibc(d, f) == update_irq(reset_fifo(d, f))

Cleared == [fifo |-> [f \in Fifos \cup {Cx} |-> <<>>], isg |-> [g \in Groups |-> {}],
            misg |-> Groups, igr |-> {}, migr |-> {}, glb_mask |-> FALSE, glint_en |-> FALSE,
            irq |-> FALSE, vdma_en |-> TRUE, started |-> FALSE, step |-> 0, timer |-> FALSE,
            full |-> FALSE, n |-> 0]

reset(d) == update_irq([Cleared EXCEPT !.n = d.n])

Init == s = Cleared /\ ops = 0

\* What changes nothing does not count.
Step(d) == ops < MaxOps /\ ops' = ops + 1 /\ s' = d /\ s' # s

WriteFifo == \E f \in Fifos : Step(write_fifo_port(s, f))
ReadFifo == \E f \in Fifos : Step(read_fifo_port(s, f))
ResetFifo == \E f \in Fifos : Step(write_fibc(s, f))
Vdma == \E f \in Fifos, len \in Lengths, in \in BOOLEAN : Step(write_fps1(s, f, len, in))
SetVdma == \E en \in BOOLEAN : Step([s EXCEPT !.vdma_en = en])
ReadControl == Step(read_cxport(s))
WriteControl == \E len \in Lengths, in \in BOOLEAN : Step(write_cxport(s, len, in))
SetDevice == \E glint, sfrst, en \in BOOLEAN : Step(write_dev_ctl(s, glint, sfrst, en))
Answer == \E done, stl, clr \in BOOLEAN : Step(write_cxcfe(s, done, stl, clr))
Acknowledge == \E g \in Groups : s.isg[g] # {} /\ Step(write_isg(s, g, s.isg[g]))
\* Writing back more bits than are pending is what some drivers do.
AcknowledgeReset == Step(write_isg(s, 2, {"bus_reset"}))
SetMasks == \E masks \in {{}, {0}, {1, 2}, Groups} : Step(write_misg(s, masks))
SetGlobalMask == \E mask \in BOOLEAN : Step(write_glb_int(s, mask))
Reset == Step(reset(s))
Loopback == s.timer /\ s' = loopback_timer(s) /\ UNCHANGED ops

Next == \/ WriteFifo \/ ReadFifo \/ ResetFifo \/ Vdma \/ SetVdma \/ ReadControl
        \/ WriteControl \/ SetDevice \/ Answer \/ Acknowledge \/ AcknowledgeReset \/ SetMasks
        \/ SetGlobalMask \/ Reset \/ Loopback

Spec == Init /\ [][Next]_vars

----------------------------------------------------------------------------
\* What the guest wrote to FIFO 0 comes out of FIFO 1 in that order and at
\* most once, through any number of partial copies, DMA transfers and resets.
LoopbackInOrder ==
  LET q == SelectSeq(s.fifo[1] \o s.fifo[0], LAMBDA w : w.via = "out")
  IN \A i, j \in 1 .. Len(q) : i < j => q[i].n < q[j].n

\* A word written to FIFO 0 is about to be copied, unless the copy before
\* found FIFO 1 too full (it is then left until the next write).
LoopbackComes ==
  (\E i \in 1 .. Len(s.fifo[0]) : s.fifo[0][i].via = "out") => s.timer \/ s.full

\* The host's requests come in their order and each only after the guest has
\* taken the one before off: no request is overwritten while it is pending.
RequestsInTurnStep ==
  /\ s'.step # s.step /\ s'.step > 1 =>
       s'.step = s.step + 1 /\ s'.fifo[Cx] = Setup(Requests[s.step])
  /\ s'.step # s.step /\ s'.started /\ s'.step > 1 => "setup" \notin s.isg[0] \/ Answer

\* The line and the group registers show the pending sources of this moment.
UsbLineExact == s = update_irq(s)
===============================================================================
