------------------------------- MODULE BL808Ipc -------------------------------
(***************************************************************************)
(* One inter-processor mailbox (hw/misc/bl808_ipc.c) with a receiving core *)
(* that serves its interrupt: it reads the masked status, clears exactly   *)
(* those channels, then handles them.  Other cores signal it at any time,  *)
(* the clock tree gates its clock and the reset tree resets it.            *)
(***************************************************************************)
EXTENDS Integers, FiniteSets

CONSTANTS Signals       \* channels in use

VARIABLES s,            \* BL808IPCState and its interrupt line
          isr,          \* the status the receiver read and has not cleared
          owed          \* ghost: signals sent and not handled yet

vars == <<s, isr, owed>>

active(d) == d.clock_enabled /\ ~d.reset_asserted

update_irq(d) == [d EXCEPT !.irq = active(d) /\ d.pending \cap d.enabled # {}]

\* The write handler, one register each.
write(d, e) == IF d.reset_asserted THEN d ELSE update_irq(e)

ISWR(d, m) == write(d, [d EXCEPT !.pending = @ \cup m])
ICR(d, m)  == write(d, [d EXCEPT !.pending = @ \ m])
IUSR(d, m) == write(d, [d EXCEPT !.enabled = @ \cup m])
IUCR(d, m) == write(d, [d EXCEPT !.enabled = @ \ m])

ISR(d) == d.pending \cap d.enabled

reset(d) == update_irq([d EXCEPT !.pending = {}, !.enabled = {}])

set_clock_enabled(d, on) == update_irq([d EXCEPT !.clock_enabled = on])

set_reset_asserted(d, on) ==
  LET e == [d EXCEPT !.reset_asserted = on]
  IN IF on THEN reset(e) ELSE update_irq(e)

Init == /\ s = [pending |-> {}, enabled |-> {}, clock_enabled |-> FALSE,
                reset_asserted |-> FALSE, irq |-> FALSE]
        /\ isr = {} /\ owed = {}

Send == \E g \in Signals :
          /\ s' = ISWR(s, {g})
          /\ owed' = IF s.reset_asserted THEN owed ELSE owed \cup {g}
          /\ UNCHANGED isr

Mask == \E m \in SUBSET Signals : /\ s' = IUSR(s, m) \/ s' = IUCR(s, m)
                                  /\ UNCHANGED <<isr, owed>>

\* The receiver: it enters on the line, or polls.
ReadStatus == isr = {} /\ isr' = ISR(s) /\ UNCHANGED <<s, owed>>

\* Clearing hands the channels that were read to their handlers.
Clear == isr # {} /\ s' = ICR(s, isr) /\ owed' = owed \ isr /\ isr' = {}

Gate == \E on \in BOOLEAN : s' = set_clock_enabled(s, on) /\ UNCHANGED <<isr, owed>>

Reset == \E on \in BOOLEAN :
           /\ s' = set_reset_asserted(s, on)
           /\ owed' = IF on THEN {} ELSE owed
           /\ UNCHANGED isr

Next == Send \/ Mask \/ ReadStatus \/ Clear \/ Gate \/ Reset

Spec == Init /\ [][Next]_vars

\* A signal sent outside reset stays pending until the receiver that read it
\* clears it, and with its channel unmasked and the clock running it holds the
\* line up: a mask, a gated clock or a second signal never loses it.
SignalKept == /\ owed \subseteq s.pending
              /\ active(s) /\ owed \cap s.enabled # {} => s.irq
===============================================================================
