------------------------------- MODULE BL808Glb -------------------------------
(***************************************************************************)
(* The global control block (hw/misc/bl808_glb.c): clock gates, resets and *)
(* dividers, passed on to the devices that registered for them, and the    *)
(* pins with their interrupts, edge-triggered or sampled at 32 kHz.  Pins  *)
(* of the always-on domain have a second configuration, in HBN, and keep   *)
(* what they drive while the domain is isolated.                           *)
(***************************************************************************)
EXTENDS Integers, FiniteSets

CONSTANTS Pins, AonPins,
          XtalPins,     \* those of AonPins that carry the 32 kHz crystal
          Clients,      \* registered devices, with gate: the bits of their
          gate_mask, reset_mask,   \* clock gate and of their reset
          Configs,      \* pin configurations the guest writes
          Pads,         \* pad configurations HBN sets
          MaxOps        \* bound on accesses

VARIABLES s,            \* BL808GLBState, its clients and its lines; was: the
                        \* pins driven high when the domain was isolated
          ops           \* accesses so far

vars == <<s, ops>>

GateBits == UNION {gate_mask[c] : c \in Clients}
ResetBits == UNION {reset_mask[c] : c \in Clients}

----------------------------------------------------------------------------
(* Pins.  v is the configuration register of a pin.                        *)

hw_oe(d, p) == p \in AonPins /\ d.pad[p].hw_ctrl /\ d.pad[p].oe

retained(d, p) == p \in AonPins /\ d.iso /\ d.kept_oe[p]

is_xtal32k(d, p, v) ==
  /\ p \in XtalPins
  /\ ~retained(d, p)
  /\ ~v.ie /\ ~hw_oe(d, p) /\ ~(v.swgpio /\ v.oe)

output_level(d, p) == IF retained(d, p) THEN d.kept[p] ELSE d.out[p]

output_enabled(d, p, v) == retained(d, p) \/ hw_oe(d, p) \/ (v.swgpio /\ v.oe)

\* Both pulls in the pin's register count as a pull up (the masked bits are
\* compared), both in the pads of HBN as none.
pulled(d, p, v) ==
  IF p \in AonPins /\ d.pad[p].hw_ctrl
    THEN ~d.iso /\ d.pupd /\ d.pad[p].pu # d.pad[p].pd
    ELSE v.pu \/ v.pd

effective_level(d, p, v) ==
  IF output_enabled(d, p, v) THEN output_level(d, p)
  ELSE IF is_xtal32k(d, p, v) THEN FALSE
  ELSE IF ~d.driven[p] /\ pulled(d, p, v)
    THEN IF p \in AonPins /\ d.pad[p].hw_ctrl THEN d.pad[p].pu ELSE v.pu
  ELSE d.input[p]

drive_level(d, p, v) == output_enabled(d, p, v) /\ output_level(d, p)

irq_enabled(v) == v.swgpio /\ v.ie /\ ~v.mask

irq_immediate(mode, old_level, new_level) ==
  \/ mode = "async_fall" /\ old_level /\ ~new_level
  \/ mode = "async_rise" /\ ~old_level /\ new_level

\* history: the last three samples, the latest last.
irq_sampled(mode, history) ==
  LET hll == history = <<TRUE, FALSE, FALSE>>
      lhh == history = <<FALSE, TRUE, TRUE>>
  IN \/ mode = "sync_fall" /\ hll
     \/ mode = "sync_rise" /\ lhh
     \/ mode = "sync_both" /\ (hll \/ lhh)
     \/ mode = "low" /\ history = <<FALSE, FALSE, FALSE>>
     \/ mode = "high" /\ history = <<TRUE, TRUE, TRUE>>

update_irq(d) == [d EXCEPT !.irq = \E p \in Pins : d.reg[p].stat /\ ~d.reg[p].mask]

reset_history(level) == <<level, level, level>>

shifted(history, level) == <<history[2], history[3], level>>

sample_tick(d) ==
  LET level(p) == effective_level(d, p, d.reg[p])
      hist(p) == shifted(d.history[p], level(p))
  IN update_irq([d EXCEPT
       !.history = [p \in Pins |-> hist(p)],
       !.reg = [p \in Pins |->
                  [@[p] EXCEPT !.stat = \/ @
                                        \/ /\ irq_enabled(d.reg[p])
                                           /\ irq_sampled(d.reg[p].mode, hist(p))]]])

\* Mutant: the interrupt is decided before the output follows the register.
commitBeforeOutput(d, p, new, old_level) ==
  LET old == d.reg[p]
      level == effective_level(d, p, new)
      fired == irq_enabled(new) /\ irq_immediate(new.mode, old_level, level)
      changed == <<old.ie, old.mask, old.swgpio, old.mode>>
                   # <<new.ie, new.mask, new.swgpio, new.mode>>
      e == [d EXCEPT !.out[p] = new.o]
  IN update_irq([e EXCEPT
       !.reg[p] = [new EXCEPT !.stat = @ \/ fired],
       !.history[p] = IF changed THEN reset_history(level) ELSE @,
       !.drive_line[p] = drive_level(e, p, new),
       !.level_line[p] = level])

commit_with_old_level(d, p, new, old_level) ==
  LET old == d.reg[p]
      e == [d EXCEPT !.out[p] = new.o]
      level == effective_level(e, p, new)
      fired == irq_enabled(new) /\ irq_immediate(new.mode, old_level, level)
      changed == <<old.ie, old.mask, old.swgpio, old.mode>>
                   # <<new.ie, new.mask, new.swgpio, new.mode>>
  IN update_irq([e EXCEPT
       !.reg[p] = [new EXCEPT !.stat = @ \/ fired],
       !.history[p] = IF changed THEN reset_history(level) ELSE @,
       !.drive_line[p] = drive_level(e, p, new),
       !.level_line[p] = level])

commit(d, p, new) == commit_with_old_level(d, p, new, effective_level(d, p, d.reg[p]))

\* The level before is the one the old register gives under the pads of now.
commitAll(d, pins) ==
  LET e == [d EXCEPT !.out = [p \in Pins |-> IF p \in pins THEN d.reg[p].o ELSE @[p]]]
      lev(p) == effective_level(e, p, d.reg[p])
      fired(p) == /\ irq_enabled(d.reg[p])
                  /\ irq_immediate(d.reg[p].mode, effective_level(d, p, d.reg[p]), lev(p))
  IN update_irq([e EXCEPT
       !.reg = [p \in Pins |-> [@[p] EXCEPT !.stat = @ \/ (p \in pins /\ fired(p))]],
       !.drive_line = [p \in Pins |-> IF p \in pins THEN drive_level(e, p, d.reg[p]) ELSE @[p]],
       !.level_line = [p \in Pins |-> IF p \in pins THEN lev(p) ELSE @[p]]])

gpio_input_set(d, p, driven, level) ==
  commit_with_old_level([d EXCEPT !.driven[p] = driven, !.input[p] = level], p, d.reg[p],
                        effective_level(d, p, d.reg[p]))

\* stat is the bit the guest writes back: it can set it, never clear it.
gpio_write(d, p, cfg, set, clr, int_clr, stat) ==
  LET o == (cfg.o \/ set) /\ ~clr
  IN commit(d, p, [cfg EXCEPT !.o = o, !.stat = (stat \/ d.reg[p].stat) /\ ~int_clr])

\* The pads of all always-on pins at once, as HBN sets them.
set_aon_pad_ctrl(d, pad, pupd) == commitAll([d EXCEPT !.pad = pad, !.pupd = pupd], AonPins)

set_aon_iso_mode(d, iso) ==
  LET e == IF iso /\ ~d.iso
             THEN [d EXCEPT !.kept = [p \in AonPins |-> d.out[p]],
                            !.kept_oe = [p \in AonPins |->
                                           hw_oe(d, p) \/ (d.reg[p].swgpio /\ d.reg[p].oe)]]
             ELSE d
  IN commitAll([e EXCEPT !.iso = iso], AonPins)

\* What HBN does after each write of its pad registers.
apply_aon_pad_ctrl(d, pad, pupd, iso) == set_aon_pad_ctrl(set_aon_iso_mode(d, iso), pad, pupd)

----------------------------------------------------------------------------
(* Clocks and resets of the clients.                                       *)

notified(d, c) ==
  [clk |-> d.gate \cap gate_mask[c] # {}, rst |-> d.swrst \cap reset_mask[c] # {}]

update_clients(d, old_gate, old_swrst) ==
  LET differ(a, b) == (a \ b) \cup (b \ a)
  IN [d EXCEPT !.client = [c \in Clients |->
        [clk |-> IF differ(d.gate, old_gate) \cap gate_mask[c] # {}
                   THEN notified(d, c).clk ELSE @[c].clk,
         rst |-> IF differ(d.swrst, old_swrst) \cap reset_mask[c] # {}
                   THEN notified(d, c).rst ELSE @[c].rst]]]

write_gate(d, bits) == update_clients([d EXCEPT !.gate = bits], d.gate, d.swrst)

write_swrst(d, bits) == update_clients([d EXCEPT !.swrst = bits], d.gate, d.swrst)

\* A rising CHIP_RESET bit asks for a reset of the machine, which comes later.
write_swrst_cfg2(d, chip_reset) ==
  [d EXCEPT !.chip_reset = chip_reset, !.requested = @ \/ (chip_reset /\ ~d.chip_reset)]

floating == [ie |-> FALSE, mask |-> FALSE, swgpio |-> FALSE, oe |-> FALSE, o |-> FALSE,
             pu |-> FALSE, pd |-> FALSE, mode |-> "sync_fall", stat |-> FALSE]

\* What isolation keeps is forgotten only outside of it.
apply_defaults(d) ==
  LET off(S) == [p \in S |-> FALSE]
      kept(f) == IF d.iso THEN f ELSE off(AonPins)
  IN [d EXCEPT !.gate = GateBits, !.swrst = {}, !.chip_reset = FALSE, !.requested = FALSE,
               !.reg = [p \in Pins |-> floating],
               !.input = off(Pins), !.driven = off(Pins), !.out = off(Pins), !.pupd = FALSE,
               !.pad = [p \in AonPins |-> [hw_ctrl |-> FALSE, oe |-> FALSE, pu |-> FALSE,
                                           pd |-> FALSE]],
               !.kept = kept(@), !.kept_oe = kept(@)]

reset(d) ==
  LET e == commitAll(apply_defaults(d), Pins)
  IN update_irq([e EXCEPT
       !.history = [p \in Pins |-> reset_history(effective_level(e, p, e.reg[p]))],
       !.client = [c \in Clients |-> notified(e, c)]])

Init ==
  LET off(S) == [p \in S |-> FALSE]
  IN /\ s = [gate |-> GateBits, swrst |-> {}, chip_reset |-> FALSE, requested |-> FALSE,
             reg |-> [p \in Pins |-> floating], input |-> off(Pins), driven |-> off(Pins),
             out |-> off(Pins), pupd |-> FALSE, iso |-> FALSE, kept |-> off(AonPins),
             kept_oe |-> off(AonPins),
             pad |-> [p \in AonPins |-> [hw_ctrl |-> FALSE, oe |-> FALSE, pu |-> FALSE,
                                         pd |-> FALSE]],
             history |-> [p \in Pins |-> reset_history(FALSE)], irq |-> FALSE,
             drive_line |-> off(Pins), level_line |-> off(Pins),
             was |-> off(Pins),
             client |-> [c \in Clients |-> [clk |-> TRUE, rst |-> FALSE]]]
     /\ ops = 0

\* What changes nothing does not count.
Step(d) == ops < MaxOps /\ ops' = ops + 1 /\ s' = d /\ s' # s

Configure ==
  \E p \in Pins, cfg \in Configs, cmd \in {"none", "set", "clr", "stat"} :
    /\ cmd \in {"set", "clr"} => cfg.oe
    /\ Step(gpio_write(s, p, cfg, cmd = "set", cmd = "clr", FALSE, cmd = "stat"))
ClearInt == \E p \in Pins : s.reg[p].stat /\ Step(gpio_write(s, p, s.reg[p], FALSE, FALSE, TRUE, TRUE))
SetInput == \E p \in Pins, driven, level \in BOOLEAN : Step(gpio_input_set(s, p, driven, level))
SetPads == \E pad \in Pads, pupd, iso \in BOOLEAN :
             Step([apply_aon_pad_ctrl(s, [p \in AonPins |-> pad], pupd, iso)
                     EXCEPT !.was = IF iso /\ ~s.iso THEN s.drive_line ELSE @])
Gate == \E bits \in SUBSET GateBits : Step(write_gate(s, bits))
SetReset == \E bits \in SUBSET ResetBits : Step(write_swrst(s, bits))
ChipReset == \E on \in BOOLEAN : Step(write_swrst_cfg2(s, on))
MachineReset == s.requested /\ s' = reset(s) /\ UNCHANGED ops
Sample == Step(sample_tick(s))

Next == \/ Configure \/ ClearInt \/ SetInput \/ SetPads \/ Gate \/ SetReset \/ ChipReset
        \/ MachineReset \/ Sample

Spec == Init /\ [][Next]_vars

----------------------------------------------------------------------------
\* Every device has the clock and the reset that the registers say, whichever
\* bits of its mask were written and across resets of the machine.
ClientsFollow == \A c \in Clients : s.client[c] = notified(s, c)

\* The lines that other devices see agree with the pin: nothing that enters
\* its level (register, input, pads, pulls, isolation) changes unnoticed.
PinLinesExact ==
  \A p \in Pins : /\ s.level_line[p] = effective_level(s, p, s.reg[p])
                  /\ s.drive_line[p] = drive_level(s, p, s.reg[p])

\* An edge of an input or of a register write reaches an enabled edge
\* interrupt: it is pending right after, unless the same write clears it.
EdgeSeenStep ==
  \A p \in Pins :
    LET v == s'.reg[p]
    IN /\ irq_enabled(v)
       /\ irq_immediate(v.mode, s.level_line[p], s'.level_line[p])
       /\ <<s'.pad, s'.pupd, s'.iso>> = <<s.pad, s.pupd, s.iso>>
       => v.stat

\* A pending interrupt goes away only when the guest clears it or the machine
\* is reset: another write of the pin's register does not take it along.
PendingStaysStep ==
  (\E p \in Pins : s.reg[p].stat /\ ~s'.reg[p].stat) => ClearInt \/ MachineReset

\* An always-on pin that was driven high when the domain was isolated stays so
\* until the isolation ends, whatever is written and across a reset.
IsolationHolds == s.iso => \A p \in AonPins : s.was[p] => s.drive_line[p]
===============================================================================
