------------------------------- MODULE BL808Hbn -------------------------------
(***************************************************************************)
(* The hibernate block (hw/riscv/bl808.c): always-on pads watched at once  *)
(* or by samples, with a delay or without; the motion, brown-out and       *)
(* comparator sources; the clock, its alarm, and the machine reset the     *)
(* alarm brings.  Time is counted in parts of a tick of the 32 kHz clock.  *)
(* The retained words, which only their own writes change, are left out,   *)
(* and so is a write to the status register, which no driver makes.        *)
(***************************************************************************)
EXTENDS Integers, FiniteSets, FiniteSetsExt

CONSTANTS Pins,         \* always-on pads
          Configs,      \* contents of the mode register: trigger, pads,
                        \* delay and its seconds, other sources
          Parts,        \* units of time per tick
          Second,       \* units of time per second of delay
          MaxTime,      \* bound on time
          MaxOps        \* bound on accesses and events

VARIABLES s,            \* the HBN part of BL808MachineState; since holds when
                        \* the level of a pin last changed, short whether a
                        \* delayed level was reported too soon
          now,          \* virtual time
          ops           \* accesses and events so far

vars == <<s, now, ops>>

Edges == {"fall", "rise", "both", "async_fall", "async_rise"}
Sampled == {"fall", "rise", "low", "high", "both"}
None == -1

----------------------------------------------------------------------------
irq_sampled(mode, h) ==
  CASE mode = "fall"                     -> h = <<TRUE, FALSE, FALSE>>
    [] mode = "rise"                     -> h = <<FALSE, TRUE, TRUE>>
    [] mode = "both"                     -> h \in {<<TRUE, FALSE, FALSE>>, <<FALSE, TRUE, TRUE>>}
    [] mode \in {"low", "async_low"}     -> h = <<FALSE, FALSE, FALSE>>
    [] mode \in {"high", "async_high"}   -> h = <<TRUE, TRUE, TRUE>>
    [] OTHER                             -> FALSE

irq_immediate(mode, old, new) == \/ mode = "async_fall" /\ old /\ ~new
                                 \/ mode = "async_rise" /\ ~old /\ new

Still(level) == <<level, level, level>>

async_level(mode) == mode \in {"async_low", "async_high"}

level_active(mode, level) == async_level(mode) /\ irq_sampled(mode, Still(level))

sample_level_active(d, p) == d.mode \in {"low", "high"} /\ irq_sampled(d.mode, d.history[p])

\* The interrupt lines follow the status.
update_irqs(d) == [d EXCEPT !.line = d.stat # {}]

gpio_delay_ns(d) == (IF d.sel = 0 THEN 1 ELSE d.sel) * Second

delay_reschedule(d) ==
  LET armed == {d.deadline[p] : p \in Pins} \ {None}
  IN [d EXCEPT !.delay_timer = IF armed = {} THEN None ELSE Min(armed)]

delay_cancel_pin(d, p) == [d EXCEPT !.deadline[p] = None]

delay_cancel_all(d) == delay_reschedule([d EXCEPT !.deadline = [p \in Pins |-> None]])

delay_arm_pin(d, p) ==
  IF ~d.delay_en \/ p \notin d.mask \/ p \in d.stat \/ d.deadline[p] # None THEN d
  ELSE delay_reschedule([d EXCEPT !.deadline[p] = now + gpio_delay_ns(d)])

delay_set(d, p, active) == IF active THEN delay_arm_pin(d, p) ELSE delay_cancel_pin(d, p)

delay_qualifies(d, p) == \/ d.mode \in Edges
                         \/ sample_level_active(d, p)
                         \/ level_active(d.mode, d.level[p])

delay_cb(d) ==
  LET due == {p \in Pins : d.deadline[p] # None /\ d.deadline[p] <= now}
      seen == {p \in due : delay_qualifies(d, p)}
  IN delay_reschedule(update_irqs(
       [d EXCEPT !.deadline = [p \in Pins |-> IF p \in due THEN None ELSE @[p]],
                 !.stat = @ \cup seen,
                 !.short = @ \/ \E p \in seen : /\ async_level(d.mode)
                                                /\ now - d.since[p] < gpio_delay_ns(d)]))

----------------------------------------------------------------------------
\* Pins handled one after the other, as the loops of the code do.
EachPin(f(_, _), d) == FoldSet(LAMBDA p, e : f(e, p), d, Pins)

refresh_gpio_pin(d, p) ==
  LET active == level_active(d.mode, d.level[p])
  IN CASE p \notin d.mask              -> delay_cancel_pin(d, p)
       [] p \in d.mask /\ d.delay_en   -> delay_set(d, p, active)
       [] OTHER                        -> IF active THEN [d EXCEPT !.stat = @ \cup {p}] ELSE d

refresh_gpio_live_sources(d) ==
  IF ~async_level(d.mode) THEN update_irqs(d)
  ELSE delay_reschedule(update_irqs(EachPin(refresh_gpio_pin, d)))

gpio_level_set(d, p, level) ==
  LET e == [d EXCEPT !.level[p] = level, !.since[p] = IF level = d.level[p] THEN @ ELSE now]
      edge == irq_immediate(d.mode, d.level[p], level)
  IN CASE p \notin d.mask -> delay_reschedule(delay_cancel_pin(e, p))
       [] p \in d.mask /\ d.delay_en ->
            delay_reschedule(IF edge THEN delay_arm_pin(e, p)
                             ELSE IF async_level(d.mode)
                                  THEN delay_set(e, p, level_active(d.mode, level)) ELSE e)
       [] OTHER -> IF edge THEN update_irqs([e EXCEPT !.stat = @ \cup {p}])
                   ELSE IF async_level(d.mode) THEN refresh_gpio_live_sources(e) ELSE e

sync_delayed_level(d, p) ==
  IF p \in d.stat THEN d
  ELSE delay_set(d, p, sample_level_active(d, p) \/ level_active(d.mode, d.level[p]))

sample_reschedule(d) == [d EXCEPT !.sampling = d.mask # {} /\ d.mode \in Sampled]

sample_pin(d, p) ==
  LET e == [d EXCEPT !.history[p] = <<@[2], @[3], d.level[p]>>]
      seen == irq_sampled(d.mode, e.history[p])
  IN CASE p \notin d.mask -> delay_cancel_pin(e, p)
       [] p \in d.mask /\ d.delay_en ->
            IF d.mode \in Edges /\ seen THEN delay_arm_pin(e, p)
            ELSE IF d.mode \in {"low", "high"} THEN sync_delayed_level(e, p) ELSE e
       [] OTHER -> IF seen THEN [e EXCEPT !.stat = @ \cup {p}] ELSE e

gpio_sample_cb(d) == sample_reschedule(delay_reschedule(update_irqs(EachPin(sample_pin, d))))

reset_aon_history(d) == [d EXCEPT !.history = [p \in Pins |-> Still(d.level[p])]]

----------------------------------------------------------------------------
\* One of the two levels of the motion sensor may be disabled.
pir_active(d) == d.pir_en /\ d.pir_level \notin d.pir_dis

bod_active(d) == d.bod_level /\ d.bod_en

refresh_live_sources(d) ==
  update_irqs([d EXCEPT !.stat = (@ \ {"PIR", "BOD"}) \cup (IF pir_active(d) THEN {"PIR"} ELSE {})
                                    \cup (IF bod_active(d) THEN {"BOD"} ELSE {})])

note_acomp_transition(d, new) ==
  LET e == [d EXCEPT !.acomp = new]
  IN IF new # d.acomp /\ new \in d.acomp_edges
     THEN update_irqs([e EXCEPT !.stat = @ \cup {"ACOMP"}]) ELSE e

\* The alarm is two registers; with a digit of two values each.
alarm_ticks(d) == d.timh * 2 + d.timl

rtc_ticks == now \div Parts

schedule_alarm(d) ==
  [d EXCEPT !.alarm_timer =
     CASE ~d.ctl_mode -> None
       [] d.ctl_mode /\ alarm_ticks(d) <= rtc_ticks -> now + 1
       [] OTHER -> now + (alarm_ticks(d) - rtc_ticks) * Parts]

----------------------------------------------------------------------------
\* One bit stands for the enables of the brown-out and comparator sources.
write_irq_mode(d, c) ==
  LET e == [delay_cancel_all(d) EXCEPT !.mode = c.mode, !.mask = c.mask, !.delay_en = c.delay_en,
                                       !.sel = c.sel, !.bod_en = c.bod_en,
                                       !.acomp_edges = {c.bod_en}]
  IN sample_reschedule(refresh_gpio_live_sources(refresh_live_sources(reset_aon_history(e))))

write_irq_clr(d, bits) ==
  LET e == [d EXCEPT !.stat = @ \ bits,
                     !.deadline = [p \in Pins |-> IF p \in bits THEN None ELSE @[p]]]
  IN sample_reschedule(refresh_gpio_live_sources(refresh_live_sources(e)))

write_pir_cfg(d, en, dis) == refresh_live_sources([d EXCEPT !.pir_en = en, !.pir_dis = dis])

write_rtc_timh(d, latch) ==
  [d EXCEPT !.latched = latch, !.latch = IF latch THEN rtc_ticks ELSE @]

\* The machine reset leaves the pads as they are if the block wakes up or
\* isolates them.
hbn_reset(d) ==
  LET e == [d EXCEPT !.mode = "fall", !.mask = {}, !.delay_en = FALSE, !.sel = 0, !.bod_en = FALSE,
                     !.acomp_edges = {}, !.pir_en = FALSE, !.pir_dis = {}, !.ctl_mode = FALSE,
                     !.timl = 0, !.timh = 0, !.alarm_timer = None, !.latched = FALSE, !.latch = 0,
                     !.pads = IF d.wake_pending \/ @ = "iso" THEN @ ELSE "off",
                     !.stat = IF d.wake_pending THEN {"RTC"} ELSE {}, !.wake_pending = FALSE]
  IN sample_reschedule(refresh_gpio_live_sources(refresh_live_sources(
       reset_aon_history(delay_cancel_all(e)))))

\* The alarm resets the machine.
request_reset(d) == hbn_reset(update_irqs([d EXCEPT !.alarm_timer = None, !.wake_pending = TRUE,
                                                    !.stat = @ \cup {"RTC"}]))

PoweredUp == [mode |-> "fall", mask |-> {}, delay_en |-> FALSE, sel |-> 0, bod_en |-> FALSE,
              acomp_edges |-> {}, acomp |-> FALSE, pir_en |-> FALSE, pir_dis |-> {},
              pir_level |-> FALSE, bod_level |-> FALSE, ctl_mode |-> FALSE, timl |-> 0, timh |-> 0,
              alarm_timer |-> None, latched |-> FALSE, latch |-> 0, wake_pending |-> FALSE,
              pads |-> "off", stat |-> {}, line |-> FALSE, level |-> [p \in Pins |-> FALSE],
              history |-> [p \in Pins |-> Still(FALSE)], deadline |-> [p \in Pins |-> None],
              delay_timer |-> None, sampling |-> FALSE, since |-> [p \in Pins |-> 0],
              short |-> FALSE]

Init == s = hbn_reset(PoweredUp) /\ now = 0 /\ ops = 0

Step(d) == ops < MaxOps /\ ops' = ops + 1 /\ UNCHANGED now /\ s' = d

WriteIrqMode == \E c \in Configs : Step(write_irq_mode(s, c))
WriteIrqClr == \E bits \in {Pins, {"RTC", "ACOMP", "PIR", "BOD"}} : Step(write_irq_clr(s, bits))
WritePir == \E dis \in {{}, {TRUE}} : Step(write_pir_cfg(s, ~s.pir_en, dis))
WritePads == \E pads \in {"on", "iso"} : Step([s EXCEPT !.pads = pads])
WriteAlarm == \/ \E m \in BOOLEAN : Step(schedule_alarm([s EXCEPT !.ctl_mode = m]))
              \/ \E v \in {0, 1} : Step(schedule_alarm([s EXCEPT !.timl = v]))
              \/ \E v \in {0, 1} : Step(schedule_alarm([s EXCEPT !.timh = v]))
LatchClock == \E latch \in BOOLEAN : Step(write_rtc_timh(s, latch))
PadChanges == \E p \in Pins : Step(gpio_level_set(s, p, ~s.level[p]))
PirChanges == Step(refresh_live_sources([s EXCEPT !.pir_level = ~@]))
BodChanges == Step(refresh_live_sources([s EXCEPT !.bod_level = ~@]))
AcompChanges == Step(note_acomp_transition(s, ~s.acomp))
Reset == Step(hbn_reset(s))

\* Timers fire at their time or later.
AlarmTimer == /\ s.alarm_timer # None /\ s.alarm_timer <= now
              /\ UNCHANGED <<now, ops>> /\ s' = request_reset(s)
DelayTimer == /\ s.delay_timer # None /\ s.delay_timer <= now
              /\ UNCHANGED <<now, ops>> /\ s' = delay_cb([s EXCEPT !.delay_timer = None])
SampleTimer == s.sampling /\ UNCHANGED <<now, ops>> /\ s' = gpio_sample_cb(s)
Tick == now < MaxTime /\ now' = now + 1 /\ UNCHANGED <<s, ops>>

Next == \/ WriteIrqMode \/ WriteIrqClr \/ WritePir \/ WritePads \/ WriteAlarm \/ LatchClock
        \/ PadChanges \/ PirChanges \/ BodChanges \/ AcompChanges \/ Reset
        \/ AlarmTimer \/ DelayTimer \/ SampleTimer \/ Tick

Spec == Init /\ [][Next]_vars

----------------------------------------------------------------------------
\* The one timer the delayed pads share is set to their earliest deadline or
\* before, so none of them is forgotten.
DelaysServed ==
  \A p \in Pins : s.deadline[p] # None => s.delay_timer # None /\ s.delay_timer <= s.deadline[p]

\* A level that wakes after a delay held without a break for all of it.
DelayedLevelHeld == ~s.short

\* The status of the motion and brown-out sources is their present level, and
\* the interrupt line follows the status, after every access and event.
LiveStatusExact == /\ "PIR" \in s.stat <=> pir_active(s)
                   /\ "BOD" \in s.stat <=> bod_active(s)
                   /\ s.line <=> s.stat # {}

\* An alarm still to come is set for its tick, less than a tick late and never
\* early, whichever of its words was written last.
AlarmOnTime ==
  s.alarm_timer # None /\ alarm_ticks(s) > rtc_ticks =>
    s.alarm_timer - alarm_ticks(s) * Parts \in 0 .. Parts - 1
===============================================================================
