------------------------------- MODULE BL808Pds -------------------------------
(***************************************************************************)
(* The power-down sleep block (hw/riscv/bl808.c): its interrupt and wake-  *)
(* up sources, the sleep and its timer, and the pads it watches, at once   *)
(* or by samples of the 32 kHz clock.  What BL808Cores models, the cores   *)
(* and the power domain behind it, is left out here.                       *)
(***************************************************************************)
EXTENDS Integers, FiniteSets

CONSTANTS Pins,         \* pads (one set, so one mode)
          Modes,        \* trigger modes a driver chooses
          MaxOps        \* bound on accesses and events

VARIABLES s,            \* the PDS part of BL808MachineState; moved holds the
                        \* pins whose level changed since the mode was set,
                        \* spurious whether an edge was seen on another one,
                        \* late whether the sources changed during the sleep
          ops           \* accesses and events so far

vars == <<s, ops>>

\* Sources that are events: nothing keeps them asserted for the PDS block.
Events == {"IRRX", "WIFI_WKP", "DM_SLP"}
Sources == {"TIMER", "HBN_IRQ", "GLB_GPIO", "PDS_GPIO", "WIFI_TBTT"} \cup Events
Edges == {"fall", "rise", "both", "async_fall", "async_rise"}
Sampled == {"fall", "rise", "low", "high", "both"}

----------------------------------------------------------------------------
\* A history is the level at the last three samples, the oldest first.
irq_sampled(mode, h) ==
  CASE mode = "fall"                     -> h = <<TRUE, FALSE, FALSE>>
    [] mode = "rise"                     -> h = <<FALSE, TRUE, TRUE>>
    [] mode = "both"                     -> h \in {<<TRUE, FALSE, FALSE>>, <<FALSE, TRUE, TRUE>>}
    [] mode \in {"low", "async_low"}     -> h = <<FALSE, FALSE, FALSE>>
    [] mode \in {"high", "async_high"}   -> h = <<TRUE, TRUE, TRUE>>
    [] OTHER                             -> FALSE

irq_immediate(mode, old, new) == \/ mode = "async_fall" /\ old /\ ~new
                                 \/ mode = "async_rise" /\ ~old /\ new

Still(level) == <<level, level, level>>

level_active(mode, level) == mode \in {"async_low", "async_high"} /\ irq_sampled(mode, Still(level))

update_irq(d) == [d EXCEPT !.line = d.status \ d.mask # {}]

complete_sleep(d) == update_irq([d EXCEPT !.sleeping = FALSE, !.timer = FALSE])

trigger_wakeup(d, source) ==
  IF source \notin d.src THEN d
  ELSE LET e == update_irq([d EXCEPT !.status = @ \cup {"WAKEUP"}, !.event = @ \cup {source}])
       IN IF d.sleeping THEN complete_sleep(e) ELSE e

raise_status(d, bit) == update_irq([d EXCEPT !.status = @ \cup {bit}])

trigger_wifi_tbtt(d, bit) == trigger_wakeup(raise_status(d, bit), "WIFI_TBTT")

clear_int(d) == update_irq([d EXCEPT !.status = {}, !.event = {}])

----------------------------------------------------------------------------
event_enabled(d, p) == d.ie /\ p \notin d.masked

sample_needed(d) == \E p \in Pins : event_enabled(d, p) /\ d.mode \in Sampled

sample_reschedule(d) == [d EXCEPT !.sampling = sample_needed(d)]

reset_history(d) == [d EXCEPT !.history = [p \in Pins |-> Still(d.level[p])], !.moved = {}]

update_wakeup(d) == IF d.gstat # {} THEN trigger_wakeup(d, "PDS_GPIO") ELSE d

Latch(d, pins) ==
  update_wakeup([d EXCEPT !.gstat = @ \cup pins,
                          !.spurious = @ \/ (d.mode \in Edges /\ ~(pins \subseteq d.moved))])

refresh_live_sources(d) ==
  Latch(d, {p \in Pins : event_enabled(d, p) /\ level_active(d.mode, d.level[p])})

clear_set(d) == refresh_live_sources([d EXCEPT !.gstat = {}])

gpio_level_set(d, p, level) ==
  LET e == [d EXCEPT !.level[p] = level, !.moved = IF level = d.level[p] THEN @ ELSE @ \cup {p}]
  IN IF event_enabled(d, p) /\ \/ irq_immediate(d.mode, d.level[p], level)
                               \/ level_active(d.mode, level)
     THEN Latch(e, {p}) ELSE e

gpio_sample_cb(d) ==
  LET e == [d EXCEPT !.history = [p \in Pins |-> <<@[p][2], @[p][3], d.level[p]>>]]
      seen == {p \in Pins : event_enabled(d, p) /\ irq_sampled(d.mode, e.history[p])}
  IN sample_reschedule(Latch(e, seen))

----------------------------------------------------------------------------
glb_wakeup_set(d, level) ==
  LET e == [d EXCEPT !.glb = level] IN IF level THEN trigger_wakeup(e, "GLB_GPIO") ELSE e

\* The interrupts of the hibernate block, of which only the level matters here.
hbn_update_irqs(d, level) ==
  LET e == [d EXCEPT !.hbn = level] IN IF level THEN trigger_wakeup(e, "HBN_IRQ") ELSE e

\* A source that is already asserted ends the sleep at once.
pending_sources(d) == (IF d.hbn THEN {"HBN_IRQ"} ELSE {}) \cup (IF d.glb THEN {"GLB_GPIO"} ELSE {})
                        \cup (IF d.gstat # {} THEN {"PDS_GPIO"} ELSE {})

\* The order the sources are asked in.
FirstOf(wake) == CASE "HBN_IRQ" \in wake -> "HBN_IRQ"
                   [] wake \cap {"HBN_IRQ", "GLB_GPIO"} = {"GLB_GPIO"} -> "GLB_GPIO"
                   [] OTHER -> "PDS_GPIO"

\* Mutant: only interrupts that arrive during the sleep end it.
sleepIgnoresPending(d, forever, ticks) ==
  [clear_int([d EXCEPT !.sleeping = TRUE, !.late = FALSE])
     EXCEPT !.timer = ~forever /\ ticks > 0 /\ "TIMER" \in d.src]

schedule_sleep(d, forever, ticks) ==
  LET e == clear_int([d EXCEPT !.sleeping = TRUE, !.late = FALSE, !.timer = FALSE])
      wake == pending_sources(d) \cap d.src
  IN IF wake # {} THEN trigger_wakeup(e, FirstOf(wake))
     ELSE [e EXCEPT !.timer = ~forever /\ ticks > 0 /\ "TIMER" \in d.src]

write_int(d, src, mask, clear) ==
  LET e == [d EXCEPT !.src = src, !.mask = mask, !.late = @ \/ d.sleeping]
  IN IF clear THEN clear_int(e) ELSE update_irq(e)

write_gpio_i_set(d, ie) == sample_reschedule(refresh_live_sources([d EXCEPT !.ie = ie]))

write_gpio_pd_set(d, masked) == sample_reschedule(refresh_live_sources([d EXCEPT !.masked = masked]))

write_gpio_int(d, mode, clr) ==
  LET e == [d EXCEPT !.mode = mode, !.clr = clr]
      c == IF clr /\ ~d.clr THEN clear_set(e) ELSE e
      h == IF mode # d.mode THEN reset_history(c) ELSE c
  IN sample_reschedule(refresh_live_sources(h))

pds_reset(d) ==
  sample_reschedule(update_irq(reset_history(
    [d EXCEPT !.src = Sources, !.mask = {}, !.status = {}, !.event = {}, !.sleeping = FALSE,
              !.timer = FALSE, !.late = FALSE, !.glb = FALSE, !.ie = FALSE, !.masked = {},
              !.mode = "fall", !.clr = FALSE, !.gstat = {}])))

PoweredUp == [src |-> {}, mask |-> {}, status |-> {}, event |-> {}, line |-> FALSE,
              sleeping |-> FALSE, timer |-> FALSE, late |-> FALSE, hbn |-> FALSE, glb |-> FALSE,
              ie |-> FALSE, masked |-> {}, mode |-> "fall", clr |-> FALSE, gstat |-> {},
              level |-> [p \in Pins |-> FALSE], history |-> [p \in Pins |-> Still(FALSE)],
              sampling |-> FALSE, moved |-> {}, spurious |-> FALSE]

Init == s = pds_reset(PoweredUp) /\ ops = 0

\* What changes nothing does not count.
Step(d) == ops < MaxOps /\ ops' = ops + 1 /\ s' = d /\ s' # s

WriteInt == \E clear \in BOOLEAN, off \in {{}, {"TIMER"}, {"GLB_GPIO", "PDS_GPIO", "IRRX"}},
               mask \in {{}, {"WAKEUP"}} : Step(write_int(s, Sources \ off, mask, clear))
WriteGpio == \/ \E ie \in BOOLEAN : Step(write_gpio_i_set(s, ie))
             \/ \E masked \in SUBSET Pins : Step(write_gpio_pd_set(s, masked))
             \/ \E mode \in Modes, clr \in BOOLEAN : Step(write_gpio_int(s, mode, clr))
StartSleep == \E forever \in BOOLEAN, ticks \in {0, 1} : Step(schedule_sleep(s, forever, ticks))
PadChanges == \E p \in Pins : Step(gpio_level_set(s, p, ~s.level[p]))
GlbInterrupt == Step(glb_wakeup_set(s, ~s.glb))
HbnInterrupt == Step(hbn_update_irqs(s, ~s.hbn))
Tbtt == \E bit \in {"TBTT_SLEEP", "TBTT_WAKEUP"} : Step(trigger_wifi_tbtt(s, bit))
\* A received infrared frame, a wake-up from the radio or the end of its sleep.
Event == \E source \in Events : Step(trigger_wakeup(s, source))
Reset == Step(pds_reset(s))

\* Timers: the end of the sleep, and the next sample.
WakeTimer == s.timer /\ UNCHANGED ops /\ s' = trigger_wakeup([s EXCEPT !.timer = FALSE], "TIMER")
SampleTimer == s.sampling /\ UNCHANGED ops /\ s' = gpio_sample_cb(s)

Next == \/ WriteInt \/ WriteGpio \/ StartSleep \/ PadChanges \/ GlbInterrupt \/ HbnInterrupt
        \/ Tbtt \/ Event \/ Reset \/ WakeTimer \/ SampleTimer

Spec == Init /\ [][Next]_vars

----------------------------------------------------------------------------
\* No sleep goes on while an enabled source that holds a level (an interrupt of
\* the hibernate block, of a pin, of a watched pad) asks to wake, whether it was
\* raised before the sleep or during it, unless the sources were changed
\* during the sleep.  Sources that are events (an infrared frame, the radio) end
\* a sleep they come in; before it they are not remembered, although the status
\* of an infrared frame may still be set.
NoSleepThroughWakeup == s.sleeping /\ ~s.late => pending_sources(s) \cap s.src = {}

\* The sample timer runs exactly while some watched pad needs it.
SamplingRuns == s.sampling <=> sample_needed(s)

\* An edge is only reported on a pad whose level changed since the mode was
\* set: changing the mode does not make one up from old samples.
NoSpuriousEdge == ~s.spurious
===============================================================================
