------------------------------ MODULE BL808Timer ------------------------------
(***************************************************************************)
(* The timer and watchdog block (hw/timer/bl808_timer.c): two counting     *)
(* channels with three compare values each, and a watchdog.  A counter is  *)
(* not stored: it is the count committed last plus the ticks of the        *)
(* virtual clock since, and a QEMU timer is armed for the instant at which *)
(* it reaches the next compare value.  Registers hold sets of bits; one    *)
(* action per register write, clock or reset input and timer callback.     *)
(* A callback runs at most MaxLate after its deadline.                     *)
(***************************************************************************)
EXTENDS Integers, FiniteSets, FiniteSetsExt, TLC

CONSTANTS NS,           \* nanoseconds in a second, scaled down
          UINT32_MAX,   \* TMR_RESET_VALUE: this compare value means "none"
          WDT_MASK,     \* WMR_WDT_MATCH_MASK
          ClockInputs,  \* the rates the clock tree may feed in, by selector
          Matches,      \* compare and preload values the guest writes
          Dividers,     \* clock dividers the guest writes
          Used,         \* the channels the guest programs
          AccessInReset, \* does the guest access a block held in reset?
          MaxLate,      \* how late a timer callback may run
          MaxNow,       \* bound on the virtual clock
          MaxOps        \* bound on the number of guest accesses

VARIABLES s,            \* BL808TimerState
          now,          \* QEMU_CLOCK_VIRTUAL
          ops           \* guest accesses so far

vars == <<s, now, ops>>

Chan == 0..1
Cmp == 0..2
WDT == 2                \* the watchdog's interrupt line and clock selector
None == -1              \* a QEMU timer that is not pending

----------------------------------------------------------------------------
(* Channel helpers.                                                        *)

channel_enabled(d, ch) == d.clock_enabled /\ ~d.reset_asserted /\ ch \in d.tcer
channel_preload(d, ch) == ch \notin d.tcmr_free
channel_align_enabled(d, ch) == ch \in d.tcmr_align

source_hz(d, ch) == d.hz[d.tccr[ch]] \div (d.tcdr_live[ch] + 1)

channel_initial_count(d, ch) ==
  IF channel_preload(d, ch) THEN d.tplvr_live[ch] ELSE 0

\* The compare value that reloads the counter, or None.
channel_reload_match(d, ch) ==
  IF channel_preload(d, ch) /\ d.tplcr_live[ch] # 0
    THEN d.tmr_live[ch][d.tplcr_live[ch] - 1] ELSE None

channel_now(d, ch) ==
  IF channel_enabled(d, ch)
    THEN (d.count[ch] + ((now - d.base[ch]) * source_hz(d, ch)) \div NS)
           % (UINT32_MAX + 1)
    ELSE d.count[ch]

channel_commit_now(d, ch, count) ==
  [d EXCEPT !.count[ch] = count, !.base[ch] = now]

channel_sync(d, ch) == channel_commit_now(d, ch, channel_now(d, ch))

channel_load_live_config(d, ch) ==
  [d EXCEPT !.tmr_live[ch] = d.tmr[ch], !.tplvr_live[ch] = d.tplvr[ch],
            !.tplcr_live[ch] = d.tplcr[ch], !.pending = @ \ {ch}]

channel_clear_compare_state(d, ch) == [d EXCEPT !.fired[ch] = {}]

channel_mark_passed_compares(d, ch, current) ==
  [d EXCEPT !.fired[ch] = {i \in Cmp : d.tmr_live[ch][i] <= current}]

copy_programmed_divider(d, u) == [d EXCEPT !.tcdr_live[u] = d.tcdr[u]]

channel_level_irq_pending(d, ch) == (d.tsr[ch] \cap d.tier[ch]) \ d.tilr[ch] # {}

\* qemu_set_irq on the three lines; rose collects the lines that went up.
update_irq(d) ==
  LET live == d.clock_enabled /\ ~d.reset_asserted
      level == [l \in 0..2 |-> live /\ IF l = WDT THEN d.wsr
                                       ELSE channel_level_irq_pending(d, l)]
  IN [d EXCEPT !.irq = level,
               !.rose = @ \cup {l \in 0..2 : level[l] /\ ~d.irq[l]}]

channel_pulse_irq(d, ch) ==
  IF d.clock_enabled /\ ~d.reset_asserted
    THEN [d EXCEPT !.irq[ch] = FALSE,
                   !.rose = IF d.irq[ch] THEN @ ELSE @ \cup {ch}]
    ELSE d

CeilDiv(a, b) == (a + b - 1) \div b

\* Arm the channel's QEMU timer for the next compare value not yet reached.
channel_reschedule(d, ch) ==
  LET current == channel_now(d, ch)
      rate == source_hz(d, ch)
      reload == channel_reload_match(d, ch)
      ahead == {d.tmr_live[ch][i] : i \in {j \in Cmp \ d.fired[ch] :
                  /\ d.tmr_live[ch][j] >= current
                  /\ reload # None => d.tmr_live[ch][j] <= reload}}
                \ {UINT32_MAX}
  IN [d EXCEPT !.timer[ch] =
        IF ~channel_enabled(d, ch) \/ rate = 0 \/ ahead = {} THEN None
        ELSE IF Min(ahead) <= current THEN now + 1
        ELSE now + Max({1, CeilDiv((Min(ahead) - current) * NS, rate)})]

----------------------------------------------------------------------------
(* Watchdog helpers.                                                       *)

wdt_enabled(d) == d.clock_enabled /\ ~d.reset_asserted /\ d.wmer.en

wdt_now(d) ==
  IF wdt_enabled(d)
    THEN (d.wdt_count + ((now - d.wdt_base) * source_hz(d, WDT)) \div NS)
           % (WDT_MASK + 1)
    ELSE d.wdt_count

wdt_commit_now(d, count) ==
  [d EXCEPT !.wdt_count = count % (WDT_MASK + 1), !.wdt_base = now]

wdt_apply_programmed(d) ==
  [d EXCEPT !.wmr_live = d.wmr, !.wdt_update_pending = FALSE]

\* The division by the rate is undefined for a stopped clock: the emulator ends
\* there (a behaviour that takes no further step), or the quotient is 0.
ns_until(ticks, rate) == IF rate = 0 THEN 0 ELSE CeilDiv(ticks * NS, rate)

wdt_reschedule(d) ==
  [d EXCEPT !.timer[WDT] =
     IF ~wdt_enabled(d) \/ d.wmr_live.match = 0 THEN None
     ELSE IF wdt_now(d) >= d.wmr_live.match THEN now + 1
     ELSE now + Max({1, ns_until(d.wmr_live.match - wdt_now(d), source_hz(d, WDT))})]

sync_counters(d) ==
  wdt_commit_now(channel_sync(channel_sync(d, 0), 1), wdt_now(d))

reschedule_channels(d) == channel_reschedule(channel_reschedule(d, 0), 1)
reschedule_all(d) == wdt_reschedule(reschedule_channels(d))

----------------------------------------------------------------------------
(* Reset.                                                                  *)

reset_values ==
  [tccr |-> [u \in 0..2 |-> IF u = WDT THEN 1 ELSE 5],
   tmr |-> [ch \in Chan |-> [i \in Cmp |-> UINT32_MAX]],
   tmr_live |-> [ch \in Chan |-> [i \in Cmp |-> UINT32_MAX]],
   tsr |-> [ch \in Chan |-> {}], tier |-> [ch \in Chan |-> {}],
   tilr |-> [ch \in Chan |-> {}], fired |-> [ch \in Chan |-> {}],
   tplvr |-> [ch \in Chan |-> 0], tplvr_live |-> [ch \in Chan |-> 0],
   tplcr |-> [ch \in Chan |-> 0], tplcr_live |-> [ch \in Chan |-> 0],
   pending |-> {}, tcvwr |-> [ch \in Chan |-> 0], tcvwr_read |-> {},
   tcer |-> {}, tcmr_free |-> {}, tcmr_align |-> {},
   tcdr |-> [u \in 0..2 |-> 0], tcdr_live |-> [u \in 0..2 |-> 0],
   wmer |-> [en |-> FALSE, rst |-> FALSE],
   wmr |-> [align |-> FALSE, match |-> WDT_MASK],
   wmr_live |-> [align |-> FALSE, match |-> WDT_MASK],
   wsr |-> FALSE, wfar_seen |-> FALSE, wdt_unlocked |-> FALSE,
   wdt_update_pending |-> FALSE, count |-> [ch \in Chan |-> 0],
   base |-> [ch \in Chan |-> now], wdt_count |-> 0, wdt_base |-> now,
   timer |-> [u \in 0..2 |-> None]]

\* Everything but the inputs and the lines goes back to its reset value.
reset_hold(d) ==
  update_irq(reset_values @@
    [hz |-> d.hz, irq |-> d.irq, rose |-> d.rose,
     clock_enabled |-> d.clock_enabled, reset_asserted |-> d.reset_asserted,
     reset_requested |-> d.reset_requested])

----------------------------------------------------------------------------
(* Register writes of one channel.                                         *)

\* What a write to TMR, TPLVR or TPLCR does once the register is stored: it
\* waits for the next event when alignment is on, else it takes effect now.
apply_or_defer(d, ch, mark(_, _)) ==
  IF channel_enabled(d, ch) /\ channel_align_enabled(d, ch)
    THEN [d EXCEPT !.pending = @ \cup {ch}]
    ELSE channel_reschedule(mark(channel_load_live_config(d, ch), ch), ch)

mark_passed_at_count(d, ch) == channel_mark_passed_compares(d, ch, d.count[ch])

write_tmr(d, ch, i, v) ==
  apply_or_defer([channel_sync(d, ch) EXCEPT !.tmr[ch][i] = v], ch,
                 channel_clear_compare_state)
write_tplvr(d, ch, v) ==
  apply_or_defer([channel_sync(d, ch) EXCEPT !.tplvr[ch] = v], ch,
                 mark_passed_at_count)
write_tplcr(d, ch, v) ==
  apply_or_defer([channel_sync(d, ch) EXCEPT !.tplcr[ch] = v], ch,
                 mark_passed_at_count)

write_tier(d, ch, bits) == update_irq([d EXCEPT !.tier[ch] = bits])
write_ticr(d, ch, bits) == update_irq([d EXCEPT !.tsr[ch] = @ \ bits])
write_tilr(d, ch, bits) == [d EXCEPT !.tilr[ch] = bits]

----------------------------------------------------------------------------
(* Register writes shared by the channels.                                 *)

write_tccr(d, sel) == reschedule_all([sync_counters(d) EXCEPT !.tccr = sel])

sync_channels(d) == channel_sync(channel_sync(d, 0), 1)

\* A channel that is cleared, started or stopped begins from its preload.
restart_channel(d, ch) ==
  LET e == channel_clear_compare_state(
             copy_programmed_divider(channel_load_live_config(d, ch), ch), ch)
  IN channel_commit_now(e, ch, channel_initial_count(e, ch))

write_tcer(d, en, clr) ==
  LET hit(e, ch) == IF ch \in clr \/ (ch \in d.tcer) # (ch \in en)
                      THEN restart_channel(e, ch) ELSE e
  IN reschedule_channels(hit(hit([sync_channels(d) EXCEPT !.tcer = en], 0), 1))

write_tcmr(d, free, align) ==
  LET clear(e, ch) == IF (ch \in d.tcmr_free) # (ch \in free)
                        THEN channel_clear_compare_state(e, ch) ELSE e
      load(e, ch) == IF ch \in e.pending /\ ch \notin align
                       THEN mark_passed_at_count(
                              channel_load_live_config(e, ch), ch)
                       ELSE e
      e0 == [sync_channels(d) EXCEPT !.tcmr_free = free, !.tcmr_align = align]
  IN reschedule_channels(load(load(clear(clear(e0, 0), 1), 0), 1))

write_tcdr(d, div) ==
  LET e0 == [wdt_commit_now(sync_channels(d), wdt_now(d)) EXCEPT !.tcdr = div]
      idle(e, u) == IF u = WDT THEN ~wdt_enabled(e) ELSE ~channel_enabled(e, u)
  IN [e0 EXCEPT !.tcdr_live = [u \in 0..2 |-> IF idle(e0, u) THEN div[u] ELSE @[u]]]

write_tcdr_force(d, force) ==
  LET ch(e, u) == IF u \in force
                    THEN channel_reschedule(
                           copy_programmed_divider(channel_sync(e, u), u), u)
                    ELSE e
      e1 == ch(ch(d, 0), 1)
  IN IF WDT \in force
       THEN wdt_reschedule(
              copy_programmed_divider(wdt_commit_now(e1, wdt_now(e1)), WDT))
       ELSE e1

\* Reading one of the TCVWR registers latches both counters until the other
\* one has been read as well.
tcvwr_read(d, ch) ==
  LET seen == d.tcvwr_read \cup {ch}
  IN [d EXCEPT !.tcvwr = IF d.tcvwr_read = {}
                           THEN [c \in Chan |-> channel_now(d, c)] ELSE @,
               !.tcvwr_read = IF seen = Chan THEN {} ELSE seen]

----------------------------------------------------------------------------
(* Watchdog registers.  Each protected write uses up one unlock sequence.  *)

protected(d, effect) ==
  IF d.wdt_unlocked THEN [effect EXCEPT !.wdt_unlocked = FALSE] ELSE d

wdt_take_programmed(d) == wdt_apply_programmed(copy_programmed_divider(d, WDT))

write_wmer(d, en, rst) ==
  LET e == [wdt_commit_now(d, wdt_now(d)) EXCEPT !.wmer.en = en, !.wmer.rst = rst]
  IN protected(d, wdt_reschedule(IF d.wmer.en # en THEN wdt_take_programmed(e)
                                                   ELSE e))

write_wmr(d, align, match) ==
  LET e == [wdt_commit_now(d, wdt_now(d)) EXCEPT !.wmr.align = align,
                                                 !.wmr.match = match]
  IN protected(d, IF wdt_enabled(e) /\ align
                    THEN [e EXCEPT !.wdt_update_pending = TRUE]
                    ELSE wdt_reschedule(wdt_apply_programmed(e)))

write_wicr(d, clear) ==
  protected(d, IF clear THEN update_irq([d EXCEPT !.wsr = FALSE]) ELSE d)

\* WSR needs no unlock.
write_wsr(d) == update_irq([d EXCEPT !.wsr = FALSE])

write_wcr(d, feed) ==
  protected(d, IF feed
                 THEN wdt_reschedule(wdt_commit_now(wdt_take_programmed(d), 0))
                 ELSE d)

write_wfar(d, magic) == [d EXCEPT !.wfar_seen = magic, !.wdt_unlocked = FALSE]

write_wsar(d, magic) ==
  [d EXCEPT !.wfar_seen = FALSE, !.wdt_unlocked = d.wfar_seen /\ magic]

----------------------------------------------------------------------------
(* Timer callbacks; QEMU takes a timer off its list before it calls back.  *)

channel_event(d, ch) ==
  LET current == channel_now(d, ch)
      hit == {i \in Cmp \ d.fired[ch] : d.tmr_live[ch][i] = current}
      d1 == [d EXCEPT !.tsr[ch] = @ \cup hit, !.fired[ch] = @ \cup hit]
      reload == channel_reload_match(d, ch) = current
      loaded == IF ch \in d1.pending THEN channel_load_live_config(d1, ch) ELSE d1
      restarted == channel_clear_compare_state(copy_programmed_divider(loaded, ch), ch)
      aligned == /\ ch \in d1.pending
                 /\ channel_align_enabled(d, ch)
                 /\ hit # {}
      d2 == IF reload
              THEN channel_commit_now(restarted, ch,
                                      channel_initial_count(restarted, ch))
            ELSE IF aligned
              THEN channel_mark_passed_compares(
                     channel_load_live_config(
                       channel_commit_now(d1, ch, current), ch), ch, current)
              ELSE channel_commit_now(d1, ch, current)
      pulse == /\ hit \cap d.tier[ch] \cap d.tilr[ch] # {}
               /\ ~channel_level_irq_pending(d, ch)
               /\ ~channel_level_irq_pending(d2, ch)
  IN channel_reschedule(
       update_irq(IF pulse THEN channel_pulse_irq(d2, ch) ELSE d2), ch)

wdt_fire(d) ==
  LET d1 == [wdt_commit_now(d, d.wmr_live.match) EXCEPT !.wsr = TRUE]
      d2 == update_irq(IF d1.wdt_update_pending /\ d1.wmr.align
                         THEN wdt_apply_programmed(d1) ELSE d1)
  IN IF d.wmer.rst THEN [d2 EXCEPT !.reset_requested = TRUE]
                   ELSE wdt_reschedule(d2)

set_clock_enabled(d, on) ==
  update_irq(reschedule_all([sync_counters(d) EXCEPT !.clock_enabled = on]))

set_reset_asserted(d, on) ==
  LET e == [d EXCEPT !.reset_asserted = on]
  IN IF on THEN reset_hold(e) ELSE update_irq(e)

set_clock_inputs(d, hz) ==
  update_irq(reschedule_all([sync_counters(d) EXCEPT !.hz = hz]))

----------------------------------------------------------------------------
(* The HAL driver's set-up of a periodic channel and of the watchdog.      *)

setCountModePreload(d, ch) ==
  write_tcmr(d, IF ch = 1 THEN d.tcmr_free \ {0} ELSE d.tcmr_free, d.tcmr_align)

setupPeriodic(d, ch, ticks, src) ==
  LET d1 == write_tccr(write_tcer(d, d.tcer \ {ch}, {}), [d.tccr EXCEPT ![ch] = src])
      d2 == write_tplvr(setCountModePreload(d1, ch), ch, 0)
      d3 == write_tmr(write_tmr(write_tmr(d2, ch, 0, ticks), ch, 1, UINT32_MAX),
                      ch, 2, UINT32_MAX)
      d4 == write_tier(write_ticr(d3, ch, {0}), ch, d3.tier[ch] \cup {0})
  IN write_tcer(d4, d4.tcer \cup {ch}, {})

wdtUnlock(d) == write_wsar(write_wfar(d, TRUE), TRUE)

wdtEnable(d, match, rst) ==
  LET d1 == write_wmr(wdtUnlock(d), FALSE, match)
      d2 == write_wcr(wdtUnlock(write_wicr(wdtUnlock(d1), TRUE)), TRUE)
  IN write_wmer(wdtUnlock(d2), TRUE, rst)
----------------------------------------------------------------------------
(* Actions.                                                                *)

d0 == [s EXCEPT !.rose = {}]
BitSets == {{}, {0}}
CmpUsed == 0..1

powered_on ==
  reset_values @@ [hz |-> CHOOSE hz \in ClockInputs : TRUE, rose |-> {},
                   irq |-> [l \in 0..2 |-> FALSE], clock_enabled |-> TRUE,
                   reset_asserted |-> FALSE, reset_requested |-> FALSE]

Init == now = 0 /\ ops = 0 /\ s = powered_on

\* An access that changes nothing does not count.
Access(e) == /\ ops < MaxOps /\ ops' = ops + 1
             /\ AccessInReset \/ ~s.reset_asserted
             /\ s' = e /\ s' # s /\ UNCHANGED now

WriteChannel ==
  \E ch \in Used :
    \/ \E i \in CmpUsed, v \in Matches : Access(write_tmr(d0, ch, i, v))
    \/ \E v \in Matches : Access(write_tplvr(d0, ch, v))
    \/ \E v \in 0..2 : Access(write_tplcr(d0, ch, v))
    \/ \E bits \in BitSets : Access(write_tier(d0, ch, bits))
    \/ \E bits \in BitSets : Access(write_ticr(d0, ch, bits))
    \/ \E bits \in BitSets : Access(write_tilr(d0, ch, bits))

WriteShared ==
  \/ \E ch \in Used, sel \in {0, 3, 5} :
       Access(write_tccr(d0, [s.tccr EXCEPT ![ch] = sel]))
  \/ \E sel \in {1, 3, 5} : Access(write_tccr(d0, [s.tccr EXCEPT ![WDT] = sel]))
  \/ \E en, clr \in SUBSET Used : Access(write_tcer(d0, en, clr))
  \/ \E free, align \in SUBSET Used : Access(write_tcmr(d0, free, align))
  \/ \E u \in Used \cup {WDT}, n \in Dividers :
       Access(write_tcdr(d0, [s.tcdr EXCEPT ![u] = n]))
  \/ \E force \in SUBSET (Used \cup {WDT}) : Access(write_tcdr_force(d0, force))

Driver ==
  \/ \E ch \in Used, v \in Matches : Access(setupPeriodic(d0, ch, v, 3))
  \/ \E v \in Matches, rst \in BOOLEAN : Access(wdtEnable(d0, v, rst))

ReadCounter == \E ch \in Chan : Access(tcvwr_read(d0, ch))

WriteWatchdog ==
  \/ \E en, rst \in BOOLEAN : Access(write_wmer(d0, en, rst))
  \/ \E align \in BOOLEAN, v \in Matches : Access(write_wmr(d0, align, v))
  \/ \E b \in BOOLEAN : Access(write_wicr(d0, b)) \/ Access(write_wcr(d0, b))
  \/ Access(write_wsr(d0))
  \/ \E magic \in BOOLEAN : Access(write_wfar(d0, magic)) \/ Access(write_wsar(d0, magic))

ClockTree ==
  \/ \E on \in BOOLEAN : on # s.clock_enabled /\ s' = set_clock_enabled(d0, on)
  \/ \E on \in BOOLEAN : on # s.reset_asserted /\ s' = set_reset_asserted(d0, on)
  \/ \E hz \in ClockInputs : hz # s.hz /\ s' = set_clock_inputs(d0, hz)

Inputs == ops < MaxOps /\ ops' = ops + 1 /\ ClockTree /\ UNCHANGED now

due(u) == s.timer[u] # None /\ now >= s.timer[u]
taken(u) == [d0 EXCEPT !.timer[u] = None]

Callback ==
  /\ \/ \E ch \in Chan : due(ch) /\ s' = channel_event(taken(ch), ch)
     \/ due(WDT) /\ s' = wdt_fire(taken(WDT))
  /\ UNCHANGED <<now, ops>>

SystemReset ==
  /\ s.reset_requested
  /\ s' = reset_hold([d0 EXCEPT !.clock_enabled = TRUE, !.reset_asserted = FALSE,
                                !.reset_requested = FALSE])
  /\ UNCHANGED <<now, ops>>

Tick ==
  /\ now < MaxNow
  /\ \A u \in 0..2 : s.timer[u] # None => now < s.timer[u] + MaxLate
  /\ now' = now + 1 /\ UNCHANGED <<s, ops>>

Next == \/ Driver \/ WriteChannel \/ WriteShared \/ ReadCounter \/ WriteWatchdog
        \/ Inputs \/ Callback \/ SystemReset \/ Tick

Spec == Init /\ [][Next]_vars

----------------------------------------------------------------------------
(* Properties.                                                             *)

\* A compare value of a running channel that is still ahead of the counter and
\* that the reload does not cut off.
Awaited(ch, i) ==
  /\ channel_enabled(s, ch)
  /\ i \notin s.fired[ch]
  /\ s.tmr_live[ch][i] # UINT32_MAX
  /\ s.tmr_live[ch][i] >= channel_now(s, ch)
  /\ channel_reload_match(s, ch) # None =>
       s.tmr_live[ch][i] <= channel_reload_match(s, ch)

\* Time never carries a counter past a compare value that has not raised its
\* status bit, whatever was reprogrammed on the way (clock source, divider,
\* mode, alignment, gating), as long as a callback is late by less than a tick.
NoCompareSkippedStep ==
  now' # now => \A ch \in Chan, i \in Cmp :
    Awaited(ch, i) => channel_now(s, ch)' <= s.tmr_live[ch][i]

NoCompareSkipped == [][NoCompareSkippedStep]_vars

\* A running watchdog always has its timer armed, no later than the instant at
\* which the counter the guest reads reaches the match value, also after its
\* clock was stopped.  With a stopped clock the code divides by zero: there the
\* timer is at most armed for the next instant.
WatchdogArmed ==
  wdt_enabled(s) /\ s.wmr_live.match # 0 /\ ~s.reset_requested =>
    /\ s.timer[WDT] # None
    /\ s.timer[WDT] <= Max({now + 1,
         s.wdt_base + ns_until(s.wmr_live.match - s.wdt_count, source_hz(s, WDT))})

\* A compare event that sets an enabled status bit is seen by the interrupt
\* controller: the line is high afterwards or it rose on the way (edge mode).
InterruptSignalledStep ==
  \A ch \in Chan : (s'.tsr[ch] \ s.tsr[ch]) \cap s'.tier[ch] # {} =>
    s'.irq[ch] \/ ch \in s'.rose

InterruptSignalled == [][InterruptSignalledStep]_vars

===============================================================================
