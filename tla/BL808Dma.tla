------------------------------- MODULE BL808Dma -------------------------------
(***************************************************************************)
(* The DMA controller (hw/dma/bl808_dma.c) under the HAL driver (dma.nim). *)
(* A bottom half steps every channel by at most a burst, follows linked    *)
(* descriptors, completes or fails the channel and schedules itself again, *)
(* or arms a poll timer when no channel moved.  Peripherals fill and drain *)
(* their FIFOs, the clock and reset trees interfere.  A value is abstracted*)
(* by the place it was read from; log holds what each channel delivered.   *)
(***************************************************************************)
EXTENDS Integers, Sequences, SequencesExt, FiniteSets, FiniteSetsExt

CONSTANTS Channels,     \* 0 .. channel_count - 1
          Lines,        \* request lines with a peripheral behind them
          Depth,        \* FIFO depth of a peripheral
          MaxSteps,     \* DMA_MAX_STEPS_PER_RUN
          Llis,         \* linked descriptors in memory: address -> descriptor
          Jobs,         \* programs of each channel
          MaxOps        \* bound on driver calls, clock and reset changes

VARIABLES s,            \* BL808DMAState, its lines and the peripheral FIFOs
          job,          \* ghost: the program each channel was configured with
          log,          \* ghost: <<to, from>> pairs each channel moved
          ops           \* driver calls, clock and reset changes so far

vars == <<s, job, log, ops>>

NoDesc == [src |-> 0, dst |-> 0, lli |-> 0, xfer |-> 0, tc |-> FALSE]
NoJob == [desc |-> NoDesc, flow |-> "M2M", req |-> 0, dreq |-> 0, burst |-> 1,
          width |-> 1, tcm |-> FALSE, errm |-> FALSE]

fromPeriph(j) == j.flow \in {"P2M", "P2P"}
toPeriph(j) == j.flow \in {"M2P", "P2P"}

----------------------------------------------------------------------------
(* Interrupts and scheduling.                                              *)

visible_tc_status(d) == {c \in d.raw_tc : d.ch[c].cfg.tcm /\ d.ch[c].ctl.tc}
visible_err_status(d) == {c \in d.raw_err : d.ch[c].cfg.errm}

update_irq(d) ==
  [d EXCEPT !.ch_irq = IF d.clock_enabled /\ ~d.reset_asserted
                         THEN visible_tc_status(d) \cup visible_err_status(d)
                         ELSE {}]

has_active_channels(d) == \E c \in Channels : d.ch[c].active
can_run(d) == d.clock_enabled /\ ~d.reset_asserted /\ d.top

cancel_work(d) == [d EXCEPT !.run_scheduled = FALSE, !.poll = FALSE]

schedule(d) ==
  IF can_run(d) /\ has_active_channels(d) THEN [d EXCEPT !.run_scheduled = TRUE]
                                          ELSE d

reschedule_poll(d) ==
  IF can_run(d) /\ has_active_channels(d) THEN [d EXCEPT !.poll = TRUE] ELSE d

----------------------------------------------------------------------------
(* One channel.                                                            *)

complete_channel(d, c) ==
  [d EXCEPT !.ch[c].active = FALSE, !.ch[c].enable = FALSE, !.ch[c].halt = FALSE,
            !.ch[c].ctl.xfer = 0,
            !.raw_tc = IF d.ch[c].ctl.tc THEN @ \cup {c} ELSE @]

error_channel(d, c) ==
  [d EXCEPT !.ch[c].active = FALSE, !.ch[c].enable = FALSE, !.ch[c].halt = FALSE,
            !.raw_err = @ \cup {c}]

\* Mutant: a linked descriptor is not followed.
completeAlways(d, c) == complete_channel(d, c)

\* Nothing remains: load_lli or complete.
next_descriptor(d, c) ==
  IF d.ch[c].ctl.lli # 0 THEN [d EXCEPT !.ch[c].ctl = Llis[d.ch[c].ctl.lli]]
                         ELSE complete_channel(d, c)

\* Elements the loop moves: up to the limit, while the peripherals are ready.
ready(d, line) == IF line \in Lines THEN d.fifo[line] ELSE 0
space(d, line) == IF line \in Lines THEN Depth - d.fifo[line] ELSE 0

step_limit(k) == LET l == Min({k.ctl.xfer, MaxSteps})
                 IN IF k.cfg.flow = "M2M" THEN l ELSE Min({l, k.cfg.burst})

moved(d, c) ==
  LET k == d.ch[c]
  IN Min({step_limit(k)}
         \cup (IF fromPeriph(k.cfg) THEN {ready(d, k.cfg.req)} ELSE {})
         \cup (IF toPeriph(k.cfg) THEN {space(d, k.cfg.dreq)} ELSE {}))

\* A peripheral source is read before the destination is asked for space: an
\* element read in vain is gone.
consumed(d, c) ==
  LET k == d.ch[c]
      n == moved(d, c)
  IN IF toPeriph(k.cfg) /\ n < step_limit(k) /\ ready(d, k.cfg.req) > n
       THEN n + 1 ELSE n

\* Mutant: the count goes down and the addresses stay.
transferInPlace(d, c) ==
  LET k == d.ch[c]
      n == moved(d, c)
  IN [d EXCEPT !.ch[c].ctl.xfer = @ - n,
               !.out = [i \in 1 .. n |-> <<k.ctl.dst, k.ctl.src>>]]

transfer(d, c) ==
  LET k == d.ch[c]
      n == moved(d, c)
      e == [d EXCEPT !.ch[c].ctl.xfer = @ - n,
              !.ch[c].ctl.src = IF fromPeriph(k.cfg) THEN @ ELSE @ + n * k.cfg.width,
              !.ch[c].ctl.dst = IF toPeriph(k.cfg) THEN @ ELSE @ + n * k.cfg.width,
              !.out = [i \in 1 .. n |->
                <<IF toPeriph(k.cfg) THEN k.ctl.dst ELSE k.ctl.dst + (i - 1) * k.cfg.width,
                  IF fromPeriph(k.cfg) THEN k.ctl.src ELSE k.ctl.src + (i - 1) * k.cfg.width>>]]
  IN [e EXCEPT !.fifo = [l \in Lines |->
        d.fifo[l] - (IF fromPeriph(k.cfg) /\ l = k.cfg.req THEN consumed(d, c) ELSE 0)
                  + (IF toPeriph(k.cfg) /\ l = k.cfg.dreq THEN n ELSE 0)]]

\* "unsupported destination requester", "unsupported source requester"
unconnected(k) ==
  \/ k.cfg.flow = "M2P" /\ k.cfg.dreq \notin Lines
  \/ fromPeriph(k.cfg) /\ k.cfg.req \notin Lines

width_unsupported(k) == k.cfg.width = 0 \/ (k.cfg.width > 4 /\ k.cfg.flow # "M2M")

\* The result is the new state, whether it made progress, and what it moved.
step_channel(d, c) ==
  LET k == d.ch[c]
      done(e, p) == [d |-> e, progress |-> p]
      t == transfer(d, c)
  IN IF ~k.active \/ ~k.enable \/ k.halt
       THEN done([d EXCEPT !.ch[c].active = FALSE], FALSE)
     ELSE IF width_unsupported(k) THEN done(error_channel(d, c), TRUE)
     ELSE IF k.ctl.xfer = 0 THEN done(next_descriptor(d, c), TRUE)
     ELSE IF t.ch[c].ctl.xfer = 0 THEN done(next_descriptor(t, c), TRUE)
     ELSE IF moved(d, c) = 0 /\ unconnected(k) THEN done(error_channel(t, c), TRUE)
     ELSE done(t, moved(d, c) > 0)

\* Steps are taken in channel order; log collects what each one moved.
run_channels(d) ==
  LET step(acc, c) ==
        LET r == step_channel([acc.d EXCEPT !.out = <<>>], c)
        IN [d |-> r.d, progress |-> acc.progress \/ r.progress,
            log |-> [acc.log EXCEPT ![c] = @ \o r.d.out]]
  IN FoldLeft(step, [d |-> d, progress |-> FALSE, log |-> log],
              SetToSortSeq(Channels, <))

run_bh(d, r) ==
  LET b == [d EXCEPT !.run_scheduled = FALSE]
      e == update_irq([r.d EXCEPT !.run_scheduled = FALSE, !.out = <<>>])
  IN IF ~can_run(d) THEN update_irq(b)
     ELSE IF r.progress THEN schedule(e) ELSE reschedule_poll(e)

poll_timer_cb(d) == schedule([d EXCEPT !.poll = FALSE])

----------------------------------------------------------------------------
(* Registers.                                                              *)

write_channel_config(d, c, enable, halt, cfg) ==
  LET e == [d EXCEPT !.ch[c].cfg = cfg, !.ch[c].halt = halt,
                     !.ch[c].enable = enable, !.ch[c].active = enable]
  IN IF enable THEN schedule(e) ELSE e

write_top_config(d, on) ==
  LET e == [d EXCEPT !.top = on]
  IN IF on THEN schedule(e) ELSE cancel_work(e)

write_tc_clear(d, m) == update_irq([d EXCEPT !.raw_tc = @ \ m])
write_err_clear(d, m) == update_irq([d EXCEPT !.raw_err = @ \ m])

\* Mutant: the clock comes back and nothing is scheduled.
clockNoSchedule(d, on) ==
  LET e == [d EXCEPT !.clock_enabled = on]
  IN update_irq(IF on THEN e ELSE cancel_work(e))

set_clock_enabled(d, on) ==
  LET e == [d EXCEPT !.clock_enabled = on]
  IN update_irq(IF on THEN schedule(e) ELSE cancel_work(e))

reset_channel == [ctl |-> NoDesc, cfg |-> NoJob, enable |-> FALSE, halt |-> FALSE,
                  active |-> FALSE]

reset(d) ==
  update_irq(cancel_work([d EXCEPT !.ch = [c \in Channels |-> reset_channel],
                                   !.raw_tc = {}, !.raw_err = {}, !.top = FALSE]))

set_reset_asserted(d, on) ==
  LET e == [d EXCEPT !.reset_asserted = on]
  IN update_irq(IF on THEN reset(e) ELSE schedule(e))

----------------------------------------------------------------------------
(* The driver, the peripherals, the clock and reset trees.                 *)

Init ==
  /\ s = [ch |-> [c \in Channels |-> reset_channel], raw_tc |-> {}, raw_err |-> {},
          top |-> FALSE, clock_enabled |-> FALSE, reset_asserted |-> FALSE,
          run_scheduled |-> FALSE, poll |-> FALSE, ch_irq |-> {},
          fifo |-> [l \in Lines |-> 0], out |-> <<>>]
  /\ job = [c \in Channels |-> NoJob]
  /\ log = [c \in Channels |-> <<>>]
  /\ ops = 0

Op(d) == ops < MaxOps /\ ops' = ops + 1 /\ s' = d

\* A register write is ignored while the controller is held in reset.
Write(d) == ~s.reset_asserted /\ Op(d)

initDma == Write(write_err_clear(write_tc_clear(write_top_config(s, TRUE),
                                                Channels), Channels))
           /\ UNCHANGED <<job, log>>

\* configureChannel and configureChannelLli set up an idle channel.
configureChannel ==
  \E c \in Channels : \E j \in Jobs[c] :
    /\ ~s.ch[c].active
    /\ Write(update_irq(write_channel_config(
               [s EXCEPT !.ch[c].ctl = j.desc], c, FALSE, FALSE, j)))
    /\ job' = [job EXCEPT ![c] = j]
    /\ log' = [log EXCEPT ![c] = <<>>]

startChannel ==
  \E c \in Channels, halt \in BOOLEAN :
    /\ Write(update_irq(write_channel_config(s, c, TRUE, halt, s.ch[c].cfg)))
    /\ UNCHANGED <<job, log>>

stopChannel ==
  \E c \in Channels :
    /\ Write(update_irq(write_channel_config(s, c, FALSE, s.ch[c].halt, s.ch[c].cfg)))
    /\ UNCHANGED <<job, log>>

clearInterrupt == \E c \in Channels :
                    /\ Write(write_tc_clear(s, {c})) \/ Write(write_err_clear(s, {c}))
                    /\ UNCHANGED <<job, log>>

topConfig == Write(write_top_config(s, FALSE)) /\ UNCHANGED <<job, log>>

Peripheral == \E l \in Lines, n \in 0 .. Depth :
                s' = [s EXCEPT !.fifo[l] = n] /\ UNCHANGED <<job, log, ops>>

Bh == /\ s.run_scheduled
      /\ LET r == run_channels(s)
         IN s' = run_bh(s, r) /\ log' = r.log
      /\ UNCHANGED <<job, ops>>

Poll == s.poll /\ s' = poll_timer_cb(s) /\ UNCHANGED <<job, log, ops>>

Gate == \E on \in BOOLEAN : Op(set_clock_enabled(s, on)) /\ UNCHANGED <<job, log>>

Reset == \E on \in BOOLEAN :
           /\ Op(set_reset_asserted(s, on))
           /\ IF on THEN /\ job' = [c \in Channels |-> NoJob]
                         /\ log' = [c \in Channels |-> <<>>]
                    ELSE UNCHANGED <<job, log>>

Next == \/ initDma \/ configureChannel \/ startChannel \/ stopChannel
        \/ clearInterrupt \/ topConfig \/ Peripheral \/ Bh \/ Poll \/ Gate \/ Reset

Spec == Init /\ [][Next]_vars

----------------------------------------------------------------------------
(* Properties.                                                             *)

\* What a descriptor, and a job with everything its first descriptor links to,
\* should move.
Moves(j, t) == [i \in 1 .. t.xfer |->
                 <<IF toPeriph(j) THEN t.dst ELSE t.dst + (i - 1) * j.width,
                   IF fromPeriph(j) THEN t.src ELSE t.src + (i - 1) * j.width>>]
Expected(j) ==
  LET chain[t \in {j.desc} \cup {Llis[a] : a \in DOMAIN Llis}] ==
        Moves(j, t) \o (IF t.lli = 0 THEN <<>> ELSE chain[Llis[t.lli]])
  IN chain[j.desc]

\* While the controller can run, an active channel is never forgotten: the
\* bottom half is scheduled or the poll timer is armed, whatever gating,
\* halting, stopping and idle peripherals came before.
NeverForgotten ==
  can_run(s) /\ has_active_channels(s) => s.run_scheduled \/ s.poll

\* A channel moves the elements of its descriptor chain in order and none
\* twice, across bursts, halts, stops and gated clocks.
MovedInOrder == \A c \in Channels : IsPrefix(log[c], Expected(job[c]))

\* Terminal count is raised only when the whole chain was moved.
TcMeansDoneStep == \A c \in s'.raw_tc \ s.raw_tc : log'[c] = Expected(job'[c])

TcMeansDone == [][TcMeansDoneStep]_vars
===============================================================================
