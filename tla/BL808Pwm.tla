------------------------------- MODULE BL808Pwm -------------------------------
(***************************************************************************)
(* The PWM block (hw/timer/bl808_pwm.c): two groups, each with a period    *)
(* timer that runs while the group does, a repeat counter that may stop    *)
(* the group, and threshold interrupts.  When a timer fires is left open:  *)
(* an armed timer may fire at any step.                                    *)
(***************************************************************************)
EXTENDS Integers, FiniteSets

CONSTANTS Groups,       \* the motor-control groups
          Repeats,      \* repeat counts, 0 for no limit
          MaxOps        \* bound on accesses and clock changes

VARIABLES s,            \* BL808PWMState, its line and its timers
          ops           \* accesses so far

vars == <<s, ops>>

INT == {"PRDE", "REPT", "CHL", "CHH"}

\* One channel stands for the four.
group0 == [stop_en |-> FALSE, stop_on_rept |-> FALSE, ch_en |-> FALSE, low |-> FALSE,
           high |-> FALSE, repeat |-> 0, count |-> 0, stopped |-> FALSE,
           int_sts |-> {}, int_mask |-> INT, int_en |-> INT, armed |-> FALSE]

----------------------------------------------------------------------------
update_irq(d) ==
  [d EXCEPT !.irq = /\ d.clock_enabled /\ ~d.reset_asserted
                    /\ \E g \in Groups :
                         (d.mc[g].int_sts \cap d.mc[g].int_en) \ d.mc[g].int_mask # {}]

running(d, g) ==
  d.clock_enabled /\ ~d.reset_asserted /\ ~d.mc[g].stopped /\ ~d.mc[g].stop_en

reschedule(d, g) == [d EXCEPT !.mc[g].armed = running(d, g)]

rescheduleAll(d) ==
  [d EXCEPT !.mc = [g \in Groups |-> [d.mc[g] EXCEPT !.armed = running(d, g)]]]

raise_threshold_irqs(m) ==
  [m EXCEPT !.int_sts = @ \cup (IF m.ch_en /\ m.low THEN {"CHL"} ELSE {})
                          \cup (IF m.ch_en /\ m.high THEN {"CHH"} ELSE {})]

countRepeat(m) ==
  IF m.repeat = 0 THEN m
  ELSE IF m.count + 1 >= m.repeat
    THEN [m EXCEPT !.count = 0, !.int_sts = @ \cup {"REPT"},
                   !.stopped = @ \/ m.stop_on_rept]
    ELSE [m EXCEPT !.count = @ + 1]

\* The timer's callback: it is not armed again before it returns.
period_tick(d, g) ==
  LET e == [d EXCEPT !.mc[g].armed = FALSE]
      m == countRepeat(raise_threshold_irqs([e.mc[g] EXCEPT !.int_sts = @ \cup {"PRDE"}]))
  IN IF ~running(e, g) THEN e ELSE reschedule(update_irq([e EXCEPT !.mc[g] = m]), g)

clear_all(d, g) ==
  LET e == [d EXCEPT !.mc[g].int_sts = {}]
  IN IF d.mc[g].stopped THEN reschedule([e EXCEPT !.mc[g].stopped = FALSE], g) ELSE e

----------------------------------------------------------------------------
(* Registers.                                                              *)

write_int_config(d, gs) ==
  update_irq([d EXCEPT !.mc = [g \in Groups |->
                               IF g \in gs THEN clear_all(d, g).mc[g] ELSE d.mc[g]]])

write_config0(d, g, stop, on_rept) ==
  update_irq(reschedule([d EXCEPT !.mc[g].stop_en = stop, !.mc[g].stop_on_rept = on_rept,
                                  !.mc[g].count = 0], g))

write_config1(d, g, en) == update_irq([d EXCEPT !.mc[g].ch_en = en])

write_period(d, g, n) ==
  update_irq(reschedule([d EXCEPT !.mc[g].repeat = n, !.mc[g].count = 0], g))

write_thre(d, g, low, high) ==
  update_irq([d EXCEPT !.mc[g].low = low, !.mc[g].high = high])

write_int_mask(d, g, bits) == update_irq([d EXCEPT !.mc[g].int_mask = bits])

write_int_clear(d, g, bits) ==
  LET e == [d EXCEPT !.mc[g].int_sts = @ \ bits]
  IN update_irq(IF "REPT" \in bits /\ d.mc[g].stopped
                  THEN reschedule([e EXCEPT !.mc[g].stopped = FALSE], g) ELSE e)

write_int_en(d, g, bits) == update_irq([d EXCEPT !.mc[g].int_en = bits])

----------------------------------------------------------------------------
(* Clock and reset inputs.                                                 *)

reset(d) == update_irq([d EXCEPT !.mc = [g \in Groups |-> group0]])

set_clock_enabled(d, on) == update_irq(rescheduleAll([d EXCEPT !.clock_enabled = on]))

set_reset_asserted(d, on) ==
  LET e == [d EXCEPT !.reset_asserted = on]
  IN update_irq(IF on THEN reset(e) ELSE rescheduleAll(e))

Init ==
  /\ s = [clock_enabled |-> TRUE, reset_asserted |-> FALSE, irq |-> FALSE,
          mc |-> [g \in Groups |-> group0]]
  /\ ops = 0

\* What changes nothing does not count.
Step(d) == ops < MaxOps /\ ops' = ops + 1 /\ s' = d /\ s' # s

Access(d) == ~s.reset_asserted /\ Step(d)

SetIntConfig == \E gs \in SUBSET Groups : Access(write_int_config(s, gs))
SetConfig0 == \E g \in Groups, a, b \in BOOLEAN : Access(write_config0(s, g, a, b))
SetConfig1 == \E g \in Groups, a \in BOOLEAN : Access(write_config1(s, g, a))
SetPeriod == \E g \in Groups, n \in Repeats : Access(write_period(s, g, n))
SetThreshold == \E g \in Groups, a, b \in BOOLEAN : Access(write_thre(s, g, a, b))
SetIntMask == \E g \in Groups, b \in {{}, INT} : Access(write_int_mask(s, g, b))
ClearInt == \E g \in Groups, b \in {INT, {"PRDE"}, {"REPT"}} : Access(write_int_clear(s, g, b))
SetIntEnable == \E g \in Groups, b \in {INT, {"REPT"}} : Access(write_int_en(s, g, b))
SetClock == \E on \in BOOLEAN : Step(set_clock_enabled(s, on))
SetReset == \E on \in BOOLEAN : Step(set_reset_asserted(s, on))

PeriodTick ==
  \E g \in Groups : s.mc[g].armed /\ s' = period_tick(s, g) /\ UNCHANGED ops

Next == \/ SetIntConfig \/ SetConfig0 \/ SetConfig1 \/ SetPeriod \/ SetThreshold
        \/ SetIntMask \/ ClearInt \/ SetIntEnable \/ SetClock \/ SetReset \/ PeriodTick

Spec == Init /\ [][Next]_vars

----------------------------------------------------------------------------
\* The period timer follows the group: it is off while the group is stopped,
\* and on while it runs, except before the first write to a group that has
\* just been reset, which runs with its timer off.
TimerFollowsGroup ==
  \A g \in Groups :
    /\ s.mc[g].armed => running(s, g)
    /\ running(s, g) /\ ~s.mc[g].armed =>
         s.mc[g].repeat = 0 /\ ~s.mc[g].stop_on_rept /\ s.mc[g].int_sts = {}

\* A group that the repeat count has stopped says so in its interrupt status,
\* so that clearing what it reports starts it again; and a limited group is
\* always short of its limit.
StopIsReported ==
  \A g \in Groups :
    /\ s.mc[g].stopped => "REPT" \in s.mc[g].int_sts
    /\ s.mc[g].repeat # 0 => s.mc[g].count < s.mc[g].repeat
===============================================================================
