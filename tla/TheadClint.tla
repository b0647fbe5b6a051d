------------------------------ MODULE TheadClint ------------------------------
(***************************************************************************)
(* The core local interruptor of one hart (hw/intc/thead_clint.c) with the *)
(* kernel's clock driver (kernel/clock.nim, the LP and D0 variants) as its *)
(* guest.  mtime is computed from the virtual clock and time_delta; a      *)
(* write to either half of mtimecmp or mtime lowers the timer line and     *)
(* either raises it at once or arms a QEMU timer.  The driver accesses one *)
(* 32-bit half at a time, so time passes and the timer runs in between.    *)
(* Registers have two halves of Word values; 64-bit arithmetic wraps at    *)
(* Word^2, and QEMU reads a deadline as signed.                            *)
(***************************************************************************)
EXTENDS Integers, FiniteSets, FiniteSetsExt

CONSTANTS Word,         \* values of a 32-bit half
          NsPerTick,    \* NANOSECONDS_PER_SECOND / timebase_freq
          Deadlines,    \* ticks the kernel asks for
          Mtimes,       \* halves written to mtime
          MaxLate,      \* how late a timer callback may run
          MaxNow,       \* bound on the virtual clock
          MaxOps        \* bound on driver calls

VARIABLES s,            \* THEADCLINTState, and the two output lines
          now,          \* QEMU_CLOCK_VIRTUAL
          cpu,          \* the driver: pc, its argument, what it read
          ops           \* driver calls so far

vars == <<s, now, cpu, ops>>

UINT64 == Word * Word   \* one more than UINT64_MAX
None == -1

----------------------------------------------------------------------------
(* The device.                                                             *)

read_rtc_raw == (now \div NsPerTick) % UINT64

read_rtc(d) == (read_rtc_raw + d.time_delta) % UINT64

\* timer_mod takes a signed time and starts at zero.
timer_mod(ns) == IF ns >= UINT64 \div 2 THEN 0 ELSE ns

write_timecmp(d, value) ==
  LET rtc == read_rtc(d)
      ns == (now + (((value - rtc) * NsPerTick) % UINT64)) % UINT64
  IN IF value <= rtc
       THEN [d EXCEPT !.mtimecmp = value, !.mtip = TRUE]
       ELSE [d EXCEPT !.mtimecmp = value, !.mtip = FALSE, !.timer = timer_mod(ns)]

write_msip(d, v) == [d EXCEPT !.msip = v]

write_mtimecmp_lo(d, v) == write_timecmp(d, (d.mtimecmp \div Word) * Word + v)
write_mtimecmp_hi(d, v) == write_timecmp(d, v * Word + (d.mtimecmp % Word))

\* Mutant: mtime moves and the timer is not armed again.
mtimeOnly(d, value) == [d EXCEPT !.time_delta = (value - read_rtc_raw) % UINT64]

set_mtime(d, value) ==
  LET e == [d EXCEPT !.time_delta = (value - read_rtc_raw) % UINT64]
  IN write_timecmp(e, e.mtimecmp)

write_mtime_lo(d, v) == set_mtime(d, (read_rtc(d) \div Word) * Word + v)
write_mtime_hi(d, v) == set_mtime(d, v * Word + (read_rtc(d) % Word))

timer_cb(d) == [d EXCEPT !.mtip = TRUE, !.timer = None]

realize == [mtimecmp |-> UINT64 - 1, msip |-> FALSE, mtip |-> FALSE,
            time_delta |-> 0, timer |-> None]

----------------------------------------------------------------------------
(* The clock driver.  start and goal are for the properties: the tick at   *)
(* which the call began and the deadline asked for last.                   *)

Init == /\ now = 0 /\ ops = 0
        /\ s = realize
        /\ cpu = [pc |-> "idle", arg |-> 0, lo |-> 0, start |-> 0,
                  tick |-> 0, goal |-> UINT64 - 1, valid |-> FALSE]

Call(pc, arg) ==
  /\ cpu.pc = "idle" /\ ops < MaxOps /\ ops' = ops + 1
  /\ cpu' = [cpu EXCEPT !.pc = pc, !.arg = arg, !.start = read_rtc(s),
                        !.valid = FALSE]
  /\ UNCHANGED <<s, now>>

setDeadline == \E t \in Deadlines : Call("set", t)
clearDeadline == Call("clear", UINT64 - 1)
readTick == Call("read", 0)

Step(pc, next, d) ==
  cpu.pc = pc /\ s' = d /\ cpu' = next /\ UNCHANGED <<now, ops>>

goto(pc) == [cpu EXCEPT !.pc = pc]

setMaxHi == Step("set", goto("setLo"), write_mtimecmp_hi(s, Word - 1))
setLo == Step("setLo", goto("setHi"), write_mtimecmp_lo(s, cpu.arg % Word))
setHi == Step("setHi", [goto("idle") EXCEPT !.goal = cpu.arg],
              write_mtimecmp_hi(s, cpu.arg \div Word))
clearHi == Step("clear", goto("clearLo"), write_mtimecmp_hi(s, Word - 1))
clearLo == Step("clearLo", [goto("idle") EXCEPT !.goal = UINT64 - 1],
                write_mtimecmp_lo(s, Word - 1))
readLo == Step("read", [goto("readHi") EXCEPT !.lo = read_rtc(s) % Word], s)
readHi == Step("readHi", [goto("idle") EXCEPT !.valid = TRUE,
                 !.tick = (read_rtc(s) \div Word) * Word + cpu.lo], s)

\* Accesses of the rest of the system: software interrupts, and debuggers and
\* tests that set mtime.
Other ==
  /\ cpu.pc = "idle" /\ ops < MaxOps /\ ops' = ops + 1
  /\ \/ \E v \in BOOLEAN : s' = write_msip(s, v)
     \/ \E v \in Mtimes : s' = write_mtime_lo(s, v)
     \/ \E v \in Mtimes : s' = write_mtime_hi(s, v)
  /\ cpu' = [cpu EXCEPT !.valid = FALSE]
  /\ UNCHANGED now

Callback == /\ s.timer # None /\ now >= s.timer
            /\ s' = timer_cb(s)
            /\ UNCHANGED <<now, cpu, ops>>

Tick == /\ now < MaxNow
        /\ s.timer # None => now < s.timer + MaxLate
        /\ now' = now + 1
        /\ UNCHANGED <<s, cpu, ops>>

Next == \/ setDeadline \/ clearDeadline \/ readTick
        \/ setMaxHi \/ setLo \/ setHi \/ clearHi \/ clearLo \/ readLo \/ readHi
        \/ Other \/ Callback \/ Tick

Spec == Init /\ [][Next]_vars

----------------------------------------------------------------------------
(* Properties.                                                             *)

\* The high half of the compare value is all ones: the middle of setDeadline,
\* and from reset or clearDeadline on.  QEMU's distance to it wraps to a time
\* in the past, so that the timer runs at once, whatever "prevent spurious" in
\* setDeadline and "Disable pending timer interrupt" in clearDeadline say.
Unreachable == cpu.pc \in {"setLo", "setHi", "clearLo"} \/ cpu.goal = UINT64 - 1

\* The timer line is up before mtime reaches the compare value in those places
\* only.  When setDeadline has returned, a callback that came in the middle of
\* its writes, or a QEMU timer armed for an older value or an older mtime, has
\* left no trace.
DeadlineNotEarly == s.mtip /\ read_rtc(s) < s.mtimecmp => Unreachable

\* Once mtime is more than a tick past the compare value the line is up, however
\* mtime was moved meanwhile, also between the three writes of setDeadline.
DeadlineNotLate == read_rtc(s) > s.mtimecmp + 1 => s.mtip

\* The tick that readTick puts together from two halves is one between its call
\* and now, or, after a carry between the halves, one low half above those.
TickWithinCarry ==
  cpu.valid => \E carry \in {0, Word} : cpu.tick - carry \in cpu.start .. read_rtc(s)
===============================================================================
