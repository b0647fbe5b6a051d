------------------------------ MODULE BL808Cores ------------------------------
(***************************************************************************)
(* Which cores run and where they start (hw/riscv/bl808.c): the D0 core    *)
(* behind the power domain, its clock and its reset; the LP core behind    *)
(* its clock and its reset; and the power-down sleep that wakes the core   *)
(* it was started by.  A program counter is the name of a place: the reset *)
(* vector of the core ("vector"), 0, running code, or a boot address.      *)
(***************************************************************************)
EXTENDS Integers

CONSTANTS Boots,        \* boot addresses a driver writes
          MaxOps        \* bound on accesses

VARIABLES s,            \* BL808MachineState: power, clocks, resets, cores
          ops           \* accesses so far

vars == <<s, ops>>

\* Whether a boot header (for LP, or -lp-firmware) names images to start.
Headers == {"none", "header"}

----------------------------------------------------------------------------
set_cpu_running(c, pc) == [c EXCEPT !.run = TRUE, !.pc = pc, !.fresh = FALSE, !.woken = FALSE,
                                    !.gated = "none"]
set_cpu_halted(c, pc) == [c EXCEPT !.run = FALSE, !.pc = pc, !.woken = FALSE]
cold_reset(c) == [c EXCEPT !.pc = "vector", !.fresh = TRUE, !.gated = "none"]

\* A running core stopped by its clock: gated records where.
gate(c) == [set_cpu_halted(c, c.pc) EXCEPT !.gated = IF c.run /\ c.pc # "0" THEN c.pc ELSE @]

d0_reset_pc(d) == CASE d.d0_entry # "none"     -> d.d0_entry
                    [] d.mm_boot # "bootreset" -> d.mm_boot
                    [] OTHER                   -> IF d.strict THEN "bootreset" ELSE "xip"

lp_reset_pc(d) == CASE d.cfg13 # "0" -> d.cfg13
                    [] OTHER         -> IF d.strict THEN "rom" ELSE "lpxip"

hold_d0(d, pc) == [d EXCEPT !.d0 = set_cpu_halted(@, pc)]
hold_lp(d, pc) == [d EXCEPT !.lp = set_cpu_halted(@, pc)]

release_or_resume_d0(d) ==
  [d EXCEPT !.d0 = set_cpu_running(@, CASE d.d0_entry # "none" -> d.d0_entry
                                        [] @.pc = "0"            -> d0_reset_pc(d)
                                        [] OTHER                 -> @.pc)]

release_or_resume_lp(d) ==
  [d EXCEPT !.lp = set_cpu_running(@, IF @.pc = "0" THEN lp_reset_pc(d) ELSE @.pc)]

update_lp_state(d, reset_lp) ==
  LET e == IF reset_lp THEN [d EXCEPT !.lp = cold_reset(@)] ELSE d
      pc == lp_reset_pc(d)
  IN CASE d.lp_rst  -> hold_lp(e, pc)
       [] ~d.lp_rst /\ ~d.lp_clk ->
            IF reset_lp \/ e.lp.pc = "0" THEN hold_lp(e, pc) ELSE [e EXCEPT !.lp = gate(@)]
       [] OTHER -> IF reset_lp THEN [e EXCEPT !.lp = set_cpu_running(@, pc)]
                   ELSE release_or_resume_lp(e)

----------------------------------------------------------------------------
\* Without power the registers of the domain are reset, the boot address too.
mm_misc_reset(d) == [d EXCEPT !.mm_boot = "bootreset"]

update_mm_domain_state(d, on, reset_d0) ==
  LET p == [d EXCEPT !.powered = on]
      m == IF on THEN p ELSE mm_misc_reset(p)
      e == IF reset_d0 THEN [m EXCEPT !.d0 = cold_reset(@)] ELSE m
  IN CASE ~on \/ d.d0_rst -> hold_d0(e, d0_reset_pc(e))
       [] on /\ ~d.d0_rst /\ ~d.d0_clk ->
            hold_d0(e, IF reset_d0 THEN d0_reset_pc(e) ELSE e.d0.pc)
       [] OTHER -> release_or_resume_d0(e)

clk_ctrl_cpu_notify(d, on) ==
  LET e == [d EXCEPT !.d0_clk = on]
  IN CASE ~d.powered \/ d.d0_rst \/ on = d.d0_clk -> e
       [] OTHER -> IF on THEN release_or_resume_d0(e) ELSE [e EXCEPT !.d0 = gate(@)]

d0_sw_sys_reset_notify(d, on) ==
  LET e == [d EXCEPT !.d0_rst = on]
  IN CASE ~d.d0_rst /\ on -> hold_d0([e EXCEPT !.d0 = cold_reset(@)], d0_reset_pc(d))
       [] d.d0_rst /\ ~on -> IF d.powered /\ d.d0_clk THEN release_or_resume_d0(e)
                             ELSE hold_d0(e, d0_reset_pc(d))
       [] OTHER           -> e

lp_swrst_cfg2_notify(d, on) ==
  LET e == [d EXCEPT !.lp_rst = on]
  IN CASE ~d.lp_rst /\ on -> hold_lp([e EXCEPT !.lp = cold_reset(@)], lp_reset_pc(d))
       [] d.lp_rst /\ ~on -> update_lp_state(e, FALSE)
       [] OTHER           -> e

pds_write_ctl2(d, on) == IF on # d.powered THEN update_mm_domain_state(d, on, TRUE) ELSE d

pds_write_core_cfg0(d, on) ==
  IF on # d.lp_clk THEN update_lp_state([d EXCEPT !.lp_clk = on], FALSE) ELSE d

pds_write_core_cfg13(d, boot) ==
  LET e == [d EXCEPT !.cfg13 = boot, !.lp.gated = "none"]
  IN IF d.lp_rst \/ ~d.lp_clk THEN hold_lp(e, lp_reset_pc(e)) ELSE e

mm_misc_write_boot(d, boot) == IF d.powered THEN [d EXCEPT !.mm_boot = boot] ELSE d

----------------------------------------------------------------------------
\* Only M0 and LP can start the power-down sleep.
pds_owner_cpu(d) == {"m0"} \cup (IF d.lp.run THEN {"lp"} ELSE {})

pds_schedule_sleep(d, cpu) == [d EXCEPT !.sleeper = cpu]

\* The core that went to sleep is set running, whatever became of it since.
pds_complete_sleep(d) ==
  LET e == [d EXCEPT !.sleeper = "none"]
  IN IF d.sleeper # "lp" THEN e
     ELSE [e EXCEPT !.lp = [set_cpu_running(@, @.pc) EXCEPT !.woken = d.lp_rst \/ ~d.lp_clk]]

\* The software resets have returned to 0 by the time the machine is reset.
machine_reset(d, power_on_mm, header) ==
  LET lp_boot == CASE header = "header" -> "headerlp"
                   [] OTHER             -> IF d.strict THEN "0" ELSE "lpxip"
      mm_boot == CASE d.d0_entry # "none" -> d.d0_entry
                   [] d.d0_entry = "none" /\ header = "header" -> "headerd0"
                   [] OTHER                 -> IF d.strict THEN "bootreset" ELSE "xip"
      e == [d EXCEPT !.d0_rst = FALSE, !.lp_rst = FALSE, !.d0_clk = FALSE, !.lp_clk = FALSE,
                     !.cfg13 = lp_boot, !.mm_boot = mm_boot, !.sleeper = "none"]
  IN update_lp_state(update_mm_domain_state(e, power_on_mm, TRUE), TRUE)

Core == [run |-> FALSE, pc |-> "vector", fresh |-> TRUE, woken |-> FALSE, gated |-> "none"]

\* d0_entry is the entry of -d0-firmware; strict does not assume images in flash.
PoweredUp(entry, strict) ==
  [d0_entry |-> entry, strict |-> strict, powered |-> FALSE, mm_boot |-> "bootreset",
   d0_clk |-> FALSE, d0_rst |-> FALSE, lp_clk |-> FALSE, lp_rst |-> FALSE, cfg13 |-> "0",
   d0 |-> Core, lp |-> Core, sleeper |-> "none"]

Init == /\ \E on, strict \in BOOLEAN, header \in Headers, entry \in {"none", "entry"} :
              s = machine_reset(PoweredUp(entry, strict), on, header)
        /\ ops = 0

\* What changes nothing does not count.
Step(d) == ops < MaxOps /\ ops' = ops + 1 /\ s' = d /\ s' # s

WritePower == \E on \in BOOLEAN : Step(pds_write_ctl2(s, on))
WriteD0Clock == \E on \in BOOLEAN : Step(clk_ctrl_cpu_notify(s, on))
WriteD0Reset == \E on \in BOOLEAN : Step(d0_sw_sys_reset_notify(s, on))
WriteD0Boot == \E boot \in Boots : Step(mm_misc_write_boot(s, boot))
WriteLpClock == \E on \in BOOLEAN : Step(pds_write_core_cfg0(s, on))
WriteLpReset == \E on \in BOOLEAN : Step(lp_swrst_cfg2_notify(s, on))
WriteLpBoot == \E boot \in Boots \cup {"0"} : Step(pds_write_core_cfg13(s, boot))
StartSleep == \E cpu \in pds_owner_cpu(s) : Step(pds_schedule_sleep(s, cpu))
Wake == s.sleeper # "none" /\ UNCHANGED ops /\ s' = pds_complete_sleep(s)
MachineReset == \E on \in BOOLEAN, header \in Headers : Step(machine_reset(s, on, header))

\* A running core executes; the firmware may jump to 0.
Execute == /\ UNCHANGED ops
           /\ \E c \in {"d0", "lp"}, pc \in {"code", "0"} : s[c].run /\ s' = [s EXCEPT ![c].pc = pc]

Next == \/ WritePower \/ WriteD0Clock \/ WriteD0Reset \/ WriteD0Boot
        \/ WriteLpClock \/ WriteLpReset \/ WriteLpBoot
        \/ StartSleep \/ Wake \/ MachineReset \/ Execute

Spec == Init /\ [][Next]_vars

----------------------------------------------------------------------------
\* A core runs exactly when it is powered, clocked and out of reset, by
\* whatever path the three came about; only a wake-up from the power-down
\* sleep can set an LP core running that was held meanwhile.
CoresRunWhenReleased ==
  /\ s.d0.run <=> (s.powered /\ s.d0_clk /\ ~s.d0_rst)
  /\ (s.lp.run /\ ~s.lp.woken) <=> (s.lp_clk /\ ~s.lp_rst)

\* An LP core that has not run since its reset waits at the boot address its
\* register holds now, however the register and the reset were ordered.
LpParkedAtBoot == s.lp.fresh => ~s.lp.run /\ s.lp.pc = lp_reset_pc(s)

\* A core stopped by its clock waits where it stopped, until it is reset, its
\* power goes, or (LP) its boot address is written.
GatedCoresKeepPlace ==
  \A c \in {"d0", "lp"} : s[c].gated # "none" => ~s[c].run /\ s[c].pc = s[c].gated
===============================================================================
