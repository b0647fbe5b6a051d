------------------------------ MODULE BL808Boot ------------------------------
(***************************************************************************)
(* What the machine boots at a reset (hw/riscv/bl808.c): the boot ROM and  *)
(* the flash window of M0, chosen from boot2's header, the newer of two    *)
(* copies of the partition table and the two slots of its firmware entry;  *)
(* a damaged active slot makes it boot the other one and write that choice *)
(* into the other copy of the table.                                       *)
(*                                                                         *)
(* A header is [ok, run, mm]: it passes its checks, the cores it starts    *)
(* and whether it powers the multimedia domain.  A table is [ok, age,      *)
(* entries], an entry [fw, active, at]: at[k] is the address of the header *)
(* of slot k.  Address 0 is boot2.  <<"image", h, c>> is the image of core *)
(* c of header h.                                                          *)
(*                                                                         *)
(* The firmware's updater is not part of the code: it fills the slot that  *)
(* is not running, then writes the copy of the table that is not in use,   *)
(* and the power may fail after each of its steps.                         *)
(***************************************************************************)
EXTENDS Integers, Sequences

CONSTANTS Confs,        \* the options of the machine
          Headers,      \* what an update writes into a slot
          AgeWrap,      \* 2^32 in the code
          MaxDamage,    \* headers that go bad by themselves
          MaxOps

VARIABLES s, ops

None == -1
Boot2 == 0
Bad == [ok |-> FALSE, run |-> {}, mm |-> FALSE]
M0 == 0
D0 == 1
LP == 2

Normal(d) == ~ (d.conf.strict \/ d.conf.gpio39 \/ d.conf.m0elf)

----------------------------------------------------------------------------
(***************************************************************************)
(* The choice                                                              *)
(***************************************************************************)
\* bl808_bootheader_read: magic numbers and checksum.
bootheader_read(hdr, h) == hdr[h].ok

partition_table_valid(t) == t.ok

partition_entry_bootheader(hdr, e, k) ==
  /\ e.at[k] # Boot2
  /\ bootheader_read(hdr, e.at[k])
  /\ M0 \in hdr[e.at[k]].run

\* The newer valid copy; the second one if they are equally old.
selected_copy(tab) ==
  LET valid(c) == partition_table_valid(tab[c])
  IN IF valid(1) /\ (valid(0) => tab[1].age >= tab[0].age) THEN 1
     ELSE IF valid(0) THEN 0 ELSE None

\* Mutant: the age of the new copy is that of the old one.
sameAge(tab, c, i, k) == [tab EXCEPT ![1 - c] = [tab[c] EXCEPT !.entries[i].active = k]]

\* bl808_partition_table_writeback: copy c with another active slot of entry i
\* goes over the other copy.
partition_table_writeback(tab, c, i, k) ==
  [tab EXCEPT ![1 - c] = [tab[c] EXCEPT !.entries[i].active = k,
                                        !.age = (@ + 1) % AgeWrap]]

\* The entries the search stops at: firmware with a slot that starts M0.
usable(hdr, e) ==
  /\ e.fw /\ e.active \in {0, 1}
  /\ \E k \in {0, 1} : partition_entry_bootheader(hdr, e, k)

First(S) == CHOOSE i \in S : \A j \in S : i <= j

\* bl808_select_partition_header: the active slot of the entry if it starts M0,
\* else the other one.
Unselected == [valid |-> FALSE, fell |-> FALSE, hdr |-> None, copy |-> None, i |-> 0, k |-> 0]

Selected(hdr, es, c, i) ==
  LET fell == ~ partition_entry_bootheader(hdr, es[i], es[i].active)
      k == IF fell THEN 1 - es[i].active ELSE es[i].active
  IN [valid |-> TRUE, fell |-> fell, hdr |-> es[i].at[k], copy |-> c, i |-> i, k |-> k]

select_partition_header(hdr, tab) ==
  LET c == selected_copy(tab)
      us == {i \in DOMAIN tab[c].entries : usable(hdr, tab[c].entries[i])}
  IN IF c = None THEN Unselected
     ELSE IF us = {} THEN Unselected
     ELSE Selected(hdr, tab[c].entries, c, First(us))

\* bl808_primary_flash_bootheader: the header M0 is started from, boot2's own
\* if no slot can be.
primary_flash_bootheader(d) ==
  LET sel == select_partition_header(d.hdr, d.tab)
  IN IF ~ Normal(d) \/ ~ bootheader_read(d.hdr, Boot2) THEN None
     ELSE IF sel.valid THEN sel.hdr
     ELSE IF M0 \in d.hdr[Boot2].run THEN Boot2 ELSE None

----------------------------------------------------------------------------
(***************************************************************************)
(* The reset                                                               *)
(***************************************************************************)
populate_bootrom(d) ==
  LET h == primary_flash_bootheader(d)
  IN [d EXCEPT !.rom = IF d.conf.image THEN <<"external">>
                       ELSE IF d.conf.m0elf THEN <<"zero">>
                       ELSE IF d.conf.gpio39 THEN <<"download">>
                       ELSE IF h = None THEN <<"base">>
                       ELSE <<"image", h, M0>>]

\* The partition handed to boot2's successor: cleared, then the copy that was
\* selected and the slot that is booted.
boot2_pass_params(d, sel) ==
  [d EXCEPT !.params = IF sel.valid THEN <<sel.copy, sel.k>> ELSE <<>>]

reset_header(d, sel) == IF sel.valid THEN sel.hdr ELSE primary_flash_bootheader(d)

\* Where the other two cores start and what D0's window shows.
starts(d, h, c) == h # None /\ c \in d.hdr[h].run

synthetic(d) == ~ d.conf.strict /\ ~ d.conf.gpio39

lp_boot(d, h) ==
  IF d.conf.lpelf THEN <<"elf">>
  ELSE IF starts(d, h, LP) THEN <<"image", h, LP>>
  ELSE IF ~ d.conf.strict THEN <<"base">> ELSE <<"register">>

d0_boot(d, h) ==
  IF d.conf.d0elf THEN <<"elf">>
  ELSE IF starts(d, h, D0) THEN <<"image", h, D0>>
  ELSE IF synthetic(d) THEN <<"base">> ELSE <<"register">>

d0_window(d, h) ==
  IF starts(d, h, D0) THEN <<"group", h>>
  ELSE IF synthetic(d) THEN <<"d0 slot">> ELSE <<"start">>

reset_cores(d, h) ==
  [d EXCEPT !.lp = lp_boot(d, h), !.d0 = d0_boot(d, h), !.xip[D0] = d0_window(d, h),
            !.pc = IF d.conf.m0elf THEN <<"elf">> ELSE <<"rom">>]

\* What a reset finds in the flash.
partition(d) ==
  IF Normal(d) /\ bootheader_read(d.hdr, Boot2) THEN select_partition_header(d.hdr, d.tab)
  ELSE Unselected

\* bl808_machine_reset, as far as the choice of what runs goes.
machine_reset(d) ==
  LET sel == partition(d)
      h == reset_header(d, sel)
      tab == IF sel.fell THEN partition_table_writeback(d.tab, sel.copy, sel.i, sel.k)
             ELSE d.tab
      shown == [boot2_pass_params(populate_bootrom(d), sel) EXCEPT
                 !.tab = tab, !.mm = h # None /\ d.hdr[h].mm,
                 !.xip[M0] = IF h = None THEN <<"start">> ELSE <<"group", h>>]
  IN [reset_cores(shown, h) EXCEPT !.booted = h, !.fell = sel.fell,
                                   !.same = TRUE, !.stage = "idle"]

----------------------------------------------------------------------------
(***************************************************************************)
(* What happens to the flash between two resets                            *)
(***************************************************************************)
\* The firmware entry of the copy in use, and the slot that is not running.
InUse(d) == selected_copy(d.tab)
FwEntry(d) == CHOOSE i \in DOMAIN d.tab[InUse(d)].entries : d.tab[InUse(d)].entries[i].fw
Spare(d) ==
  LET e == d.tab[InUse(d)].entries[FwEntry(d)]
  IN IF e.at[0] = d.booted THEN 1 ELSE 0
SpareHeader(d) == d.tab[InUse(d)].entries[FwEntry(d)].at[Spare(d)]

NewTable(d) ==
  [d.tab[InUse(d)] EXCEPT !.age = (@ + 1) % AgeWrap, !.entries[FwEntry(d)].active = Spare(d)]

\* A copy that was cut short: its first words are new, its entries blank.
Torn(t) == [t EXCEPT !.ok = FALSE, !.entries = [i \in DOMAIN t.entries |->
                                                  [t.entries[i] EXCEPT !.active = 255]]]

Step(d) == ops < MaxOps /\ ops' = ops + 1 /\ s' = d

Running == s.booted \notin {None, Boot2} /\ InUse(s) # None

EraseSlot ==
  /\ Running /\ s.stage = "idle"
  /\ Step([s EXCEPT !.stage = "erased", !.same = FALSE, !.hdr[SpareHeader(s)] = Bad])

WriteSlot ==
  /\ s.stage = "erased"
  /\ \E h \in Headers :
       Step([s EXCEPT !.stage = "written", !.same = FALSE, !.hdr[SpareHeader(s)] = h])

BeginTable ==
  /\ s.stage = "written"
  /\ Step([s EXCEPT !.stage = "table", !.same = FALSE, !.next = NewTable(s),
                    !.tab[1 - InUse(s)] = Torn(NewTable(s))])

EndTable ==
  /\ s.stage = "table"
  /\ Step([s EXCEPT !.stage = "idle", !.same = FALSE, !.tab[1 - InUse(s)] = s.next])

\* A header of a slot goes bad by itself.
Damage ==
  /\ s.damage < MaxDamage
  /\ \E h \in DOMAIN s.hdr \ {Boot2} :
       s.hdr[h].ok /\ Step([s EXCEPT !.hdr[h] = Bad, !.damage = @ + 1, !.same = FALSE])

Reset == Step(machine_reset(s))

Fw(active) == [fw |-> TRUE, active |-> active, at |-> [k \in {0, 1} |-> k + 1]]
Media == [fw |-> FALSE, active |-> 0, at |-> [k \in {0, 1} |-> k + 1]]
Table(ok, age, active) == [ok |-> ok, age |-> age, entries |-> <<Media, Fw(active)>>]

\* A flash as the tools write it: boot2's header, those of the two slots and the
\* two copies of the table.
Flash(boot2, one, two, older, newer) ==
  [hdr |-> [h \in 0 .. 2 |-> IF h = Boot2 THEN boot2 ELSE IF h = 1 THEN one ELSE two],
   tab |-> [c \in {0, 1} |-> IF c = 0 THEN older ELSE newer]]

\* A strict machine has a boot ROM image, or it does not come up at all.
Blank(f, conf) ==
  [conf |-> conf, hdr |-> f.hdr, tab |-> f.tab, rom |-> <<"zero">>, params |-> <<>>,
   xip |-> [c \in {M0, D0} |-> <<"start">>], mm |-> FALSE,
   lp |-> <<"base">>, d0 |-> <<"base">>, pc |-> <<"rom">>,
   stage |-> "idle", next |-> f.tab[0], damage |-> 0,
   booted |-> None, fell |-> FALSE, same |-> TRUE]

\* boot2 starts M0 or leaves that to the slots; the active slot is filled.
Init ==
  /\ \E conf \in {c \in Confs : c.strict => c.image}, run \in {{}, {M0}},
        one \in Headers, two \in Headers \cup {Bad}, t, u \in BOOLEAN, age \in {0, 1} :
       s = machine_reset(Blank(Flash([ok |-> TRUE, run |-> run, mm |-> FALSE], one, two,
                                     Table(t, 1, 0), Table(u, age, 0)), conf))
  /\ ops = 0

Next == EraseSlot \/ WriteSlot \/ BeginTable \/ EndTable \/ Damage \/ Reset

Spec == Init /\ [][Next]_<<s, ops>>

----------------------------------------------------------------------------
\* The synthetic boot ROM is filled before the table is written back and the
\* flash window placed after it, from two searches: both find the same header,
\* so the jump lands in the image the window shows.
RomAgrees ==
  Normal(s) /\ ~ s.conf.image =>
    /\ s.rom = <<"base">> => s.xip[M0] = <<"start">>
    /\ s.rom # <<"base">> => s.xip[M0] = <<"group", s.rom[2]>>

\* However often an update is cut short, a reset starts one of the two slots and
\* a slot whose header is whole, as long as no header goes bad by itself.
UpdateSafeStep ==
  LET tables == {c \in {0, 1} : s.tab[c].ok}
      whole == {h \in {1, 2} : s.hdr[h].ok /\ M0 \in s.hdr[h].run}
  IN /\ s.stage # "idle" /\ s.damage = 0 => tables # {} /\ whole # {}
     /\ s'.stage = "idle" /\ s'.same /\ Normal(s) /\ tables # {} /\ whole # {}
          => s'.booted \in whole

\* A slot that was fallen back to stays chosen: without a change of the flash the
\* next reset starts the same slot and has nothing to repair.
FallbackSticksStep ==
  s.same /\ s'.same => s'.booted = s.booted /\ ~ s'.fell /\ s'.tab = s.tab
=============================================================================
