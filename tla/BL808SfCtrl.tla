----------------------------- MODULE BL808SfCtrl -----------------------------
(***************************************************************************)
(* The serial flash controller and the flash behind it                     *)
(* (hw/block/bl808_sf_ctrl.c): commands over a shared buffer, the write    *)
(* enable latch, volatile and non-volatile status registers, security      *)
(* registers with one-time locks, the windows in which cores execute, and  *)
(* the drive the contents are written back to.  A byte is the set of its   *)
(* bits among 0, 1 and 3: in status register 1 they are BUSY, WEL and BP1, *)
(* in status register 2 SRL, QE and LB1.                                   *)
(***************************************************************************)
EXTENDS Integers, Sequences, FiniteSets

CONSTANTS FlashSize, PageSize, Aperture,
          AddrSpace,    \* addresses and their sums are taken modulo this (2^32)
          EraseSizes,   \* of a sector and of the blocks
          Addrs,        \* addresses a command may carry
          Offsets,      \* image offsets
          ResetOffset,  \* reset_xip_offset, set by the boot code
          Bytes,        \* what the guest puts into the buffer
          MaxOps        \* bound on accesses

VARIABLES s,            \* BL808SfCtrlState, the drive, and what the properties
                        \* refer to: drift, lost
          ops           \* accesses so far

vars == <<s, ops>>

FF == {0, 1, 3}
WEL == 1
QE == 1
SRL == 0
LB == 3
BP == 3

Min2(a, b) == IF a < b THEN a ELSE b
uint32(x) == x % AddrSpace
Cells == 0 .. FlashSize - 1

----------------------------------------------------------------------------
(* The windows and the drive.                                              *)

\* What a window shows of the flash.
window(flash, off) ==
  [i \in 0 .. Aperture - 1 |-> IF off + i < FlashSize THEN flash[off + i] ELSE FF]

refresh_xip_view(d) == [d EXCEPT !.view = window(d.flash, d.off), !.drift = FALSE]

\* Only the part of the window that the range covers.
sync_xip_range(d, offset, n) ==
  LET start == IF offset > d.off THEN offset - d.off ELSE 0
      past == uint32(offset + n)
      end == Min2(past - d.off, Aperture)
  IN IF past <= d.off \/ start >= Aperture \/ end <= start THEN d
     ELSE [d EXCEPT !.view = [i \in DOMAIN @ |->
                                IF i \in start .. end - 1 THEN d.flash[d.off + i] ELSE @[i]]]

\* The write to the drive may fail, which is only logged.
blk_write(d, offset, n, ok) ==
  LET range == offset .. offset + n - 1
  IN IF ~ok THEN [d EXCEPT !.lost = @ \cup range]
     ELSE [d EXCEPT !.blk = [a \in DOMAIN @ |-> IF a \in range THEN d.flash[a] ELSE @[a]],
                    !.lost = @ \ range]

sync_xip(d, offset, n) == sync_xip_range(d, offset, n)

set_flash_image_offset(d, off) == refresh_xip_view([d EXCEPT !.off = off])

write_flash(d, offset, data, ok) ==
  LET n == Min2(Len(data), FlashSize - offset)
      e == [d EXCEPT !.flash = [a \in Cells |-> IF a \in offset .. offset + n - 1
                                                  THEN data[a - offset + 1] ELSE @[a]]]
  IN IF offset >= FlashSize THEN d ELSE blk_write(sync_xip(e, offset, n), offset, n, ok)

----------------------------------------------------------------------------
(* The flash chip.                                                         *)

store_data(d, bytes) ==
  [d EXCEPT !.buf = [i \in DOMAIN @ |-> IF i <= Len(bytes) THEN bytes[i] ELSE FF]]

read_buffer(d, addr, len) ==
  LET n == IF len = 0 THEN Len(d.buf) ELSE Min2(len, Len(d.buf))
  IN [d EXCEPT !.buf = [i \in DOMAIN @ |-> IF i <= n /\ addr + i - 1 < FlashSize
                                            THEN d.flash[addr + i - 1] ELSE FF]]

\* Mutant: an erase leaves the latch up.
eraseKeepsEnable(d, base, n, ok) ==
  LET e == [d EXCEPT !.flash = [a \in Cells |-> IF a \in base .. base + n - 1 THEN FF ELSE @[a]]]
  IN blk_write(sync_xip(e, base, n), base, n, ok)

erase_range(d, base, n, ok) ==
  LET e == [d EXCEPT !.flash = [a \in Cells |-> IF a \in base .. base + n - 1 THEN FF ELSE @[a]]]
  IN [blk_write(sync_xip(e, base, n), base, n, ok) EXCEPT !.sr1 = @ \ {WEL}]

\* A sector or block that does not fit only takes the enable away.  One that
\* ends with the address space passes the test, as its end wraps to 0: the code
\* then writes past the memory that holds the flash, which is undefined and here
\* leaves the flash as it is.
erase(d, addr, n, ok) ==
  LET base == addr - (addr % n)
  IN IF WEL \notin d.sr1 THEN d
     ELSE IF uint32(base + n) <= FlashSize THEN erase_range(d, base, n, ok)
     ELSE [d EXCEPT !.sr1 = @ \ {WEL}]

\* Programming clears bits, and wraps within the page.
programmed(cells, base, offset, data) ==
  [a \in DOMAIN cells |->
     LET i == ((a - base - offset) % PageSize) + 1
     IN IF a \in base .. base + PageSize - 1 /\ i <= Len(data)
          THEN cells[a] \cap data[i] ELSE cells[a]]

\* Mutant: the write-back covers the bytes from the address on.
programPart(d, addr, len, ok) ==
  LET n == Min2(IF len = 0 THEN Len(d.buf) ELSE len, PageSize)
      base == addr - (addr % PageSize)
      e == [d EXCEPT !.flash = programmed(@, base, addr % PageSize, SubSeq(d.buf, 1, n))]
  IN [IF addr >= FlashSize \/ WEL \notin d.sr1 THEN d
      ELSE blk_write(sync_xip(e, base, PageSize), addr, base + PageSize - addr, ok)
        EXCEPT !.sr1 = @ \ {WEL}]

page_program(d, addr, len, ok) ==
  LET n == Min2(IF len = 0 THEN Len(d.buf) ELSE len, PageSize)
      base == addr - (addr % PageSize)
      e == [d EXCEPT !.flash = programmed(@, base, addr % PageSize, SubSeq(d.buf, 1, n))]
  IN [IF addr >= FlashSize \/ WEL \notin d.sr1 THEN d
      ELSE blk_write(sync_xip(e, base, PageSize), base, PageSize, ok)
        EXCEPT !.sr1 = @ \ {WEL}]

sec_reg_locked(d) == LB \in d.sr2

sec_reg_erase(d) ==
  IF WEL \notin d.sr1 THEN d
  ELSE [d EXCEPT !.sec = IF sec_reg_locked(d) THEN @ ELSE FF, !.sr1 = @ \ {WEL}]

sec_reg_program(d) ==
  [d EXCEPT !.sec = IF WEL \notin d.sr1 \/ sec_reg_locked(d) THEN @ ELSE @ \cap d.buf[1],
            !.sr1 = @ \ {WEL}]

status_write_enabled(d) == SRL \notin d.sr2 /\ (WEL \in d.sr1 \/ d.volatile_wel)

\* The lock bits are only ever added, and QE is fixed.
apply_sr2_write(current, requested) ==
  (requested \cap {SRL}) \cup ((current \cup requested) \cap {LB}) \cup {QE}

\* A non-volatile write stores all status registers, and with them what
\* earlier volatile writes left in the others.
commit_status_write(d, volatile) ==
  LET e == [d EXCEPT !.sr1 = @ \ {WEL}, !.volatile_wel = FALSE]
  IN IF volatile THEN e ELSE [e EXCEPT !.sr1_nv = e.sr1 \cap {BP}, !.sr2_nv = e.sr2]

write_sr(d, len) ==
  LET e == [d EXCEPT !.sr1 = IF len > 0 THEN (@ \ {BP}) \cup (d.buf[1] \cap {BP}) ELSE @,
                     !.sr2 = IF len > 1 THEN apply_sr2_write(@, d.buf[2]) ELSE @]
  IN IF status_write_enabled(d) THEN commit_status_write(e, d.volatile_wel) ELSE d

write_sr2(d, len) ==
  LET e == [d EXCEPT !.sr2 = IF len > 0 THEN apply_sr2_write(@, d.buf[1]) ELSE @]
  IN IF status_write_enabled(d) THEN commit_status_write(e, d.volatile_wel) ELSE d

\* None of the bits that stand for a byte can be written in register 3.
write_sr3(d) == IF status_write_enabled(d) THEN commit_status_write(d, d.volatile_wel) ELSE d

restore_status_from_nv(d) == [d EXCEPT !.sr1 = d.sr1_nv, !.sr2 = d.sr2_nv \cup {QE}]

soft_reset(d) ==
  [restore_status_from_nv(d) EXCEPT !.volatile_wel = FALSE, !.powered_down = FALSE,
     !.reset_armed = FALSE, !.buf = [i \in DOMAIN @ |-> {}]]

\* The image offset returns to its default; the window is left as it is.
reset_register_defaults(d) ==
  [d EXCEPT !.off = ResetOffset, !.drift = @ \/ d.off # ResetOffset]

flash_power_on_reset(d) ==
  LET e == restore_status_from_nv([d EXCEPT !.sr1_nv = {}, !.sr2_nv = {QE}])
  IN [e EXCEPT !.volatile_wel = FALSE, !.powered_down = FALSE, !.reset_armed = FALSE]

reset(d) ==
  refresh_xip_view(soft_reset(flash_power_on_reset(reset_register_defaults(d))))

----------------------------------------------------------------------------
Read(cmd) == [ReadSR1 |-> <<s.sr1>>, ReadSR2 |-> <<s.sr2>>, ReadSR3 |-> <<{}>>,
              ReadId |-> <<FF, {}, {3}>>, ReadUid |-> <<{0}, {1}>>,
              ReadMfg |-> <<FF, {0, 1}>>][cmd]

\* What the chip does with a command that reaches it; disarmed is the state
\* with the reset no longer armed.
execute_cmd(d, cmd, addr, len, ok) ==
  LET disarmed == [d EXCEPT !.reset_armed = @ /\ cmd = "Reset"]
  IN IF d.powered_down /\ cmd # "RelPd" THEN d
     ELSE CASE cmd = "WriteEnable" ->
                 [disarmed EXCEPT !.sr1 = @ \cup {WEL}, !.volatile_wel = FALSE]
            [] cmd = "WriteEnableVolatile" -> [disarmed EXCEPT !.volatile_wel = TRUE]
            [] cmd = "WriteDisable" ->
                 [disarmed EXCEPT !.sr1 = @ \ {WEL}, !.volatile_wel = FALSE]
            [] cmd \in {"ReadSR1", "ReadSR2", "ReadSR3", "ReadId", "ReadUid", "ReadMfg"} ->
                 store_data(disarmed, Read(cmd))
            [] cmd = "WriteSR" -> write_sr(disarmed, len)
            [] cmd = "WriteSR2" -> write_sr2(disarmed, len)
            [] cmd = "WriteSR3" -> write_sr3(disarmed)
            [] cmd = "RelPd" -> [disarmed EXCEPT !.powered_down = FALSE]
            [] cmd = "Read" -> read_buffer(disarmed, addr, len)
            [] cmd = "SecRegRead" -> store_data(disarmed, <<d.sec, d.sec>>)
            [] cmd = "PageProgram" -> page_program(disarmed, addr, len, ok)
            [] cmd = "SecRegProgram" -> sec_reg_program(disarmed)
            [] cmd = "Erase" -> erase(disarmed, addr, CHOOSE n \in EraseSizes :
                                        \A m \in EraseSizes : n <= m, ok)
            [] cmd = "BlockErase" -> erase(disarmed, addr, CHOOSE n \in EraseSizes :
                                        \A m \in EraseSizes : m <= n, ok)
            [] cmd = "SecRegErase" -> sec_reg_erase(disarmed)
            [] cmd = "ChipErase" -> IF WEL \in d.sr1 THEN erase_range(disarmed, 0, FlashSize, ok)
                                                     ELSE disarmed
            [] cmd = "PowerDown" -> [disarmed EXCEPT !.powered_down = TRUE]
            [] cmd = "EnableReset" -> [disarmed EXCEPT !.reset_armed = TRUE]
            [] cmd = "Reset" -> IF d.reset_armed THEN reset_register_defaults(soft_reset(d)) ELSE d

Plain == {"WriteEnable", "WriteEnableVolatile", "WriteDisable", "ReadSR1", "ReadSR2", "ReadSR3",
          "ReadId", "ReadUid", "ReadMfg", "WriteSR3", "RelPd", "SecRegRead", "SecRegProgram",
          "SecRegErase", "PowerDown", "EnableReset", "Reset"}

Init ==
  LET erased == [a \in Cells |-> FF]
  IN /\ s = [flash |-> erased, blk |-> erased, off |-> ResetOffset,
             view |-> window(erased, ResetOffset), drift |-> FALSE, lost |-> {}, sec |-> FF,
             sr1 |-> {}, sr2 |-> {QE}, sr1_nv |-> {}, sr2_nv |-> {QE}, volatile_wel |-> FALSE,
             powered_down |-> FALSE, reset_armed |-> FALSE, buf |-> [i \in 1 .. PageSize |-> {}]]
     /\ ops = 0

Step(d) == ops < MaxOps /\ ops' = ops + 1 /\ s' = d

Command == \E cmd \in Plain : Step(execute_cmd(s, cmd, 0, 0, TRUE))
StatusCommand == \E cmd \in {"WriteSR", "WriteSR2"}, len \in 0 .. 2 :
                   Step(execute_cmd(s, cmd, 0, len, TRUE))
ReadCommand == \E addr \in Addrs, len \in {0, 1} : Step(execute_cmd(s, "Read", addr, len, TRUE))
ProgramCommand == \E addr \in Addrs, len \in {0, 1}, ok \in BOOLEAN :
                    Step(execute_cmd(s, "PageProgram", addr, len, ok))
EraseCommand == \E cmd \in {"Erase", "BlockErase", "ChipErase"}, addr \in Addrs, ok \in BOOLEAN :
                  Step(execute_cmd(s, cmd, addr, 0, ok))
FillBuffer == \E b \in Bytes : Step([s EXCEPT !.buf = b])
SetOffset == \E off \in Offsets : Step(set_flash_image_offset(s, off))
BootWrite == \E addr \in Addrs, ok \in BOOLEAN : Step(write_flash(s, addr, <<{}, {1}>>, ok))
Reset == Step(reset(s))

Next == \/ Command \/ StatusCommand \/ ReadCommand \/ ProgramCommand \/ EraseCommand
        \/ FillBuffer \/ SetOffset \/ BootWrite \/ Reset

Spec == Init /\ [][Next]_vars

----------------------------------------------------------------------------
\* A core that executes from the window sees the flash: whatever order
\* programs, erases, the boot code's writes and changes of the offset come in,
\* the window shows the flash from the image offset on.  (The exception is a
\* reset of the chip by command, which moves the offset and not the window.)
WindowMirrorsFlash == ~s.drift => s.view = window(s.flash, s.off)

\* After a restart of the emulator the drive gives back the flash as it was:
\* they differ only where the last write-back of a byte failed.
DriveMirrorsFlash == \A a \in Cells : s.blk[a] # s.flash[a] => a \in s.lost

\* The guest's commands change the flash only under the write enable latch,
\* and take it down, so that one enable is good for one change.
OneEnableOneChangeStep ==
  s'.flash # s.flash /\ (ProgramCommand \/ EraseCommand)
    => WEL \in s.sr1 /\ WEL \notin s'.sr1

\* A security register whose lock was made permanent never changes again, and
\* neither does its lock, until the chip is powered on anew: no order of
\* volatile and non-volatile status writes, erases and resets opens it.
LockIsPermanentStep ==
  LB \in s.sr2_nv /\ s' # reset(s) => s'.sec = s.sec /\ LB \in s'.sr2_nv \cap s'.sr2
===============================================================================
