------------------------------ MODULE BL808Dma2d ------------------------------
(***************************************************************************)
(* The two-dimensional DMA (hw/dma/bl808_dma2d.c): a bottom half runs      *)
(* every enabled channel to its end, a linear or a rectangular copy with a *)
(* colour key, and disables it.  Memory is a small array of bytes.         *)
(***************************************************************************)
EXTENDS Integers, FiniteSets

CONSTANTS Channels,     \* channel numbers, run in increasing order
          Memory,       \* the bytes the copies start from, a function on 0 .. n
          Jobs,         \* register settings of a channel, see idle below
          MaxOps        \* bound on accesses and clock changes

VARIABLES s,            \* BL808DMA2DState, its lines, bottom half and memory
          ops           \* accesses so far

vars == <<s, ops>>

\* A channel's registers: addresses, bytes per element, increments, counts,
\* strides, the colour key and the bytes it is compared on, the interrupt.
idle == [src |-> 0, dst |-> 0, sw |-> 1, dw |-> 1, si |-> FALSE, di |-> FALSE, n |-> 0,
         two_d |-> FALSE, xc |-> 0, yc |-> 0, sx |-> 0, sy |-> 0, dx |-> 0, dy |-> 0,
         key_en |-> FALSE, key |-> 0, strobe |-> {}, int |-> FALSE]

----------------------------------------------------------------------------
active(d) == d.clock_enabled /\ ~d.reset_asserted

\* The value of an element: its bytes, zero beyond its width.
Bytes == 0 .. 1
read_mem(mem, addr, w) == [b \in Bytes |-> IF b < w THEN mem[addr + b] ELSE 0]

write_mem(mem, addr, value, w) ==
  [a \in DOMAIN mem |-> IF a - addr \in Bytes /\ a - addr < w THEN value[a - addr] ELSE mem[a]]

enabled_channels(d) == {i \in Channels : d.ch_en[i]}

update_irq(d) ==
  [d EXCEPT !.irq = IF active(d) THEN d.int_status ELSE {}]

\* With no byte to compare every element matches the key.
color_key_skip(c, value) ==
  c.key_en /\ \A b \in c.strobe : value[b] = IF b = 0 THEN c.key ELSE 0

complete_channel(d, i) ==
  [d EXCEPT !.ch_en[i] = FALSE,
            !.int_status = IF d.ch[i].int THEN @ \cup {i} ELSE @]

\* One element from p.src to p.dst.
element(c, p, w) ==
  LET value == read_mem(p.mem, p.src, c.sw)
  IN IF color_key_skip(c, value) THEN p.mem ELSE write_mem(p.mem, p.dst, value, w)

run_linear(d, i) ==
  LET c == d.ch[i]
      run[k \in 0 .. c.n] ==
        IF k = 0 THEN [mem |-> d.mem, src |-> c.src, dst |-> c.dst]
        ELSE LET p == run[k - 1]
             IN [mem |-> element(c, p, c.dw),
                 src |-> p.src + (IF c.si THEN c.sw ELSE 0),
                 dst |-> p.dst + (IF c.di THEN c.dw ELSE 0)]
      end == run[c.n]
  IN complete_channel([d EXCEPT !.mem = end.mem, !.ch[i].src = end.src,
                                !.ch[i].dst = end.dst], i)

\* The next row starts one stride after the last element of this one.
run_2d(d, i) ==
  LET c == d.ch[i]
      row(q) ==
        LET px[x \in 0 .. c.xc] ==
              IF x = 0 THEN q
              ELSE LET p == px[x - 1] IN [mem |-> element(c, p, c.sw),
                                          src |-> p.src + c.sx, dst |-> p.dst + c.dx]
        IN [px[c.xc] EXCEPT !.src = @ + c.sy, !.dst = @ + c.dy]
      rows[y \in 0 .. c.yc] ==
        IF y = 0 THEN [mem |-> d.mem, src |-> c.src, dst |-> c.dst] ELSE row(rows[y - 1])
      end == rows[c.yc]
  IN complete_channel([d EXCEPT !.mem = end.mem, !.ch[i].src = end.src,
                                !.ch[i].dst = end.dst], i)

run_channel(d, i) ==
  IF ~active(d) \/ ~d.enable \/ ~d.ch_en[i] THEN d
  ELSE IF d.ch[i].two_d THEN run_2d(d, i) ELSE run_linear(d, i)

schedule(d) ==
  IF active(d) /\ enabled_channels(d) # {} /\ d.enable THEN [d EXCEPT !.scheduled = TRUE]
                                                       ELSE d

run_bh(d) ==
  LET run[i \in 0 .. Cardinality(Channels)] ==
        IF i = 0 THEN [d EXCEPT !.scheduled = FALSE] ELSE run_channel(run[i - 1], i - 1)
  IN update_irq(run[Cardinality(Channels)])

----------------------------------------------------------------------------
(* Registers, clock and reset inputs.                                      *)

write_inttcclear(d, is) == update_irq([d EXCEPT !.int_status = @ \ is])

write_config(d, on) == schedule([d EXCEPT !.enable = on])

\* The channel's address, bus, count, stride and key registers, plain stores.
write_channel(d, i, c) == [d EXCEPT !.ch[i] = c]

write_c_cfg(d, i, on) == schedule([d EXCEPT !.ch_en[i] = on])

set_clock_enabled(d, on) ==
  LET e == [d EXCEPT !.clock_enabled = on]
  IN update_irq(IF on THEN schedule(e) ELSE [e EXCEPT !.scheduled = FALSE])

reset(d) ==
  update_irq([d EXCEPT !.ch = [i \in Channels |-> idle], !.ch_en = [i \in Channels |-> FALSE],
                       !.int_status = {}, !.enable = FALSE, !.scheduled = FALSE])

set_reset_asserted(d, on) ==
  LET e == [d EXCEPT !.reset_asserted = on]
  IN update_irq(IF on THEN reset(e) ELSE schedule(e))

Init ==
  /\ s = [clock_enabled |-> FALSE, reset_asserted |-> FALSE, enable |-> FALSE,
          ch |-> [i \in Channels |-> idle], ch_en |-> [i \in Channels |-> FALSE],
          int_status |-> {}, irq |-> {}, scheduled |-> FALSE, mem |-> Memory]
  /\ ops = 0

\* What changes nothing does not count.
Step(d) == ops < MaxOps /\ ops' = ops + 1 /\ s' = d /\ s' # s

Access(d) == ~s.reset_asserted /\ Step(d)

ClearInt == \E is \in SUBSET Channels : Access(write_inttcclear(s, is))
SetConfig == \E on \in BOOLEAN : Access(write_config(s, on))
SetChannel == \E i \in Channels, c \in Jobs : ~s.ch_en[i] /\ Access(write_channel(s, i, c))
StartChannel == \E i \in Channels, on \in BOOLEAN : Access(write_c_cfg(s, i, on))
SetClock == \E on \in BOOLEAN : Step(set_clock_enabled(s, on))
SetReset == \E on \in BOOLEAN : Step(set_reset_asserted(s, on))

RunBh == s.scheduled /\ s' = run_bh(s) /\ UNCHANGED ops

Next == ClearInt \/ SetConfig \/ SetChannel \/ StartChannel \/ SetClock \/ SetReset \/ RunBh

Spec == Init /\ [][Next]_vars

----------------------------------------------------------------------------
\* An enabled channel of an enabled, clocked engine is about to run: whatever
\* the order in which clock, engine and channels are turned on, the bottom
\* half is scheduled; and it is never scheduled for a stopped engine.
BlitScheduled ==
  /\ active(s) /\ s.enable /\ enabled_channels(s) # {} => s.scheduled
  /\ s.scheduled => active(s)

\* Where an element of a copy comes from and goes to, in closed form.
Elements(c) == IF c.two_d THEN (0 .. c.xc - 1) \X (0 .. c.yc - 1) ELSE (0 .. c.n - 1) \X {0}
From(c, e) == IF c.two_d THEN c.src + e[2] * (c.xc * c.sx + c.sy) + e[1] * c.sx
                         ELSE c.src + (IF c.si THEN e[1] * c.sw ELSE 0)
To(c, e) == IF c.two_d THEN c.dst + e[2] * (c.xc * c.dx + c.dy) + e[1] * c.dx
                       ELSE c.dst + (IF c.di THEN e[1] * c.dw ELSE 0)
OutWidth(c) == IF c.two_d THEN c.sw ELSE c.dw

\* No element is written over one that is still to be read or another written.
Separate(c) ==
  \A e, f \in Elements(c) :
    /\ \A b \in 0 .. c.sw - 1, k \in 0 .. OutWidth(c) - 1 : From(c, e) + b # To(c, f) + k
    /\ e # f => \A b, k \in 0 .. OutWidth(c) - 1 : To(c, e) + b # To(c, f) + k

Copied(c, mem) ==
  [a \in DOMAIN mem |->
    LET here == {e \in Elements(c) : /\ a - To(c, e) \in 0 .. OutWidth(c) - 1
                                     /\ ~color_key_skip(c, read_mem(mem, From(c, e), c.sw))}
    IN IF here = {} THEN mem[a]
       ELSE LET e == CHOOSE e \in here : TRUE
            IN read_mem(mem, From(c, e), c.sw)[a - To(c, e)]]

\* A run of one channel copies exactly the elements its registers describe:
\* the rectangle at its source, row by row with both strides, to the one at
\* its destination, less the elements of the key colour, and no other byte.
\* (Only the bottom half leaves ops unchanged.)
BlitExactStep ==
  \A i \in Channels :
    ops' = ops /\ s.enable /\ enabled_channels(s) = {i} /\ Separate(s.ch[i])
      => s'.mem = Copied(s.ch[i], s.mem)

BlitExact == [][BlitExactStep]_vars
===============================================================================
