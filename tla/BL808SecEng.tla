----------------------------- MODULE BL808SecEng -----------------------------
(***************************************************************************)
(* The security engine (hw/misc/bl808_sec_eng.c): its six units, who owns  *)
(* them, their interrupts, the hash unit with its sessions, and what the   *)
(* cipher unit does to memory.  A session is the register interface (0) or *)
(* a descriptor in memory.  A digest is the algorithm with the bytes it    *)
(* covers; a CRC is computed, on registers that are sets of bit positions, *)
(* so that xor is symmetric difference.  A block of the cipher is a set of *)
(* atoms; encryption with a key adds an atom that only decryption with the *)
(* same key takes off.  Counters and unit numbers are digits, incremented  *)
(* with a carry as the code increments bytes.                              *)
(***************************************************************************)
EXTENDS Integers, Sequences, FiniteSets

CONSTANTS Width,        \* width of a CRC
          ByteWidth,    \* bits of a byte
          Links,        \* descriptors, numbers from 1 on
          Params,       \* of each session: poly, iv, din_ref, dout_ref, dout_inv;
                        \* a descriptor holds its own, the registers are fixed
          Messages,     \* what one run adds to a message: sequences of bytes
          Algs,         \* digest algorithms; "none" stands for the failing modes
          Blocks,       \* memory of the cipher, in blocks
          Base, Digits, \* of a counter
          Jobs,         \* register or descriptor contents: link, hw_key,
                        \* sboot, mode, key_mode, dec, iv, unit, single,
                        \* keysel0, keysel1, src, dst, n
          MaxOps        \* bound on accesses

VARIABLES s,            \* BL808SecEngState, its lines, the results in memory,
                        \* and per session what it has hashed (msg), with
                        \* what, from which initial value, and whether
                        \* nobody came in between; the memory, the last job
                        \* of the cipher (ran), and whether the ownership
                        \* word was written past its units (direct)
          ops           \* accesses so far

vars == <<s, ops>>

Units == {"sha", "aes", "trng", "pka", "cdet", "gmac"}
Ids == {"id0", "id1"}
Sessions == {0} \cup Links
Bits == 0 .. Width - 1

Xor(a, b) == (a \ b) \cup (b \ a)

----------------------------------------------------------------------------
(* Ownership and interrupts.                                               *)

update_ctrl_prot(d) == [d EXCEPT !.prot_rd = d.prot]

owner_pair(d, u) == d.prot_rd[u]

update_irq(d) ==
  LET raised(us) == UNION {owner_pair(d, u) : u \in {v \in us : d.int[v] /\ ~d.mask[v]}}
  IN [d EXCEPT !.shared = raised(Units \ {"cdet"}), !.cdet = raised({"cdet"})]

set_owner(d, u, ids) ==
  update_irq(update_ctrl_prot([d EXCEPT !.prot[u] = ids, !.direct = FALSE]))

\* The word that collects the owners takes a write like any other register,
\* and nothing is brought up to date.
write_owners(d, u, ids) == [d EXCEPT !.prot_rd[u] = ids, !.direct = TRUE]

----------------------------------------------------------------------------
(* CRC.  Registers are in the reflected form when the input is.            *)

reflect_bits(v) == {Width - 1 - b : b \in v}

shift(v, n) == {b + n : b \in v} \cap Bits

crc_update(data, poly, crc, din_ref) ==
  LET poly_ref == reflect_bits(poly)
      Bit(c) == IF din_ref
                  THEN IF 0 \in c THEN Xor(shift(c, -1), poly_ref) ELSE shift(c, -1)
                  ELSE IF Width - 1 \in c THEN Xor(shift(c, 1), poly) ELSE shift(c, 1)
      Byte(c, b) ==
        LET f[k \in 0 .. ByteWidth] ==
              IF k = 0 THEN Xor(c, IF din_ref THEN b ELSE shift(b, Width - ByteWidth))
              ELSE Bit(f[k - 1])
        IN f[ByteWidth]
      pass[i \in 0 .. Len(data)] == IF i = 0 THEN crc ELSE Byte(pass[i - 1], data[i])
  IN pass[Len(data)]

crc_finalize(crc, p) ==
  LET r == IF p.dout_ref # p.din_ref THEN reflect_bits(crc) ELSE crc
  IN IF p.dout_inv THEN Bits \ r ELSE r

\* Mutant: the stored value is only inverted back.
restoreInvertOnly(crc, p) == IF p.dout_inv THEN Bits \ crc ELSE crc

crc_restore_state(crc, p) ==
  LET r == IF p.dout_inv THEN Bits \ crc ELSE crc
  IN IF p.dout_ref # p.din_ref THEN reflect_bits(r) ELSE r

crc_of(p, iv, sel, stored, data) ==
  LET from == IF sel THEN crc_restore_state(stored, p) ELSE iv
  IN crc_finalize(crc_update(data, p.poly, from, p.din_ref), p)

Blank == [alg |-> "none", bytes |-> <<>>, crc |-> {}]

CrcOutput(crc) == [alg |-> "crc", bytes |-> <<>>, crc |-> crc]

\* One word of the descriptor is the initial value of a fresh start, the
\* register to go on from, and the result.
run_crc_link(d, c, sel, data) ==
  LET word == d.link[c].crc
      crc == crc_of(Params[c], word, sel, word, data)
  IN [d EXCEPT !.hash = CrcOutput(crc), !.link[c].crc = crc,
               !.from[c] = IF sel THEN @ ELSE word]

run_crc_direct(d, sel, data) ==
  [d EXCEPT !.hash = CrcOutput(crc_of(Params[0], Params[0].iv, sel, @.crc, data))]

\* The guest writes the descriptor of a CRC, with its initial value.
Describe(d, c) ==
  [d EXCEPT !.link[c] = [digest |-> Blank, crc |-> Params[c].iv, ready |-> TRUE],
            !.clean[c] = FALSE]

----------------------------------------------------------------------------
(* Digests: of everything accumulated since the last fresh start, whoever  *)
(* added it.  A descriptor's digest is stored over the words a CRC needs.  *)

sha_hash(d, alg) == [alg |-> alg, bytes |-> IF alg = "none" THEN <<>> ELSE d.accum, crc |-> {}]

run_digest(d, c, alg, sel, data) ==
  LET e == [d EXCEPT !.accum = IF sel THEN @ \o data ELSE data]
      out == sha_hash(e, alg)
  IN IF c = 0 THEN [e EXCEPT !.hash = out] ELSE [e EXCEPT !.hash = out, !.link[c] = [@ EXCEPT !.digest = out, !.ready = FALSE]]

complete(d, u) == update_irq([d EXCEPT !.int[u] = TRUE])

\* Whether a session still is on its own: a CRC needs its register to itself,
\* a digest the accumulator.
Undisturbed(d, c, alg, sel) ==
  [x \in Sessions |->
     IF x = c THEN sel => d.clean[x] /\ d.alg[x] = alg
     ELSE d.clean[x] /\ (IF d.alg[x] = "crc" THEN x # 0 ELSE alg = "crc")]

run_sha(d, c, alg, sel, data) ==
  LET e == CASE alg = "crc" /\ c = 0 -> run_crc_direct(d, sel, data)
             [] alg = "crc" /\ c # 0 -> run_crc_link(d, c, sel, data)
             [] OTHER -> run_digest(d, c, alg, sel, data)
  IN complete([e EXCEPT !.msg[c] = IF sel THEN @ \o data ELSE data, !.alg[c] = alg,
                        !.clean = Undisturbed(d, c, alg, sel)], "sha")

----------------------------------------------------------------------------
(* The cipher, which is the emulator's.                                    *)

Only(b) == CHOOSE a \in b : TRUE

Undoes(tag, k, b) == Cardinality(b) = 1 /\ Only(b)[1] = tag /\ Only(b)[2] = k

encrypt(k, b) == IF Undoes("D", k, b) THEN Only(b)[3] ELSE {<<"E", k, b>>}
decrypt(k, b) == IF Undoes("E", k, b) THEN Only(b)[3] ELSE {<<"D", k, b>>}
crypt(dec, k, b) == IF dec THEN decrypt(k, b) ELSE encrypt(k, b)

----------------------------------------------------------------------------
(* Keys, in words of 32 bits.  An empty key stands for a refused one.      *)

Words(source, first, n) == [i \in 1 .. n |-> <<source, first + i - 1>>]

alg_words == [k \in 0 .. 3 |-> <<4, 8, 6, 4>>[k + 1]]

\* One key in the registers serves both halves of XTS, but for 128 bits.
build_aes_key_regs(j) ==
  LET n == alg_words[j.key_mode]
  IN IF j.mode = "xts"
       THEN IF n = 4 THEN Words("reg", 0, 8) ELSE Words("reg", 0, n) \o Words("reg", 0, n)
     ELSE IF j.key_mode = 3 THEN <<>> ELSE Words("reg", 0, n)

load_hw_key_slot(slot) == Words("slot", 4 * slot, 4)

build_aes_hw_key(j) ==
  LET both == load_hw_key_slot(j.keysel0) \o load_hw_key_slot(j.keysel1)
  IN CASE j.sboot -> <<>>
       [] ~j.sboot /\ j.mode = "xts" -> IF j.key_mode \in {0, 3} THEN both ELSE <<>>
       [] OTHER -> CASE j.key_mode = 0 -> load_hw_key_slot(j.keysel0)
                     [] j.key_mode = 1 -> both
                     [] OTHER -> <<>>

build_aes_link_key(j) ==
  LET n == alg_words[j.key_mode]
  IN IF j.mode = "xts" THEN Words("key", 0, n) \o Words("key2", 0, n)
     ELSE IF j.key_mode = 3 THEN <<>> ELSE Words("key", 0, n)

key_of(j) == CASE j.hw_key -> build_aes_hw_key(j)
               [] ~j.hw_key /\ j.link -> build_aes_link_key(j)
               [] OTHER -> build_aes_key_regs(j)

----------------------------------------------------------------------------
(* The modes.                                                              *)

\* From the given end on, the first digit that is not full takes the carry.
Carry(c, order(_)) ==
  LET full == {i \in 1 .. Digits : \A k \in 1 .. i : c[order(k)] = Base - 1}
      j == Cardinality(full) + 1
  IN [i \in 1 .. Digits |-> LET k == order(i)
                            IN IF k < j THEN 0 ELSE IF k = j THEN c[i] + 1 ELSE c[i]]

xts_inc_unit(iv) == Carry(iv, LAMBDA i : i)
ctr_inc(c) == Carry(c, LAMBDA i : Digits + 1 - i)

run_ctr(in, k, iv) ==
  LET counter[i \in 1 .. Len(in)] == IF i = 1 THEN iv ELSE ctr_inc(counter[i - 1])
  IN [i \in 1 .. Len(in) |-> Xor(in[i], encrypt(k, {<<"c", counter[i]>>}))]

\* A unit starts from its encrypted number and multiplies it by x per block.
xts_tweaks(j, total) ==
  LET unit_blocks == IF j.unit # 0 THEN j.unit ELSE total
      tweak[i \in 1 .. total] ==
        IF i = 1 THEN [unit |-> j.iv, pow |-> 0, left |-> unit_blocks - 1]
        ELSE LET t == tweak[i - 1]
             IN IF ~j.single /\ t.left = 0
                  THEN [unit |-> xts_inc_unit(t.unit), pow |-> 0, left |-> unit_blocks - 1]
                  ELSE [t EXCEPT !.pow = @ + 1, !.left = @ - 1]
  IN tweak

Tweak(k2, t) == {<<"T", k2, t.unit, t.pow>>}

run_xts(j, in, key) ==
  LET half == Len(key) \div 2
      k1 == SubSeq(key, 1, half)
      k2 == SubSeq(key, half + 1, Len(key))
      t == xts_tweaks(j, Len(in))
  IN [i \in 1 .. Len(in) |->
        LET w == Tweak(k2, t[i]) IN Xor(crypt(j.dec, k1, Xor(in[i], w)), w)]

run_cbc(j, in, k) ==
  LET iv == {<<"c", j.iv>>}
      out[i \in 1 .. Len(in)] ==
        LET prev == IF i = 1 THEN iv ELSE IF j.dec THEN in[i - 1] ELSE out[i - 1]
        IN IF j.dec THEN Xor(decrypt(k, in[i]), prev) ELSE encrypt(k, Xor(in[i], prev))
  IN out

run_aes_crypt(j, in, key) ==
  CASE j.mode = "ctr" -> run_ctr(in, key, j.iv)
    [] j.mode = "xts" -> run_xts(j, in, key)
    [] j.mode = "cbc" -> run_cbc(j, in, key)
    [] j.mode = "ecb" -> [i \in 1 .. Len(in) |-> crypt(j.dec, key, in[i])]

\* The input is read before the output is written, so that they may overlap.
\* A refused key or no data still ends with the interrupt.
run_aes(d, j) ==
  LET key == key_of(j)
      in == [i \in 1 .. j.n |-> d.mem[j.src + i - 1]]
      out == run_aes_crypt(j, in, key)
      e == [d EXCEPT !.ran = <<j>>]
  IN complete(IF key = <<>> \/ j.n = 0 THEN e
              ELSE [e EXCEPT !.mem = [a \in 0 .. Blocks - 1 |->
                      IF a \in j.dst .. j.dst + j.n - 1 THEN out[a - j.dst + 1] ELSE @[a]]], "aes")

----------------------------------------------------------------------------
(* Control registers.                                                      *)

\* The mask and the 1T bits of a control register; set wins over clear.
latch(d, u, v) ==
  [d EXCEPT !.mask[u] = v.mask, !.int[u] = (@ /\ ~v.clr) \/ v.set]

write_sha(d, v) == update_irq(latch(d, "sha", v))
trigger_sha(d, v, c, alg, sel, data) == run_sha(latch(d, "sha", v), c, alg, sel, data)

write_aes(d, v) == update_irq(latch(d, "aes", v))
trigger_aes(d, v, j) == run_aes(latch(d, "aes", v), j)

write_trng(d, v, trig, en, dout_clr) ==
  LET e == IF dout_clr THEN [latch(d, "trng", v) EXCEPT !.dout = 0] ELSE latch(d, "trng", v)
  IN IF trig /\ en THEN complete([e EXCEPT !.dout = 1, !.status = 1], "trng")
     ELSE update_irq(e)

write_pka(d, v, en, done_clr) ==
  update_irq([latch(d, "pka", v) EXCEPT !.done = en \/ (@ /\ ~done_clr)])

\* While it is enabled every write raises the interrupt again.
write_cdet(d, v, en) ==
  LET e == latch(d, "cdet", v) IN update_irq([e EXCEPT !.int["cdet"] = @ \/ en])

write_gmac(d, v, trig, en) ==
  LET e == latch(d, "gmac", v) IN update_irq([e EXCEPT !.int["gmac"] = @ \/ (trig /\ en)])

Cleared == [prot |-> [u \in Units |-> Ids], prot_rd |-> [u \in Units |-> Ids],
            int |-> [u \in Units |-> FALSE], mask |-> [u \in Units |-> FALSE],
            shared |-> {}, cdet |-> {}, hash |-> Blank, accum |-> <<>>,
            link |-> [c \in Links |-> [digest |-> Blank, crc |-> Params[c].iv, ready |-> TRUE]],
            from |-> [c \in Sessions |-> Params[c].iv], direct |-> FALSE,
            msg |-> [c \in Sessions |-> <<>>], alg |-> [c \in Sessions |-> "none"],
            clean |-> [c \in Sessions |-> FALSE], dout |-> 0, status |-> 0, done |-> FALSE,
            mem |-> [a \in 0 .. Blocks - 1 |-> {<<"m", a>>}], ran |-> <<>>]

\* Descriptors and data are in memory and stay.
reset(d) ==
  update_irq([Cleared EXCEPT !.link = d.link, !.msg = d.msg, !.alg = d.alg, !.from = d.from,
    !.mem = d.mem, !.ran = d.ran,
    !.clean = [c \in Sessions |-> d.clean[c] /\ d.alg[c] = "crc" /\ c # 0]])

Init == s = Cleared /\ ops = 0

\* What changes nothing does not count.
Step(d) == ops < MaxOps /\ ops' = ops + 1 /\ s' = d /\ s' # s

Quiet == [mask |-> FALSE, clr |-> FALSE, set |-> FALSE]
Values == {[mask |-> m, clr |-> c, set |-> t] : m, c, t \in BOOLEAN}

Hash == \E c \in Sessions, alg \in Algs \cup {"crc"}, sel \in BOOLEAN, data \in Messages :
          /\ c \in Links /\ alg = "crc" => s.link[c].ready
          /\ Step(trigger_sha(s, Quiet, c, alg, sel, data))
WriteLink == \E c \in Links : Step(Describe(s, c))
WriteSha == \E v \in Values : Step(write_sha(s, v))
WriteAes == \E v \in Values : Step(write_aes(s, v))
Cipher == \E j \in Jobs : Step(trigger_aes(s, Quiet, j))
WriteTrng == \E trig, en, clr \in BOOLEAN : Step(write_trng(s, Quiet, trig, en, clr))
WritePka == \E v \in Values, en, clr \in BOOLEAN : Step(write_pka(s, v, en, clr))
WriteCdet == \E v \in Values, en \in BOOLEAN : Step(write_cdet(s, v, en))
WriteGmac == \E v \in Values, trig, en \in BOOLEAN : Step(write_gmac(s, v, trig, en))
SetOwner == \E u \in Units, ids \in SUBSET Ids : Step(set_owner(s, u, ids))
WriteOwners == \E u \in Units, ids \in SUBSET Ids : Step(write_owners(s, u, ids))
Reset == Step(reset(s))

Next == \/ Hash \/ WriteLink \/ Cipher \/ WriteSha \/ WriteAes \/ WriteTrng \/ WritePka \/ WriteCdet \/ WriteGmac
        \/ SetOwner \/ WriteOwners \/ Reset

Spec == Init /\ [][Next]_vars

----------------------------------------------------------------------------
(* The remainder of the message by the polynomial, from the powers of x.   *)

Remainder(p, iv, data) ==
  LET n == Len(data) * ByteWidth
      order(k) == IF p.din_ref THEN k ELSE ByteWidth - 1 - k
      places == {x \in (1 .. Len(data)) \X (0 .. ByteWidth - 1) : x[2] \in data[x[1]]}
      terms == {Width + n - 1 - ((x[1] - 1) * ByteWidth + order(x[2])) : x \in places}
      start == {n + b : b \in (IF p.din_ref THEN reflect_bits(iv) ELSE iv)}
      xpow[k \in 0 .. Width + n] ==
        IF k < Width THEN {k}
        ELSE LET q == xpow[k - 1]
             IN IF Width - 1 \in q THEN Xor(shift(q, 1), p.poly) ELSE shift(q, 1)
      sum == Xor(terms, start)
  IN {b \in Bits : Cardinality({k \in sum : b \in xpow[k]}) % 2 = 1}

\* However a message is cut into runs, a CRC is the remainder of the whole
\* message from the initial value its fresh start found (for a descriptor not
\* written anew that is the last result), in the form asked for.  With a
\* descriptor this holds whatever the other sessions do in between; the CRC of
\* the registers goes on from the result register, which every run overwrites,
\* so that it holds only while no other session runs.
CrcOfWhole ==
  \A c \in Sessions : s.clean[c] /\ s.alg[c] = "crc" =>
    LET p == Params[c]
        r == Remainder(p, s.from[c], s.msg[c])
        t == IF p.dout_ref THEN reflect_bits(r) ELSE r
    IN (IF c = 0 THEN s.hash.crc ELSE s.link[c].crc) = (IF p.dout_inv THEN Bits \ t ELSE t)

\* A digest covers the session's message, with CRCs of any session in between.
\* The digest sessions share one accumulator: when another digest came in
\* between, the code's digest covers that data too, and nothing is claimed.
DigestOfSession ==
  \A c \in Links : s.clean[c] /\ s.alg[c] \in Algs \ {"none"} =>
    s.link[c].digest = [alg |-> s.alg[c], bytes |-> s.msg[c], crc |-> {}]

\* An interrupt is on the lines of the owners of its unit, and of nobody else,
\* as ownership moves: until the collected word is written directly, which
\* changes the owners without the lines, and again from the next change of an
\* owner on.
OwnersInterrupted == ~s.direct => s.prot_rd = s.prot /\ s = update_irq(s)

\* The inverse run over the result gives back what was there, in every mode
\* and also where input and output overlap.
RoundTripStep ==
  LET j == s'.ran[1]
      back == run_aes(s', [j EXCEPT !.dec = ~j.dec, !.src = j.dst])
  IN s'.ran # s.ran \/ s'.mem # s.mem =>
       \A i \in 0 .. j.n - 1 : key_of(j) # <<>> => back.mem[j.dst + i] = s.mem[j.src + i]

Value(c) == LET v[i \in 0 .. Digits] == IF i = 0 THEN 0 ELSE v[i - 1] + c[i] * Base ^ (i - 1)
            IN v[Digits]

\* The block at a position has the tweak of its data unit (the initial number
\* plus the units before it, with wrap-around) and of its place in the unit.
TweakOfPosition ==
  \A j \in Jobs : j.mode = "xts" /\ s.ran = <<j>> =>
    LET size == IF j.single \/ j.unit = 0 THEN j.n ELSE j.unit
    IN \A i \in 1 .. j.n :
         LET t == xts_tweaks(j, j.n)[i]
         IN /\ Value(t.unit) = (Value(j.iv) + ((i - 1) \div size)) % Base ^ Digits
            /\ t.pow = (i - 1) % size
===============================================================================
