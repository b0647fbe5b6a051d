------------------------- MODULE BL808SfCtrlProofs -------------------------
(***************************************************************************)
(* The serial flash for any size of the flash, its pages and the windows,  *)
(* and any number of commands, resets and failing write-backs.             *)
(***************************************************************************)
EXTENDS BL808SfCtrl, TLAPS

\* The flash consists of whole pages; there are a smallest and a largest
\* erase size, and the address space holds a block after the flash.
Geometry ==
  /\ FlashSize \in Nat /\ PageSize \in Nat \ {0} /\ Aperture \in Nat /\ ResetOffset \in Nat
  /\ \A a \in Cells : a - (a % PageSize) + PageSize <= FlashSize
  /\ EraseSizes \subseteq Nat \ {0}
  /\ AddrSpace \in Nat /\ FlashSize < AddrSpace /\ \A n \in EraseSizes : FlashSize + n <= AddrSpace
  /\ \E n \in EraseSizes : \A m \in EraseSizes : n <= m
  /\ \E n \in EraseSizes : \A m \in EraseSizes : m <= n
  /\ Addrs \subseteq Nat /\ Offsets \subseteq Nat /\ Bytes \subseteq [1 .. PageSize -> SUBSET FF]

Window == 0 .. Aperture - 1
Byte == SUBSET FF

States ==
  [flash : [Cells -> Byte], blk : [Cells -> Byte], off : Nat, view : [Window -> Byte], drift : BOOLEAN,
   lost : SUBSET Int, sec : Byte, sr1 : Byte, sr2 : Byte, sr1_nv : Byte, sr2_nv : Byte,
   volatile_wel : BOOLEAN, powered_down : BOOLEAN, reset_armed : BOOLEAN, buf : [1 .. PageSize -> Byte]]

\* The window and the drive show the flash, and a lock that was made
\* permanent holds.
Good(d) ==
  /\ d \in States
  /\ ~d.drift => d.view = window(d.flash, d.off)
  /\ \A a \in Cells : d.blk[a] # d.flash[a] => a \in d.lost
  /\ LB \in d.sr2_nv => LB \in d.sr2

\* What only the power-on of the chip may undo.
Keeps(d, e) == LB \in d.sr2_nv => e.sec = d.sec /\ LB \in e.sr2_nv /\ LB \in e.sr2

\* Only an enabled command changes the flash, and uses the enable up.
Guarded(d, e) == e.flash # d.flash => WEL \in d.sr1 /\ WEL \notin e.sr1

\* A good step of the chip.
Sound(d, e) == Good(e) /\ Keeps(d, e) /\ Guarded(d, e)

LEMMA Bits ==
  /\ FF \in Byte /\ {} \in Byte /\ {QE} \in Byte /\ LB \in FF /\ WEL \in FF /\ QE \in FF /\ SRL \in FF /\ BP \in FF
  /\ LB # WEL /\ LB # QE /\ LB # SRL
BY DEF Byte, FF, LB, WEL, QE, SRL, BP

\* A range that the code may write: within the flash, or one past it whose
\* end has wrapped around.
Fits(offset, n) ==
  \/ offset + n <= FlashSize
  \/ offset >= FlashSize /\ uint32(offset + n) <= FlashSize

LEMMA Ends ==
  ASSUME Geometry, NEW offset \in Nat, NEW n \in Nat, Fits(offset, n)
  PROVE  /\ uint32(offset + n) \in Nat /\ uint32(offset + n) <= FlashSize
         /\ uint32(offset + n) = offset + n \/ offset >= FlashSize
<1>1. FlashSize \in Nat /\ AddrSpace \in Nat /\ FlashSize < AddrSpace
  BY DEF Geometry
<1>2. CASE offset + n <= FlashSize
  <2>1. (offset + n) % AddrSpace = offset + n
    BY <1>1, <1>2
  <2> QED BY <1>1, <1>2, <2>1 DEF uint32
<1>3. CASE offset >= FlashSize /\ uint32(offset + n) <= FlashSize
  <2>1. (offset + n) % AddrSpace \in Nat
    BY <1>1
  <2> QED BY <1>3, <2>1 DEF uint32
<1> QED BY <1>2, <1>3 DEF Fits

LEMMA Windows ==
  ASSUME Geometry, NEW f \in [Cells -> Byte], NEW off \in Nat
  PROVE  window(f, off) \in [Window -> Byte]
<1>1. ASSUME NEW i \in Window, off + i < FlashSize PROVE off + i \in Cells
  BY <1>1 DEF Geometry, Window, Cells
<1> QED BY <1>1, Bits DEF window, Window

(* What sync_xip copies, the rest of the window being right already, makes *)
(* the window right.                                                       *)
LEMMA Copied ==
  ASSUME Geometry, NEW d \in States, NEW old \in [Cells -> Byte], NEW offset \in Nat, NEW n \in Nat,
         Fits(offset, n), d.view = window(old, d.off),
         \A a \in Cells : a \notin offset .. offset + n - 1 => d.flash[a] = old[a]
  PROVE  sync_xip(d, offset, n).view = window(d.flash, d.off)
<1> DEFINE off == d.off
           start == IF offset > off THEN offset - off ELSE 0
           past == uint32(offset + n)
           end == Min2(past - off, Aperture)
           none == past <= off \/ start >= Aperture \/ end <= start
           v == sync_xip(d, offset, n).view
<1>1. off \in Nat /\ d.flash \in [Cells -> Byte] /\ d.view \in [Window -> Byte]
  BY Zenon DEF States
<1>0. past \in Nat /\ past <= FlashSize /\ (past = offset + n \/ offset >= FlashSize)
  BY Ends
<1>2. /\ start \in Nat /\ end \in Int
      /\ FlashSize \in Nat /\ Aperture \in Nat
  BY <1>0, <1>1 DEF Min2, Geometry
<1>3. v = IF none THEN d.view ELSE [i \in Window |-> IF i \in start .. end - 1 THEN d.flash[off + i] ELSE d.view[i]]
  BY Zenon, <1>1 DEF sync_xip, sync_xip_range, States
<1> HIDE DEF past
<1>4. ASSUME NEW i \in Window
      PROVE  (IF ~none /\ i \in start .. end - 1 THEN d.flash[off + i] ELSE d.view[i])
               = IF off + i < FlashSize THEN d.flash[off + i] ELSE FF
  <2>1. d.view[i] = IF off + i < FlashSize THEN old[off + i] ELSE FF
    BY Zenon DEF window, Window
  <2>2. i \in Nat /\ i < Aperture
    BY <1>2 DEF Window
  <2>3. CASE off + i >= FlashSize
    <3>1. ~(i \in start .. end - 1)
      BY <1>0, <1>1, <1>2, <2>2, <2>3 DEF Min2
    <3>2. ~(off + i < FlashSize)
      BY <1>1, <1>2, <2>2, <2>3
    <3> QED BY Zenon, <2>1, <3>1, <3>2
  <2>4. CASE off + i < FlashSize /\ off + i \in offset .. offset + n - 1
    <3>1. i \in start .. end - 1 /\ ~none
      BY <1>0, <1>1, <1>2, <2>2, <2>4 DEF Min2
    <3> QED BY Zenon, <2>4, <3>1
  <2>5. CASE off + i < FlashSize /\ off + i \notin offset .. offset + n - 1
    <3>1. off + i \in Cells
      BY <1>1, <1>2, <2>2, <2>5 DEF Cells
    <3>2. d.flash[off + i] = old[off + i]
      BY Zenon, <2>5, <3>1
    <3> QED BY Zenon, <2>1, <2>5, <3>2
  <2> QED BY <1>1, <1>2, <2>2, <2>3, <2>4, <2>5
<1>5. v = [i \in Window |-> IF ~none /\ i \in start .. end - 1 THEN d.flash[off + i] ELSE d.view[i]]
  <2>1. CASE none
    <3>1. d.view = [i \in Window |-> d.view[i]]
      BY Zenon, <1>1
    <3> QED BY Zenon, <1>3, <2>1, <3>1
  <2>2. CASE ~none
    BY Zenon, <1>3, <2>2
  <2> QED BY Zenon, <2>1, <2>2
<1> HIDE DEF v, none, start, end
<1>6. v = [i \in Window |-> IF off + i < FlashSize THEN d.flash[off + i] ELSE FF]
  BY Zenon, <1>4, <1>5
<1> QED BY Zenon, <1>6 DEF window, Window, v

LEMMA CopyTyped ==
  ASSUME Geometry, NEW d \in States, NEW offset \in Nat, NEW n \in Nat, Fits(offset, n)
  PROVE  \E v \in [Window -> Byte] : sync_xip(d, offset, n) = [d EXCEPT !.view = v]
<1> DEFINE start == IF offset > d.off THEN offset - d.off ELSE 0
           past == uint32(offset + n)
           end == Min2(past - d.off, Aperture)
           none == past <= d.off \/ start >= Aperture \/ end <= start
           v == [i \in Window |-> IF i \in start .. end - 1 THEN d.flash[d.off + i] ELSE d.view[i]]
<1>1. d.off \in Nat /\ d.flash \in [Cells -> Byte] /\ d.view \in [Window -> Byte]
  BY Zenon DEF States
<1>2. sync_xip(d, offset, n) = IF none THEN d ELSE [d EXCEPT !.view = v]
  BY Zenon, <1>1 DEF sync_xip, sync_xip_range
<1>0. past \in Nat /\ past <= FlashSize
  BY Ends
<1> HIDE DEF past
<1>3. d = [d EXCEPT !.view = d.view]
  BY Zenon DEF States
<1>4. ASSUME NEW i \in Window, i \in start .. end - 1 PROVE d.flash[d.off + i] \in Byte
  <2>1. FlashSize \in Nat /\ Aperture \in Nat
    BY DEF Geometry
  <2>2. i \in Nat /\ end - 1 >= i
    BY <1>0, <1>1, <1>4, <2>1 DEF Window, Min2
  <2>3. end <= past - d.off
    BY <1>0, <1>1, <2>1 DEF Min2
  <2>4. d.off + i \in Cells
    <3> HIDE DEF end
    <3>1. end \in Int
      BY <1>0, <1>1, <2>1 DEF end, Min2
    <3> QED BY <1>0, <1>1, <2>1, <2>2, <2>3, <3>1 DEF Cells
  <2> QED BY Zenon, <1>1, <2>4
<1>5. v \in [Window -> Byte]
  <2> HIDE DEF start, end
  <2> QED BY Zenon, <1>1, <1>4
<1> HIDE DEF v, none
<1> QED BY Zenon, <1>1, <1>2, <1>3, <1>5

LEMMA Written ==
  ASSUME Geometry, NEW d, Good(d), NEW f \in [Cells -> Byte], NEW offset \in Nat, NEW n \in Nat,
         Fits(offset, n), \A a \in Cells : a \notin offset .. offset + n - 1 => f[a] = d.flash[a],
         NEW ok \in BOOLEAN,
         NEW w, w = blk_write(sync_xip([d EXCEPT !.flash = f], offset, n), offset, n, ok)
  PROVE  Good(w) /\ w.flash = f /\ w.sec = d.sec /\ w.sr1 = d.sr1 /\ w.sr2 = d.sr2 /\ w.sr2_nv = d.sr2_nv
<1> DEFINE c == [d EXCEPT !.flash = f]
           range == offset .. offset + n - 1
<1>1. d \in States
  BY Zenon DEF Good
<1>2. c \in States /\ c.flash = f /\ c.off = d.off /\ c.view = d.view
  BY Zenon, <1>1 DEF States
<1> HIDE DEF c
<1>3. PICK v \in [Window -> Byte] : sync_xip(c, offset, n) = [c EXCEPT !.view = v]
  BY <1>2, CopyTyped
<1> DEFINE x == [c EXCEPT !.view = v]
<1>4. x \in States /\ x.view = v /\ x.flash = f /\ x.off = d.off
  BY Zenon, <1>2 DEF States
<1>5. /\ x.blk = d.blk /\ x.lost = d.lost /\ x.drift = d.drift /\ x.sec = d.sec
      /\ x.sr1 = d.sr1 /\ x.sr2 = d.sr2 /\ x.sr2_nv = d.sr2_nv
  BY Zenon, <1>1 DEF States, c
<1>6. d.drift \/ v = window(f, d.off)
  <2> SUFFICES ASSUME ~d.drift PROVE v = window(f, d.off)
    BY Zenon
  <2>1. d.flash \in [Cells -> Byte] /\ d.view = window(d.flash, d.off)
    BY Zenon, <1>1 DEF Good, States
  <2>2. sync_xip(c, offset, n).view = window(c.flash, c.off)
    <3>1. c.view = window(d.flash, c.off)
      BY Zenon, <1>2, <2>1
    <3>2. \A a \in Cells : a \notin offset .. offset + n - 1 => c.flash[a] = d.flash[a]
      BY Zenon, <1>2
    <3> QED BY <1>2, <2>1, <3>1, <3>2, Copied
  <2> QED BY Zenon, <1>2, <1>3, <1>4, <2>2
<1> HIDE DEF x
<1> DEFINE b == [a \in DOMAIN x.blk |-> IF a \in range THEN x.flash[a] ELSE x.blk[a]]
<1>7. range \in SUBSET Int
  BY DEF Geometry
<1>8. x.blk \in [Cells -> Byte] /\ x.lost \in SUBSET Int
  BY Zenon, <1>4 DEF States
<1>9. b \in [Cells -> Byte] /\ \A a \in Cells : b[a] = IF a \in range THEN f[a] ELSE x.blk[a]
  BY Zenon, <1>4, <1>8
<1>10. w = IF ~ok THEN [x EXCEPT !.lost = x.lost \cup range] ELSE [x EXCEPT !.blk = b, !.lost = x.lost \ range]
  BY Zenon, <1>3 DEF blk_write, x, c
<1> HIDE DEF b, range
<1>11. CASE ~ok
  <2> DEFINE l == x.lost \cup range
  <2>1. l \in SUBSET Int
    BY Zenon, <1>7, <1>8
  <2>2. \A a \in Cells : x.blk[a] # f[a] => a \in l
    <3> SUFFICES ASSUME NEW a \in Cells, x.blk[a] # f[a], a \notin range PROVE a \in x.lost
      BY Zenon
    <3>1. f[a] = d.flash[a]
      BY Zenon DEF range
    <3>2. d.blk[a] # d.flash[a] => a \in d.lost
      BY Zenon DEF Good
    <3> QED BY Zenon, <1>5, <3>1, <3>2
  <2> HIDE DEF l
  <2>3. w = [x EXCEPT !.lost = l]
    BY Zenon, <1>10, <1>11 DEF l
  <2>4. /\ w \in States /\ w.lost = l /\ w.blk = x.blk /\ w.flash = f /\ w.off = d.off /\ w.view = v /\ w.drift = d.drift
        /\ w.sec = d.sec /\ w.sr1 = d.sr1 /\ w.sr2 = d.sr2 /\ w.sr2_nv = d.sr2_nv
    BY Zenon, <1>4, <1>5, <2>1, <2>3 DEF States
  <2> QED BY Zenon, <1>6, <2>2, <2>4 DEF Good
<1>12. CASE ok
  <2> DEFINE l == x.lost \ range
  <2>1. l \in SUBSET Int
    BY Zenon, <1>8
  <2>2. \A a \in Cells : b[a] # f[a] => a \in l
    <3> SUFFICES ASSUME NEW a \in Cells, b[a] # f[a] PROVE a \in x.lost /\ a \notin range
      BY Zenon
    <3>1. a \notin range /\ b[a] = x.blk[a]
      BY Zenon, <1>9
    <3>2. f[a] = d.flash[a]
      BY Zenon, <3>1 DEF range
    <3>3. d.blk[a] # d.flash[a] => a \in d.lost
      BY Zenon DEF Good
    <3> QED BY Zenon, <1>5, <3>1, <3>2, <3>3
  <2> HIDE DEF l
  <2>3. w = [x EXCEPT !.blk = b, !.lost = l]
    BY Zenon, <1>10, <1>12 DEF l
  <2>4. /\ w \in States /\ w.lost = l /\ w.blk = b /\ w.flash = f /\ w.off = d.off /\ w.view = v /\ w.drift = d.drift
        /\ w.sec = d.sec /\ w.sr1 = d.sr1 /\ w.sr2 = d.sr2 /\ w.sr2_nv = d.sr2_nv
    BY Zenon, <1>4, <1>5, <1>9, <2>1, <2>3 DEF States
  <2> QED BY Zenon, <1>6, <2>2, <2>4 DEF Good
<1> QED BY Zenon, <1>11, <1>12
(* The commands that leave the flash alone.                                *)
Same(d, e) ==
  /\ e.flash = d.flash /\ e.blk = d.blk /\ e.off = d.off /\ e.view = d.view
  /\ e.drift = d.drift /\ e.lost = d.lost

LEMMA Untouched ==
  ASSUME NEW d, Good(d), NEW e \in States, Same(d, e), Keeps(d, e), LB \in e.sr2_nv => LB \in e.sr2
  PROVE  Sound(d, e)
<1>1. ~e.drift => e.view = window(e.flash, e.off)
  BY Zenon DEF Good, Same
<1>2. \A a \in Cells : e.blk[a] # e.flash[a] => a \in e.lost
  <2>1. \A a \in Cells : d.blk[a] # d.flash[a] => a \in d.lost
    BY Zenon DEF Good
  <2>2. e.flash = d.flash /\ e.blk = d.blk /\ e.lost = d.lost
    BY Zenon DEF Same
  <2> HIDE DEF Same
  <2> QED BY ONLY <2>1, <2>2, SMT
<1>3. Good(e)
  BY Zenon, <1>1, <1>2 DEF Good
<1> QED BY Zenon, <1>3 DEF Sound, Guarded, Same

LEMMA Disarmed ==
  ASSUME NEW d, Good(d), NEW r \in BOOLEAN
  PROVE  /\ Good([d EXCEPT !.reset_armed = r])
         /\ \A e : Sound([d EXCEPT !.reset_armed = r], e) => Sound(d, e)
<1> DEFINE c == [d EXCEPT !.reset_armed = r]
<1>1. d \in States
  BY Zenon DEF Good
<1>2. /\ c \in States /\ Same(d, c)
      /\ c.sec = d.sec /\ c.sr1 = d.sr1 /\ c.sr2 = d.sr2 /\ c.sr2_nv = d.sr2_nv
  BY Zenon, <1>1 DEF States, Same
<1> HIDE DEF c
<1>3. Good(c)
  <2>1. Keeps(d, c) /\ (LB \in c.sr2_nv => LB \in c.sr2)
    BY Zenon, <1>2 DEF Keeps, Good
  <2> QED BY Zenon, <1>2, <2>1, Untouched DEF Sound
<1>4. \A e : Sound(c, e) => Sound(d, e)
  BY Zenon, <1>2 DEF Sound, Keeps, Guarded, Same
<1> QED BY Zenon, <1>3, <1>4 DEF c

LEMMA Enables ==
  ASSUME NEW d, Good(d), NEW v \in BOOLEAN, NEW p \in BOOLEAN, NEW q \in BOOLEAN, NEW r \in Byte
  PROVE  Sound(d, [d EXCEPT !.sr1 = r, !.volatile_wel = v, !.powered_down = p, !.reset_armed = q])
<1> DEFINE e == [d EXCEPT !.sr1 = r, !.volatile_wel = v, !.powered_down = p, !.reset_armed = q]
<1>1. d \in States /\ (LB \in d.sr2_nv => LB \in d.sr2)
  BY Zenon DEF Good
<1>2. e \in States /\ Same(d, e) /\ e.sec = d.sec /\ e.sr2 = d.sr2 /\ e.sr2_nv = d.sr2_nv
  BY Zenon, <1>1 DEF States, Same
<1> HIDE DEF e
<1>3. Keeps(d, e)
  BY Zenon, <1>1, <1>2 DEF Keeps
<1>4. Sound(d, e)
  BY Zenon, <1>1, <1>2, <1>3, Untouched
<1> QED BY Zenon, <1>4 DEF e

LEMMA Fills ==
  ASSUME NEW d, Good(d), NEW b \in [1 .. PageSize -> Byte]
  PROVE  Sound(d, [d EXCEPT !.buf = b])
<1> DEFINE e == [d EXCEPT !.buf = b]
<1>1. d \in States /\ (LB \in d.sr2_nv => LB \in d.sr2)
  BY Zenon DEF Good
<1>2. e \in States /\ Same(d, e) /\ e.sec = d.sec /\ e.sr2 = d.sr2 /\ e.sr2_nv = d.sr2_nv
  BY Zenon, <1>1 DEF States, Same
<1> HIDE DEF e
<1>3. Keeps(d, e)
  BY Zenon, <1>1, <1>2 DEF Keeps
<1>4. Sound(d, e)
  BY Zenon, <1>1, <1>2, <1>3, Untouched
<1> QED BY Zenon, <1>4 DEF e

LEMMA Secures ==
  ASSUME NEW d, Good(d), NEW m \in Byte, NEW r \in Byte, LB \in d.sr2 => m = d.sec
  PROVE  Sound(d, [d EXCEPT !.sec = m, !.sr1 = r])
<1> DEFINE e == [d EXCEPT !.sec = m, !.sr1 = r]
<1>1. d \in States /\ (LB \in d.sr2_nv => LB \in d.sr2)
  BY Zenon DEF Good
<1>2. e \in States /\ Same(d, e) /\ e.sec = m /\ e.sr2 = d.sr2 /\ e.sr2_nv = d.sr2_nv
  BY Zenon, <1>1 DEF States, Same
<1> HIDE DEF e
<1>3. Keeps(d, e)
  BY Zenon, <1>1, <1>2 DEF Keeps
<1>4. Sound(d, e)
  BY Zenon, <1>1, <1>2, <1>3, Untouched
<1> QED BY Zenon, <1>4 DEF e

(* A status write keeps a lock bit that is set, and stores what it has     *)
(* written or nothing.                                                     *)
LEMMA Statuses ==
  ASSUME NEW d, Good(d), NEW r1 \in Byte, NEW r2 \in Byte, LB \in d.sr2 => LB \in r2, NEW volatile \in BOOLEAN
  PROVE  Sound(d, commit_status_write([d EXCEPT !.sr1 = r1, !.sr2 = r2], volatile))
<1> DEFINE c == [d EXCEPT !.sr1 = r1, !.sr2 = r2]
           l1 == r1 \ {WEL}
           n1 == l1 \cap {BP}
           e == [c EXCEPT !.sr1 = l1, !.volatile_wel = FALSE]
           g == [e EXCEPT !.sr1_nv = n1, !.sr2_nv = r2]
<1>1. d \in States /\ (LB \in d.sr2_nv => LB \in d.sr2)
  BY Zenon DEF Good
<1>2. l1 \in Byte /\ n1 \in Byte
  BY Zenon DEF Byte
<1>3. c \in States /\ c.sr1 = r1 /\ c.sr2 = r2 /\ c.sr2_nv = d.sr2_nv /\ c.sec = d.sec /\ Same(d, c)
  BY Zenon, <1>1 DEF States, Same
<1> HIDE DEF c, l1, n1
<1>4. /\ e \in States /\ e.sr1 = l1 /\ e.sr2 = r2 /\ e.sr2_nv = d.sr2_nv /\ e.sec = d.sec
      /\ e.flash = c.flash /\ e.blk = c.blk /\ e.off = c.off /\ e.view = c.view /\ e.drift = c.drift /\ e.lost = c.lost
  BY Zenon, <1>2, <1>3 DEF States
<1> HIDE DEF e
<1>5. /\ g \in States /\ g.sr2 = r2 /\ g.sr2_nv = r2 /\ g.sec = d.sec
      /\ g.flash = e.flash /\ g.blk = e.blk /\ g.off = e.off /\ g.view = e.view /\ g.drift = e.drift /\ g.lost = e.lost
  BY Zenon, <1>2, <1>4 DEF States
<1> HIDE DEF g
<1>6. Same(d, e) /\ Same(d, g)
  BY Zenon, <1>3, <1>4, <1>5 DEF Same
<1>7. Keeps(d, e) /\ Keeps(d, g)
  BY Zenon, <1>1, <1>4, <1>5 DEF Keeps
<1>8. Sound(d, e)
  BY Zenon, <1>1, <1>4, <1>6, <1>7, Untouched
<1>9. Sound(d, g)
  BY Zenon, <1>1, <1>5, <1>6, <1>7, Untouched
<1>10. commit_status_write(c, volatile) = IF volatile THEN e ELSE g
  BY Zenon, <1>3, <1>4 DEF commit_status_write, e, g, l1, n1
<1> QED BY Zenon, <1>8, <1>9, <1>10 DEF c
LEMMA StatusWrites ==
  ASSUME NEW d, Good(d), NEW len
  PROVE  Sound(d, write_sr(d, len)) /\ Sound(d, write_sr2(d, len)) /\ Sound(d, write_sr3(d))
<1>1. d \in States /\ d.sr1 \in Byte /\ d.sr2 \in Byte /\ d.volatile_wel \in BOOLEAN
  BY Zenon DEF Good, States
<1>2. \A x : /\ apply_sr2_write(d.sr2, x) \in Byte
             /\ LB \in d.sr2 => LB \in apply_sr2_write(d.sr2, x)
             /\ (d.sr1 \ {BP}) \cup (x \cap {BP}) \in Byte
  <2> TAKE x
  <2>1. apply_sr2_write(d.sr2, x) \subseteq FF
    BY Zenon, Bits DEF apply_sr2_write, Byte
  <2>2. LB \in d.sr2 => LB \in apply_sr2_write(d.sr2, x)
    BY Zenon DEF apply_sr2_write
  <2>3. (d.sr1 \ {BP}) \cup (x \cap {BP}) \subseteq FF
    BY Zenon, <1>1, Bits DEF Byte
  <2> QED BY Zenon, <2>1, <2>2, <2>3 DEF Byte
<1>3. Sound(d, d)
  <2>1. d = [d EXCEPT !.sr1 = d.sr1, !.volatile_wel = d.volatile_wel, !.powered_down = d.powered_down, !.reset_armed = d.reset_armed]
    BY Zenon, <1>1 DEF States
  <2>2. d.powered_down \in BOOLEAN /\ d.reset_armed \in BOOLEAN
    BY Zenon, <1>1 DEF States
  <2>3. Sound(d, [d EXCEPT !.sr1 = d.sr1, !.volatile_wel = d.volatile_wel, !.powered_down = d.powered_down, !.reset_armed = d.reset_armed])
    BY <1>1, <2>2, Enables
  <2> QED BY Zenon, <2>1, <2>3
<1>4. Sound(d, write_sr(d, len))
  <2> DEFINE r1 == IF len > 0 THEN (d.sr1 \ {BP}) \cup (d.buf[1] \cap {BP}) ELSE d.sr1
             r2 == IF len > 1 THEN apply_sr2_write(d.sr2, d.buf[2]) ELSE d.sr2
  <2>1. r1 \in Byte /\ r2 \in Byte /\ (LB \in d.sr2 => LB \in r2)
    BY Zenon, <1>1, <1>2
  <2>2. write_sr(d, len) = IF status_write_enabled(d) THEN commit_status_write([d EXCEPT !.sr1 = r1, !.sr2 = r2], d.volatile_wel) ELSE d
    BY Zenon DEF write_sr
  <2> HIDE DEF r1, r2
  <2>3. Sound(d, commit_status_write([d EXCEPT !.sr1 = r1, !.sr2 = r2], d.volatile_wel))
    BY <1>1, <2>1, Statuses
  <2> QED BY Zenon, <1>3, <2>2, <2>3
<1>5. Sound(d, write_sr2(d, len))
  <2> DEFINE r1 == d.sr1
             r2 == IF len > 0 THEN apply_sr2_write(d.sr2, d.buf[1]) ELSE d.sr2
  <2>1. r1 \in Byte /\ r2 \in Byte /\ (LB \in d.sr2 => LB \in r2)
    BY Zenon, <1>1, <1>2
  <2>2. write_sr2(d, len) = IF status_write_enabled(d) THEN commit_status_write([d EXCEPT !.sr2 = r2], d.volatile_wel) ELSE d
    BY Zenon DEF write_sr2
  <2> HIDE DEF r2
  <2>3. [d EXCEPT !.sr2 = r2] = [d EXCEPT !.sr1 = r1, !.sr2 = r2]
    BY Zenon, <1>1, <2>1 DEF States
  <2>4. Sound(d, commit_status_write([d EXCEPT !.sr1 = r1, !.sr2 = r2], d.volatile_wel))
    BY <1>1, <2>1, Statuses
  <2> QED BY Zenon, <1>3, <2>2, <2>3, <2>4
<1>6. Sound(d, write_sr3(d))
  <2>1. write_sr3(d) = IF status_write_enabled(d) THEN commit_status_write(d, d.volatile_wel) ELSE d
    BY Zenon DEF write_sr3
  <2>2. d = [d EXCEPT !.sr1 = d.sr1, !.sr2 = d.sr2]
    BY Zenon, <1>1 DEF States
  <2>3. Sound(d, commit_status_write([d EXCEPT !.sr1 = d.sr1, !.sr2 = d.sr2], d.volatile_wel))
    BY <1>1, Statuses
  <2> QED BY Zenon, <1>3, <2>1, <2>2, <2>3
<1> QED BY Zenon, <1>4, <1>5, <1>6

(* What an enabled command writes, and the latch taken down after it.      *)
LEMMA Changes ==
  ASSUME Geometry, NEW d, Good(d), WEL \in d.sr1, NEW f \in [Cells -> Byte], NEW offset \in Nat, NEW n \in Nat,
         Fits(offset, n), \A a \in Cells : a \notin offset .. offset + n - 1 => f[a] = d.flash[a],
         NEW ok \in BOOLEAN
  PROVE  Sound(d, [blk_write(sync_xip([d EXCEPT !.flash = f], offset, n), offset, n, ok) EXCEPT !.sr1 = @ \ {WEL}])
<1> DEFINE w == blk_write(sync_xip([d EXCEPT !.flash = f], offset, n), offset, n, ok)
           r == w.sr1 \ {WEL}
           e == [w EXCEPT !.sr1 = r]
<1>1. Good(w) /\ w.flash = f /\ w.sec = d.sec /\ w.sr1 = d.sr1 /\ w.sr2 = d.sr2 /\ w.sr2_nv = d.sr2_nv
  BY Written
<1> HIDE DEF w
<1>2. w \in States
  BY Zenon, <1>1 DEF Good
<1>3. r \in Byte /\ WEL \notin r
  <2>1. w.sr1 \in Byte
    BY Zenon, <1>2 DEF States
  <2> QED BY Zenon, <2>1 DEF Byte
<1> HIDE DEF r
<1>4. e \in States /\ Same(w, e) /\ e.sr1 = r /\ e.sec = w.sec /\ e.sr2 = w.sr2 /\ e.sr2_nv = w.sr2_nv
  BY Zenon, <1>2, <1>3 DEF States, Same
<1> HIDE DEF e
<1>5. Good(e)
  <2>1. Keeps(w, e) /\ (LB \in e.sr2_nv => LB \in e.sr2)
    BY Zenon, <1>1, <1>4 DEF Keeps, Good
  <2> QED BY Zenon, <1>1, <1>4, <2>1, Untouched DEF Sound
<1>6. Keeps(d, e)
  BY Zenon, <1>1, <1>4 DEF Keeps, Good
<1>7. Sound(d, e)
  BY Zenon, <1>3, <1>4, <1>5, <1>6 DEF Sound, Guarded
<1> QED BY Zenon, <1>7 DEF e, r, w
LEMMA ErasesRange ==
  ASSUME Geometry, NEW d, Good(d), WEL \in d.sr1, NEW base \in Nat, NEW n \in Nat, Fits(base, n),
         NEW ok \in BOOLEAN
  PROVE  Sound(d, erase_range(d, base, n, ok))
<1> DEFINE f == [a \in Cells |-> IF a \in base .. base + n - 1 THEN FF ELSE d.flash[a]]
<1>1. d.flash \in [Cells -> Byte]
  BY Zenon DEF Good, States
<1>2. f \in [Cells -> Byte] /\ \A a \in Cells : a \notin base .. base + n - 1 => f[a] = d.flash[a]
  BY Zenon, <1>1, Bits
<1>3. erase_range(d, base, n, ok) = [blk_write(sync_xip([d EXCEPT !.flash = f], base, n), base, n, ok) EXCEPT !.sr1 = @ \ {WEL}]
  BY Zenon DEF erase_range
<1> HIDE DEF f
<1>4. Sound(d, [blk_write(sync_xip([d EXCEPT !.flash = f], base, n), base, n, ok) EXCEPT !.sr1 = @ \ {WEL}])
  BY <1>2, Changes
<1> QED BY Zenon, <1>3, <1>4

LEMMA Stays ==
  ASSUME NEW d, Good(d) PROVE Sound(d, d)
<1>1. d \in States /\ Same(d, d) /\ Keeps(d, d)
  BY Zenon DEF Good, Same, Keeps
<1> QED BY Zenon, <1>1, Untouched DEF Good

\* A command that only takes the enable away.
LEMMA Refuses ==
  ASSUME NEW d, Good(d) PROVE Sound(d, [d EXCEPT !.sr1 = @ \ {WEL}])
<1> DEFINE r == d.sr1 \ {WEL}
           m == d.sec
<1>1. d \in States
  BY Zenon DEF Good
<1>2. r \in Byte /\ m \in Byte
  BY Zenon, <1>1 DEF States, Byte
<1>3. [d EXCEPT !.sr1 = @ \ {WEL}] = [d EXCEPT !.sec = m, !.sr1 = r]
  BY Zenon, <1>1 DEF States
<1> HIDE DEF r
<1>4. Sound(d, [d EXCEPT !.sec = m, !.sr1 = r])
  BY <1>2, Secures
<1> QED BY Zenon, <1>3, <1>4

LEMMA Erases ==
  ASSUME Geometry, NEW d, Good(d), NEW addr \in Nat, NEW n \in Nat \ {0}, FlashSize + n <= AddrSpace,
         NEW ok \in BOOLEAN
  PROVE  Sound(d, erase(d, addr, n, ok))
<1> DEFINE base == addr - (addr % n)
<1>1. base \in Nat /\ n \in Nat
  OBVIOUS
<1>2. erase(d, addr, n, ok) = IF WEL \notin d.sr1 THEN d
                              ELSE IF uint32(base + n) <= FlashSize THEN erase_range(d, base, n, ok) ELSE [d EXCEPT !.sr1 = @ \ {WEL}]
  BY Zenon DEF erase
<1> HIDE DEF base
<1>3. CASE WEL \notin d.sr1
  BY Zenon, <1>2, <1>3, Stays
<1>4. CASE WEL \in d.sr1 /\ uint32(base + n) <= FlashSize
  <2>1. Sound(d, erase_range(d, base, n, ok))
    <3>1. FlashSize \in Nat /\ AddrSpace \in Nat
      BY DEF Geometry
    <3>2. base + n < AddrSpace => (base + n) % AddrSpace = base + n
      BY <1>1, <3>1
    <3>3. Fits(base, n)
      BY <1>1, <1>4, <3>1, <3>2 DEF Fits, uint32
    <3> QED BY <1>1, <1>4, <3>3, ErasesRange
  <2> QED BY Zenon, <1>2, <1>4, <2>1
<1>5. CASE WEL \in d.sr1 /\ ~(uint32(base + n) <= FlashSize)
  BY Zenon, <1>2, <1>5, Refuses
<1> QED BY Zenon, <1>3, <1>4, <1>5

LEMMA PagePrograms ==
  ASSUME Geometry, NEW d, Good(d), NEW addr \in Nat, NEW len, NEW ok \in BOOLEAN
  PROVE  Sound(d, page_program(d, addr, len, ok))
<1> DEFINE n == Min2(IF len = 0 THEN Len(d.buf) ELSE len, PageSize)
           base == addr - (addr % PageSize)
           f == programmed(d.flash, base, addr % PageSize, SubSeq(d.buf, 1, n))
           w == blk_write(sync_xip([d EXCEPT !.flash = f], base, PageSize), base, PageSize, ok)
<1>1. PageSize \in Nat \ {0} /\ FlashSize \in Nat /\ \A a \in Cells : a - (a % PageSize) + PageSize <= FlashSize
  BY DEF Geometry
<1>2. base \in Nat /\ PageSize \in Nat
  BY <1>1
<1>3. d.flash \in [Cells -> Byte]
  BY Zenon DEF Good, States
<1>4. f \in [Cells -> Byte] /\ \A a \in Cells : a \notin base .. base + PageSize - 1 => f[a] = d.flash[a]
  <2> DEFINE g(a) == IF a \in base .. base + PageSize - 1 /\ ((a - base - (addr % PageSize)) % PageSize) + 1 <= Len(SubSeq(d.buf, 1, n))
                       THEN d.flash[a] \cap SubSeq(d.buf, 1, n)[((a - base - (addr % PageSize)) % PageSize) + 1] ELSE d.flash[a]
  <2>1. f = [a \in Cells |-> g(a)]
    BY Zenon, <1>3 DEF programmed
  <2>2. \A a \in Cells : g(a) \in Byte /\ (a \notin base .. base + PageSize - 1 => g(a) = d.flash[a])
    <3> TAKE a \in Cells
    <3>1. d.flash[a] \in Byte
      BY Zenon, <1>3
    <3>2. \A z : d.flash[a] \cap z \in Byte
      BY Zenon, <3>1 DEF Byte
    <3> QED BY Zenon, <3>1, <3>2
  <2> HIDE DEF g
  <2> QED BY Zenon, <2>1, <2>2
<1>5. page_program(d, addr, len, ok) = [IF addr >= FlashSize \/ WEL \notin d.sr1 THEN d ELSE w EXCEPT !.sr1 = @ \ {WEL}]
  BY Zenon DEF page_program
<1> HIDE DEF f
<1>6. CASE addr >= FlashSize \/ WEL \notin d.sr1
  <2>1. page_program(d, addr, len, ok) = [d EXCEPT !.sr1 = @ \ {WEL}]
    BY Zenon, <1>5, <1>6
  <2> QED BY Zenon, <2>1, Refuses
<1>7. CASE ~(addr >= FlashSize) /\ WEL \in d.sr1
  <2>1. page_program(d, addr, len, ok) = [w EXCEPT !.sr1 = @ \ {WEL}]
    BY Zenon, <1>5, <1>7
  <2>2. addr \in Cells
    BY <1>1, <1>7 DEF Cells
  <2>3. Fits(base, PageSize)
    BY Zenon, <1>1, <2>2 DEF Fits
  <2> HIDE DEF base
  <2>4. Sound(d, [w EXCEPT !.sr1 = @ \ {WEL}])
    BY <1>2, <1>4, <1>7, <2>3, Changes
  <2> QED BY Zenon, <2>1, <2>4
<1> QED BY Zenon, <1>6, <1>7

LEMMA SecurityCommands ==
  ASSUME NEW d, Good(d)
  PROVE  Sound(d, sec_reg_erase(d)) /\ Sound(d, sec_reg_program(d))
<1> DEFINE r == d.sr1 \ {WEL}
           m == IF LB \in d.sr2 THEN d.sec ELSE FF
           p == IF WEL \notin d.sr1 \/ LB \in d.sr2 THEN d.sec ELSE d.sec \cap d.buf[1]
<1>1. d \in States
  BY Zenon DEF Good
<1>2. r \in Byte /\ m \in Byte /\ p \in Byte
  <2>1. d.sr1 \in Byte /\ d.sec \in Byte
    BY Zenon, <1>1 DEF States
  <2>2. \A x, z : x \in Byte => x \cap z \in Byte /\ x \ z \in Byte
    BY Zenon DEF Byte
  <2> QED BY Zenon, <2>1, <2>2, Bits
<1>3. /\ sec_reg_erase(d) = IF WEL \notin d.sr1 THEN d ELSE [d EXCEPT !.sec = m, !.sr1 = r]
      /\ sec_reg_program(d) = [d EXCEPT !.sec = p, !.sr1 = r]
  BY Zenon DEF sec_reg_erase, sec_reg_program, sec_reg_locked
<1>4. (LB \in d.sr2 => m = d.sec) /\ (LB \in d.sr2 => p = d.sec)
  BY Zenon
<1> HIDE DEF r, m, p
<1>5. Sound(d, [d EXCEPT !.sec = m, !.sr1 = r])
  BY <1>2, <1>4, Secures
<1>6. Sound(d, [d EXCEPT !.sec = p, !.sr1 = r])
  BY <1>2, <1>4, Secures
<1> QED BY Zenon, <1>3, <1>5, <1>6, Stays

(* The controller's buffer holds bytes.                                    *)
LEMMA Stores ==
  ASSUME Geometry, NEW d, Good(d)
  PROVE  /\ \A bytes \in Seq(Byte) : Sound(d, store_data(d, bytes))
         /\ \A len : \A addr \in Nat : Sound(d, read_buffer(d, addr, len))
<1>1. d.buf \in [1 .. PageSize -> Byte] /\ d.flash \in [Cells -> Byte]
  BY Zenon DEF Good, States
<1>2. PageSize \in Nat /\ FlashSize \in Nat
  BY DEF Geometry
<1>3. ASSUME NEW bytes \in Seq(Byte) PROVE Sound(d, store_data(d, bytes))
  <2> DEFINE b == [i \in DOMAIN d.buf |-> IF i <= Len(bytes) THEN bytes[i] ELSE FF]
  <2>1. ASSUME NEW i \in 1 .. PageSize, i <= Len(bytes) PROVE bytes[i] \in Byte
    BY <1>2, <2>1
  <2>2. b \in [1 .. PageSize -> Byte]
    BY Zenon, <1>1, <2>1, Bits
  <2>3. store_data(d, bytes) = [d EXCEPT !.buf = b]
    BY Zenon DEF store_data
  <2> HIDE DEF b
  <2>4. Sound(d, [d EXCEPT !.buf = b])
    BY <2>2, Fills
  <2> QED BY Zenon, <2>3, <2>4
<1>4. ASSUME NEW addr \in Nat, NEW len PROVE Sound(d, read_buffer(d, addr, len))
  <2> DEFINE n == IF len = 0 THEN Len(d.buf) ELSE Min2(len, Len(d.buf))
             b == [i \in DOMAIN d.buf |-> IF i <= n /\ addr + i - 1 < FlashSize THEN d.flash[addr + i - 1] ELSE FF]
  <2>1. ASSUME NEW i \in 1 .. PageSize, addr + i - 1 < FlashSize PROVE d.flash[addr + i - 1] \in Byte
    <3>1. addr + i - 1 \in Cells
      BY <1>2, <2>1 DEF Cells
    <3> QED BY Zenon, <1>1, <3>1
  <2>2. b \in [1 .. PageSize -> Byte]
    <3> HIDE DEF n
    <3> QED BY Zenon, <1>1, <2>1, Bits
  <2>3. read_buffer(d, addr, len) = [d EXCEPT !.buf = b]
    BY Zenon DEF read_buffer
  <2> HIDE DEF b
  <2>4. Sound(d, [d EXCEPT !.buf = b])
    BY <2>2, Fills
  <2> QED BY Zenon, <2>3, <2>4
<1> QED BY Zenon, <1>3, <1>4

(* A reset by command takes the lock bits from where they are permanent.   *)
LEMMA SoftResets ==
  ASSUME Geometry, NEW d, Good(d)
  PROVE  Sound(d, reset_register_defaults(soft_reset(d)))
<1> DEFINE r2 == d.sr2_nv \cup {QE}
           b == [i \in DOMAIN d.buf |-> {}]
           n == restore_status_from_nv(d)
           c == soft_reset(d)
           e == reset_register_defaults(c)
<1>1. /\ d \in States /\ d.buf \in [1 .. PageSize -> Byte] /\ d.sr1_nv \in Byte /\ d.sr2_nv \in Byte
      /\ d.off \in Nat /\ d.drift \in BOOLEAN
  BY Zenon DEF Good, States
<1>2. r2 \in Byte /\ b \in [1 .. PageSize -> Byte] /\ ResetOffset \in Nat
  <2>1. r2 \in Byte
    BY Zenon, <1>1, Bits DEF Byte
  <2>2. b \in [1 .. PageSize -> Byte]
    BY Zenon, <1>1, Bits
  <2> QED BY Zenon, <2>1, <2>2 DEF Geometry
<1>3. LB \in d.sr2_nv => LB \in r2
  BY Zenon
<1>3a. LB \in r2 => LB \in d.sr2_nv
  BY Zenon, Bits
<1> HIDE DEF r2
<1>4. n = [d EXCEPT !.sr1 = d.sr1_nv, !.sr2 = r2]
  BY Zenon DEF restore_status_from_nv, r2
<1>5. n \in States /\ n.sr2 = r2 /\ n.sr2_nv = d.sr2_nv /\ n.sec = d.sec /\ n.buf = d.buf /\ Same(d, n)
  BY Zenon, <1>1, <1>2, <1>4 DEF States, Same
<1> HIDE DEF n
<1>6. c = [n EXCEPT !.volatile_wel = FALSE, !.powered_down = FALSE, !.reset_armed = FALSE, !.buf = b]
  BY Zenon, <1>5 DEF soft_reset, n
<1> HIDE DEF b, c
<1>7. /\ c \in States /\ c.sr2 = r2 /\ c.sr2_nv = d.sr2_nv /\ c.sec = d.sec
      /\ c.flash = n.flash /\ c.blk = n.blk /\ c.off = n.off /\ c.view = n.view /\ c.drift = n.drift /\ c.lost = n.lost
  BY Zenon, <1>2, <1>5, <1>6 DEF States
<1>8. Same(d, c)
  BY Zenon, <1>5, <1>7 DEF Same
<1>9. Good(c)
  <2>1. Keeps(d, c) /\ (LB \in c.sr2_nv => LB \in c.sr2)
    BY Zenon, <1>3, <1>7 DEF Keeps
  <2> QED BY Zenon, <1>7, <1>8, <2>1, Untouched DEF Sound
<1> DEFINE moved == c.drift \/ c.off # ResetOffset
<1>10. e = [c EXCEPT !.off = ResetOffset, !.drift = moved] /\ moved \in BOOLEAN
  BY Zenon, <1>1, <1>8 DEF reset_register_defaults, Same
<1>11. ~moved => ~c.drift /\ c.off = ResetOffset
  BY Zenon
<1> HIDE DEF moved, e
<1>12. /\ e \in States /\ e.sr2 = r2 /\ e.sr2_nv = d.sr2_nv /\ e.sec = d.sec
       /\ e.off = ResetOffset /\ e.drift = moved
       /\ e.flash = c.flash /\ e.blk = c.blk /\ e.view = c.view /\ e.lost = c.lost
  BY Zenon, <1>2, <1>7, <1>10 DEF States
<1>13. ~e.drift => e.view = window(e.flash, e.off)
  BY Zenon, <1>9, <1>11, <1>12 DEF Good
<1>14. \A a \in Cells : e.blk[a] # e.flash[a] => a \in e.lost
  BY Zenon, <1>9, <1>12 DEF Good
<1>15. Good(e) /\ Keeps(d, e)
  BY Zenon, <1>3, <1>12, <1>13, <1>14 DEF Good, Keeps
<1>16. Guarded(d, e)
  BY Zenon, <1>8, <1>12 DEF Guarded, Same
<1> QED BY Zenon, <1>15, <1>16 DEF Sound, e, c

Identity == {"ReadSR1", "ReadSR2", "ReadSR3", "ReadId", "ReadUid", "ReadMfg"}
Commands == Plain \cup {"WriteSR", "WriteSR2", "Read", "PageProgram", "Erase", "BlockErase", "ChipErase"}

LEMMA Executes ==
  ASSUME Geometry, Good(s), NEW cmd \in Commands, NEW addr \in Nat, NEW len, NEW ok \in BOOLEAN
  PROVE  Sound(s, execute_cmd(s, cmd, addr, len, ok))
<1> DEFINE r == s.reset_armed /\ cmd = "Reset"
           c == [s EXCEPT !.reset_armed = r]
           R == execute_cmd(s, cmd, addr, len, ok)
           awake == ~(s.powered_down /\ cmd # "RelPd")
<1> SUFFICES Sound(s, R)
  OBVIOUS
<1>1. s \in States /\ r \in BOOLEAN
  BY Zenon DEF Good
<1>2. Good(c) /\ \A e : Sound(c, e) => Sound(s, e)
  <2> HIDE DEF r
  <2> QED BY <1>1, Disarmed
<1>3. /\ c \in States /\ c.sr1 \in Byte /\ c.volatile_wel \in BOOLEAN /\ c.powered_down \in BOOLEAN
      /\ c.reset_armed \in BOOLEAN
  <2> HIDE DEF c
  <2> QED BY Zenon, <1>2 DEF Good, States
<1>4. CASE awake /\ cmd = "WriteEnable"
  <2>1. R = [c EXCEPT !.sr1 = @ \cup {WEL}, !.volatile_wel = FALSE]
    BY <1>4 DEF execute_cmd
  <2>2. c.sr1 \cup {WEL} \in Byte
    BY Zenon, <1>3, Bits DEF Byte
  <2>3. [c EXCEPT !.sr1 = @ \cup {WEL}, !.volatile_wel = FALSE] = [c EXCEPT !.sr1 = c.sr1 \cup {WEL}, !.volatile_wel = FALSE, !.powered_down = c.powered_down, !.reset_armed = c.reset_armed]
    BY Zenon, <1>3, <2>2 DEF States
  <2> HIDE DEF c, R
  <2>4. Sound(c, [c EXCEPT !.sr1 = c.sr1 \cup {WEL}, !.volatile_wel = FALSE, !.powered_down = c.powered_down, !.reset_armed = c.reset_armed])
    BY <1>2, <1>3, <2>2, Enables
  <2> QED BY Zenon, <1>2, <2>1, <2>3, <2>4
<1>5. CASE awake /\ cmd = "WriteEnableVolatile"
  <2>1. R = [c EXCEPT !.volatile_wel = TRUE]
    BY <1>5 DEF execute_cmd
  <2>2. c.sr1 \in Byte
    BY Zenon, <1>3, Bits DEF Byte
  <2>3. [c EXCEPT !.volatile_wel = TRUE] = [c EXCEPT !.sr1 = c.sr1, !.volatile_wel = TRUE, !.powered_down = c.powered_down, !.reset_armed = c.reset_armed]
    BY Zenon, <1>3, <2>2 DEF States
  <2> HIDE DEF c, R
  <2>4. Sound(c, [c EXCEPT !.sr1 = c.sr1, !.volatile_wel = TRUE, !.powered_down = c.powered_down, !.reset_armed = c.reset_armed])
    BY <1>2, <1>3, <2>2, Enables
  <2> QED BY Zenon, <1>2, <2>1, <2>3, <2>4
<1>6. CASE awake /\ cmd = "WriteDisable"
  <2>1. R = [c EXCEPT !.sr1 = @ \ {WEL}, !.volatile_wel = FALSE]
    BY <1>6 DEF execute_cmd
  <2>2. c.sr1 \ {WEL} \in Byte
    BY Zenon, <1>3, Bits DEF Byte
  <2>3. [c EXCEPT !.sr1 = @ \ {WEL}, !.volatile_wel = FALSE] = [c EXCEPT !.sr1 = c.sr1 \ {WEL}, !.volatile_wel = FALSE, !.powered_down = c.powered_down, !.reset_armed = c.reset_armed]
    BY Zenon, <1>3, <2>2 DEF States
  <2> HIDE DEF c, R
  <2>4. Sound(c, [c EXCEPT !.sr1 = c.sr1 \ {WEL}, !.volatile_wel = FALSE, !.powered_down = c.powered_down, !.reset_armed = c.reset_armed])
    BY <1>2, <1>3, <2>2, Enables
  <2> QED BY Zenon, <1>2, <2>1, <2>3, <2>4
<1>7. CASE awake /\ cmd = "RelPd"
  <2>1. R = [c EXCEPT !.powered_down = FALSE]
    BY <1>7 DEF execute_cmd
  <2>2. c.sr1 \in Byte
    BY Zenon, <1>3, Bits DEF Byte
  <2>3. [c EXCEPT !.powered_down = FALSE] = [c EXCEPT !.sr1 = c.sr1, !.volatile_wel = c.volatile_wel, !.powered_down = FALSE, !.reset_armed = c.reset_armed]
    BY Zenon, <1>3, <2>2 DEF States
  <2> HIDE DEF c, R
  <2>4. Sound(c, [c EXCEPT !.sr1 = c.sr1, !.volatile_wel = c.volatile_wel, !.powered_down = FALSE, !.reset_armed = c.reset_armed])
    BY <1>2, <1>3, <2>2, Enables
  <2> QED BY Zenon, <1>2, <2>1, <2>3, <2>4
<1>8. CASE awake /\ cmd = "PowerDown"
  <2>1. R = [c EXCEPT !.powered_down = TRUE]
    BY <1>8 DEF execute_cmd
  <2>2. c.sr1 \in Byte
    BY Zenon, <1>3, Bits DEF Byte
  <2>3. [c EXCEPT !.powered_down = TRUE] = [c EXCEPT !.sr1 = c.sr1, !.volatile_wel = c.volatile_wel, !.powered_down = TRUE, !.reset_armed = c.reset_armed]
    BY Zenon, <1>3, <2>2 DEF States
  <2> HIDE DEF c, R
  <2>4. Sound(c, [c EXCEPT !.sr1 = c.sr1, !.volatile_wel = c.volatile_wel, !.powered_down = TRUE, !.reset_armed = c.reset_armed])
    BY <1>2, <1>3, <2>2, Enables
  <2> QED BY Zenon, <1>2, <2>1, <2>3, <2>4
<1>9. CASE awake /\ cmd = "EnableReset"
  <2>1. R = [c EXCEPT !.reset_armed = TRUE]
    BY <1>9 DEF execute_cmd
  <2>2. c.sr1 \in Byte
    BY Zenon, <1>3, Bits DEF Byte
  <2>3. [c EXCEPT !.reset_armed = TRUE] = [c EXCEPT !.sr1 = c.sr1, !.volatile_wel = c.volatile_wel, !.powered_down = c.powered_down, !.reset_armed = TRUE]
    BY Zenon, <1>3, <2>2 DEF States
  <2> HIDE DEF c, R
  <2>4. Sound(c, [c EXCEPT !.sr1 = c.sr1, !.volatile_wel = c.volatile_wel, !.powered_down = c.powered_down, !.reset_armed = TRUE])
    BY <1>2, <1>3, <2>2, Enables
  <2> QED BY Zenon, <1>2, <2>1, <2>3, <2>4
<1>10. CASE awake /\ cmd = "WriteSR"
  <2>1. R = write_sr(c, len)
    BY <1>10 DEF execute_cmd
  <2> HIDE DEF c, R
  <2>2. Sound(c, write_sr(c, len))
    BY <1>2, StatusWrites
  <2> QED BY Zenon, <1>2, <2>1, <2>2
<1>11. CASE awake /\ cmd = "WriteSR2"
  <2>1. R = write_sr2(c, len)
    BY <1>11 DEF execute_cmd
  <2> HIDE DEF c, R
  <2>2. Sound(c, write_sr2(c, len))
    BY <1>2, StatusWrites
  <2> QED BY Zenon, <1>2, <2>1, <2>2
<1>12. CASE awake /\ cmd = "WriteSR3"
  <2>1. R = write_sr3(c)
    BY <1>12 DEF execute_cmd
  <2> HIDE DEF c, R
  <2>2. Sound(c, write_sr3(c))
    BY <1>2, StatusWrites
  <2> QED BY Zenon, <1>2, <2>1, <2>2
<1>13. CASE awake /\ cmd = "Read"
  <2>1. R = read_buffer(c, addr, len)
    BY <1>13 DEF execute_cmd
  <2> HIDE DEF c, R
  <2>2. Sound(c, read_buffer(c, addr, len))
    BY <1>2, Stores
  <2> QED BY Zenon, <1>2, <2>1, <2>2
<1>14. CASE awake /\ cmd = "PageProgram"
  <2>1. R = page_program(c, addr, len, ok)
    BY <1>14 DEF execute_cmd
  <2> HIDE DEF c, R
  <2>2. Sound(c, page_program(c, addr, len, ok))
    BY <1>2, PagePrograms
  <2> QED BY Zenon, <1>2, <2>1, <2>2
<1>15. CASE awake /\ cmd = "SecRegProgram"
  <2>1. R = sec_reg_program(c)
    BY <1>15 DEF execute_cmd
  <2> HIDE DEF c, R
  <2>2. Sound(c, sec_reg_program(c))
    BY <1>2, SecurityCommands
  <2> QED BY Zenon, <1>2, <2>1, <2>2
<1>16. CASE awake /\ cmd = "SecRegErase"
  <2>1. R = sec_reg_erase(c)
    BY <1>16 DEF execute_cmd
  <2> HIDE DEF c, R
  <2>2. Sound(c, sec_reg_erase(c))
    BY <1>2, SecurityCommands
  <2> QED BY Zenon, <1>2, <2>1, <2>2
<1>17. CASE awake /\ cmd = "Erase"
  <2> DEFINE size == CHOOSE n \in EraseSizes : \A m \in EraseSizes : n <= m
  <2>1. R = erase(c, addr, size, ok)
    BY <1>17 DEF execute_cmd
  <2>2. size \in Nat \ {0} /\ FlashSize + size <= AddrSpace
    <3>1. /\ EraseSizes \subseteq Nat \ {0}
          /\ \E n \in EraseSizes : \A m \in EraseSizes : n <= m
      BY Zenon DEF Geometry
    <3>2. size \in EraseSizes
      BY Zenon, <3>1
    <3>3. \A n \in EraseSizes : FlashSize + n <= AddrSpace
      BY Zenon DEF Geometry
    <3> QED BY Zenon, <3>1, <3>2, <3>3
  <2> HIDE DEF c, R, size
  <2>3. Sound(c, erase(c, addr, size, ok))
    BY <1>2, <2>2, Erases
  <2> QED BY Zenon, <1>2, <2>1, <2>3
<1>18. CASE awake /\ cmd = "BlockErase"
  <2> DEFINE size == CHOOSE n \in EraseSizes : \A m \in EraseSizes : m <= n
  <2>1. R = erase(c, addr, size, ok)
    BY <1>18 DEF execute_cmd
  <2>2. size \in Nat \ {0} /\ FlashSize + size <= AddrSpace
    <3>1. /\ EraseSizes \subseteq Nat \ {0}
          /\ \E n \in EraseSizes : \A m \in EraseSizes : m <= n
      BY Zenon DEF Geometry
    <3>2. size \in EraseSizes
      BY Zenon, <3>1
    <3>3. \A n \in EraseSizes : FlashSize + n <= AddrSpace
      BY Zenon DEF Geometry
    <3> QED BY Zenon, <3>1, <3>2, <3>3
  <2> HIDE DEF c, R, size
  <2>3. Sound(c, erase(c, addr, size, ok))
    BY <1>2, <2>2, Erases
  <2> QED BY Zenon, <1>2, <2>1, <2>3
<1>19. CASE awake /\ cmd \in Identity
  <2>1. R = store_data(c, Read(cmd))
    BY <1>19 DEF execute_cmd, Identity
  <2>2. Read(cmd) \in Seq(Byte)
    <3>1. s.sr1 \in Byte /\ s.sr2 \in Byte
      BY Zenon, <1>1 DEF States
    <3>2. {0} \in Byte /\ {1} \in Byte /\ {3} \in Byte /\ {0, 1} \in Byte
      BY DEF Byte, FF
    <3> DEFINE table == [ReadSR1 |-> <<s.sr1>>, ReadSR2 |-> <<s.sr2>>, ReadSR3 |-> <<{}>>,
              ReadId |-> <<FF, {}, {3}>>, ReadUid |-> <<{0}, {1}>>, ReadMfg |-> <<FF, {0, 1}>>]
    <3>3. \A x, y, z \in Byte : <<x>> \in Seq(Byte) /\ <<x, y>> \in Seq(Byte) /\ <<x, y, z>> \in Seq(Byte)
      OBVIOUS
    <3>4. /\ table["ReadSR1"] \in Seq(Byte) /\ table["ReadSR2"] \in Seq(Byte) /\ table["ReadSR3"] \in Seq(Byte)
          /\ table["ReadId"] \in Seq(Byte) /\ table["ReadUid"] \in Seq(Byte) /\ table["ReadMfg"] \in Seq(Byte)
      <4> HIDE DEF Byte
      <4> QED BY Zenon, <3>1, <3>2, <3>3, Bits
    <3>5. Read(cmd) = table[cmd]
      BY Zenon DEF Read
    <3> HIDE DEF table
    <3> QED BY Zenon, <1>19, <3>4, <3>5 DEF Identity
  <2> HIDE DEF c, R
  <2>3. Sound(c, store_data(c, Read(cmd)))
    BY <1>2, <2>2, Stores
  <2> QED BY Zenon, <1>2, <2>1, <2>3
<1>20. CASE awake /\ cmd = "SecRegRead"
  <2>1. R = store_data(c, <<s.sec, s.sec>>)
    BY <1>20 DEF execute_cmd
  <2>2. <<s.sec, s.sec>> \in Seq(Byte)
    <3>1. s.sec \in Byte
      BY Zenon, <1>1 DEF States
    <3> QED BY <3>1
  <2> HIDE DEF c, R
  <2>3. Sound(c, store_data(c, <<s.sec, s.sec>>))
    BY <1>2, <2>2, Stores
  <2> QED BY Zenon, <1>2, <2>1, <2>3
<1>21. CASE awake /\ cmd = "ChipErase"
  <2>1. R = IF WEL \in s.sr1 THEN erase_range(c, 0, FlashSize, ok) ELSE c
    BY <1>21 DEF execute_cmd
  <2>2. c.sr1 = s.sr1
    BY Zenon, <1>1 DEF States
  <2> HIDE DEF c, R
  <2>3. CASE WEL \in s.sr1
    <3>1. FlashSize \in Nat /\ Fits(0, FlashSize)
      BY DEF Geometry, Fits
    <3>2. Sound(c, erase_range(c, 0, FlashSize, ok))
      BY <1>2, <2>2, <2>3, <3>1, ErasesRange
    <3> QED BY Zenon, <1>2, <2>1, <2>3, <3>2
  <2>4. CASE WEL \notin s.sr1
    BY Zenon, <1>2, <2>1, <2>4, Stays
  <2> QED BY Zenon, <2>3, <2>4
<1>22. CASE awake /\ cmd = "Reset"
  <2>1. R = IF s.reset_armed THEN reset_register_defaults(soft_reset(s)) ELSE s
    BY <1>22 DEF execute_cmd
  <2> HIDE DEF R
  <2> QED BY Zenon, <2>1, Stays, SoftResets
<1>23. CASE ~awake
  <2>1. R = s
    BY <1>23 DEF execute_cmd
  <2> HIDE DEF R
  <2> QED BY Zenon, <2>1, Stays
<1> HIDE DEF R, awake
<1> QED BY Zenon, <1>4, <1>5, <1>6, <1>7, <1>8, <1>9, <1>10, <1>11, <1>12, <1>13, <1>14, <1>15, <1>16, <1>17, <1>18, <1>19, <1>20, <1>21, <1>22, <1>23 DEF Commands, Identity, Plain
(* Whatever the window showed before, copying all of it makes it right.    *)
(* Whatever the window showed before, copying all of it makes it right.    *)
LEMMA Shows ==
  ASSUME Geometry, NEW d \in States, \A a \in Cells : d.blk[a] # d.flash[a] => a \in d.lost,
         LB \in d.sr2_nv => LB \in d.sr2
  PROVE  /\ Good(refresh_xip_view(d))
         /\ refresh_xip_view(d).sec = d.sec /\ refresh_xip_view(d).sr2 = d.sr2 /\ refresh_xip_view(d).sr2_nv = d.sr2_nv
<1> DEFINE v == window(d.flash, d.off)
           e == [d EXCEPT !.view = v, !.drift = FALSE]
<1>1. d.flash \in [Cells -> Byte] /\ d.off \in Nat
  BY Zenon DEF States
<1>2. v \in [Window -> Byte]
  BY <1>1, Windows
<1>3. refresh_xip_view(d) = e
  BY Zenon DEF refresh_xip_view
<1> HIDE DEF v
<1>4. /\ e \in States /\ e.view = v /\ e.flash = d.flash /\ e.blk = d.blk /\ e.off = d.off /\ e.lost = d.lost
      /\ e.sec = d.sec /\ e.sr2 = d.sr2 /\ e.sr2_nv = d.sr2_nv
  BY Zenon, <1>2 DEF States
<1> HIDE DEF e
<1>5. e.view = window(e.flash, e.off)
  BY Zenon, <1>4 DEF v
<1>6. \A a \in Cells : e.blk[a] # e.flash[a] => a \in e.lost
  <2>1. e.flash = d.flash /\ e.blk = d.blk /\ e.lost = d.lost
    BY Zenon, <1>4
  <2> QED BY <2>1, SMT
<1>7. Good(e)
  BY Zenon, <1>4, <1>5, <1>6 DEF Good
<1> QED BY Zenon, <1>3, <1>4, <1>7

LEMMA Moves ==
  ASSUME Geometry, NEW d, Good(d), NEW off \in Nat
  PROVE  Good(set_flash_image_offset(d, off)) /\ Keeps(d, set_flash_image_offset(d, off))
<1> DEFINE c == [d EXCEPT !.off = off]
<1>1. d \in States
  BY Zenon DEF Good
<1>2. /\ c \in States /\ c.flash = d.flash /\ c.blk = d.blk /\ c.lost = d.lost
      /\ c.sec = d.sec /\ c.sr2 = d.sr2 /\ c.sr2_nv = d.sr2_nv
  BY Zenon, <1>1 DEF States
<1> HIDE DEF c
<1>3. /\ \A a \in Cells : c.blk[a] # c.flash[a] => a \in c.lost
      /\ LB \in c.sr2_nv => LB \in c.sr2
  <2>1. c.flash = d.flash /\ c.blk = d.blk /\ c.lost = d.lost
    BY Zenon, <1>2
  <2>2. \A a \in Cells : d.blk[a] # d.flash[a] => a \in d.lost
    BY Zenon DEF Good
  <2>3. \A a \in Cells : c.blk[a] # c.flash[a] => a \in c.lost
    BY ONLY <2>1, <2>2, SMT
  <2> QED BY Zenon, <1>2, <2>3 DEF Good
<1>4. /\ Good(refresh_xip_view(c))
      /\ refresh_xip_view(c).sec = c.sec /\ refresh_xip_view(c).sr2 = c.sr2 /\ refresh_xip_view(c).sr2_nv = c.sr2_nv
  BY <1>2, <1>3, Shows
<1>5. Keeps(d, refresh_xip_view(c))
  BY Zenon, <1>2, <1>3, <1>4 DEF Keeps
<1> QED BY Zenon, <1>4, <1>5 DEF set_flash_image_offset, c

LEMMA Resets ==
  ASSUME Geometry, NEW d, Good(d)
  PROVE  Good(reset(d))
<1> DEFINE moved == d.drift \/ d.off # ResetOffset
           c == [d EXCEPT !.off = ResetOffset, !.drift = moved]
           n == [c EXCEPT !.sr1_nv = {}, !.sr2_nv = {QE}]
           r2 == {QE} \cup {QE}
           p == [n EXCEPT !.sr1 = {}, !.sr2 = r2]
           q == [p EXCEPT !.volatile_wel = FALSE, !.powered_down = FALSE, !.reset_armed = FALSE]
<1>1. d \in States /\ moved \in BOOLEAN /\ ResetOffset \in Nat
  BY Zenon DEF Good, Geometry
<1>2. reset_register_defaults(d) = c
  BY Zenon DEF reset_register_defaults
<1> HIDE DEF moved
<1>3. c \in States /\ c.flash = d.flash /\ c.blk = d.blk /\ c.lost = d.lost
  BY Zenon, <1>1 DEF States
<1> HIDE DEF c
<1>4. n \in States /\ n.flash = d.flash /\ n.blk = d.blk /\ n.lost = d.lost /\ n.sr1_nv = {} /\ n.sr2_nv = {QE}
  BY Zenon, <1>3, Bits DEF States
<1>5. restore_status_from_nv(n) = p /\ r2 \in Byte
  <2> HIDE DEF n
  <2>1. r2 = {QE}
    BY Zenon
  <2> QED BY Zenon, <1>4, <2>1, Bits DEF restore_status_from_nv
<1> HIDE DEF n, r2
<1>6. p \in States /\ p.flash = d.flash /\ p.blk = d.blk /\ p.lost = d.lost /\ p.sr1_nv = {} /\ p.sr2_nv = {QE}
  BY Zenon, <1>4, <1>5, Bits DEF States
<1> HIDE DEF p
<1>7. flash_power_on_reset(c) = q
  BY Zenon, <1>5 DEF flash_power_on_reset, n
<1>8. q \in States /\ q.flash = d.flash /\ q.blk = d.blk /\ q.lost = d.lost /\ q.sr1_nv = {} /\ q.sr2_nv = {QE}
  BY Zenon, <1>6 DEF States
<1> HIDE DEF q
<1> DEFINE t == [q EXCEPT !.sr1 = {}, !.sr2 = r2]
           b == [i \in DOMAIN t.buf |-> {}]
           u == [t EXCEPT !.volatile_wel = FALSE, !.powered_down = FALSE, !.reset_armed = FALSE, !.buf = b]
<1>9. restore_status_from_nv(q) = t
  BY Zenon, <1>8 DEF restore_status_from_nv, r2
<1>10. t \in States /\ t.flash = d.flash /\ t.blk = d.blk /\ t.lost = d.lost /\ t.sr2_nv = {QE}
  BY Zenon, <1>5, <1>8, Bits DEF States
<1> HIDE DEF t
<1>11. soft_reset(q) = u
  BY Zenon, <1>9 DEF soft_reset
<1>12. b \in [1 .. PageSize -> Byte]
  <2>1. t.buf \in [1 .. PageSize -> Byte]
    BY Zenon, <1>10 DEF States
  <2> QED BY Zenon, <2>1, Bits
<1> HIDE DEF b
<1>13. u \in States /\ u.flash = d.flash /\ u.blk = d.blk /\ u.lost = d.lost /\ u.sr2_nv = {QE}
  BY Zenon, <1>10, <1>12 DEF States
<1> HIDE DEF u
<1>14. /\ \A a \in Cells : u.blk[a] # u.flash[a] => a \in u.lost
       /\ LB \in u.sr2_nv => LB \in u.sr2
  <2>1. u.flash = d.flash /\ u.blk = d.blk /\ u.lost = d.lost
    BY Zenon, <1>13
  <2>2. \A a \in Cells : d.blk[a] # d.flash[a] => a \in d.lost
    BY Zenon DEF Good
  <2>3. \A a \in Cells : u.blk[a] # u.flash[a] => a \in u.lost
    BY ONLY <2>1, <2>2, SMT
  <2> QED BY Zenon, <1>13, <2>3, Bits
<1>15. Good(refresh_xip_view(u))
  BY <1>13, <1>14, Shows
<1> QED BY Zenon, <1>2, <1>7, <1>11, <1>15 DEF reset

(* The boot code's writes do not go through the chip's commands.           *)
LEMMA BootWrites ==
  ASSUME Geometry, NEW d, Good(d), NEW addr \in Nat, NEW ok \in BOOLEAN
  PROVE  Good(write_flash(d, addr, <<{}, {1}>>, ok)) /\ Keeps(d, write_flash(d, addr, <<{}, {1}>>, ok))
<1> DEFINE data == <<{}, {1}>>
           n == Min2(Len(data), FlashSize - addr)
           f == [a \in Cells |-> IF a \in addr .. addr + n - 1 THEN data[a - addr + 1] ELSE d.flash[a]]
           w == blk_write(sync_xip([d EXCEPT !.flash = f], addr, n), addr, n, ok)
<1>1. d.flash \in [Cells -> Byte] /\ (LB \in d.sr2_nv => LB \in d.sr2)
  BY Zenon DEF Good, States
<1>2. write_flash(d, addr, data, ok) = IF addr >= FlashSize THEN d ELSE w
  BY Zenon DEF write_flash
<1>3. CASE addr >= FlashSize
  <2>1. write_flash(d, addr, data, ok) = d
    BY Zenon, <1>2, <1>3
  <2> QED BY Zenon, <1>1, <2>1 DEF Keeps
<1>4. CASE ~(addr >= FlashSize)
  <2>1. FlashSize \in Nat /\ Len(data) = 2 /\ data[1] \in Byte /\ data[2] \in Byte
    BY DEF Geometry, Byte, FF
  <2> HIDE DEF data
  <2>2. n \in Nat /\ n <= 2 /\ addr + n <= FlashSize
    BY <1>4, <2>1 DEF Min2
  <2> HIDE DEF n
  <2>8. Fits(addr, n)
    BY <2>2 DEF Fits
  <2>3. ASSUME NEW a \in Cells, a \in addr .. addr + n - 1 PROVE data[a - addr + 1] \in Byte
    <3>1. a - addr + 1 = 1 \/ a - addr + 1 = 2
      BY <2>1, <2>2, <2>3 DEF Cells
    <3> QED BY Zenon, <2>1, <3>1
  <2>4. f \in [Cells -> Byte] /\ \A a \in Cells : a \notin addr .. addr + n - 1 => f[a] = d.flash[a]
    BY Zenon, <1>1, <2>3
  <2> HIDE DEF f
  <2>5. Good(w) /\ w.sec = d.sec /\ w.sr2 = d.sr2 /\ w.sr2_nv = d.sr2_nv
    BY <2>2, <2>4, <2>8, Written
  <2> HIDE DEF w
  <2>6. write_flash(d, addr, data, ok) = w
    BY Zenon, <1>2, <1>4
  <2>7. Keeps(d, w)
    BY Zenon, <1>1, <2>5 DEF Keeps
  <2> QED BY Zenon, <2>5, <2>6, <2>7 DEF data
<1> QED BY Zenon, <1>3, <1>4

LEMMA InitGood ==
  ASSUME Geometry, Init PROVE Good(s)
<1> DEFINE erased == [a \in Cells |-> FF]
           v == window(erased, ResetOffset)
           empty == [i \in 1 .. PageSize |-> {}]
<1>1. erased \in [Cells -> Byte] /\ empty \in [1 .. PageSize -> Byte] /\ ResetOffset \in Nat
  BY Zenon, Bits DEF Geometry
<1>2. s = [flash |-> erased, blk |-> erased, off |-> ResetOffset,
           view |-> v, drift |-> FALSE, lost |-> {}, sec |-> FF,
           sr1 |-> {}, sr2 |-> {QE}, sr1_nv |-> {}, sr2_nv |-> {QE}, volatile_wel |-> FALSE,
           powered_down |-> FALSE, reset_armed |-> FALSE, buf |-> empty]
  BY Zenon DEF Init
<1> HIDE DEF erased, empty
<1>3. v \in [Window -> Byte]
  BY <1>1, Windows
<1> HIDE DEF v
<1>4. s \in States
  BY Zenon, <1>1, <1>2, <1>3, Bits DEF States
<1>5. s.view = window(s.flash, s.off) /\ s.blk = s.flash /\ s.sr2_nv = {QE}
  BY Zenon, <1>2 DEF v
<1> QED BY Zenon, <1>4, <1>5, Bits DEF Good

LEMMA NextGood ==
  ASSUME Geometry, Good(s), [Next]_vars
  PROVE  Good(s') /\ OneEnableOneChangeStep /\ LockIsPermanentStep
<1> DEFINE Goal == Good(s') /\ OneEnableOneChangeStep /\ LockIsPermanentStep
<1>1. ASSUME Sound(s, s') PROVE Goal
  BY Zenon, <1>1 DEF Sound, Keeps, Guarded, OneEnableOneChangeStep, LockIsPermanentStep
<1>2. ASSUME NEW cmd \in Commands, NEW addr \in Nat, NEW len, NEW ok \in BOOLEAN, Step(execute_cmd(s, cmd, addr, len, ok))
      PROVE  Sound(s, s')
  <2>1. s' = execute_cmd(s, cmd, addr, len, ok)
    BY Zenon, <1>2 DEF Step
  <2>2. Sound(s, execute_cmd(s, cmd, addr, len, ok))
    BY Executes
  <2> QED BY Zenon, <2>1, <2>2
<1>3. ASSUME Good(s'), Keeps(s, s'), ~(ProgramCommand \/ EraseCommand) PROVE Goal
  BY Zenon, <1>3 DEF Keeps, OneEnableOneChangeStep, LockIsPermanentStep
<1>4. Addrs \subseteq Nat /\ Offsets \subseteq Nat /\ 0 \in Nat
  BY DEF Geometry
<1>5. ASSUME ProgramCommand \/ EraseCommand PROVE Sound(s, s')
  <2>1. CASE ProgramCommand
    <3>1. PICK addr \in Addrs, len \in {0, 1}, ok \in BOOLEAN : Step(execute_cmd(s, "PageProgram", addr, len, ok))
      BY Zenon, <2>1 DEF ProgramCommand
    <3>2. addr \in Nat /\ "PageProgram" \in Commands
      BY Zenon, <1>4 DEF Commands
    <3> QED BY Zenon, <1>2, <3>1, <3>2
  <2>2. CASE EraseCommand
    <3>1. PICK cmd \in {"Erase", "BlockErase", "ChipErase"}, addr \in Addrs, ok \in BOOLEAN : Step(execute_cmd(s, cmd, addr, 0, ok))
      BY Zenon, <2>2 DEF EraseCommand
    <3>2. addr \in Nat /\ cmd \in Commands
      BY Zenon, <1>4 DEF Commands
    <3> QED BY Zenon, <1>2, <3>1, <3>2
  <2> QED BY Zenon, <1>5, <2>1, <2>2
<1>6. CASE Command
  <2>1. PICK cmd \in Plain : Step(execute_cmd(s, cmd, 0, 0, TRUE))
    BY Zenon, <1>6 DEF Command
  <2>2. cmd \in Commands
    BY Zenon DEF Commands
  <2> QED BY Zenon, <1>1, <1>2, <1>4, <2>1, <2>2
<1>7. CASE StatusCommand
  <2>1. PICK cmd \in {"WriteSR", "WriteSR2"}, len \in 0 .. 2 : Step(execute_cmd(s, cmd, 0, len, TRUE))
    BY Zenon, <1>7 DEF StatusCommand
  <2>2. cmd \in Commands
    BY Zenon DEF Commands
  <2> QED BY Zenon, <1>1, <1>2, <1>4, <2>1, <2>2
<1>8. CASE ReadCommand
  <2>1. PICK addr \in Addrs, len \in {0, 1} : Step(execute_cmd(s, "Read", addr, len, TRUE))
    BY Zenon, <1>8 DEF ReadCommand
  <2>2. addr \in Nat /\ "Read" \in Commands
    BY Zenon, <1>4 DEF Commands
  <2> QED BY Zenon, <1>1, <1>2, <2>1, <2>2
<1>9. CASE ProgramCommand \/ EraseCommand
  BY Zenon, <1>1, <1>5, <1>9
<1>10. CASE FillBuffer
  <2>1. PICK b \in Bytes : s' = [s EXCEPT !.buf = b]
    BY Zenon, <1>10 DEF FillBuffer, Step
  <2>2. b \in [1 .. PageSize -> Byte]
    BY Zenon DEF Geometry, Byte
  <2>3. Sound(s, [s EXCEPT !.buf = b])
    BY <2>2, Fills
  <2> QED BY Zenon, <1>1, <2>1, <2>3
<1>11. CASE SetOffset /\ ~(ProgramCommand \/ EraseCommand)
  <2>1. PICK off \in Offsets : s' = set_flash_image_offset(s, off)
    BY Zenon, <1>11 DEF SetOffset, Step
  <2>2. off \in Nat
    BY Zenon, <1>4
  <2>3. Good(set_flash_image_offset(s, off)) /\ Keeps(s, set_flash_image_offset(s, off))
    BY <2>2, Moves
  <2> QED BY Zenon, <1>3, <1>11, <2>1, <2>3
<1>12. CASE BootWrite /\ ~(ProgramCommand \/ EraseCommand)
  <2>1. PICK addr \in Addrs, ok \in BOOLEAN : s' = write_flash(s, addr, <<{}, {1}>>, ok)
    BY Zenon, <1>12 DEF BootWrite, Step
  <2>2. addr \in Nat
    BY Zenon, <1>4
  <2>3. Good(write_flash(s, addr, <<{}, {1}>>, ok)) /\ Keeps(s, write_flash(s, addr, <<{}, {1}>>, ok))
    BY <2>2, BootWrites
  <2> QED BY Zenon, <1>3, <1>12, <2>1, <2>3
<1>13. CASE Reset /\ ~(ProgramCommand \/ EraseCommand)
  <2>1. s' = reset(s)
    BY Zenon, <1>13 DEF Reset, Step
  <2>2. Good(s')
    BY Zenon, <2>1, Resets
  <2> QED BY Zenon, <1>13, <2>1, <2>2 DEF OneEnableOneChangeStep, LockIsPermanentStep
<1>14. CASE UNCHANGED vars
  <2>1. s' = s
    BY Zenon, <1>14 DEF vars
  <2> QED BY Zenon, <1>1, <2>1, Stays
<1> QED BY Zenon, <1>6, <1>7, <1>8, <1>9, <1>10, <1>11, <1>12, <1>13, <1>14 DEF Next

(* The windows in which the cores execute always show the flash, and the   *)
(* drive always holds it but for the bytes whose last write-back failed:   *)
(* for any flash of whole pages and any order and number of commands, boot *)
(* writes, changes of the image offset and resets.                         *)
THEOREM FlashAlwaysShown ==
  ASSUME Geometry
  PROVE  Spec => [](WindowMirrorsFlash /\ DriveMirrorsFlash)
<1>1. Init => Good(s)
  BY InitGood
<1>2. Good(s) /\ [Next]_vars => Good(s)'
  BY NextGood
<1>3. Good(s) => WindowMirrorsFlash /\ DriveMirrorsFlash
  BY Zenon DEF Good, WindowMirrorsFlash, DriveMirrorsFlash
<1> QED BY <1>1, <1>2, <1>3, PTL DEF Spec

(* One write enable is good for one change of the flash, and a permanent   *)
(* lock of a security register is not undone short of a power-on.          *)
THEOREM FlashAlwaysGuarded ==
  ASSUME Geometry
  PROVE  Spec => [][OneEnableOneChangeStep /\ LockIsPermanentStep]_vars
<1>1. Init => Good(s)
  BY InitGood
<1>2. Good(s) /\ [Next]_vars => Good(s)'
  BY NextGood
<1>3. Good(s) /\ [Next]_vars => [OneEnableOneChangeStep /\ LockIsPermanentStep]_vars
  BY NextGood
<1> QED BY <1>1, <1>2, <1>3, PTL DEF Spec
=============================================================================
