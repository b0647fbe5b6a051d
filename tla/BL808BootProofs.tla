--------------------------- MODULE BL808BootProofs ---------------------------
(***************************************************************************)
(* Proofs about the choice of what a reset boots (BL808Boot), for every    *)
(* set of options, headers and bound.                                      *)
(***************************************************************************)
EXTENDS BL808Boot, TLAPS

vars == <<s, ops>>

HeaderType == [ok : BOOLEAN, run : SUBSET (0 .. 2), mm : BOOLEAN]
EntryType == [fw : BOOLEAN, active : Nat, at : [{0, 1} -> 0 .. 2]]
TableType == [ok : BOOLEAN, age : Nat, entries : [1 .. 2 -> EntryType]]

Hdrs == [0 .. 2 -> HeaderType]
Tabs == [{0, 1} -> TableType]

----------------------------------------------------------------------------
\* The smallest of one or two numbers.
LEMMA FirstIn ==
  ASSUME NEW S \in SUBSET (1 .. 2), S # {}
  PROVE  First(S) \in S
<1>1. \E i \in S : \A j \in S : i <= j
  <2>1. \A j \in S : j = 1 \/ j = 2
    OBVIOUS
  <2>2. CASE 1 \in S
    <3>1. \A j \in S : 1 <= j
      BY <2>1
    <3>. QED
      BY Zenon, <2>2, <3>1
  <2>3. CASE 1 \notin S
    <3>1. PICK i \in S : TRUE
      OBVIOUS
    <3>2. \A j \in S : i <= j
      BY <2>1, <2>3
    <3>. QED
      BY Zenon, <3>2
  <2>. QED
    BY Zenon, <2>2, <2>3
<1>. QED
  BY Zenon, <1>1 DEF First

\* The slot taken of a usable entry starts M0.
LEMMA SlotStarts ==
  ASSUME NEW hdr \in Hdrs, NEW e \in EntryType, usable(hdr, e)
  PROVE  LET fell == ~ partition_entry_bootheader(hdr, e, e.active)
             k == IF fell THEN 1 - e.active ELSE e.active
         IN k \in {0, 1} /\ e.at[k] \in 1 .. 2 /\ partition_entry_bootheader(hdr, e, k)
<1>1. e.active \in {0, 1} /\ e.at \in [{0, 1} -> 0 .. 2]
  BY Zenon DEF usable, EntryType
<1>2. PICK k \in {0, 1} : partition_entry_bootheader(hdr, e, k)
  BY Zenon DEF usable
<1>3. \A j \in {0, 1} : partition_entry_bootheader(hdr, e, j) => e.at[j] \in 1 .. 2
  BY <1>1 DEF partition_entry_bootheader, Boot2
<1>. QED
  BY <1>1, <1>2, <1>3

\* A search in tab stops at entry i of copy c, whose slot k starts M0.
FallsTo(hdr, tab, c, i, k) ==
  LET es == tab[c].entries
  IN /\ tab[c].ok /\ usable(hdr, es[i]) /\ partition_entry_bootheader(hdr, es[i], k)
     /\ i = First({j \in DOMAIN es : usable(hdr, es[j])})

\* What a search that succeeds has found: a header that is whole, in a slot of
\* the first usable entry of the selected copy of the table.
FoundAs(hdr, tab, sel) ==
  LET es == tab[sel.copy].entries
  IN /\ sel.valid /\ sel.fell \in BOOLEAN
     /\ sel.copy \in {0, 1} /\ sel.i \in 1 .. 2 /\ sel.k \in {0, 1}
     /\ sel.hdr = es[sel.i].at[sel.k] /\ sel.hdr \in 1 .. 2
     /\ FallsTo(hdr, tab, sel.copy, sel.i, sel.k)

LEMMA Found ==
  ASSUME NEW hdr \in Hdrs, NEW tab \in Tabs
  PROVE  \/ select_partition_header(hdr, tab) = Unselected
         \/ FoundAs(hdr, tab, select_partition_header(hdr, tab))
<1>. DEFINE c == selected_copy(tab)
            es == tab[c].entries
            us == {i \in DOMAIN es : usable(hdr, es[i])}
            i == First(us)
<1>1. c \in {None, 0, 1} /\ (c # None => tab[c].ok)
  BY Zenon DEF selected_copy, partition_table_valid, None
<1>2. CASE c = None \/ us = {}
  BY Zenon, <1>2 DEF select_partition_header
<1>3. CASE c # None /\ us # {}
  <2>1. c \in {0, 1} /\ es \in [1 .. 2 -> EntryType]
    BY Zenon, <1>1, <1>3 DEF Tabs, TableType
  <2>2. i \in us
    <3>1. us \in SUBSET (1 .. 2)
      BY Zenon, <2>1
    <3>. QED
      BY Zenon, <3>1, <1>3, FirstIn
  <2>3. i \in 1 .. 2 /\ usable(hdr, es[i])
    BY Zenon, <2>1, <2>2
  <2>4. select_partition_header(hdr, tab) = Selected(hdr, es, c, i)
    BY Zenon, <1>3 DEF select_partition_header
  <2>5. es[i] \in EntryType
    BY Zenon, <2>1, <2>3
  <2>. HIDE DEF c, es, us, i
  <2>6. LET sel == Selected(hdr, es, c, i)
        IN /\ sel.valid /\ sel.fell \in BOOLEAN /\ sel.copy = c /\ sel.i = i
           /\ sel.k \in {0, 1} /\ sel.hdr = es[i].at[sel.k]
           /\ sel.hdr \in 1 .. 2 /\ partition_entry_bootheader(hdr, es[i], sel.k)
    <3>. DEFINE e == es[i]
                k == IF ~ partition_entry_bootheader(hdr, e, e.active)
                     THEN 1 - e.active ELSE e.active
    <3>1. k \in {0, 1} /\ e.at[k] \in 1 .. 2 /\ partition_entry_bootheader(hdr, e, k)
      BY Zenon, <2>3, <2>5, SlotStarts
    <3>. QED
      BY Zenon, <3>1 DEF Selected
  <2>. QED
    BY Zenon, <1>1, <1>3, <2>1, <2>3, <2>4, <2>6 DEF es, c, i, us, FoundAs, FallsTo
<1>. QED
  BY Zenon, <1>2, <1>3

LEMMA TableWith ==
  ASSUME NEW t \in TableType, NEW es \in [1 .. 2 -> EntryType], NEW a \in Nat
  PROVE  [t EXCEPT !.entries = es, !.age = a] \in TableType
BY Zenon DEF TableType

\* new is tab with copy c and slot k of entry i over the other copy.
WrittenFrom(tab, c, i, k, new) ==
  /\ new \in Tabs /\ new[c] = tab[c]
  /\ new[1 - c].age = tab[c].age + 1 /\ new[1 - c].ok = tab[c].ok
  /\ new[1 - c].entries[i] = [tab[c].entries[i] EXCEPT !.active = k]
  /\ \A j \in 1 .. 2 : j # i => new[1 - c].entries[j] = tab[c].entries[j]

\* The copy a write-back makes: newer by one, with the given slot active.
LEMMA WrittenBack ==
  ASSUME NEW tab \in Tabs, NEW c \in {0, 1}, NEW i \in 1 .. 2, NEW k \in {0, 1},
         AgeWrap \in Nat, tab[c].age + 1 < AgeWrap,
         NEW new, new = partition_table_writeback(tab, c, i, k)
  PROVE  WrittenFrom(tab, c, i, k, new)
<1>. DEFINE t == tab[c]
            fs == [t.entries EXCEPT ![i].active = k]
            u == [t EXCEPT !.entries[i].active = k, !.age = (@ + 1) % AgeWrap]
<1>1. t \in TableType /\ t.entries \in [1 .. 2 -> EntryType] /\ t.age \in Nat
  BY Zenon DEF Tabs, TableType
<1>. HIDE DEF t
<1>2. (t.age + 1) % AgeWrap = t.age + 1
  BY <1>1 DEF t
<1>3. /\ fs \in [1 .. 2 -> EntryType] /\ fs[i] = [t.entries[i] EXCEPT !.active = k]
      /\ \A j \in 1 .. 2 : j # i => fs[j] = t.entries[j]
  BY <1>1 DEF EntryType
<1>4. u.entries = fs /\ u.age = t.age + 1 /\ u.ok = t.ok
  BY Zenon, <1>1, <1>2 DEF TableType
<1>5. u \in TableType
  <2>1. u = [t EXCEPT !.entries = fs, !.age = t.age + 1]
    BY Zenon, <1>1, <1>2 DEF TableType
  <2>. HIDE DEF u, fs
  <2>2. t.age + 1 \in Nat
    BY <1>1
  <2>. QED
    BY Zenon, <1>1, <1>3, <2>1, <2>2, TableWith
<1>. HIDE DEF u, fs
<1>6. new = [tab EXCEPT ![1 - c] = u]
  BY Zenon DEF partition_table_writeback, u, t
<1>7. 1 - c \in {0, 1} /\ 1 - c # c
  OBVIOUS
<1>8. /\ [tab EXCEPT ![1 - c] = u] \in Tabs
      /\ [tab EXCEPT ![1 - c] = u][c] = t /\ [tab EXCEPT ![1 - c] = u][1 - c] = u
  BY Zenon, <1>5, <1>7 DEF Tabs, t
<1>. QED
  BY Zenon, <1>3, <1>4, <1>6, <1>8 DEF t, WrittenFrom

LEMMA NewerSelected ==
  ASSUME NEW tab \in Tabs, NEW c \in {0, 1}, tab[c].age < tab[1 - c].age, tab[1 - c].ok
  PROVE  selected_copy(tab) = 1 - c
<1>1. tab[0] \in TableType /\ tab[1] \in TableType
  BY Zenon DEF Tabs
<1>2. tab[0].age \in Nat /\ tab[1].age \in Nat
  BY Zenon, <1>1 DEF TableType
<1>3. CASE c = 0
  BY <1>2, <1>3 DEF selected_copy, partition_table_valid
<1>4. CASE c = 1
  BY <1>2, <1>4 DEF selected_copy, partition_table_valid
<1>. QED
  BY Zenon, <1>3, <1>4

\* fs is es with slot k of entry i the active one.
Activated(es, fs, i, k) ==
  /\ fs[i] = [es[i] EXCEPT !.active = k]
  /\ \A j \in 1 .. 2 : j # i => fs[j] = es[j]

\* A search through fs stops at the entry one through es does, at its active slot.
SameSearch(hdr, es, fs, i, k) ==
  /\ {j \in DOMAIN es : usable(hdr, es[j])} = {j \in DOMAIN fs : usable(hdr, fs[j])}
  /\ i \in {j \in DOMAIN fs : usable(hdr, fs[j])}
  /\ fs[i].active = k /\ fs[i].at = es[i].at
  /\ partition_entry_bootheader(hdr, fs[i], k)

\* Making a slot that starts M0 the active one leaves the usable entries alone.
LEMMA SameUsable ==
  ASSUME NEW hdr \in Hdrs, NEW es \in [1 .. 2 -> EntryType], NEW fs \in [1 .. 2 -> EntryType],
         NEW i \in 1 .. 2, NEW k \in {0, 1}, Activated(es, fs, i, k),
         usable(hdr, es[i]), partition_entry_bootheader(hdr, es[i], k)
  PROVE  SameSearch(hdr, es, fs, i, k)
<1>1. es[i] \in EntryType /\ es[i].active \in Nat
  BY Zenon DEF EntryType
<1>2. fs[i].active = k /\ fs[i].at = es[i].at /\ fs[i].fw = es[i].fw
  BY Zenon, <1>1 DEF EntryType, Activated
<1>3. partition_entry_bootheader(hdr, fs[i], k)
  BY Zenon, <1>2 DEF partition_entry_bootheader
<1>4. usable(hdr, fs[i])
  BY Zenon, <1>2, <1>3 DEF usable
<1>5. \A j \in 1 .. 2 : usable(hdr, fs[j]) <=> usable(hdr, es[j])
  BY Zenon, <1>4 DEF Activated
<1>. QED
  BY Zenon, <1>2, <1>3, <1>4, <1>5 DEF SameSearch

\* A search in tab finds header h in an active slot.
FoundActive(hdr, tab, h) ==
  LET sel == select_partition_header(hdr, tab)
  IN sel.valid /\ ~ sel.fell /\ sel.hdr = h

\* After the fall-back has been written back, a search finds the same slot and
\* finds it as the active one.
LEMMA FoundAgain ==
  ASSUME NEW hdr \in Hdrs, NEW tab \in Tabs, NEW c \in {0, 1}, NEW i \in 1 .. 2,
         NEW k \in {0, 1}, NEW new, FallsTo(hdr, tab, c, i, k),
         AgeWrap \in Nat, tab[c].age + 1 < AgeWrap,
         new = partition_table_writeback(tab, c, i, k)
  PROVE  FoundActive(hdr, new, tab[c].entries[i].at[k])
<1>1. /\ tab[c].ok /\ usable(hdr, tab[c].entries[i])
      /\ partition_entry_bootheader(hdr, tab[c].entries[i], k)
      /\ i = First({j \in DOMAIN tab[c].entries : usable(hdr, tab[c].entries[j])})
  BY Zenon DEF FallsTo
<1>. DEFINE o == 1 - c
            es == tab[c].entries
            fs == new[o].entries
<1>2. /\ new \in Tabs /\ new[c] = tab[c]
      /\ new[o].age = tab[c].age + 1 /\ new[o].ok = tab[c].ok
      /\ fs[i] = [es[i] EXCEPT !.active = k]
      /\ \A j \in 1 .. 2 : j # i => fs[j] = es[j]
  <2>1. WrittenFrom(tab, c, i, k, new)
    BY Zenon, WrittenBack
  <2>. QED
    BY Zenon, <2>1 DEF WrittenFrom
<1>3. o \in {0, 1} /\ o # None
  BY DEF None
<1>4. /\ es \in [1 .. 2 -> EntryType] /\ fs \in [1 .. 2 -> EntryType]
      /\ tab[c].age \in Nat
  <2>. HIDE DEF o
  <2>1. tab[c] \in TableType /\ new[o] \in TableType
    BY Zenon, <1>2, <1>3 DEF Tabs
  <2>. QED
    BY Zenon, <2>1 DEF TableType
<1>5. selected_copy(new) = o
  <2>1. new[c].age < new[o].age
    BY <1>2, <1>4
  <2>. QED
    BY Zenon, <1>1, <1>2, <2>1, NewerSelected
<1>. HIDE DEF fs, es, o
<1>6. /\ {j \in DOMAIN es : usable(hdr, es[j])} = {j \in DOMAIN fs : usable(hdr, fs[j])}
      /\ i \in {j \in DOMAIN fs : usable(hdr, fs[j])}
      /\ fs[i].active = k /\ fs[i].at = es[i].at
      /\ partition_entry_bootheader(hdr, fs[i], k)
  <2>1. usable(hdr, es[i]) /\ partition_entry_bootheader(hdr, es[i], k)
    BY Zenon, <1>1 DEF es
  <2>2. SameSearch(hdr, es, fs, i, k)
    <3>1. Activated(es, fs, i, k)
      BY Zenon, <1>2 DEF Activated
    <3>. QED
      BY Zenon, <1>4, <2>1, <3>1, SameUsable
  <2>. QED
    BY Zenon, <2>2 DEF SameSearch
<1>7. i = First({j \in DOMAIN fs : usable(hdr, fs[j])})
  BY Zenon, <1>1, <1>6 DEF es
<1>8. select_partition_header(hdr, new) = Selected(hdr, fs, o, i)
  BY Zenon, <1>3, <1>5, <1>6, <1>7 DEF select_partition_header, fs
<1>9. /\ Selected(hdr, fs, o, i).valid /\ ~ Selected(hdr, fs, o, i).fell
      /\ Selected(hdr, fs, o, i).hdr = es[i].at[k]
  BY Zenon, <1>6 DEF Selected
<1>. QED
  BY Zenon, <1>8, <1>9 DEF es, FoundActive

----------------------------------------------------------------------------
(***************************************************************************)
(* The reset                                                               *)
(***************************************************************************)
Fields == {"conf", "hdr", "tab", "rom", "params", "xip", "mm", "lp", "d0", "pc",
           "stage", "next", "damage", "booted", "fell", "same"}

Record(d) ==
  /\ d = [f \in Fields |-> d[f]]
  /\ d.xip = [c \in {0, 1} |-> d.xip[c]]

\* e is what a reset makes of d.
ResetOf(d, e) ==
  /\ Record(e)
  /\ e.conf = d.conf /\ e.hdr = d.hdr /\ e.next = d.next /\ e.damage = d.damage
  /\ e.stage = "idle" /\ e.same = TRUE
  /\ e.fell = partition(d).fell /\ e.booted = reset_header(d, partition(d))
  /\ e.tab = IF partition(d).fell
             THEN partition_table_writeback(d.tab, partition(d).copy, partition(d).i,
                                            partition(d).k)
             ELSE d.tab
  /\ e.rom = populate_bootrom(d).rom
  /\ e.xip[M0] = IF e.booted = None THEN <<"start">> ELSE <<"group", e.booted>>

LEMMA ResetFields ==
  ASSUME NEW d, Record(d)
  PROVE  ResetOf(d, machine_reset(d))
<1>. DEFINE sel == partition(d)
            h == reset_header(d, sel)
            tab == IF sel.fell THEN partition_table_writeback(d.tab, sel.copy, sel.i, sel.k)
                   ELSE d.tab
            xip == IF h = None THEN <<"start">> ELSE <<"group", h>>
            p == populate_bootrom(d)
            q == boot2_pass_params(p, sel)
            r == [q EXCEPT !.tab = tab, !.mm = h # None /\ d.hdr[h].mm, !.xip[M0] = xip]
            u == reset_cores(r, h)
<1>1. machine_reset(d) = [u EXCEPT !.booted = h, !.fell = sel.fell,
                                   !.same = TRUE, !.stage = "idle"]
  BY Zenon DEF machine_reset
<1>. HIDE DEF sel, h, tab, xip
<1>2. Record(p) /\ \A f \in Fields : f # "rom" => p[f] = d[f]
  BY Zenon DEF populate_bootrom, Record, Fields
<1>3. Record(q) /\ \A f \in Fields : f # "params" => q[f] = p[f]
  <2>. HIDE DEF p
  <2>. QED
    BY Zenon, <1>2 DEF boot2_pass_params, Record, Fields
<1>4. /\ Record(r) /\ r.tab = tab /\ r.xip[M0] = xip
      /\ \A f \in Fields : f \notin {"tab", "mm", "xip"} => r[f] = q[f]
  <2>. HIDE DEF p, q
  <2>. QED
    BY Zenon, <1>3 DEF Record, Fields, M0
<1>5. /\ Record(u) /\ u.xip[M0] = r.xip[M0]
      /\ \A f \in Fields : f \notin {"lp", "d0", "xip", "pc"} => u[f] = r[f]
  <2>. HIDE DEF p, q, r
  <2>1. u = [r EXCEPT !.lp = lp_boot(r, h), !.d0 = d0_boot(r, h), !.xip[D0] = d0_window(r, h),
                      !.pc = IF r.conf.m0elf THEN <<"elf">> ELSE <<"rom">>]
    BY Zenon DEF reset_cores
  <2>. HIDE DEF u
  <2>2. /\ u = [f \in Fields |-> u[f]]
        /\ \A f \in Fields : f \notin {"lp", "d0", "xip", "pc"} => u[f] = r[f]
    BY Zenon, <1>4, <2>1 DEF Record, Fields
  <2>3. u.xip = [r.xip EXCEPT ![D0] = d0_window(r, h)]
    BY Zenon, <1>4, <2>1 DEF Record, Fields
  <2>4. u.xip[M0] = r.xip[M0] /\ u.xip = [c \in {0, 1} |-> u.xip[c]]
    BY <1>4, <2>3 DEF Record, M0, D0
  <2>. QED
    BY Zenon, <2>2, <2>4 DEF Record
<1>. HIDE DEF p, q, r, u
<1>6. /\ u.conf = d.conf /\ u.hdr = d.hdr /\ u.next = d.next /\ u.damage = d.damage
      /\ u.tab = tab /\ u.rom = p.rom /\ u.xip[M0] = xip /\ Record(u)
  BY Zenon, <1>2, <1>3, <1>4, <1>5 DEF Fields
<1>. DEFINE e == machine_reset(d)
<1>7. /\ Record(e) /\ e.booted = h /\ e.fell = sel.fell /\ e.same = TRUE /\ e.stage = "idle"
      /\ e.conf = u.conf /\ e.hdr = u.hdr /\ e.next = u.next /\ e.damage = u.damage
      /\ e.tab = u.tab /\ e.rom = u.rom /\ e.xip = u.xip
  BY Zenon, <1>1, <1>6 DEF Record, Fields
<1>. QED
  BY Zenon, <1>6, <1>7 DEF ResetOf, sel, h, tab, xip, p

----------------------------------------------------------------------------
(***************************************************************************)
(* The invariant                                                           *)
(***************************************************************************)
\* The tables the tools write: one firmware entry, whose slots are 1 and 2.
GoodTable(t) ==
  /\ t \in TableType
  /\ ~ t.entries[1].fw /\ t.entries[2].fw
  /\ \A k \in {0, 1} : t.entries[2].at[k] = k + 1
  /\ t.ok => t.entries[2].active \in {0, 1}

TypeAt(d, o) ==
  /\ Record(d) /\ d.hdr \in Hdrs /\ d.tab \in Tabs /\ d.next \in TableType
  /\ d.damage \in Nat /\ o \in Nat
  /\ d.same \in BOOLEAN /\ d.fell \in BOOLEAN /\ d.booted \in {None, Boot2, 1, 2}

TablesAt(d) == (\A c \in {0, 1} : GoodTable(d.tab[c])) /\ GoodTable(d.next) /\ d.hdr[Boot2].ok

\* Every step makes a table older by one at most.
AgesAt(d, o) == (\A c \in {0, 1} : d.tab[c].age <= o + 2) /\ d.next.age <= o + 2 /\ o <= MaxOps

\* RomAgrees, of a state.
AgreesAt(d) ==
  Normal(d) /\ ~ d.conf.image =>
    /\ d.rom = <<"base">> => d.xip[M0] = <<"start">>
    /\ d.rom # <<"base">> => d.xip[M0] = <<"group", d.rom[2]>>

\* A flash no one has touched since the reset needs no repair, and another
\* search would find what is running.
SettledAt(d) == d.same => ~ partition(d).fell /\ d.booted = reset_header(d, partition(d))

\* What is running stays whole during an update, and so does a table.
UpdatingAt(d) ==
  /\ d.damage = 0 /\ d.booted \in {1, 2} => d.hdr[d.booted].ok /\ M0 \in d.hdr[d.booted].run
  /\ d.stage # "idle" => d.booted \in {1, 2} /\ InUse(d) # None

InvAt(d, o) ==
  /\ TypeAt(d, o) /\ TablesAt(d) /\ AgesAt(d, o)
  /\ AgreesAt(d) /\ SettledAt(d) /\ UpdatingAt(d)

IInv == InvAt(s, ops)

Assumptions ==
  /\ Headers \subseteq {h \in HeaderType : h.ok}
  /\ MaxOps \in Nat /\ AgeWrap \in Nat /\ MaxOps + 3 < AgeWrap

\* The copy a write-back makes is as good as the one it is made from.
LEMMA GoodCopy ==
  ASSUME NEW tab \in Tabs, NEW c \in {0, 1}, NEW i \in 1 .. 2, NEW k \in {0, 1}, NEW new,
         WrittenFrom(tab, c, i, k, new), \A x \in {0, 1} : GoodTable(tab[x])
  PROVE  \A x \in {0, 1} : GoodTable(new[x])
<1>1. GoodTable(new[c])
  BY Zenon DEF WrittenFrom
<1>. DEFINE o == 1 - c
            e == tab[c].entries
            f == new[o].entries
<1>2. o \in {0, 1}
  OBVIOUS
<1>3. new[o] \in TableType /\ tab[c] \in TableType
  BY Zenon, <1>2 DEF WrittenFrom, Tabs
<1>4. e \in [1 .. 2 -> EntryType] /\ f \in [1 .. 2 -> EntryType]
  BY Zenon, <1>3 DEF TableType
<1>5. f[i] = [e[i] EXCEPT !.active = k] /\ (\A j \in 1 .. 2 : j # i => f[j] = e[j])
      /\ new[o].ok = tab[c].ok
  BY Zenon DEF WrittenFrom
<1>6. GoodTable(tab[c])
  OBVIOUS
<1>. HIDE DEF o, e, f
<1>7. \A j \in 1 .. 2 : f[j].fw = e[j].fw /\ f[j].at = e[j].at /\ f[j].active \in {k, e[j].active}
  <2>1. e[i] \in EntryType
    BY Zenon, <1>4
  <2>2. f[i].fw = e[i].fw /\ f[i].at = e[i].at /\ f[i].active = k
    BY Zenon, <1>5, <2>1 DEF EntryType
  <2>. QED
    BY Zenon, <1>5, <2>2
<1>8. GoodTable(new[o])
  BY <1>3, <1>5, <1>6, <1>7 DEF GoodTable, e, f
<1>9. \A x \in {0, 1} : x = c \/ x = o
  BY DEF o
<1>. QED
  BY Zenon, <1>1, <1>8, <1>9

\* What a fall-back was found as.
LEMMA FellBack ==
  ASSUME NEW d, d.hdr \in Hdrs, d.tab \in Tabs, partition(d).fell
  PROVE  /\ Normal(d) /\ bootheader_read(d.hdr, Boot2)
         /\ FoundAs(d.hdr, d.tab, partition(d))
<1>1. /\ Normal(d) /\ bootheader_read(d.hdr, Boot2)
      /\ partition(d) = select_partition_header(d.hdr, d.tab)
  BY Zenon DEF partition, Unselected
<1>2. partition(d) # Unselected
  BY DEF Unselected
<1>. QED
  BY Zenon, <1>1, <1>2, Found

\* The tables after a reset.
LEMMA ResetTables ==
  ASSUME NEW d, NEW e, d.hdr \in Hdrs, d.tab \in Tabs, ResetOf(d, e),
         \A c \in {0, 1} : GoodTable(d.tab[c]),
         NEW n \in Nat, \A c \in {0, 1} : d.tab[c].age <= n, AgeWrap \in Nat, n + 1 < AgeWrap
  PROVE  /\ e.tab \in Tabs /\ \A c \in {0, 1} : GoodTable(e.tab[c])
         /\ \A c \in {0, 1} : e.tab[c].age <= n + 1
<1>. DEFINE sel == partition(d)
<1>1. \A c \in {0, 1} : d.tab[c].age \in Nat
  BY Zenon DEF GoodTable, TableType
<1>2. CASE ~ sel.fell
  <2>1. e.tab = d.tab
    BY Zenon, <1>2 DEF ResetOf
  <2>. QED
    BY <1>1, <2>1
<1>3. CASE sel.fell
  <2>1. sel.copy \in {0, 1} /\ sel.i \in 1 .. 2 /\ sel.k \in {0, 1}
    <3>1. FoundAs(d.hdr, d.tab, sel)
      BY Zenon, <1>3, FellBack
    <3>. QED
      BY Zenon, <3>1 DEF FoundAs
  <2>2. e.tab = partition_table_writeback(d.tab, sel.copy, sel.i, sel.k)
    BY Zenon, <1>3 DEF ResetOf
  <2>. HIDE DEF sel
  <2>3. d.tab[sel.copy].age + 1 < AgeWrap
    BY <1>1, <2>1
  <2>4. WrittenFrom(d.tab, sel.copy, sel.i, sel.k, e.tab)
    BY Zenon, <2>1, <2>2, <2>3, WrittenBack
  <2>5. \A c \in {0, 1} : GoodTable(e.tab[c])
    BY <2>1, <2>4, GoodCopy
  <2>6. /\ e.tab \in Tabs /\ e.tab[sel.copy] = d.tab[sel.copy]
        /\ e.tab[1 - sel.copy].age = d.tab[sel.copy].age + 1
    BY Zenon, <2>4 DEF WrittenFrom
  <2>7. \A c \in {0, 1} : c = sel.copy \/ c = 1 - sel.copy
    BY <2>1
  <2>8. \A c \in {0, 1} : e.tab[c].age <= n + 1
    BY <1>1, <2>1, <2>6, <2>7
  <2>. QED
    BY Zenon, <2>5, <2>6, <2>8
<1>. QED
  BY Zenon, <1>2, <1>3

\* After a reset another one has nothing to repair and boots the same header.
LEMMA ResetSettles ==
  ASSUME NEW d, NEW e, d.hdr \in Hdrs, d.tab \in Tabs, ResetOf(d, e),
         NEW n \in Nat, \A c \in {0, 1} : d.tab[c].age <= n, AgeWrap \in Nat, n + 1 < AgeWrap
  PROVE  ~ partition(e).fell /\ e.booted = reset_header(e, partition(e))
<1>. DEFINE sel == partition(d)
<1>1. e.hdr = d.hdr /\ e.conf = d.conf /\ e.booted = reset_header(d, sel)
  BY Zenon DEF ResetOf
<1>2. CASE ~ sel.fell
  <2>1. e.tab = d.tab
    BY Zenon, <1>2 DEF ResetOf
  <2>2. partition(e) = partition(d)
    BY Zenon, <1>1, <2>1 DEF partition, Normal
  <2>3. primary_flash_bootheader(e) = primary_flash_bootheader(d)
    BY Zenon, <1>1, <2>1 DEF primary_flash_bootheader, Normal
  <2>. QED
    BY Zenon, <1>1, <1>2, <2>2, <2>3 DEF reset_header
<1>3. CASE sel.fell
  <2>1. /\ Normal(d) /\ bootheader_read(d.hdr, Boot2) /\ sel.valid
        /\ sel.copy \in {0, 1} /\ sel.i \in 1 .. 2 /\ sel.k \in {0, 1}
        /\ sel.hdr = d.tab[sel.copy].entries[sel.i].at[sel.k]
        /\ FallsTo(d.hdr, d.tab, sel.copy, sel.i, sel.k)
    <3>1. Normal(d) /\ bootheader_read(d.hdr, Boot2) /\ FoundAs(d.hdr, d.tab, sel)
      BY Zenon, <1>3, FellBack
    <3>. QED
      BY Zenon, <3>1 DEF FoundAs
  <2>2. e.tab = partition_table_writeback(d.tab, sel.copy, sel.i, sel.k)
    BY Zenon, <1>3 DEF ResetOf
  <2>. HIDE DEF sel
  <2>3. d.tab[sel.copy].age + 1 < AgeWrap
    <3>1. d.tab[sel.copy] \in TableType
      BY Zenon, <2>1 DEF Tabs
    <3>2. d.tab[sel.copy].age \in Nat
      BY Zenon, <3>1 DEF TableType
    <3>. QED
      BY <2>1, <3>2
  <2>4. /\ select_partition_header(d.hdr, e.tab).valid
        /\ ~ select_partition_header(d.hdr, e.tab).fell
        /\ select_partition_header(d.hdr, e.tab).hdr = sel.hdr
    <3>. DEFINE c == sel.copy
                i == sel.i
                k == sel.k
    <3>0. c \in {0, 1} /\ i \in 1 .. 2 /\ k \in {0, 1} /\ FallsTo(d.hdr, d.tab, c, i, k)
          /\ d.tab[c].age + 1 < AgeWrap /\ e.tab = partition_table_writeback(d.tab, c, i, k)
      BY Zenon, <2>1, <2>2, <2>3
    <3>. HIDE DEF c, i, k
    <3>1. FoundActive(d.hdr, e.tab, d.tab[c].entries[i].at[k])
      BY Zenon, <3>0, FoundAgain
    <3>. QED
      BY Zenon, <2>1, <3>1 DEF FoundActive, c, i, k
  <2>5. partition(e) = select_partition_header(d.hdr, e.tab)
    BY Zenon, <1>1, <2>1 DEF partition, Normal
  <2>. QED
    BY Zenon, <1>1, <2>1, <2>4, <2>5 DEF reset_header
<1>. QED
  BY Zenon, <1>2, <1>3

\* What the search returns, valid or not.
LEMMA PartitionFound ==
  ASSUME NEW d, d.hdr \in Hdrs, d.tab \in Tabs
  PROVE  \/ partition(d) = Unselected
         \/ /\ FoundAs(d.hdr, d.tab, partition(d))
            /\ Normal(d) /\ bootheader_read(d.hdr, Boot2)
            /\ partition(d) = select_partition_header(d.hdr, d.tab)
BY Zenon, Found DEF partition

\* The header found is one of the two slots and whole.
LEMMA FoundWhole ==
  ASSUME NEW hdr, NEW tab, NEW sel, FoundAs(hdr, tab, sel)
  PROVE  sel.valid /\ sel.hdr \in {1, 2} /\ hdr[sel.hdr].ok /\ M0 \in hdr[sel.hdr].run
<1>1. sel.valid /\ sel.hdr \in 1 .. 2 /\ sel.hdr = tab[sel.copy].entries[sel.i].at[sel.k]
      /\ FallsTo(hdr, tab, sel.copy, sel.i, sel.k)
  BY Zenon DEF FoundAs
<1>2. partition_entry_bootheader(hdr, tab[sel.copy].entries[sel.i], sel.k)
  BY Zenon, <1>1 DEF FallsTo
<1>3. hdr[sel.hdr].ok /\ M0 \in hdr[sel.hdr].run
  BY Zenon, <1>1, <1>2 DEF partition_entry_bootheader, bootheader_read
<1>4. sel.hdr \in {1, 2}
  BY <1>1
<1>. QED
  BY Zenon, <1>1, <1>3, <1>4

Whole(d) == {h \in {1, 2} : d.hdr[h].ok /\ M0 \in d.hdr[h].run}

\* A slot that is booted is whole.
LEMMA ResetWhole ==
  ASSUME NEW d, NEW e, d.hdr \in Hdrs, d.tab \in Tabs, ResetOf(d, e)
  PROVE  e.booted \in {None, Boot2} \/ e.booted \in Whole(e)
<1>1. e.hdr = d.hdr /\ e.booted = reset_header(d, partition(d))
  BY Zenon DEF ResetOf
<1>2. CASE partition(d) = Unselected
  <2>1. e.booted = primary_flash_bootheader(d)
    BY <1>1, <1>2 DEF reset_header, Unselected
  <2>2. ~ Normal(d) \/ ~ bootheader_read(d.hdr, Boot2)
        \/ select_partition_header(d.hdr, d.tab) = Unselected
    BY Zenon, <1>2 DEF partition
  <2>3. primary_flash_bootheader(d) \in {None, Boot2}
    BY <2>2 DEF primary_flash_bootheader, Unselected
  <2>. QED
    BY Zenon, <2>1, <2>3
<1>3. CASE FoundAs(d.hdr, d.tab, partition(d))
  BY Zenon, <1>1, <1>3, FoundWhole DEF reset_header, Whole
<1>. QED
  BY Zenon, <1>2, <1>3, PartitionFound

\* The boot ROM and the window after a reset.
LEMMA ResetAgrees ==
  ASSUME NEW d, NEW e, Record(d), d.hdr \in Hdrs, d.tab \in Tabs, ResetOf(d, e)
  PROVE  AgreesAt(e)
<1>. DEFINE h == primary_flash_bootheader(d)
<1>1. SUFFICES ASSUME Normal(d), ~ d.conf.image
               PROVE  /\ e.rom = <<"base">> => e.xip[M0] = <<"start">>
                      /\ e.rom # <<"base">> => e.xip[M0] = <<"group", e.rom[2]>>
  BY Zenon DEF AgreesAt, ResetOf, Normal
<1>2. e.rom = IF h = None THEN <<"base">> ELSE <<"image", h, M0>>
  <2>1. populate_bootrom(d).rom = IF h = None THEN <<"base">> ELSE <<"image", h, M0>>
    <3>. HIDE DEF h
    <3>1. ~ d.conf.m0elf /\ ~ d.conf.gpio39 /\ ~ d.conf.image
      BY Zenon, <1>1 DEF Normal
    <3>. QED
      BY Zenon, <3>1 DEF populate_bootrom, h, Record, Fields
  <2>. QED
    BY Zenon, <2>1 DEF ResetOf
<1>3. e.booted = h
  <2>1. e.booted = reset_header(d, partition(d))
    BY Zenon DEF ResetOf
  <2>2. CASE partition(d) = Unselected
    BY <2>1, <2>2 DEF reset_header, Unselected
  <2>3. CASE FoundAs(d.hdr, d.tab, partition(d)) /\ bootheader_read(d.hdr, Boot2)
             /\ partition(d) = select_partition_header(d.hdr, d.tab)
    <3>1. partition(d).valid
      BY Zenon, <2>3, FoundWhole
    <3>. QED
      BY Zenon, <1>1, <2>1, <2>3, <3>1 DEF reset_header, primary_flash_bootheader
  <2>. QED
    BY Zenon, <2>2, <2>3, PartitionFound
<1>4. e.xip[M0] = IF h = None THEN <<"start">> ELSE <<"group", h>>
  BY Zenon, <1>3 DEF ResetOf
<1>. HIDE DEF h
<1>. QED
  BY <1>2, <1>4

\* With a valid table and a whole slot, a reset boots a whole slot.
LEMMA ResetBoots ==
  ASSUME NEW d, NEW e, d.hdr \in Hdrs, d.tab \in Tabs, ResetOf(d, e), Normal(d),
         \A c \in {0, 1} : GoodTable(d.tab[c]), d.hdr[Boot2].ok,
         NEW c \in {0, 1}, d.tab[c].ok, NEW g \in Whole(d)
  PROVE  e.booted \in Whole(e)
<1>. DEFINE x == selected_copy(d.tab)
            us == {i \in DOMAIN d.tab[x].entries : usable(d.hdr, d.tab[x].entries[i])}
<1>1. x \in {0, 1} /\ d.tab[x].ok
  BY Zenon DEF selected_copy, partition_table_valid
<1>2. 2 \in us
  <2>1. d.tab[x].entries \in [1 .. 2 -> EntryType] /\ d.tab[x].entries[2].fw
        /\ (\A k \in {0, 1} : d.tab[x].entries[2].at[k] = k + 1)
        /\ d.tab[x].entries[2].active \in {0, 1}
    BY Zenon, <1>1 DEF GoodTable, TableType
  <2>. HIDE DEF x
  <2>2. g - 1 \in {0, 1} /\ d.tab[x].entries[2].at[g - 1] = g /\ g # 0
    BY <2>1 DEF Whole
  <2>3. partition_entry_bootheader(d.hdr, d.tab[x].entries[2], g - 1)
    BY Zenon, <2>2 DEF partition_entry_bootheader, bootheader_read, Whole, Boot2
  <2>. QED
    BY <2>1, <2>2, <2>3 DEF usable
<1>3. partition(d) = Selected(d.hdr, d.tab[x].entries, x, First(us))
  BY <1>1, <1>2 DEF partition, select_partition_header, bootheader_read, None
<1>4. partition(d) # Unselected
  <2>. HIDE DEF x, us
  <2>1. Selected(d.hdr, d.tab[x].entries, x, First(us)).valid = TRUE
    BY Zenon DEF Selected
  <2>2. Unselected.valid = FALSE
    BY Zenon DEF Unselected
  <2>. QED
    BY Zenon, <1>3, <2>1, <2>2
<1>5. FoundAs(d.hdr, d.tab, partition(d))
  BY Zenon, <1>4, PartitionFound
<1>6. e.booted = partition(d).hdr /\ e.hdr = d.hdr
  BY Zenon, <1>5, FoundWhole DEF ResetOf, reset_header
<1>. QED
  BY Zenon, <1>5, <1>6, FoundWhole DEF Whole

----------------------------------------------------------------------------
\* Everything the invariant says, of the state a reset leaves.
LEMMA ResetInv ==
  ASSUME NEW d, NEW e, NEW n \in Nat, NEW o \in Nat, Assumptions, n <= MaxOps + 1,
         o <= MaxOps, n + 1 <= o + 2, e = machine_reset(d),
         Record(d), d.hdr \in Hdrs, d.tab \in Tabs, d.damage \in Nat, TablesAt(d),
         \A c \in {0, 1} : d.tab[c].age <= n, d.next.age <= n
  PROVE  InvAt(e, o)
<1>1. ResetOf(d, e)
  BY Zenon, ResetFields
<1>2. n + 1 < AgeWrap /\ AgeWrap \in Nat
  BY DEF Assumptions
<1>3. (\A c \in {0, 1} : GoodTable(d.tab[c])) /\ GoodTable(d.next) /\ d.hdr[Boot2].ok
  BY Zenon DEF TablesAt
<1>4. /\ e.tab \in Tabs /\ \A c \in {0, 1} : GoodTable(e.tab[c])
      /\ \A c \in {0, 1} : e.tab[c].age <= n + 1
  BY Zenon, <1>1, <1>2, <1>3, ResetTables
<1>5. /\ Record(e) /\ e.conf = d.conf /\ e.hdr = d.hdr /\ e.next = d.next
      /\ e.damage = d.damage /\ e.stage = "idle" /\ e.same = TRUE
      /\ e.fell = partition(d).fell
  BY Zenon, <1>1 DEF ResetOf
<1>6. partition(d).fell \in BOOLEAN
  <2>1. CASE partition(d) = Unselected
    BY <2>1 DEF Unselected
  <2>2. CASE FoundAs(d.hdr, d.tab, partition(d))
    BY Zenon, <2>2 DEF FoundAs
  <2>. QED
    BY Zenon, <2>1, <2>2, PartitionFound
<1>0. e.booted \in {None, Boot2} \/ e.booted \in Whole(e)
  BY Zenon, <1>1, ResetWhole
<1>7. TypeAt(e, o)
  BY Zenon, <1>0, <1>3, <1>4, <1>5, <1>6 DEF TypeAt, GoodTable, Whole
<1>8. TablesAt(e)
  BY Zenon, <1>3, <1>4, <1>5 DEF TablesAt
<1>9. AgesAt(e, o)
  <2>1. \A c \in {0, 1} : e.tab[c].age \in Nat
    BY Zenon, <1>4 DEF GoodTable, TableType
  <2>2. e.next.age \in Nat /\ e.next.age <= n
    BY Zenon, <1>3, <1>5 DEF GoodTable, TableType
  <2>. QED
    BY <1>4, <2>1, <2>2, SMTT(20) DEF AgesAt
<1>10. AgreesAt(e)
  BY Zenon, <1>1, ResetAgrees
<1>11. SettledAt(e)
  BY Zenon, <1>1, <1>2, ResetSettles DEF SettledAt
<1>12. UpdatingAt(e)
  BY <1>0, <1>5 DEF UpdatingAt, Whole, None, Boot2
<1>. QED
  BY Zenon, <1>7, <1>8, <1>9, <1>10, <1>11, <1>12 DEF InvAt

LEMMA InitInv ==
  ASSUME Assumptions, Init
  PROVE  IInv
<1>1. PICK conf \in {c \in Confs : c.strict => c.image}, r \in {{}, {M0}}, h \in Headers,
           g \in Headers \cup {Bad}, t \in BOOLEAN, u \in BOOLEAN, a \in {0, 1} :
         s = machine_reset(Blank(Flash([ok |-> TRUE, run |-> r, mm |-> FALSE], h, g,
                                       Table(t, 1, 0), Table(u, a, 0)), conf))
  BY Zenon DEF Init
<1>. DEFINE f == Flash([ok |-> TRUE, run |-> r, mm |-> FALSE], h, g,
                       Table(t, 1, 0), Table(u, a, 0))
            d == Blank(f, conf)
<1>2. /\ d.hdr = f.hdr /\ d.tab = f.tab /\ d.next = f.tab[0] /\ d.damage = 0 /\ Record(d)
  BY Zenon DEF Blank, Record, Fields, M0, D0
<1>3. /\ f.hdr = [x \in 0 .. 2 |-> IF x = Boot2 THEN [ok |-> TRUE, run |-> r, mm |-> FALSE]
                                   ELSE IF x = 1 THEN h ELSE g]
      /\ f.tab = [c \in {0, 1} |-> IF c = 0 THEN Table(t, 1, 0) ELSE Table(u, a, 0)]
  BY Zenon DEF Flash
<1>. HIDE DEF f
<1>4. f.hdr \in Hdrs /\ f.hdr[Boot2].ok
  <2>1. h \in HeaderType
    BY Zenon DEF Assumptions
  <2>2. g \in HeaderType
    <3>1. Bad \in HeaderType
      BY Zenon DEF HeaderType, Bad
    <3>. QED
      BY Zenon, <3>1 DEF Assumptions
  <2>3. [ok |-> TRUE, run |-> r, mm |-> FALSE] \in HeaderType
    BY DEF HeaderType, M0
  <2>. DEFINE b == [ok |-> TRUE, run |-> r, mm |-> FALSE]
  <2>4. b.ok
    OBVIOUS
  <2>. HIDE DEF b
  <2>. QED
    BY <1>3, <2>1, <2>2, <2>3, <2>4 DEF Hdrs, Boot2, b
<1>5. \A b \in BOOLEAN, y \in {0, 1} : GoodTable(Table(b, y, 0)) /\ Table(b, y, 0).age = y
  <2>1. Media \in EntryType /\ Fw(0) \in EntryType /\ ~ Media.fw /\ Fw(0).fw /\ Fw(0).active = 0
        /\ \A k \in {0, 1} : Fw(0).at[k] = k + 1
    BY DEF EntryType, Media, Fw
  <2>2. <<Media, Fw(0)>> \in [1 .. 2 -> EntryType] /\ <<Media, Fw(0)>>[1] = Media
        /\ <<Media, Fw(0)>>[2] = Fw(0)
    BY <2>1
  <2>. QED
    BY <2>1, <2>2 DEF GoodTable, Table, TableType
<1>6. \A c \in {0, 1} : GoodTable(f.tab[c]) /\ f.tab[c].age <= 1
  BY <1>3, <1>5
<1>7. f.tab \in Tabs
  <2>1. \A c \in {0, 1} : f.tab[c] \in TableType
    BY Zenon, <1>6 DEF GoodTable
  <2>. QED
    BY Zenon, <1>3, <2>1 DEF Tabs
<1>. HIDE DEF d
<1>8. TablesAt(d)
  BY Zenon, <1>2, <1>4, <1>6 DEF TablesAt
<1>9. InvAt(machine_reset(d), 0)
  <2>1. 1 \in Nat /\ 0 \in Nat /\ 1 <= MaxOps + 1 /\ 0 <= MaxOps /\ 1 + 1 <= 0 + 2
    BY DEF Assumptions
  <2>2. (\A c \in {0, 1} : d.tab[c].age <= 1) /\ d.next.age <= 1
    BY Zenon, <1>2, <1>6
  <2>. QED
    BY Zenon, <1>2, <1>4, <1>7, <1>8, <2>1, <2>2, ResetInv
<1>. QED
  BY Zenon, <1>1, <1>9 DEF IInv, Init, d, f

----------------------------------------------------------------------------
(***************************************************************************)
(* The steps of an update                                                  *)
(***************************************************************************)
\* During an update the copy in use is valid, and the slot that is written is the
\* one that is not running.
LEMMA SpareSlot ==
  ASSUME NEW d, NEW o, TypeAt(d, o), TablesAt(d), d.booted \in {1, 2}, InUse(d) # None
  PROVE  /\ InUse(d) \in {0, 1} /\ d.tab[InUse(d)].ok /\ FwEntry(d) = 2
         /\ Spare(d) \in {0, 1} /\ SpareHeader(d) \in {1, 2} /\ SpareHeader(d) # d.booted
<1>. DEFINE c == InUse(d)
            es == d.tab[c].entries
<1>1. c \in {0, 1} /\ d.tab[c].ok
  BY Zenon DEF InUse, selected_copy, partition_table_valid
<1>. HIDE DEF c
<1>2. GoodTable(d.tab[c])
  BY Zenon, <1>1 DEF TablesAt
<1>3. /\ es \in [1 .. 2 -> EntryType] /\ DOMAIN es = 1 .. 2 /\ ~ es[1].fw /\ es[2].fw
      /\ es[2].at[0] = 1 /\ es[2].at[1] = 2
  BY <1>2 DEF GoodTable, TableType
<1>. HIDE DEF es
<1>4. FwEntry(d) = 2
  <2>1. FwEntry(d) = CHOOSE i \in DOMAIN es : es[i].fw
    BY Zenon DEF FwEntry, c, es
  <2>2. \E i \in DOMAIN es : es[i].fw
    BY <1>3
  <2>3. FwEntry(d) \in DOMAIN es /\ es[FwEntry(d)].fw
    BY Zenon, <2>1, <2>2
  <2>. QED
    BY <1>3, <2>3
<1>5. Spare(d) = IF es[2].at[0] = d.booted THEN 1 ELSE 0
  BY Zenon, <1>4 DEF Spare, c, es
<1>6. SpareHeader(d) = es[2].at[Spare(d)]
  BY Zenon, <1>4 DEF SpareHeader, c, es
<1>. QED
  BY Zenon, <1>1, <1>3, <1>4, <1>5, <1>6 DEF c

\* e is d with v as header h.
HeaderChanged(d, e, st, h, v, n) ==
  /\ Record(e) /\ e.hdr = [d.hdr EXCEPT ![h] = v] /\ e.tab = d.tab /\ e.next = d.next
  /\ e.damage = n /\ e.same = FALSE /\ e.fell = d.fell /\ e.booted = d.booted
  /\ e.stage = st /\ e.conf = d.conf /\ e.rom = d.rom /\ e.xip = d.xip

LEMMA SlotFields ==
  ASSUME NEW d, Record(d), NEW st, NEW h, NEW v
  PROVE  HeaderChanged(d, [d EXCEPT !.stage = st, !.same = FALSE, !.hdr[h] = v],
                       st, h, v, d.damage)
BY Zenon DEF Record, Fields, HeaderChanged

LEMMA DamageFields ==
  ASSUME NEW d, Record(d), NEW h, NEW v
  PROVE  HeaderChanged(d, [d EXCEPT !.hdr[h] = v, !.damage = @ + 1, !.same = FALSE],
                       d.stage, h, v, d.damage + 1)
BY Zenon DEF Record, Fields, HeaderChanged

\* A step that leaves the tables alone and does not touch what is running, unless
\* it does damage.
LEMMA HeaderStep ==
  ASSUME NEW d, NEW e, NEW o, InvAt(d, o), o + 1 <= MaxOps, MaxOps \in Nat,
         NEW h \in {1, 2}, NEW v \in HeaderType, NEW st, NEW n \in Nat,
         HeaderChanged(d, e, st, h, v, n),
         n = 0 => h # d.booted /\ d.damage = 0,
         st # "idle" => d.booted \in {1, 2} /\ InUse(d) # None
  PROVE  InvAt(e, o + 1)
<1>1. /\ Record(d) /\ d.hdr \in Hdrs /\ d.tab \in Tabs /\ d.next \in TableType
      /\ o \in Nat /\ d.fell \in BOOLEAN /\ d.booted \in {None, Boot2, 1, 2}
  BY Zenon DEF InvAt, TypeAt
<1>2. /\ Record(e) /\ e.hdr = [d.hdr EXCEPT ![h] = v] /\ e.tab = d.tab /\ e.next = d.next
      /\ e.damage = n /\ e.same = FALSE /\ e.fell = d.fell /\ e.booted = d.booted
      /\ e.stage = st /\ e.conf = d.conf /\ e.rom = d.rom /\ e.xip = d.xip
  BY Zenon DEF HeaderChanged
<1>3. e.hdr \in Hdrs /\ e.hdr[Boot2] = d.hdr[Boot2] /\ \A x \in {1, 2} : x # h => e.hdr[x] = d.hdr[x]
  BY <1>1, <1>2 DEF Hdrs, Boot2
<1>4. TypeAt(e, o + 1)
  <2>0. o + 1 \in Nat
    BY <1>1
  <2>1. e.damage \in Nat /\ e.same \in BOOLEAN /\ e.fell \in BOOLEAN
    BY <1>1, <1>2, Zenon
  <2>2. e.tab \in Tabs /\ e.next \in TableType /\ e.booted \in {None, Boot2, 1, 2}
    BY Zenon, <1>1, <1>2
  <2>. QED
    BY <1>2, <1>3, <2>0, <2>1, <2>2, Zenon DEF TypeAt
<1>5. TablesAt(e)
  BY Zenon, <1>2, <1>3 DEF InvAt, TablesAt
<1>6. AgesAt(e, o + 1)
  <2>1. (\A c \in {0, 1} : d.tab[c].age <= o + 2) /\ d.next.age <= o + 2
    BY Zenon DEF InvAt, AgesAt
  <2>2. (\A c \in {0, 1} : d.tab[c].age \in Nat) /\ d.next.age \in Nat
    BY Zenon, <1>1 DEF Tabs, TableType
  <2>. QED
    BY <1>1, <1>2, <2>1, <2>2 DEF AgesAt
<1>7. AgreesAt(e)
  BY Zenon, <1>2 DEF InvAt, AgreesAt, Normal
<1>8. SettledAt(e)
  BY Zenon, <1>2 DEF SettledAt
<1>9. UpdatingAt(e)
  BY Zenon, <1>2, <1>3 DEF InvAt, UpdatingAt, InUse
<1>. QED
  BY Zenon, <1>4, <1>5, <1>6, <1>7, <1>8, <1>9 DEF InvAt

\* e is d with table t in the place of the copy that is not in use.
TableChanged(d, e, st, nx, t) ==
  /\ Record(e) /\ e.hdr = d.hdr /\ e.tab = [d.tab EXCEPT ![1 - InUse(d)] = t] /\ e.next = nx
  /\ e.damage = d.damage /\ e.same = FALSE /\ e.fell = d.fell /\ e.booted = d.booted
  /\ e.stage = st /\ e.conf = d.conf /\ e.rom = d.rom /\ e.xip = d.xip

LEMMA TableFields ==
  ASSUME NEW d, Record(d), NEW e, NEW st, NEW t, NEW nx,
         e = [d EXCEPT !.stage = st, !.same = FALSE, !.next = nx, !.tab[1 - InUse(d)] = t]
  PROVE  TableChanged(d, e, st, nx, t)
BY Zenon DEF Record, Fields, TableChanged

Replaced(tab, new, p, t) ==
  new \in Tabs /\ new[p] = t /\ \A c \in {0, 1} : c # p => new[c] = tab[c]

LEMMA TabsWith ==
  ASSUME NEW tab \in Tabs, NEW p \in {0, 1}, NEW t \in TableType
  PROVE  Replaced(tab, [tab EXCEPT ![p] = t], p, t)
BY Zenon DEF Tabs, Replaced

\* A step that writes the copy of the table that is not in use.
LEMMA TableStep ==
  ASSUME NEW d, NEW e, NEW o, InvAt(d, o), o + 1 <= MaxOps, MaxOps \in Nat,
         d.booted \in {1, 2}, InUse(d) # None, NEW st, NEW t, NEW nx,
         GoodTable(t), GoodTable(nx), t.age <= o + 3, nx.age <= o + 3,
         TableChanged(d, e, st, nx, t)
  PROVE  InvAt(e, o + 1)
<1>. DEFINE c == InUse(d)
<1>1. /\ Record(d) /\ d.hdr \in Hdrs /\ d.tab \in Tabs /\ d.damage \in Nat
      /\ o \in Nat /\ d.fell \in BOOLEAN /\ d.booted \in {None, Boot2, 1, 2}
  BY Zenon DEF InvAt, TypeAt
<1>2. c \in {0, 1} /\ d.tab[c].ok
  BY Zenon DEF InUse, selected_copy, partition_table_valid
<1>. HIDE DEF c
<1>3. /\ Record(e) /\ e.hdr = d.hdr /\ e.tab = [d.tab EXCEPT ![1 - c] = t] /\ e.next = nx
      /\ e.damage = d.damage /\ e.same = FALSE /\ e.fell = d.fell /\ e.booted = d.booted
      /\ e.stage = st /\ e.conf = d.conf /\ e.rom = d.rom /\ e.xip = d.xip
  BY Zenon DEF TableChanged, c
<1>4. e.tab \in Tabs /\ e.tab[c] = d.tab[c] /\ e.tab[1 - c] = t
      /\ \A x \in {0, 1} : x = c \/ x = 1 - c
  <2>. DEFINE p == 1 - c
  <2>1. t \in TableType /\ p \in {0, 1} /\ p # c /\ \A x \in {0, 1} : x = c \/ x = p
    BY <1>2 DEF GoodTable
  <2>2. e.tab = [d.tab EXCEPT ![p] = t]
    BY Zenon, <1>3
  <2>. HIDE DEF p
  <2>3. e.tab \in Tabs /\ e.tab[p] = t /\ \A x \in {0, 1} : x # p => e.tab[x] = d.tab[x]
    <3>1. d.tab \in Tabs
      BY Zenon, <1>1
    <3>2. p \in {0, 1} /\ t \in TableType
      BY Zenon, <2>1
    <3>3. Replaced(d.tab, [d.tab EXCEPT ![p] = t], p, t)
      BY Zenon, <3>1, <3>2, TabsWith
    <3>. QED
      BY <2>2, <3>3 DEF Replaced
  <2>4. e.tab[c] = d.tab[c]
    BY Zenon, <1>2, <2>1, <2>3
  <2>. QED
    BY Zenon, <2>1, <2>3, <2>4 DEF p
<1>5. TypeAt(e, o + 1)
  <2>1. nx \in TableType /\ o + 1 \in Nat
    BY <1>1 DEF GoodTable
  <2>. QED
    BY Zenon, <1>1, <1>3, <1>4, <2>1 DEF TypeAt
<1>6. TablesAt(e)
  <2>1. GoodTable(d.tab[c]) /\ d.hdr[Boot2].ok
    BY Zenon, <1>2 DEF InvAt, TablesAt
  <2>. QED
    BY Zenon, <1>3, <1>4, <2>1 DEF TablesAt
<1>7. AgesAt(e, o + 1)
  <2>1. d.tab[c].age <= o + 2
    BY Zenon, <1>2 DEF InvAt, AgesAt
  <2>2. d.tab[c].age \in Nat /\ t.age \in Nat /\ nx.age \in Nat
    <3>1. d.tab[c] \in TableType /\ t \in TableType /\ nx \in TableType
      BY Zenon, <1>1, <1>2 DEF Tabs, GoodTable
    <3>. QED
      BY Zenon, <3>1 DEF TableType
  <2>3. \A x \in {0, 1} : e.tab[x].age <= (o + 1) + 2
    BY <1>1, <1>4, <2>1, <2>2
  <2>. QED
    BY <1>1, <1>3, <2>2, <2>3 DEF AgesAt
<1>8. AgreesAt(e)
  BY Zenon, <1>3 DEF InvAt, AgreesAt, Normal
<1>9. SettledAt(e)
  BY Zenon, <1>3 DEF SettledAt
<1>10. InUse(e) # None
  BY <1>2, <1>4 DEF InUse, selected_copy, partition_table_valid, None
<1>11. UpdatingAt(e)
  BY Zenon, <1>3, <1>10 DEF InvAt, UpdatingAt
<1>. QED
  BY Zenon, <1>5, <1>6, <1>7, <1>8, <1>9, <1>11 DEF InvAt

\* The table an update writes, whole and cut short.
LEMMA NewTables ==
  ASSUME NEW d, NEW o, InvAt(d, o), d.booted \in {1, 2}, InUse(d) # None, Assumptions
  PROVE  /\ GoodTable(NewTable(d)) /\ GoodTable(Torn(NewTable(d)))
         /\ NewTable(d).age <= o + 3 /\ Torn(NewTable(d)).age <= o + 3
<1>. DEFINE c == InUse(d)
            t == d.tab[c]
            k == Spare(d)
            n == NewTable(d)
            m == Torn(n)
<1>1. c \in {0, 1} /\ t.ok /\ FwEntry(d) = 2 /\ k \in {0, 1} /\ o \in Nat /\ o <= MaxOps
  BY Zenon, SpareSlot DEF InvAt, TypeAt, AgesAt
<1>2. GoodTable(t) /\ t.age <= o + 2
  BY Zenon, <1>1 DEF InvAt, TablesAt, AgesAt
<1>3. t \in TableType /\ t.entries \in [1 .. 2 -> EntryType] /\ t.age \in Nat
  BY Zenon, <1>2 DEF GoodTable, TableType
<1>4. (t.age + 1) % AgeWrap = t.age + 1
  BY <1>1, <1>2, <1>3 DEF Assumptions
<1>5. n = [t EXCEPT !.age = (@ + 1) % AgeWrap, !.entries[2].active = k]
  BY Zenon, <1>1 DEF NewTable
<1>. HIDE DEF c, t, k, n
<1>6. /\ n.ok = t.ok /\ n.age = t.age + 1 /\ n = [f \in {"ok", "age", "entries"} |-> n[f]]
      /\ n.entries = [t.entries EXCEPT ![2].active = k]
  BY Zenon, <1>3, <1>4, <1>5 DEF TableType
<1>7. /\ n.entries \in [1 .. 2 -> EntryType] /\ n.entries[1] = t.entries[1]
      /\ n.entries[2].fw = t.entries[2].fw /\ n.entries[2].at = t.entries[2].at
      /\ n.entries[2].active = k
  BY <1>1, <1>3, <1>6 DEF EntryType
<1>8. t.ok \in BOOLEAN
  BY Zenon, <1>3 DEF TableType
<1>9. n \in TableType
  BY <1>3, <1>6, <1>7, <1>8 DEF TableType
<1>10. GoodTable(n) /\ n.age <= o + 3
  <2>1. n.age <= o + 3
    BY <1>1, <1>2, <1>3, <1>6
  <2>2. ~ t.entries[1].fw /\ t.entries[2].fw /\ \A j \in {0, 1} : t.entries[2].at[j] = j + 1
    BY Zenon, <1>2 DEF GoodTable
  <2>3. ~ n.entries[1].fw /\ n.entries[2].fw /\ \A j \in {0, 1} : n.entries[2].at[j] = j + 1
    BY Zenon, <1>7, <2>2
  <2>. QED
    BY Zenon, <1>1, <1>7, <1>9, <2>1, <2>3 DEF GoodTable
<1>11. m = [n EXCEPT !.ok = FALSE,
                     !.entries = [i \in DOMAIN n.entries |-> [n.entries[i] EXCEPT !.active = 255]]]
  BY Zenon DEF Torn
<1>. HIDE DEF m
<1>12. /\ m.ok = FALSE /\ m.age = n.age /\ m = [f \in {"ok", "age", "entries"} |-> m[f]]
       /\ m.entries = [i \in DOMAIN n.entries |-> [n.entries[i] EXCEPT !.active = 255]]
  <2>. DEFINE es == [i \in DOMAIN n.entries |-> [n.entries[i] EXCEPT !.active = 255]]
  <2>1. m = [n EXCEPT !.ok = FALSE, !.entries = es]
    BY Zenon, <1>11
  <2>. HIDE DEF es
  <2>2. DOMAIN n = {"ok", "age", "entries"}
    BY Zenon, <1>9 DEF TableType
  <2>3. m.ok = FALSE /\ m.age = n.age /\ m = [f \in {"ok", "age", "entries"} |-> m[f]]
        /\ m.entries = es
    BY Zenon, <2>1, <2>2
  <2>. QED
    BY Zenon, <2>3 DEF es
<1>13. /\ m.entries \in [1 .. 2 -> EntryType]
       /\ \A i \in 1 .. 2 : m.entries[i].fw = n.entries[i].fw /\ m.entries[i].at = n.entries[i].at
  BY <1>7, <1>12 DEF EntryType
<1>14. n.age \in Nat
  BY Zenon, <1>9 DEF TableType
<1>15. m \in TableType
  BY Zenon, <1>12, <1>13, <1>14 DEF TableType
<1>16. GoodTable(m) /\ m.age <= o + 3
  BY <1>10, <1>12, <1>13, <1>15 DEF GoodTable
<1>. QED
  BY Zenon, <1>10, <1>16 DEF n, m

----------------------------------------------------------------------------
(***************************************************************************)
(* The actions                                                             *)
(***************************************************************************)
LEMMA Counted ==
  ASSUME Assumptions, IInv, ops < MaxOps
  PROVE  /\ Record(s) /\ s.damage \in Nat /\ ops \in Nat /\ MaxOps \in Nat
         /\ ops + 1 <= MaxOps
BY DEF Assumptions, IInv, InvAt, TypeAt

LEMMA BadHeader == Bad \in HeaderType
BY Zenon DEF HeaderType, Bad

LEMMA EraseSlotInv ==
  ASSUME Assumptions, IInv, EraseSlot
  PROVE  IInv' /\ ~ s'.same
<1>1. /\ ops < MaxOps /\ ops' = ops + 1
      /\ s' = [s EXCEPT !.stage = "erased", !.same = FALSE, !.hdr[SpareHeader(s)] = Bad]
  BY Zenon DEF EraseSlot, Step
<1>2. s.booted \in {1, 2} /\ InUse(s) # None
  BY Zenon DEF EraseSlot, Running, IInv, InvAt, TypeAt
<1>3. SpareHeader(s) \in {1, 2} /\ SpareHeader(s) # s.booted
  BY Zenon, <1>2, SpareSlot DEF IInv, InvAt
<1>4. HeaderChanged(s, s', "erased", SpareHeader(s), Bad, s.damage)
  BY Zenon, <1>1, Counted, SlotFields
<1>5. InvAt(s', ops + 1)
  BY <1>1, <1>2, <1>3, <1>4, Counted, BadHeader, HeaderStep DEF IInv
<1>. QED
  BY Zenon, <1>1, <1>4, <1>5 DEF IInv, HeaderChanged

LEMMA WriteSlotInv ==
  ASSUME Assumptions, IInv, WriteSlot
  PROVE  IInv' /\ ~ s'.same
<1>1. PICK v \in Headers :
        /\ ops < MaxOps /\ ops' = ops + 1
        /\ s' = [s EXCEPT !.stage = "written", !.same = FALSE, !.hdr[SpareHeader(s)] = v]
  BY Zenon DEF WriteSlot, Step
<1>2. s.booted \in {1, 2} /\ InUse(s) # None
  BY Zenon DEF WriteSlot, IInv, InvAt, UpdatingAt
<1>3. SpareHeader(s) \in {1, 2} /\ SpareHeader(s) # s.booted
  BY Zenon, <1>2, SpareSlot DEF IInv, InvAt
<1>4. HeaderChanged(s, s', "written", SpareHeader(s), v, s.damage)
  BY Zenon, <1>1, Counted, SlotFields
<1>5. v \in HeaderType
  BY Zenon DEF Assumptions
<1>6. InvAt(s', ops + 1)
  BY <1>1, <1>2, <1>3, <1>4, <1>5, Counted, HeaderStep DEF IInv
<1>. QED
  BY Zenon, <1>1, <1>4, <1>6 DEF IInv, HeaderChanged

LEMMA DamageInv ==
  ASSUME Assumptions, IInv, Damage
  PROVE  IInv' /\ ~ s'.same
<1>1. PICK h \in DOMAIN s.hdr \ {Boot2} :
        /\ ops < MaxOps /\ ops' = ops + 1
        /\ s' = [s EXCEPT !.hdr[h] = Bad, !.damage = @ + 1, !.same = FALSE]
  BY Zenon DEF Damage, Step
<1>2. h \in {1, 2}
  BY DEF IInv, InvAt, TypeAt, Hdrs, Boot2
<1>3. HeaderChanged(s, s', s.stage, h, Bad, s.damage + 1)
  BY Zenon, <1>1, Counted, DamageFields
<1>4. s.stage # "idle" => s.booted \in {1, 2} /\ InUse(s) # None
  BY Zenon DEF IInv, InvAt, UpdatingAt
<1>5. s.damage + 1 \in Nat /\ s.damage + 1 # 0
  BY <1>1, Counted
<1>6. InvAt(s', ops + 1)
  BY <1>1, <1>2, <1>3, <1>4, <1>5, Counted, BadHeader, HeaderStep DEF IInv
<1>. QED
  BY Zenon, <1>1, <1>3, <1>6 DEF IInv, HeaderChanged

LEMMA BeginTableInv ==
  ASSUME Assumptions, IInv, BeginTable
  PROVE  IInv' /\ ~ s'.same
<1>1. /\ ops < MaxOps /\ ops' = ops + 1
      /\ s' = [s EXCEPT !.stage = "table", !.same = FALSE, !.next = NewTable(s),
                        !.tab[1 - InUse(s)] = Torn(NewTable(s))]
  BY Zenon DEF BeginTable, Step
<1>2. s.booted \in {1, 2} /\ InUse(s) # None
  BY Zenon DEF BeginTable, IInv, InvAt, UpdatingAt
<1>3. TableChanged(s, s', "table", NewTable(s), Torn(NewTable(s)))
  BY Zenon, <1>1, Counted, TableFields
<1>4. InvAt(s', ops + 1)
  BY Zenon, <1>1, <1>2, <1>3, Counted, NewTables, TableStep DEF IInv
<1>. QED
  BY Zenon, <1>1, <1>3, <1>4 DEF IInv, TableChanged

LEMMA EndTableInv ==
  ASSUME Assumptions, IInv, EndTable
  PROVE  IInv' /\ ~ s'.same
<1>1. /\ ops < MaxOps /\ ops' = ops + 1
      /\ s' = [s EXCEPT !.stage = "idle", !.same = FALSE, !.tab[1 - InUse(s)] = s.next]
  BY Zenon DEF EndTable, Step
<1>2. s.booted \in {1, 2} /\ InUse(s) # None
  BY Zenon DEF EndTable, IInv, InvAt, UpdatingAt
<1>3. TableChanged(s, s', "idle", s.next, s.next)
  BY Zenon, <1>1, Counted DEF Record, Fields, TableChanged
<1>4. GoodTable(s.next) /\ s.next.age <= ops + 3
  <2>1. GoodTable(s.next) /\ s.next.age <= ops + 2
    BY Zenon DEF IInv, InvAt, TablesAt, AgesAt
  <2>2. s.next.age \in Nat
    BY Zenon, <2>1 DEF GoodTable, TableType
  <2>. QED
    BY <1>1, <2>1, <2>2, Counted
<1>5. InvAt(s', ops + 1)
  BY Zenon, <1>1, <1>2, <1>3, <1>4, Counted, TableStep DEF IInv
<1>. QED
  BY Zenon, <1>1, <1>3, <1>5 DEF IInv, TableChanged

LEMMA ResetStepInv ==
  ASSUME Assumptions, IInv, Reset
  PROVE  IInv' /\ ResetOf(s, s')
<1>1. ops < MaxOps /\ ops' = ops + 1 /\ s' = machine_reset(s)
  BY Zenon DEF Reset, Step
<1>. DEFINE n == ops + 2
            o == ops + 1
<1>2. n \in Nat /\ o \in Nat /\ n <= MaxOps + 1 /\ o <= MaxOps /\ n + 1 <= o + 2
  BY <1>1, Counted
<1>3. /\ Record(s) /\ s.hdr \in Hdrs /\ s.tab \in Tabs /\ s.damage \in Nat /\ TablesAt(s)
      /\ (\A c \in {0, 1} : s.tab[c].age <= n) /\ s.next.age <= n
  BY Zenon DEF IInv, InvAt, TypeAt, AgesAt
<1>. HIDE DEF n, o
<1>4. InvAt(s', o)
  BY Zenon, <1>1, <1>2, <1>3, ResetInv
<1>5. ResetOf(s, s')
  BY Zenon, <1>1, <1>3, ResetFields
<1>. QED
  BY Zenon, <1>1, <1>4, <1>5 DEF IInv, o

\* Every step but a reset changes the flash.
LEMMA NextInv ==
  ASSUME Assumptions, IInv, Next
  PROVE  IInv' /\ (~ s'.same \/ ResetOf(s, s'))
BY Zenon, EraseSlotInv, WriteSlotInv, BeginTableInv, EndTableInv, DamageInv, ResetStepInv DEF Next

LEMMA StutterInv == IInv /\ UNCHANGED vars => IInv'
BY Zenon DEF IInv, vars

----------------------------------------------------------------------------
\* The boot ROM and the flash window of M0 always show the same image, for all
\* options, flash contents and sequences of updates, power failures and damage:
\* the two searches of bl808_machine_reset agree.
THEOREM RomAlwaysAgrees ==
  ASSUME Assumptions PROVE Spec => []RomAgrees
<1>1. IInv => RomAgrees
  BY Zenon DEF IInv, InvAt, AgreesAt, RomAgrees
<1>2. IInv /\ [Next]_vars => IInv'
  BY Zenon, NextInv, StutterInv
<1>. QED
  BY <1>1, <1>2, InitInv, PTL DEF Spec, vars

LEMMA FallbackStep ==
  ASSUME Assumptions, IInv, Next PROVE FallbackSticksStep
<1>1. SUFFICES ASSUME s.same, s'.same
               PROVE  s'.booted = s.booted /\ ~ s'.fell /\ s'.tab = s.tab
  BY Zenon DEF FallbackSticksStep
<1>2. ResetOf(s, s')
  BY Zenon, <1>1, NextInv
<1>3. ~ partition(s).fell /\ s.booted = reset_header(s, partition(s))
  BY Zenon, <1>1 DEF IInv, InvAt, SettledAt
<1>. QED
  BY Zenon, <1>2, <1>3 DEF ResetOf

LEMMA UpdateStep ==
  ASSUME Assumptions, IInv, Next PROVE UpdateSafeStep
<1>. DEFINE tables == {c \in {0, 1} : s.tab[c].ok}
<1>1. ASSUME s.stage # "idle", s.damage = 0
      PROVE  tables # {} /\ Whole(s) # {}
  <2>1. s.booted \in Whole(s) /\ InUse(s) # None
    BY Zenon, <1>1 DEF IInv, InvAt, UpdatingAt, Whole
  <2>2. InUse(s) \in tables
    BY Zenon, <2>1 DEF InUse, selected_copy, partition_table_valid
  <2>. QED
    BY Zenon, <2>1, <2>2
<1>2. ASSUME s'.same, Normal(s), tables # {}, Whole(s) # {}
      PROVE  s'.booted \in Whole(s)
  <2>1. PICK c \in tables : TRUE
    BY Zenon, <1>2
  <2>2. PICK g \in Whole(s) : TRUE
    BY Zenon, <1>2
  <2>3. ResetOf(s, s')
    BY Zenon, <1>2, NextInv
  <2>4. /\ s.hdr \in Hdrs /\ s.tab \in Tabs /\ s.hdr[Boot2].ok
        /\ \A x \in {0, 1} : GoodTable(s.tab[x])
    BY Zenon DEF IInv, InvAt, TypeAt, TablesAt
  <2>5. s'.booted \in Whole(s')
    BY Zenon, <1>2, <2>1, <2>2, <2>3, <2>4, ResetBoots
  <2>6. s'.hdr = s.hdr
    BY Zenon, <2>3 DEF ResetOf
  <2>. QED
    BY Zenon, <2>5, <2>6 DEF Whole
<1>. QED
  BY Zenon, <1>1, <1>2 DEF UpdateSafeStep, Whole

FallbackSticks == [][FallbackSticksStep]_vars

\* A reset of a flash that has not changed since the last one boots the same
\* header and repairs nothing: what bl808_partition_table_writeback wrote is
\* found again by bl808_select_partition_header.
THEOREM FallbackAlwaysSticks ==
  ASSUME Assumptions PROVE Spec => FallbackSticks
<1>1. IInv /\ [Next]_vars => IInv'
  BY Zenon, NextInv, StutterInv
<1>2. IInv /\ [Next]_vars => [FallbackSticksStep]_vars
  BY Zenon, FallbackStep
<1>. QED
  BY <1>1, <1>2, InitInv, PTL DEF Spec, vars, FallbackSticks

UpdateSafe == [][UpdateSafeStep]_vars

\* However often an update is cut short, a slot that starts M0 and a valid table
\* are left, and a reset that finds both boots such a slot.
THEOREM UpdateAlwaysSafe ==
  ASSUME Assumptions PROVE Spec => UpdateSafe
<1>1. IInv /\ [Next]_vars => IInv'
  BY Zenon, NextInv, StutterInv
<1>2. IInv /\ [Next]_vars => [UpdateSafeStep]_vars
  BY Zenon, UpdateStep
<1>. QED
  BY <1>1, <1>2, InitInv, PTL DEF Spec, vars, UpdateSafe
=============================================================================
