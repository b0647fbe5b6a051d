----------------------- MODULE RetainedRecordsProofs ------------------------
(***************************************************************************)
(* The retained records tell the truth (RecordsTrue) whatever the number   *)
(* of faults, resets, clears and captures.  The writes that a core has     *)
(* left are the rest of one of five procedures; Stage says, for each rest, *)
(* what the writes already made have left in the boot-health record.       *)
(***************************************************************************)
EXTENDS RetainedRecords, SequenceTheorems, TLAPS

todo(c) == s.core[c].todo

\* What is left of bootHealthInit, of the capture and of bootHealthClear,
\* and of the writers of the crash record.
Boot4 == <<H("flag", 0), H("a", 0), H("b", 0), <<"look">>>>
Boot5 == <<H("a", 0), H("b", 0), <<"look">>>>
Boot6 == <<H("b", 0), <<"look">>>>
Boot7 == <<<<"look">>>>
Boot3(n) == <<H("count", n), H("flag", 0), H("a", 0), H("b", 0), <<"look">>>>
Boot2(n) == <<H("sum", <<>>), H("count", n), H("flag", 0), H("a", 0), H("b", 0), <<"look">>>>
Boot1(n) == <<H("magic", 1), H("sum", <<>>), H("count", n), H("flag", 0), H("a", 0), H("b", 0), <<"look">>>>

Snap5 == <<<<"sum">>>>
Snap4 == <<H("sum", <<>>), <<"sum">>>>
Snap3(z) == <<H("b", z), H("sum", <<>>), <<"sum">>>>
Snap2(y, z) == <<H("a", y), H("b", z), H("sum", <<>>), <<"sum">>>>
Snap1(x, y, z) == <<H("flag", x), H("a", y), H("b", z), H("sum", <<>>), <<"sum">>>>

Clear6 == <<H("b", 0)>>
Clear5 == <<H("a", 0), H("b", 0)>>
Clear4 == <<H("flag", 0), H("a", 0), H("b", 0)>>
Clear3 == <<H("count", 0), H("flag", 0), H("a", 0), H("b", 0)>>
Clear2 == <<H("sum", <<>>), H("count", 0), H("flag", 0), H("a", 0), H("b", 0)>>
Clear1 == <<H("magic", 0), H("sum", <<>>), H("count", 0), H("flag", 0), H("a", 0), H("b", 0)>>

Crash3(n) == <<F("b", n)>>
Crash2(n) == <<F("a", n), F("b", n)>>
Crash1(m, n) == <<F("magic", m), F("a", n), F("b", n)>>

BootTodo == {Boot4, Boot5, Boot6, Boot7} \cup {Boot1(n) : n \in Nat} \cup {Boot2(n) : n \in Nat} \cup {Boot3(n) : n \in Nat}
SnapTodo == {Snap4, Snap5} \cup {Snap3(z) : z \in Nat} \cup {Snap2(y, z) : y, z \in Nat}
              \cup {Snap1(x, y, z) : x, y, z \in Nat}
ClearTodo == {Clear1, Clear2, Clear3, Clear4, Clear5, Clear6}
CrashTodo == {Crash1(m, n) : m, n \in Nat} \cup {Crash2(n) : n \in Nat} \cup {Crash3(n) : n \in Nat}
HealthTodo == BootTodo \cup SnapTodo \cup ClearTodo
Todos == {<<>>} \cup HealthTodo \cup CrashTodo

Sums == {<<>>} \cup (Nat \X Nat \X Nat \X Nat \X Nat)
Health == [magic : Nat, sum : Sums, count : Nat, flag : Nat, a : Nat, b : Nat]
Crash == [magic : Nat, a : Nat, b : Nat]
States == [h : Health, f : Crash, core : [Cores -> [pc : {"off", "run", "fault"}, todo : Todos]],
           faults : Nat, last : Nat \cup {-1}, seen : [Cores -> Nat \cup {-1}], told : Nat \cup {-1},
           starts : Nat, sure : Nat, raced : BOOLEAN]
Types == s \in States

\* Flag and words that tell of fault n, or of nothing known.
Tells(x, y, z, n) == n # -1 => x = (IF n = 0 THEN 0 ELSE 1) /\ y = n /\ z = n

\* What a checksum that was computed vouches for.
SumTrue ==
  s.h.sum # <<>> => s.h.sum[2] <= s.starts /\ Tells(s.h.sum[3], s.h.sum[4], s.h.sum[5], s.told)

\* A record without its magic is one that was cleared or cut short.
Kept == s.starts # 0 /\ (s.h.magic = 1 \/ s.sure = 0)

Stage(c) ==
  \/ todo(c) = <<>> /\ (s.core[c].pc = "run" => s.starts # 0)
  \/ todo(c) \in CrashTodo /\ (s.core[c].pc = "run" => s.starts # 0)
  \/ \E n \in Nat : /\ s.sure < n /\ n <= s.starts + 1
                    /\ \/ todo(c) = Boot1(n)
                       \/ todo(c) = Boot2(n) /\ s.h.magic = 1
                       \/ todo(c) = Boot3(n) /\ s.h.magic = 1
  \/ todo(c) \in {Boot4, Boot5, Boot6, Boot7} /\ Kept
  \/ /\ Kept
     /\ \/ \E x, y, z \in Nat : todo(c) = Snap1(x, y, z) /\ Tells(x, y, z, s.seen[c])
        \/ \E y, z \in Nat : todo(c) = Snap2(y, z) /\ Tells(s.h.flag, y, z, s.seen[c])
        \/ \E z \in Nat : todo(c) = Snap3(z) /\ Tells(s.h.flag, s.h.a, z, s.seen[c])
        \/ todo(c) \in {Snap4, Snap5} /\ Tells(s.h.flag, s.h.a, s.h.b, s.seen[c])
  \/ todo(c) \in ClearTodo /\ s.sure = 0 /\ s.starts # 0

Valid == s.h.magic = 1 /\ s.h.sum = Contents(s.h)

HealthInv ==
  /\ s.sure <= s.h.count
  /\ s.starts # 0 => s.h.count <= s.starts
  /\ SumTrue
  /\ \E c \in Cores : todo(c) \notin HealthTodo
  /\ (\A c \in Cores : todo(c) \notin HealthTodo) => Valid \/ s.sure = 0
  /\ \A c \in Cores : Stage(c)

\* The crash record is about s.last, or will be once it is written.
CrashInv ==
  s.last # -1 =>
    /\ (\A c \in Cores : todo(c) \notin CrashTodo) => Tells(s.f.magic, s.f.a, s.f.b, s.last)
    /\ \A c \in Cores : todo(c) \in CrashTodo =>
         /\ todo(Other(c)) \notin CrashTodo
         /\ \E m \in Nat :
              \/ todo(c) = Crash1(m, s.last) /\ Tells(m, s.last, s.last, s.last)
              \/ todo(c) = Crash2(s.last) /\ Tells(s.f.magic, s.last, s.last, s.last)
              \/ todo(c) = Crash3(s.last) /\ Tells(s.f.magic, s.f.a, s.last, s.last)

IInv ==
  /\ Types
  /\ \A c \in Cores : s.core[c].pc = "off" => todo(c) = <<>>
  /\ ~s.raced => HealthInv
  /\ CrashInv

----------------------------------------------------------------------------
(* The steps through the procedures. *)

LEMMA BootSteps ==
  /\ Boot4 # <<>> /\ Head(Boot4) = H("flag", 0) /\ Tail(Boot4) = Boot5
  /\ Boot5 # <<>> /\ Head(Boot5) = H("a", 0) /\ Tail(Boot5) = Boot6
  /\ Boot6 # <<>> /\ Head(Boot6) = H("b", 0) /\ Tail(Boot6) = Boot7
  /\ Boot7 # <<>> /\ Head(Boot7) = <<"look">>
BY DEF Boot4, Boot5, Boot6, Boot7, H

LEMMA CountSteps ==
  ASSUME NEW n
  PROVE  /\ Boot1(n) # <<>> /\ Head(Boot1(n)) = H("magic", 1) /\ Tail(Boot1(n)) = Boot2(n)
         /\ Boot2(n) # <<>> /\ Head(Boot2(n)) = H("sum", <<>>) /\ Tail(Boot2(n)) = Boot3(n)
         /\ Boot3(n) # <<>> /\ Head(Boot3(n)) = H("count", n) /\ Tail(Boot3(n)) = Boot4
BY DEF Boot1, Boot2, Boot3, Boot4, H

LEMMA SnapSteps ==
  ASSUME NEW x, NEW y, NEW z
  PROVE  /\ Snap1(x, y, z) # <<>> /\ Head(Snap1(x, y, z)) = H("flag", x) /\ Tail(Snap1(x, y, z)) = Snap2(y, z)
         /\ Snap2(y, z) # <<>> /\ Head(Snap2(y, z)) = H("a", y) /\ Tail(Snap2(y, z)) = Snap3(z)
         /\ Snap3(z) # <<>> /\ Head(Snap3(z)) = H("b", z) /\ Tail(Snap3(z)) = Snap4
         /\ Snap4 # <<>> /\ Head(Snap4) = H("sum", <<>>) /\ Tail(Snap4) = Snap5
         /\ Snap5 # <<>> /\ Head(Snap5) = <<"sum">> /\ Tail(Snap5) = <<>>
BY DEF Snap1, Snap2, Snap3, Snap4, Snap5, H

LEMMA ClearSteps ==
  /\ Clear1 # <<>> /\ Head(Clear1) = H("magic", 0) /\ Tail(Clear1) = Clear2
  /\ Clear2 # <<>> /\ Head(Clear2) = H("sum", <<>>) /\ Tail(Clear2) = Clear3
  /\ Clear3 # <<>> /\ Head(Clear3) = H("count", 0) /\ Tail(Clear3) = Clear4
  /\ Clear4 # <<>> /\ Head(Clear4) = H("flag", 0) /\ Tail(Clear4) = Clear5
  /\ Clear5 # <<>> /\ Head(Clear5) = H("a", 0) /\ Tail(Clear5) = Clear6
  /\ Clear6 # <<>> /\ Head(Clear6) = H("b", 0) /\ Tail(Clear6) = <<>>
BY DEF Clear1, Clear2, Clear3, Clear4, Clear5, Clear6, H

LEMMA CrashSteps ==
  ASSUME NEW m, NEW n
  PROVE  /\ Crash1(m, n) # <<>> /\ Head(Crash1(m, n)) = F("magic", m) /\ Tail(Crash1(m, n)) = Crash2(n)
         /\ Crash2(n) # <<>> /\ Head(Crash2(n)) = F("a", n) /\ Tail(Crash2(n)) = Crash3(n)
         /\ Crash3(n) # <<>> /\ Head(Crash3(n)) = F("b", n) /\ Tail(Crash3(n)) = <<>>
BY DEF Crash1, Crash2, Crash3, F

LEMMA Joined ==
  ASSUME NEW u, NEW v, NEW w, NEW x, NEW y
  PROVE  <<u, v, w>> \o <<x, y>> = <<u, v, w, x, y>>
<1> DEFINE S == {u, v, w, x, y}
           p == <<u, v, w>>
           q == <<x, y>>
           r == <<u, v, w, x, y>>
<1>1. p \in Seq(S) /\ q \in Seq(S) /\ r \in Seq(S) /\ Len(p) = 3 /\ Len(q) = 2 /\ Len(r) = 5
  OBVIOUS
<1> HIDE DEF S
<1>2. Len(p \o q) = 5 /\ p \o q \in Seq(S)
  BY <1>1
<1>3. \A i \in 1 .. 5 : (p \o q)[i] = r[i]
  BY <1>1
<1> QED BY Zenon, <1>1, <1>2, <1>3, SeqEqual

(* Where the procedures begin. *)
LEMMA Procedures ==
  /\ bootHealthClear = Clear1
  /\ faultClearRecord = Crash1(0, 0)
  /\ \A n : faultRecord(n) = Crash1(1, n)
  /\ \A h : bootHealthInit(h) = Boot1(IF bootHealthRecordValid(h) THEN h.count + 1 ELSE 1)
  /\ \A f : bootHealthCaptureFaultSnapshot(f) =
              IF faultRecordValid(f) THEN Snap1(1, f.a, f.b) ELSE Snap1(0, 0, 0)
<1>1. bootHealthClear = Clear1
  BY DEF bootHealthClear, Clear1
<1>2. faultClearRecord = Crash1(0, 0)
  BY DEF faultClearRecord, Crash1
<1>3. \A n : faultRecord(n) = Crash1(1, n)
  BY DEF faultRecord, Crash1
<1>4. ASSUME NEW h
      PROVE  bootHealthInit(h) = Boot1(IF bootHealthRecordValid(h) THEN h.count + 1 ELSE 1)
  BY DEF bootHealthInit, Boot1
<1>5. ASSUME NEW f
      PROVE  bootHealthCaptureFaultSnapshot(f) =
               IF faultRecordValid(f) THEN Snap1(1, f.a, f.b) ELSE Snap1(0, 0, 0)
  BY Zenon, Joined
  DEF bootHealthCaptureFaultSnapshot, bootHealthCommit, bootHealthClearPreviousFault, Snap1
<1> QED BY Zenon, <1>1, <1>2, <1>3, <1>4, <1>5

(* Which record a rest of a procedure writes. *)
HealthRest(t) ==
  Len(t) \in Nat /\ Len(t) >= 1 /\ \A i \in 1 .. Len(t) : t[i][1] \in {"h", "look", "sum"}

CrashRest(t) ==
  Len(t) \in Nat /\ Len(t) >= 1 /\ \A i \in 1 .. Len(t) : t[i][1] = "f"

LEMMA HealthRests ==
  ASSUME NEW n, NEW x, NEW y, NEW z
  PROVE  /\ HealthRest(Boot1(n)) /\ HealthRest(Boot2(n)) /\ HealthRest(Boot3(n))
         /\ HealthRest(Boot4) /\ HealthRest(Boot5) /\ HealthRest(Boot6) /\ HealthRest(Boot7)
         /\ HealthRest(Snap1(x, y, z)) /\ HealthRest(Snap2(y, z)) /\ HealthRest(Snap3(z))
         /\ HealthRest(Snap4) /\ HealthRest(Snap5)
         /\ HealthRest(Clear1) /\ HealthRest(Clear2) /\ HealthRest(Clear3)
         /\ HealthRest(Clear4) /\ HealthRest(Clear5) /\ HealthRest(Clear6)
<1> USE DEF HealthRest, H
<1>1. HealthRest(Boot1(n)) /\ HealthRest(Boot2(n)) /\ HealthRest(Boot3(n))
  BY DEF Boot1, Boot2, Boot3
<1>2. HealthRest(Boot4) /\ HealthRest(Boot5) /\ HealthRest(Boot6) /\ HealthRest(Boot7)
  BY DEF Boot4, Boot5, Boot6, Boot7
<1>3. HealthRest(Snap1(x, y, z)) /\ HealthRest(Snap2(y, z)) /\ HealthRest(Snap3(z))
  BY DEF Snap1, Snap2, Snap3
<1>4. HealthRest(Snap4) /\ HealthRest(Snap5)
  BY DEF Snap4, Snap5
<1>5. HealthRest(Clear1) /\ HealthRest(Clear2) /\ HealthRest(Clear3)
  BY DEF Clear1, Clear2, Clear3
<1>6. HealthRest(Clear4) /\ HealthRest(Clear5) /\ HealthRest(Clear6)
  BY DEF Clear4, Clear5, Clear6
<1> HIDE DEF HealthRest
<1> QED BY Zenon, <1>1, <1>2, <1>3, <1>4, <1>5, <1>6

LEMMA CrashRests ==
  ASSUME NEW m, NEW n
  PROVE  CrashRest(Crash1(m, n)) /\ CrashRest(Crash2(n)) /\ CrashRest(Crash3(n))
BY DEF CrashRest, Crash1, Crash2, Crash3, F

LEMMA RestWrites ==
  /\ ~Writes(<<>>, "h") /\ ~Writes(<<>>, "f")
  /\ \A t \in HealthTodo : Writes(t, "h") /\ ~Writes(t, "f")
  /\ \A t \in CrashTodo : Writes(t, "f") /\ ~Writes(t, "h")
<1>1. ~Writes(<<>>, "h") /\ ~Writes(<<>>, "f")
  BY DEF Writes
<1>2. ASSUME NEW t, HealthRest(t) PROVE Writes(t, "h") /\ ~Writes(t, "f")
  BY <1>2 DEF Writes, HealthRest
<1>3. ASSUME NEW t, CrashRest(t) PROVE Writes(t, "f") /\ ~Writes(t, "h")
  BY <1>3 DEF Writes, CrashRest
<1>4. \A t \in HealthTodo : HealthRest(t)
  BY HealthRests DEF HealthTodo, BootTodo, SnapTodo, ClearTodo
<1>5. \A t \in CrashTodo : CrashRest(t)
  BY CrashRests DEF CrashTodo
<1> QED BY Zenon, <1>1, <1>2, <1>3, <1>4, <1>5

LEMMA TodoWrites ==
  ASSUME Types, NEW c \in Cores
  PROVE  /\ todo(c) \in Todos
         /\ Writes(Core(c).todo, "h") <=> todo(c) \in HealthTodo
         /\ Writes(Core(c).todo, "f") <=> todo(c) \in CrashTodo
         /\ todo(c) = <<>> => todo(c) \notin HealthTodo /\ todo(c) \notin CrashTodo
         /\ ~(todo(c) \in HealthTodo /\ todo(c) \in CrashTodo)
<1>1. todo(c) \in Todos
  BY Zenon DEF Types, States, todo
<1> QED BY Zenon, <1>1, RestWrites DEF Todos, todo, Core

----------------------------------------------------------------------------
(* What one write does. *)

\* Everything but the record h, the counts and the list of core c stays.
Beside(c) ==
  /\ \A d \in Cores : d # c => s'.core[d] = s.core[d]
  /\ s'.core[c].pc = s.core[c].pc
  /\ s'.last = s.last /\ s'.raced = s.raced

\* Core c has taken its next write from its list.
Taken(d, c) ==
  /\ d.core[c].todo = Tail(todo(c)) /\ d.core[c].pc = s.core[c].pc
  /\ \A e \in Cores : e # c => d.core[e] = s.core[e]
  /\ d.h = s.h /\ d.f = s.f /\ d.starts = s.starts /\ d.sure = s.sure /\ d.seen = s.seen
  /\ d.told = s.told /\ d.last = s.last /\ d.raced = s.raced

LEMMA TakeFirst ==
  ASSUME Types, NEW c \in Cores, Tail(todo(c)) \in Todos
  PROVE  LET d == [s EXCEPT !.core[c].todo = Tail(@)] IN d \in States /\ Taken(d, c)
BY Zenon DEF Types, States, Taken, todo

Put(h, f, v) == [h EXCEPT ![f] = v]

\* A write of a count that is not 0 is a start.
Counted(f, v) == IF f = "count" /\ v # 0 THEN 1 ELSE 0

LEMMA WriteHealth ==
  ASSUME Types, NEW c \in Cores, Write(c), todo(c) # <<>>, NEW f, NEW v,
         Head(todo(c)) = H(f, v), Tail(todo(c)) \in Todos, Put(s.h, f, v) \in Health
  PROVE  /\ Types' /\ Beside(c)
         /\ s'.h = Put(s.h, f, v) /\ s'.core[c].todo = Tail(todo(c))
         /\ s'.starts = s.starts + Counted(f, v) /\ s'.sure = s.sure + Counted(f, v)
         /\ s'.f = s.f /\ s'.seen = s.seen /\ s'.told = s.told
<1> DEFINE d == [s EXCEPT !.core[c].todo = Tail(@)]
<1>1. d \in States /\ Taken(d, c)
  BY Zenon, TakeFirst
<1> HIDE DEF d
<1> DEFINE k == Counted(f, v)
<1>2. s' = [d EXCEPT !.h[f] = v, !.starts = @ + k, !.sure = @ + k]
  <2>1. s' = Written(d, c, H(f, v))
    BY Zenon DEF Write, todo, Core, d
  <2>2. H(f, v)[1] = "h" /\ H(f, v)[2] = f /\ H(f, v)[3] = v
    BY DEF H
  <2> QED BY Zenon, <2>1, <2>2 DEF Written, Counted
<1>3. s.starts + k \in Nat /\ s.sure + k \in Nat
  BY DEF Types, States, Counted
<1> HIDE DEF k
<1>4. Types'
  BY Zenon, <1>1, <1>2, <1>3 DEF Types, States, Taken, Put
<1> QED BY Zenon, <1>1, <1>2, <1>4 DEF Beside, Taken, States, Put, k

LEMMA WriteSum ==
  ASSUME Types, NEW c \in Cores, Write(c), todo(c) # <<>>, Head(todo(c)) = <<"sum">>, Tail(todo(c)) \in Todos
  PROVE  /\ Types' /\ Beside(c)
         /\ s'.h = [s.h EXCEPT !.sum = Contents(s.h)] /\ s'.core[c].todo = Tail(todo(c))
         /\ s'.starts = s.starts /\ s'.sure = s.sure
         /\ s'.f = s.f /\ s'.seen = s.seen /\ s'.told = s.seen[c]
<1> DEFINE d == [s EXCEPT !.core[c].todo = Tail(@)]
<1>1. d \in States /\ Taken(d, c)
  BY Zenon, TakeFirst
<1> HIDE DEF d
<1>2. s' = [d EXCEPT !.h.sum = Contents(d.h), !.told = d.seen[c]]
  <2>1. s' = Written(d, c, <<"sum">>)
    BY Zenon DEF Write, todo, Core, d
  <2>2. <<"sum">>[1] = "sum"
    OBVIOUS
  <2> QED BY Zenon, <2>1, <2>2 DEF Written
<1>3. Contents(d.h) \in Sums
  BY Zenon, <1>1 DEF States, Health, Contents, Sums
<1>4. Types'
  BY Zenon, <1>1, <1>2, <1>3 DEF Types, States, Health
<1> QED BY Zenon, <1>1, <1>2, <1>4 DEF Beside, Taken, States, Health

LEMMA WriteLook ==
  ASSUME Types, NEW c \in Cores, Write(c), todo(c) # <<>>, Head(todo(c)) = <<"look">>,
         Tail(todo(c)) \in Todos, bootHealthCaptureFaultSnapshot(s.f) \in Todos
  PROVE  /\ Types' /\ Beside(c)
         /\ s'.h = s.h /\ s'.core[c].todo = bootHealthCaptureFaultSnapshot(s.f)
         /\ s'.starts = s.starts /\ s'.sure = s.sure
         /\ s'.f = s.f /\ s'.told = s.told
         /\ s'.seen[c] = IF todo(Other(c)) \in CrashTodo THEN -1 ELSE s.last
         /\ \A e \in Cores : e # c => s'.seen[e] = s.seen[e]
<1> DEFINE d == [s EXCEPT !.core[c].todo = Tail(@)]
<1>1. d \in States /\ Taken(d, c)
  BY Zenon, TakeFirst
<1> HIDE DEF d
<1> DEFINE l == IF todo(Other(c)) \in CrashTodo THEN -1 ELSE s.last
<1>2. Other(c) \in Cores /\ Other(c) # c
  BY Zenon DEF Other, Cores
<1>3. s' = [d EXCEPT !.core[c].todo = bootHealthCaptureFaultSnapshot(d.f), !.seen[c] = l]
  <2>1. s' = Written(d, c, <<"look">>)
    BY Zenon DEF Write, todo, Core, d
  <2>2. <<"look">>[1] = "look"
    OBVIOUS
  <2>3. l = IF Writes(d.core[Other(c)].todo, "f") THEN -1 ELSE d.last
    BY Zenon, <1>1, <1>2, TodoWrites DEF Taken, Core
  <2> QED BY Zenon, <2>1, <2>2, <2>3 DEF Written
<1>4. l \in Nat \cup {-1}
  BY Zenon DEF Types, States
<1> HIDE DEF l
<1> DEFINE t == bootHealthCaptureFaultSnapshot(s.f)
           k == [d.core EXCEPT ![c].todo = t]
           n == [d.seen EXCEPT ![c] = l]
<1>5. /\ k \in [Cores -> [pc : {"off", "run", "fault"}, todo : Todos]]
      /\ k[c].todo = t /\ k[c].pc = s.core[c].pc /\ \A e \in Cores : e # c => k[e] = s.core[e]
  BY Zenon, <1>1 DEF States, Taken
<1>6. n \in [Cores -> Nat \cup {-1}] /\ n[c] = l /\ \A e \in Cores : e # c => n[e] = s.seen[e]
  BY Zenon, <1>1, <1>4 DEF States, Taken
<1>7. s' = [d EXCEPT !.core = k, !.seen = n]
  BY Zenon, <1>1, <1>3 DEF Taken
<1> HIDE DEF t, k, n
<1>8. Types'
  BY Zenon, <1>1, <1>5, <1>6, <1>7 DEF Types, States
<1>9. s'.core = k /\ s'.seen = n
  BY Zenon, <1>1, <1>7 DEF States
<1> QED BY Zenon, <1>1, <1>5, <1>6, <1>7, <1>8, <1>9 DEF Beside, Taken, States, l, t

LEMMA WriteCrash ==
  ASSUME Types, NEW c \in Cores, Write(c), todo(c) # <<>>, NEW f, NEW v,
         Head(todo(c)) = F(f, v), Tail(todo(c)) \in Todos, Put(s.f, f, v) \in Crash
  PROVE  /\ Types' /\ Beside(c)
         /\ s'.f = Put(s.f, f, v) /\ s'.core[c].todo = Tail(todo(c))
         /\ s'.starts = s.starts /\ s'.sure = s.sure
         /\ s'.h = s.h /\ s'.seen = s.seen /\ s'.told = s.told
<1> DEFINE d == [s EXCEPT !.core[c].todo = Tail(@)]
<1>1. d \in States /\ Taken(d, c)
  BY Zenon, TakeFirst
<1> HIDE DEF d
<1>2. s' = [d EXCEPT !.f[f] = v]
  <2>1. s' = Written(d, c, F(f, v))
    BY Zenon DEF Write, todo, Core, d
  <2>2. F(f, v)[1] = "f" /\ F(f, v)[2] = f /\ F(f, v)[3] = v
    BY DEF F
  <2> QED BY Zenon, <2>1, <2>2 DEF Written
<1>3. Types'
  BY Zenon, <1>1, <1>2 DEF Types, States, Taken, Put
<1> QED BY Zenon, <1>1, <1>2, <1>3 DEF Beside, Taken, States, Put

\* Core c goes on with t, and the boot-health record and counts become these.
Leaves(c, t, magic, sum, count, flag, a, b, k) ==
  /\ Types' /\ Beside(c) /\ s'.core[c].todo = t
  /\ s'.h.magic = magic /\ s'.h.sum = sum /\ s'.h.count = count
  /\ s'.h.flag = flag /\ s'.h.a = a /\ s'.h.b = b
  /\ s'.starts = s.starts + k /\ s'.sure = s.sure + k
  /\ s'.f = s.f /\ s'.seen = s.seen /\ s'.told = s.told

LEMMA TodosFacts ==
  /\ 0 \in Nat /\ 1 \in Nat /\ <<>> \in Sums /\ <<>> \in Todos
  /\ {Boot4, Boot5, Boot6, Boot7, Snap4, Snap5} \subseteq HealthTodo
  /\ ClearTodo \subseteq HealthTodo /\ CrashTodo \subseteq Todos /\ HealthTodo \subseteq Todos
  /\ \A n \in Nat : {Boot1(n), Boot2(n), Boot3(n)} \subseteq HealthTodo
  /\ \A x, y, z \in Nat : {Snap1(x, y, z), Snap2(y, z), Snap3(z)} \subseteq HealthTodo
  /\ \A m, n \in Nat : {Crash1(m, n), Crash2(n), Crash3(n)} \subseteq CrashTodo
BY DEF Sums, Todos, HealthTodo, BootTodo, SnapTodo, CrashTodo

LEMMA WriteMagic ==
  ASSUME Types, NEW c \in Cores, Write(c), todo(c) # <<>>, NEW v \in Nat,
         Head(todo(c)) = H("magic", v), NEW t \in Todos, Tail(todo(c)) = t
  PROVE  Leaves(c, t, v, s.h.sum, s.h.count, s.h.flag, s.h.a, s.h.b, 0)
<1>1. s.h \in Health
  BY Zenon DEF Types, States
<1>2. Put(s.h, "magic", v) \in Health
  BY Zenon, <1>1 DEF Health, Put
<1> Tail(todo(c)) \in Todos
  BY Zenon
<1>3. /\ Types' /\ Beside(c)
      /\ s'.h = Put(s.h, "magic", v) /\ s'.core[c].todo = Tail(todo(c))
      /\ s'.starts = s.starts + Counted("magic", v) /\ s'.sure = s.sure + Counted("magic", v)
      /\ s'.f = s.f /\ s'.seen = s.seen /\ s'.told = s.told
  BY Zenon, <1>2, WriteHealth
<1>4. Counted("magic", v) = 0
  BY DEF Counted
<1>5. s'.h.magic = v /\ s'.h.sum = s.h.sum /\ s'.h.count = s.h.count /\ s'.h.flag = s.h.flag /\ s'.h.a = s.h.a /\ s'.h.b = s.h.b
  BY Zenon, <1>1, <1>3 DEF Health, Put
<1> QED BY Zenon, <1>3, <1>4, <1>5 DEF Leaves

LEMMA WriteNoSum ==
  ASSUME Types, NEW c \in Cores, Write(c), todo(c) # <<>>, NEW v \in Sums,
         Head(todo(c)) = H("sum", v), NEW t \in Todos, Tail(todo(c)) = t
  PROVE  Leaves(c, t, s.h.magic, v, s.h.count, s.h.flag, s.h.a, s.h.b, 0)
<1>1. s.h \in Health
  BY Zenon DEF Types, States
<1>2. Put(s.h, "sum", v) \in Health
  BY Zenon, <1>1 DEF Health, Put
<1> Tail(todo(c)) \in Todos
  BY Zenon
<1>3. /\ Types' /\ Beside(c)
      /\ s'.h = Put(s.h, "sum", v) /\ s'.core[c].todo = Tail(todo(c))
      /\ s'.starts = s.starts + Counted("sum", v) /\ s'.sure = s.sure + Counted("sum", v)
      /\ s'.f = s.f /\ s'.seen = s.seen /\ s'.told = s.told
  BY Zenon, <1>2, WriteHealth
<1>4. Counted("sum", v) = 0
  BY DEF Counted
<1>5. s'.h.magic = s.h.magic /\ s'.h.sum = v /\ s'.h.count = s.h.count /\ s'.h.flag = s.h.flag /\ s'.h.a = s.h.a /\ s'.h.b = s.h.b
  BY Zenon, <1>1, <1>3 DEF Health, Put
<1> QED BY Zenon, <1>3, <1>4, <1>5 DEF Leaves

LEMMA WriteCount ==
  ASSUME Types, NEW c \in Cores, Write(c), todo(c) # <<>>, NEW v \in Nat,
         Head(todo(c)) = H("count", v), NEW t \in Todos, Tail(todo(c)) = t
  PROVE  Leaves(c, t, s.h.magic, s.h.sum, v, s.h.flag, s.h.a, s.h.b, Counted("count", v))
<1>1. s.h \in Health
  BY Zenon DEF Types, States
<1>2. Put(s.h, "count", v) \in Health
  BY Zenon, <1>1 DEF Health, Put
<1> Tail(todo(c)) \in Todos
  BY Zenon
<1>3. /\ Types' /\ Beside(c)
      /\ s'.h = Put(s.h, "count", v) /\ s'.core[c].todo = Tail(todo(c))
      /\ s'.starts = s.starts + Counted("count", v) /\ s'.sure = s.sure + Counted("count", v)
      /\ s'.f = s.f /\ s'.seen = s.seen /\ s'.told = s.told
  BY Zenon, <1>2, WriteHealth
<1>5. s'.h.magic = s.h.magic /\ s'.h.sum = s.h.sum /\ s'.h.count = v /\ s'.h.flag = s.h.flag /\ s'.h.a = s.h.a /\ s'.h.b = s.h.b
  BY Zenon, <1>1, <1>3 DEF Health, Put
<1> QED BY Zenon, <1>3, <1>5 DEF Leaves

LEMMA WriteFlag ==
  ASSUME Types, NEW c \in Cores, Write(c), todo(c) # <<>>, NEW v \in Nat,
         Head(todo(c)) = H("flag", v), NEW t \in Todos, Tail(todo(c)) = t
  PROVE  Leaves(c, t, s.h.magic, s.h.sum, s.h.count, v, s.h.a, s.h.b, 0)
<1>1. s.h \in Health
  BY Zenon DEF Types, States
<1>2. Put(s.h, "flag", v) \in Health
  BY Zenon, <1>1 DEF Health, Put
<1> Tail(todo(c)) \in Todos
  BY Zenon
<1>3. /\ Types' /\ Beside(c)
      /\ s'.h = Put(s.h, "flag", v) /\ s'.core[c].todo = Tail(todo(c))
      /\ s'.starts = s.starts + Counted("flag", v) /\ s'.sure = s.sure + Counted("flag", v)
      /\ s'.f = s.f /\ s'.seen = s.seen /\ s'.told = s.told
  BY Zenon, <1>2, WriteHealth
<1>4. Counted("flag", v) = 0
  BY DEF Counted
<1>5. s'.h.magic = s.h.magic /\ s'.h.sum = s.h.sum /\ s'.h.count = s.h.count /\ s'.h.flag = v /\ s'.h.a = s.h.a /\ s'.h.b = s.h.b
  BY Zenon, <1>1, <1>3 DEF Health, Put
<1> QED BY Zenon, <1>3, <1>4, <1>5 DEF Leaves

LEMMA WriteA ==
  ASSUME Types, NEW c \in Cores, Write(c), todo(c) # <<>>, NEW v \in Nat,
         Head(todo(c)) = H("a", v), NEW t \in Todos, Tail(todo(c)) = t
  PROVE  Leaves(c, t, s.h.magic, s.h.sum, s.h.count, s.h.flag, v, s.h.b, 0)
<1>1. s.h \in Health
  BY Zenon DEF Types, States
<1>2. Put(s.h, "a", v) \in Health
  BY Zenon, <1>1 DEF Health, Put
<1> Tail(todo(c)) \in Todos
  BY Zenon
<1>3. /\ Types' /\ Beside(c)
      /\ s'.h = Put(s.h, "a", v) /\ s'.core[c].todo = Tail(todo(c))
      /\ s'.starts = s.starts + Counted("a", v) /\ s'.sure = s.sure + Counted("a", v)
      /\ s'.f = s.f /\ s'.seen = s.seen /\ s'.told = s.told
  BY Zenon, <1>2, WriteHealth
<1>4. Counted("a", v) = 0
  BY DEF Counted
<1>5. s'.h.magic = s.h.magic /\ s'.h.sum = s.h.sum /\ s'.h.count = s.h.count /\ s'.h.flag = s.h.flag /\ s'.h.a = v /\ s'.h.b = s.h.b
  BY Zenon, <1>1, <1>3 DEF Health, Put
<1> QED BY Zenon, <1>3, <1>4, <1>5 DEF Leaves

LEMMA WriteB ==
  ASSUME Types, NEW c \in Cores, Write(c), todo(c) # <<>>, NEW v \in Nat,
         Head(todo(c)) = H("b", v), NEW t \in Todos, Tail(todo(c)) = t
  PROVE  Leaves(c, t, s.h.magic, s.h.sum, s.h.count, s.h.flag, s.h.a, v, 0)
<1>1. s.h \in Health
  BY Zenon DEF Types, States
<1>2. Put(s.h, "b", v) \in Health
  BY Zenon, <1>1 DEF Health, Put
<1> Tail(todo(c)) \in Todos
  BY Zenon
<1>3. /\ Types' /\ Beside(c)
      /\ s'.h = Put(s.h, "b", v) /\ s'.core[c].todo = Tail(todo(c))
      /\ s'.starts = s.starts + Counted("b", v) /\ s'.sure = s.sure + Counted("b", v)
      /\ s'.f = s.f /\ s'.seen = s.seen /\ s'.told = s.told
  BY Zenon, <1>2, WriteHealth
<1>4. Counted("b", v) = 0
  BY DEF Counted
<1>5. s'.h.magic = s.h.magic /\ s'.h.sum = s.h.sum /\ s'.h.count = s.h.count /\ s'.h.flag = s.h.flag /\ s'.h.a = s.h.a /\ s'.h.b = v
  BY Zenon, <1>1, <1>3 DEF Health, Put
<1> QED BY Zenon, <1>3, <1>4, <1>5 DEF Leaves

LEMMA BootLeaves ==
  ASSUME Types, NEW c \in Cores, Write(c), NEW n \in Nat
  PROVE  /\ todo(c) = Boot1(n) => Leaves(c, Boot2(n), 1, s.h.sum, s.h.count, s.h.flag, s.h.a, s.h.b, 0)
         /\ todo(c) = Boot2(n) => Leaves(c, Boot3(n), s.h.magic, <<>>, s.h.count, s.h.flag, s.h.a, s.h.b, 0)
         /\ todo(c) = Boot3(n) => Leaves(c, Boot4, s.h.magic, s.h.sum, n, s.h.flag, s.h.a, s.h.b, Counted("count", n))
         /\ todo(c) = Boot4 => Leaves(c, Boot5, s.h.magic, s.h.sum, s.h.count, 0, s.h.a, s.h.b, 0)
         /\ todo(c) = Boot5 => Leaves(c, Boot6, s.h.magic, s.h.sum, s.h.count, s.h.flag, 0, s.h.b, 0)
         /\ todo(c) = Boot6 => Leaves(c, Boot7, s.h.magic, s.h.sum, s.h.count, s.h.flag, s.h.a, 0, 0)
<1>1. todo(c) = Boot1(n) => Leaves(c, Boot2(n), 1, s.h.sum, s.h.count, s.h.flag, s.h.a, s.h.b, 0)
  BY Zenon, CountSteps, TodosFacts, WriteMagic
<1>2. todo(c) = Boot2(n) => Leaves(c, Boot3(n), s.h.magic, <<>>, s.h.count, s.h.flag, s.h.a, s.h.b, 0)
  BY Zenon, CountSteps, TodosFacts, WriteNoSum
<1>3. todo(c) = Boot3(n) => Leaves(c, Boot4, s.h.magic, s.h.sum, n, s.h.flag, s.h.a, s.h.b, Counted("count", n))
  BY Zenon, CountSteps, TodosFacts, WriteCount
<1>4. todo(c) = Boot4 => Leaves(c, Boot5, s.h.magic, s.h.sum, s.h.count, 0, s.h.a, s.h.b, 0)
  BY Zenon, BootSteps, TodosFacts, WriteFlag
<1>5. todo(c) = Boot5 => Leaves(c, Boot6, s.h.magic, s.h.sum, s.h.count, s.h.flag, 0, s.h.b, 0)
  BY Zenon, BootSteps, TodosFacts, WriteA
<1>6. todo(c) = Boot6 => Leaves(c, Boot7, s.h.magic, s.h.sum, s.h.count, s.h.flag, s.h.a, 0, 0)
  BY Zenon, BootSteps, TodosFacts, WriteB
<1> QED BY Zenon, <1>1, <1>2, <1>3, <1>4, <1>5, <1>6

LEMMA SnapLeaves ==
  ASSUME Types, NEW c \in Cores, Write(c), NEW x \in Nat, NEW y \in Nat, NEW z \in Nat
  PROVE  /\ todo(c) = Snap1(x, y, z) => Leaves(c, Snap2(y, z), s.h.magic, s.h.sum, s.h.count, x, s.h.a, s.h.b, 0)
         /\ todo(c) = Snap2(y, z) => Leaves(c, Snap3(z), s.h.magic, s.h.sum, s.h.count, s.h.flag, y, s.h.b, 0)
         /\ todo(c) = Snap3(z) => Leaves(c, Snap4, s.h.magic, s.h.sum, s.h.count, s.h.flag, s.h.a, z, 0)
         /\ todo(c) = Snap4 => Leaves(c, Snap5, s.h.magic, <<>>, s.h.count, s.h.flag, s.h.a, s.h.b, 0)
<1>1. todo(c) = Snap1(x, y, z) => Leaves(c, Snap2(y, z), s.h.magic, s.h.sum, s.h.count, x, s.h.a, s.h.b, 0)
  <2>1. Snap1(x, y, z) # <<>> /\ Head(Snap1(x, y, z)) = H("flag", x) /\ Tail(Snap1(x, y, z)) = Snap2(y, z)
    BY SnapSteps
  <2>2. Snap2(y, z) \in Todos
    BY Zenon, TodosFacts
  <2> QED BY Zenon, <2>1, <2>2, WriteFlag
<1>2. todo(c) = Snap2(y, z) => Leaves(c, Snap3(z), s.h.magic, s.h.sum, s.h.count, s.h.flag, y, s.h.b, 0)
  <2>1. Snap2(y, z) # <<>> /\ Head(Snap2(y, z)) = H("a", y) /\ Tail(Snap2(y, z)) = Snap3(z)
    BY Zenon, SnapSteps
  <2>2. Snap3(z) \in Todos
    BY Zenon, TodosFacts
  <2> QED BY Zenon, <2>1, <2>2, WriteA
<1>3. todo(c) = Snap3(z) => Leaves(c, Snap4, s.h.magic, s.h.sum, s.h.count, s.h.flag, s.h.a, z, 0)
  BY Zenon, SnapSteps, TodosFacts, WriteB
<1>4. todo(c) = Snap4 => Leaves(c, Snap5, s.h.magic, <<>>, s.h.count, s.h.flag, s.h.a, s.h.b, 0)
  BY Zenon, SnapSteps, TodosFacts, WriteNoSum
<1> QED BY Zenon, <1>1, <1>2, <1>3, <1>4

LEMMA ClearLeaves ==
  ASSUME Types, NEW c \in Cores, Write(c)
  PROVE  /\ todo(c) = Clear1 => Leaves(c, Clear2, 0, s.h.sum, s.h.count, s.h.flag, s.h.a, s.h.b, 0)
         /\ todo(c) = Clear2 => Leaves(c, Clear3, s.h.magic, <<>>, s.h.count, s.h.flag, s.h.a, s.h.b, 0)
         /\ todo(c) = Clear3 => Leaves(c, Clear4, s.h.magic, s.h.sum, 0, s.h.flag, s.h.a, s.h.b, 0)
         /\ todo(c) = Clear4 => Leaves(c, Clear5, s.h.magic, s.h.sum, s.h.count, 0, s.h.a, s.h.b, 0)
         /\ todo(c) = Clear5 => Leaves(c, Clear6, s.h.magic, s.h.sum, s.h.count, s.h.flag, 0, s.h.b, 0)
         /\ todo(c) = Clear6 => Leaves(c, <<>>, s.h.magic, s.h.sum, s.h.count, s.h.flag, s.h.a, 0, 0)
<1>1. todo(c) = Clear1 => Leaves(c, Clear2, 0, s.h.sum, s.h.count, s.h.flag, s.h.a, s.h.b, 0)
  BY Zenon, ClearSteps, TodosFacts, WriteMagic DEF ClearTodo
<1>2. todo(c) = Clear2 => Leaves(c, Clear3, s.h.magic, <<>>, s.h.count, s.h.flag, s.h.a, s.h.b, 0)
  BY Zenon, ClearSteps, TodosFacts, WriteNoSum DEF ClearTodo
<1>3. todo(c) = Clear3 => Leaves(c, Clear4, s.h.magic, s.h.sum, 0, s.h.flag, s.h.a, s.h.b, 0)
  <2>1. Counted("count", 0) = 0
    BY DEF Counted
  <2> QED BY Zenon, <2>1, ClearSteps, TodosFacts, WriteCount DEF ClearTodo
<1>4. todo(c) = Clear4 => Leaves(c, Clear5, s.h.magic, s.h.sum, s.h.count, 0, s.h.a, s.h.b, 0)
  BY Zenon, ClearSteps, TodosFacts, WriteFlag DEF ClearTodo
<1>5. todo(c) = Clear5 => Leaves(c, Clear6, s.h.magic, s.h.sum, s.h.count, s.h.flag, 0, s.h.b, 0)
  BY Zenon, ClearSteps, TodosFacts, WriteA DEF ClearTodo
<1>6. todo(c) = Clear6 => Leaves(c, <<>>, s.h.magic, s.h.sum, s.h.count, s.h.flag, s.h.a, 0, 0)
  BY Zenon, ClearSteps, TodosFacts, WriteB DEF ClearTodo
<1> QED BY Zenon, <1>1, <1>2, <1>3, <1>4, <1>5, <1>6

----------------------------------------------------------------------------
(* The invariant is kept. *)

LEMMA SumKept ==
  ASSUME Types, Types', SumTrue, s'.h.sum = s.h.sum \/ s'.h.sum = <<>>,
         s'.told = s.told, s'.starts >= s.starts
  PROVE  SumTrue'
<1>1. CASE s'.h.sum = <<>>
  BY Zenon, <1>1 DEF SumTrue
<1>2. CASE s'.h.sum = s.h.sum /\ s.h.sum # <<>>
  <2>1. s.h.sum \in Nat \X Nat \X Nat \X Nat \X Nat
    BY Zenon, <1>2 DEF Types, States, Health, Sums
  <2>2. s.h.sum[2] \in Nat /\ s.starts \in Nat /\ s'.starts \in Nat
    BY <2>1 DEF Types, States
  <2>3. s.h.sum[2] <= s.starts /\ Tells(s.h.sum[3], s.h.sum[4], s.h.sum[5], s.told)
    BY Zenon, <1>2 DEF SumTrue
  <2>4. s.h.sum[2] <= s'.starts
    BY <2>2, <2>3
  <2> QED BY Zenon, <1>2, <2>3, <2>4 DEF SumTrue
<1> QED BY Zenon, <1>1, <1>2

(* The writer of the boot-health record makes a step. *)
LEMMA HealthStep ==
  ASSUME Types, HealthInv, NEW c \in Cores, todo(c) \in HealthTodo, Beside(c),
         s.starts # 0 => s'.starts # 0,
         s'.sure <= s'.h.count, s'.starts # 0 => s'.h.count <= s'.starts, SumTrue', Stage(c)',
         todo(c)' \notin HealthTodo => Valid' \/ s'.sure = 0
  PROVE  HealthInv'
<1>1. PICK d \in Cores : todo(d) \notin HealthTodo
  BY Zenon DEF HealthInv
<1>2. d # c /\ \A e \in Cores : e = c \/ e = d
  BY Zenon, <1>1 DEF Cores
<1>3. s'.core[d] = s.core[d] /\ todo(d)' = todo(d)
  BY Zenon, <1>2 DEF Beside, todo
<1>4. Stage(d)'
  <2>1. \/ todo(d) = <<>> /\ (s.core[d].pc = "run" => s.starts # 0)
        \/ todo(d) \in CrashTodo /\ (s.core[d].pc = "run" => s.starts # 0)
    <3>1. Stage(d)
      BY Zenon DEF HealthInv
    <3>2. CASE \E n \in Nat : todo(d) \in {Boot1(n), Boot2(n), Boot3(n)}
      BY Zenon, <1>1, <3>2, TodosFacts
    <3>3. CASE todo(d) \in {Boot4, Boot5, Boot6, Boot7, Snap4, Snap5} \/ todo(d) \in ClearTodo
      BY Zenon, <1>1, <3>3, TodosFacts
    <3>4. CASE \E x, y, z \in Nat : todo(d) \in {Snap1(x, y, z), Snap2(y, z), Snap3(z)}
      BY Zenon, <1>1, <3>4, TodosFacts
    <3> QED BY Zenon, <3>1, <3>2, <3>3, <3>4, TodosFacts DEF Stage
  <2> QED BY Zenon, <1>3, <2>1 DEF Stage
<1>5. \A e \in Cores : Stage(e)'
  BY Zenon, <1>2, <1>4
<1>6. \E e \in Cores : todo(e)' \notin HealthTodo
  BY Zenon, <1>1, <1>3
<1> QED BY Zenon, <1>5, <1>6 DEF HealthInv

LEMMA CrashFrame ==
  ASSUME CrashInv, s'.last = s.last, s'.f = s.f,
         \A c \in Cores : \/ todo(c)' = todo(c)
                          \/ todo(c) \notin CrashTodo /\ todo(c)' \notin CrashTodo
  PROVE  CrashInv'
<1>1. \A c \in Cores : Other(c) \in Cores
  BY Zenon DEF Other, Cores
<1>2. \A c \in Cores : todo(c)' \in CrashTodo => todo(c)' = todo(c) /\ todo(c) \in CrashTodo
  BY Zenon
<1>3. \A c \in Cores : todo(c) \in CrashTodo => todo(c)' = todo(c)
  BY Zenon
<1> QED BY Zenon, <1>1, <1>2, <1>3 DEF CrashInv

(* A snapshot tells what the crash record tells. *)
LEMMA Snapshot ==
  ASSUME Types
  PROVE  \E x, y, z \in Nat : /\ bootHealthCaptureFaultSnapshot(s.f) = Snap1(x, y, z)
                              /\ \A n : Tells(s.f.magic, s.f.a, s.f.b, n) => Tells(x, y, z, n)
<1>1. s.f.magic \in Nat /\ s.f.a \in Nat /\ s.f.b \in Nat
  BY Zenon DEF Types, States, Crash
<1>2. CASE faultRecordValid(s.f)
  <2>1. bootHealthCaptureFaultSnapshot(s.f) = Snap1(1, s.f.a, s.f.b)
    BY Zenon, <1>2, Procedures
  <2>2. \A n : Tells(s.f.magic, s.f.a, s.f.b, n) => Tells(1, s.f.a, s.f.b, n)
    BY <1>2 DEF Tells, faultRecordValid
  <2> QED BY Zenon, <1>1, <2>1, <2>2, TodosFacts
<1>3. CASE ~faultRecordValid(s.f)
  <2>1. bootHealthCaptureFaultSnapshot(s.f) = Snap1(0, 0, 0)
    BY Zenon, <1>3, Procedures
  <2>2. \A n : Tells(s.f.magic, s.f.a, s.f.b, n) => Tells(0, 0, 0, n)
    BY <1>3 DEF Tells, faultRecordValid
  <2> QED BY Zenon, <2>1, <2>2, TodosFacts
<1> QED BY Zenon, <1>2, <1>3

\* What every write of the boot-health record does.
Proceeds(c) ==
  /\ Types' /\ Beside(c) /\ s'.f = s.f
  /\ todo(c)' \in HealthTodo \/ todo(c)' = <<>>

LEMMA LookLeaves ==
  ASSUME Types, NEW c \in Cores, Write(c), todo(c) = Boot7
  PROVE  \E x, y, z \in Nat :
           /\ Types' /\ Beside(c) /\ s'.f = s.f /\ todo(c)' = Snap1(x, y, z)
           /\ s'.h = s.h /\ s'.starts = s.starts /\ s'.sure = s.sure /\ s'.told = s.told
           /\ s'.seen[c] = IF todo(Other(c)) \in CrashTodo THEN -1 ELSE s.last
           /\ \A n : Tells(s.f.magic, s.f.a, s.f.b, n) => Tells(x, y, z, n)
<1>1. PICK x, y, z \in Nat :
        /\ bootHealthCaptureFaultSnapshot(s.f) = Snap1(x, y, z)
        /\ \A n : Tells(s.f.magic, s.f.a, s.f.b, n) => Tells(x, y, z, n)
  BY Zenon, Snapshot
<1>2. Snap1(x, y, z) \in Todos
  BY Zenon, TodosFacts
<1>3. todo(c) # <<>> /\ Head(todo(c)) = <<"look">>
  BY Zenon, BootSteps
<1>4. Tail(todo(c)) \in Todos
  <2>1. Tail(Boot7) = <<>>
    BY DEF Boot7
  <2> QED BY Zenon, <2>1, TodosFacts
<1>5. /\ Types' /\ Beside(c) /\ s'.f = s.f /\ s'.core[c].todo = Snap1(x, y, z)
      /\ s'.h = s.h /\ s'.starts = s.starts /\ s'.sure = s.sure /\ s'.told = s.told
      /\ s'.seen[c] = IF todo(Other(c)) \in CrashTodo THEN -1 ELSE s.last
  BY Zenon, <1>1, <1>2, <1>3, <1>4, WriteLook
<1> QED BY Zenon, <1>1, <1>5 DEF todo

LEMMA SumLeaves ==
  ASSUME Types, NEW c \in Cores, Write(c), todo(c) = Snap5
  PROVE  /\ Types' /\ Beside(c) /\ s'.f = s.f /\ todo(c)' = <<>>
         /\ s'.h = [s.h EXCEPT !.sum = Contents(s.h)]
         /\ s'.starts = s.starts /\ s'.sure = s.sure /\ s'.told = s.seen[c]
<1>1. todo(c) # <<>> /\ Head(todo(c)) = <<"sum">> /\ Tail(todo(c)) = <<>> /\ <<>> \in Todos
  BY SnapSteps, TodosFacts
<1>2. Tail(todo(c)) \in Todos
  BY Zenon, <1>1
<1> QED BY Zenon, <1>1, <1>2, WriteSum DEF todo

LEMMA HealthProceeds ==
  ASSUME Types, NEW c \in Cores, Write(c), todo(c) \in HealthTodo
  PROVE  Proceeds(c)
<1> USE DEF Leaves, Proceeds, todo
<1>1. ASSUME NEW n \in Nat, todo(c) \in {Boot1(n), Boot2(n), Boot3(n)} PROVE Proceeds(c)
  BY ZenonT(30), <1>1, BootLeaves, TodosFacts
<1>2. CASE todo(c) \in {Boot4, Boot5, Boot6}
  BY Zenon, <1>2, BootLeaves, TodosFacts
<1>3. CASE todo(c) = Boot7
  <2>1. PICK x, y, z \in Nat : Types' /\ Beside(c) /\ s'.f = s.f /\ todo(c)' = Snap1(x, y, z)
    BY Zenon, <1>3, LookLeaves
  <2>2. Snap1(x, y, z) \in HealthTodo
    BY Zenon, TodosFacts
  <2> QED BY Zenon, <2>1, <2>2
<1>4. ASSUME NEW x \in Nat, NEW y \in Nat, NEW z \in Nat,
             todo(c) \in {Snap1(x, y, z), Snap2(y, z), Snap3(z)}
      PROVE  Proceeds(c)
  <2>1. Snap2(y, z) \in HealthTodo /\ Snap3(z) \in HealthTodo /\ Snap4 \in HealthTodo
    BY Zenon, TodosFacts
  <2>2. CASE todo(c) = Snap1(x, y, z)
    <3> HIDE DEF Leaves
    <3>1. Leaves(c, Snap2(y, z), s.h.magic, s.h.sum, s.h.count, x, s.h.a, s.h.b, 0)
      BY <2>2, SnapLeaves
    <3> QED BY Zenon, <2>1, <3>1 DEF Leaves
  <2>3. CASE todo(c) = Snap2(y, z)
    <3> HIDE DEF Leaves
    <3>1. Leaves(c, Snap3(z), s.h.magic, s.h.sum, s.h.count, s.h.flag, y, s.h.b, 0)
      BY <2>3, SnapLeaves
    <3> QED BY Zenon, <2>1, <3>1 DEF Leaves
  <2>4. CASE todo(c) = Snap3(z)
    <3> HIDE DEF Leaves
    <3>1. Leaves(c, Snap4, s.h.magic, s.h.sum, s.h.count, s.h.flag, s.h.a, z, 0)
      BY <2>4, SnapLeaves
    <3> QED BY Zenon, <2>1, <3>1 DEF Leaves
  <2> QED BY Zenon, <1>4, <2>2, <2>3, <2>4
<1>5. CASE todo(c) = Snap4
  BY ZenonT(30), <1>5, SnapLeaves, TodosFacts
<1>6. CASE todo(c) = Snap5
  BY Zenon, <1>6, SumLeaves
<1>7. CASE todo(c) \in ClearTodo
  BY Zenon, <1>7, ClearLeaves, TodosFacts DEF ClearTodo
<1>8. \/ \E n \in Nat : todo(c) \in {Boot1(n), Boot2(n), Boot3(n)}
      \/ todo(c) \in {Boot4, Boot5, Boot6, Boot7, Snap4, Snap5}
      \/ \E x, y, z \in Nat : todo(c) \in {Snap1(x, y, z), Snap2(y, z), Snap3(z)}
      \/ todo(c) \in ClearTodo
  <2> HIDE DEF todo
  <2> QED BY TodosFacts DEF HealthTodo, BootTodo, SnapTodo
<1> HIDE DEF Proceeds
<1> QED BY Zenon, <1>1, <1>2, <1>3, <1>4, <1>5, <1>6, <1>7, <1>8

LEMMA Numbers ==
  ASSUME Types PROVE s.sure \in Nat /\ s.starts \in Nat /\ s.h.count \in Nat /\ s.h \in Health
BY Zenon DEF Types, States, Health

LEMMA NotCounted ==
  ASSUME Types PROVE s.starts + 0 = s.starts /\ s.sure + 0 = s.sure
BY Numbers

(* A write that leaves the counts alone. *)
LEMMA PlainStep ==
  ASSUME Types, HealthInv, NEW c \in Cores, todo(c) \in HealthTodo,
         NEW t, NEW magic, NEW sum \in {s.h.sum, <<>>}, NEW flag, NEW a, NEW b,
         Leaves(c, t, magic, sum, s.h.count, flag, a, b, 0), Stage(c)',
         t \in HealthTodo \/ s.sure = 0
  PROVE  HealthInv'
<1>1. /\ Types' /\ Beside(c) /\ s'.core[c].todo = t /\ s'.h.sum = sum /\ s'.h.count = s.h.count
      /\ s'.starts = s.starts /\ s'.sure = s.sure /\ s'.told = s.told
  BY Zenon, NotCounted DEF Leaves
<1>2. SumTrue'
  <2>1. s'.starts >= s.starts
    BY <1>1, Numbers
  <2>2. s'.h.sum = s.h.sum \/ s'.h.sum = <<>>
    BY Zenon, <1>1
  <2> QED BY Zenon, <1>1, <2>1, <2>2, SumKept DEF HealthInv
<1>3. /\ s'.sure <= s'.h.count /\ (s'.starts # 0 => s'.h.count <= s'.starts)
      /\ (s.starts # 0 => s'.starts # 0)
  BY Zenon, <1>1 DEF HealthInv
<1>4. todo(c)' \notin HealthTodo => Valid' \/ s'.sure = 0
  BY Zenon, <1>1 DEF todo
<1> QED BY Zenon, <1>1, <1>2, <1>3, <1>4, HealthStep

LEMMA BootKeeps ==
  ASSUME Types, HealthInv, NEW c \in Cores, Write(c), NEW n \in Nat,
         s.sure < n, n <= s.starts + 1, todo(c) \in HealthTodo,
         \/ todo(c) = Boot1(n)
         \/ todo(c) = Boot2(n) /\ s.h.magic = 1
         \/ todo(c) = Boot3(n) /\ s.h.magic = 1
  PROVE  HealthInv'
<1>1. CASE todo(c) = Boot1(n)
  <2>1. Leaves(c, Boot2(n), 1, s.h.sum, s.h.count, s.h.flag, s.h.a, s.h.b, 0)
    BY Zenon, <1>1, BootLeaves
  <2>2. Stage(c)'
    BY Zenon, <2>1, NotCounted DEF Leaves, Stage, todo
  <2>3. Boot2(n) \in HealthTodo
    BY Zenon, TodosFacts
  <2> QED BY Zenon, <2>1, <2>2, <2>3, PlainStep
<1>2. CASE todo(c) = Boot2(n) /\ s.h.magic = 1
  <2>1. Leaves(c, Boot3(n), s.h.magic, <<>>, s.h.count, s.h.flag, s.h.a, s.h.b, 0)
    BY Zenon, <1>2, BootLeaves
  <2>2. Stage(c)'
    BY Zenon, <1>2, <2>1, NotCounted DEF Leaves, Stage, todo
  <2>3. Boot3(n) \in HealthTodo
    BY Zenon, TodosFacts
  <2> QED BY Zenon, <2>1, <2>2, <2>3, PlainStep
<1>3. CASE todo(c) = Boot3(n) /\ s.h.magic = 1
  <2>1. Leaves(c, Boot4, s.h.magic, s.h.sum, n, s.h.flag, s.h.a, s.h.b, Counted("count", n))
    BY Zenon, <1>3, BootLeaves
  <2>2. Counted("count", n) = 1
    BY Numbers DEF Counted
  <2>3. /\ Types' /\ Beside(c) /\ s'.core[c].todo = Boot4 /\ s'.h.magic = 1
        /\ s'.h.sum = s.h.sum /\ s'.h.count = n /\ s'.told = s.told
        /\ s'.starts = s.starts + 1 /\ s'.sure = s.sure + 1
    BY Zenon, <1>3, <2>1, <2>2 DEF Leaves
  <2>4. /\ s'.starts >= s.starts /\ s'.starts # 0
        /\ s'.sure <= s'.h.count /\ s'.h.count <= s'.starts
    BY <2>3, Numbers
  <2>5. SumTrue'
    BY Zenon, <2>3, <2>4, SumKept DEF HealthInv
  <2>6. Stage(c)'
    BY Zenon, <2>3, <2>4 DEF Stage, Kept, todo
  <2>7. todo(c)' \in HealthTodo
    BY Zenon, <2>3, TodosFacts DEF todo
  <2> QED BY Zenon, <2>3, <2>4, <2>5, <2>6, <2>7, HealthStep
<1> QED BY Zenon, <1>1, <1>2, <1>3

LEMMA LookKeeps ==
  ASSUME Types, HealthInv, CrashInv, NEW c \in Cores, Write(c), Kept,
         todo(c) \in {Boot4, Boot5, Boot6, Boot7}
  PROVE  HealthInv'
<1>1. todo(c) \in HealthTodo /\ Boot5 \in HealthTodo /\ Boot6 \in HealthTodo /\ Boot7 \in HealthTodo
  BY Zenon, TodosFacts
<1>2. CASE todo(c) \in {Boot4, Boot5, Boot6}
  <2>1. CASE todo(c) = Boot4
    <3>1. Leaves(c, Boot5, s.h.magic, s.h.sum, s.h.count, 0, s.h.a, s.h.b, 0)
      BY Zenon, <2>1, BootLeaves, TodosFacts
    <3>2. Stage(c)'
      BY Zenon, <3>1, NotCounted DEF Leaves, Stage, Kept, todo
    <3> QED BY Zenon, <1>1, <3>1, <3>2, PlainStep
  <2>2. CASE todo(c) = Boot5
    <3>1. Leaves(c, Boot6, s.h.magic, s.h.sum, s.h.count, s.h.flag, 0, s.h.b, 0)
      BY Zenon, <2>2, BootLeaves, TodosFacts
    <3>2. Stage(c)'
      BY Zenon, <3>1, NotCounted DEF Leaves, Stage, Kept, todo
    <3> QED BY Zenon, <1>1, <3>1, <3>2, PlainStep
  <2>3. CASE todo(c) = Boot6
    <3>1. Leaves(c, Boot7, s.h.magic, s.h.sum, s.h.count, s.h.flag, s.h.a, 0, 0)
      BY Zenon, <2>3, BootLeaves, TodosFacts
    <3>2. Stage(c)'
      BY Zenon, <3>1, NotCounted DEF Leaves, Stage, Kept, todo
    <3> QED BY Zenon, <1>1, <3>1, <3>2, PlainStep
  <2> QED BY Zenon, <1>2, <2>1, <2>2, <2>3
<1>3. CASE todo(c) = Boot7
  <2>1. PICK x, y, z \in Nat :
          /\ Types' /\ Beside(c) /\ s'.f = s.f /\ todo(c)' = Snap1(x, y, z)
          /\ s'.h = s.h /\ s'.starts = s.starts /\ s'.sure = s.sure /\ s'.told = s.told
          /\ s'.seen[c] = IF todo(Other(c)) \in CrashTodo THEN -1 ELSE s.last
          /\ \A n : Tells(s.f.magic, s.f.a, s.f.b, n) => Tells(x, y, z, n)
    BY Zenon, <1>3, LookLeaves
  <2>2. Tells(x, y, z, s'.seen[c])
    <3>1. CASE s'.seen[c] = -1
      BY Zenon, <3>1 DEF Tells
    <3>2. CASE s'.seen[c] # -1
      <4>1. todo(Other(c)) \notin CrashTodo /\ s'.seen[c] = s.last /\ s.last # -1
        BY Zenon, <2>1, <3>2
      <4>2. todo(c) \notin CrashTodo /\ \A e \in Cores : e = c \/ e = Other(c)
        BY Zenon, <1>1, TodoWrites DEF Cores, Other
      <4>3. Tells(s.f.magic, s.f.a, s.f.b, s.last)
        BY Zenon, <4>1, <4>2 DEF CrashInv
      <4> QED BY Zenon, <2>1, <4>1, <4>3
    <3> QED BY Zenon, <3>1, <3>2
  <2>3. Stage(c)'
    BY Zenon, <2>1, <2>2 DEF Stage, Kept
  <2>4. Snap1(x, y, z) \in HealthTodo
    BY Zenon, TodosFacts
  <2>5. SumTrue'
    BY Zenon, <2>1 DEF HealthInv, SumTrue
  <2> QED BY Zenon, <1>1, <2>1, <2>3, <2>4, <2>5, HealthStep DEF HealthInv
<1> QED BY Zenon, <1>2, <1>3

LEMMA SnapKeeps ==
  ASSUME Types, HealthInv, NEW c \in Cores, Write(c), Kept,
         NEW x \in Nat, NEW y \in Nat, NEW z \in Nat,
         \/ todo(c) = Snap1(x, y, z) /\ Tells(x, y, z, s.seen[c])
         \/ todo(c) = Snap2(y, z) /\ Tells(s.h.flag, y, z, s.seen[c])
         \/ todo(c) = Snap3(z) /\ Tells(s.h.flag, s.h.a, z, s.seen[c])
         \/ todo(c) \in {Snap4, Snap5} /\ Tells(s.h.flag, s.h.a, s.h.b, s.seen[c])
  PROVE  HealthInv'
<1>1. /\ Snap1(x, y, z) \in HealthTodo /\ Snap2(y, z) \in HealthTodo /\ Snap3(z) \in HealthTodo
      /\ Snap4 \in HealthTodo /\ Snap5 \in HealthTodo
  BY Zenon, TodosFacts
<1>2. CASE todo(c) = Snap1(x, y, z) /\ Tells(x, y, z, s.seen[c])
  <2>1. Leaves(c, Snap2(y, z), s.h.magic, s.h.sum, s.h.count, x, s.h.a, s.h.b, 0)
    BY <1>2, SnapLeaves
  <2>2. Stage(c)'
    BY Zenon, <1>2, <2>1, NotCounted DEF Leaves, Stage, Kept, todo
  <2> QED BY Zenon, <1>1, <1>2, <2>1, <2>2, PlainStep
<1>3. CASE todo(c) = Snap2(y, z) /\ Tells(s.h.flag, y, z, s.seen[c])
  <2>1. Leaves(c, Snap3(z), s.h.magic, s.h.sum, s.h.count, s.h.flag, y, s.h.b, 0)
    BY <1>3, SnapLeaves
  <2>2. Stage(c)'
    BY Zenon, <1>3, <2>1, NotCounted DEF Leaves, Stage, Kept, todo
  <2> QED BY Zenon, <1>1, <1>3, <2>1, <2>2, PlainStep
<1>4. CASE todo(c) = Snap3(z) /\ Tells(s.h.flag, s.h.a, z, s.seen[c])
  <2>1. Leaves(c, Snap4, s.h.magic, s.h.sum, s.h.count, s.h.flag, s.h.a, z, 0)
    BY <1>4, SnapLeaves
  <2>2. Stage(c)'
    BY Zenon, <1>4, <2>1, NotCounted DEF Leaves, Stage, Kept, todo
  <2> QED BY Zenon, <1>1, <1>4, <2>1, <2>2, PlainStep
<1>5. CASE todo(c) = Snap4 /\ Tells(s.h.flag, s.h.a, s.h.b, s.seen[c])
  <2>1. Leaves(c, Snap5, s.h.magic, <<>>, s.h.count, s.h.flag, s.h.a, s.h.b, 0)
    BY <1>5, SnapLeaves
  <2>2. Stage(c)'
    BY Zenon, <1>5, <2>1, NotCounted DEF Leaves, Stage, Kept, todo
  <2> QED BY Zenon, <1>1, <1>5, <2>1, <2>2, PlainStep
<1>6. CASE todo(c) = Snap5 /\ Tells(s.h.flag, s.h.a, s.h.b, s.seen[c])
  <2>1. /\ Types' /\ Beside(c) /\ s'.f = s.f /\ todo(c)' = <<>>
        /\ s'.h = [s.h EXCEPT !.sum = Contents(s.h)]
        /\ s'.starts = s.starts /\ s'.sure = s.sure /\ s'.told = s.seen[c]
    BY Zenon, <1>6, SumLeaves
  <2>2. /\ s'.h.sum = Contents(s.h) /\ s'.h.magic = s.h.magic /\ s'.h.count = s.h.count
        /\ Contents(s'.h) = Contents(s.h)
    BY Zenon, <2>1, Numbers DEF Health, Contents
  <2>3. Valid' \/ s'.sure = 0
    BY Zenon, <2>1, <2>2 DEF Valid, Kept
  <2>4. SumTrue'
    <3>1. /\ Contents(s.h)[2] = s.h.count /\ Contents(s.h)[3] = s.h.flag
          /\ Contents(s.h)[4] = s.h.a /\ Contents(s.h)[5] = s.h.b
      BY DEF Contents
    <3>2. s.h.count <= s.starts
      BY Zenon DEF HealthInv, Kept
    <3> QED BY Zenon, <1>6, <2>1, <2>2, <3>1, <3>2 DEF SumTrue
  <2>5. Stage(c)'
    BY Zenon, <2>1 DEF Stage, Kept
  <2> QED BY Zenon, <1>1, <1>6, <2>1, <2>2, <2>3, <2>4, <2>5, HealthStep DEF HealthInv
<1> QED BY Zenon, <1>2, <1>3, <1>4, <1>5, <1>6

LEMMA ClearKeeps ==
  ASSUME Types, HealthInv, NEW c \in Cores, Write(c), s.sure = 0, s.starts # 0, todo(c) \in ClearTodo
  PROVE  HealthInv'
<1>1. todo(c) \in HealthTodo
  BY Zenon, TodosFacts
<1>2. ASSUME NEW t \in ClearTodo \cup {<<>>}, NEW magic, NEW sum \in {s.h.sum, <<>>},
             NEW flag, NEW a, NEW b, Leaves(c, t, magic, sum, s.h.count, flag, a, b, 0)
      PROVE  HealthInv'
  <2>1. Stage(c)'
    BY Zenon, <1>2, NotCounted DEF Leaves, Stage, todo
  <2> QED BY Zenon, <1>1, <1>2, <2>1, PlainStep
<1>3. CASE todo(c) \in {Clear1, Clear2, Clear4, Clear5, Clear6}
  <2>1. {Clear2, Clear3, Clear5, Clear6, <<>>} \subseteq ClearTodo \cup {<<>>}
    BY Zenon DEF ClearTodo
  <2>2. CASE todo(c) = Clear1
    BY Zenon, <1>2, <2>1, <2>2, ClearLeaves
  <2>3. CASE todo(c) = Clear2
    BY Zenon, <1>2, <2>1, <2>3, ClearLeaves
  <2>4. CASE todo(c) = Clear4
    BY Zenon, <1>2, <2>1, <2>4, ClearLeaves
  <2>5. CASE todo(c) = Clear5
    BY Zenon, <1>2, <2>1, <2>5, ClearLeaves
  <2>6. CASE todo(c) = Clear6
    BY Zenon, <1>2, <2>1, <2>6, ClearLeaves
  <2> QED BY Zenon, <1>3, <2>2, <2>3, <2>4, <2>5, <2>6
<1>4. CASE todo(c) = Clear3
  <2>1. Leaves(c, Clear4, s.h.magic, s.h.sum, 0, s.h.flag, s.h.a, s.h.b, 0)
    BY Zenon, <1>4, ClearLeaves
  <2>2. /\ Types' /\ Beside(c) /\ todo(c)' = Clear4 /\ s'.h.sum = s.h.sum /\ s'.h.count = 0
        /\ s'.starts = s.starts /\ s'.sure = s.sure /\ s'.told = s.told
    BY Zenon, <2>1, NotCounted DEF Leaves, todo
  <2>3. s'.sure <= s'.h.count /\ s'.h.count <= s'.starts /\ s'.starts >= s.starts
    BY <2>2, Numbers
  <2>4. SumTrue'
    BY Zenon, <2>2, <2>3, SumKept DEF HealthInv
  <2>5. Stage(c)'
    BY Zenon, <2>2 DEF Stage, ClearTodo
  <2> QED BY Zenon, <1>1, <2>2, <2>3, <2>4, <2>5, HealthStep
<1> QED BY Zenon, <1>3, <1>4 DEF ClearTodo

LEMMA HealthWriteKeeps ==
  ASSUME IInv, NEW c \in Cores, Write(c), todo(c) \in HealthTodo
  PROVE  IInv'
<1>1. Types /\ CrashInv /\ Proceeds(c)
  BY Zenon, HealthProceeds DEF IInv
<1>2. \A d \in Cores : d # c => todo(d)' = todo(d) /\ s'.core[d].pc = s.core[d].pc
  BY Zenon, <1>1 DEF Proceeds, Beside, todo
<1>3. todo(c) \notin CrashTodo /\ todo(c)' \notin CrashTodo /\ todo(c) # <<>>
  <2>1. Types'
    BY Zenon, <1>1 DEF Proceeds
  <2>2. todo(c)' \notin CrashTodo
    BY Zenon, <1>1, RestWrites DEF Proceeds
  <2> QED BY Zenon, <1>1, <2>2, TodoWrites
<1>4. CrashInv'
  BY Zenon, <1>1, <1>2, <1>3, CrashFrame DEF Proceeds, Beside
<1>5. \A d \in Cores : s'.core[d].pc = "off" => todo(d)' = <<>>
  BY Zenon, <1>1, <1>2, <1>3 DEF IInv, Proceeds, Beside
<1>6. ASSUME ~s.raced PROVE HealthInv'
  <2>1. HealthInv /\ Stage(c)
    BY Zenon, <1>6 DEF IInv, HealthInv
  <2>2. CASE \E n \in Nat : /\ s.sure < n /\ n <= s.starts + 1
                            /\ \/ todo(c) = Boot1(n)
                               \/ todo(c) = Boot2(n) /\ s.h.magic = 1
                               \/ todo(c) = Boot3(n) /\ s.h.magic = 1
    BY Zenon, <1>1, <2>1, <2>2, BootKeeps
  <2>3. CASE todo(c) \in {Boot4, Boot5, Boot6, Boot7} /\ Kept
    BY Zenon, <1>1, <2>1, <2>3, LookKeeps
  <2>4. CASE Kept /\ \E x, y, z \in Nat :
               \/ todo(c) = Snap1(x, y, z) /\ Tells(x, y, z, s.seen[c])
               \/ todo(c) = Snap2(y, z) /\ Tells(s.h.flag, y, z, s.seen[c])
               \/ todo(c) = Snap3(z) /\ Tells(s.h.flag, s.h.a, z, s.seen[c])
               \/ todo(c) \in {Snap4, Snap5} /\ Tells(s.h.flag, s.h.a, s.h.b, s.seen[c])
    BY <1>1, <2>1, <2>4, SnapKeeps
  <2>5. CASE todo(c) \in ClearTodo /\ s.sure = 0 /\ s.starts # 0
    BY Zenon, <1>1, <2>1, <2>5, ClearKeeps
  <2> QED BY Zenon, <1>3, <2>1, <2>2, <2>3, <2>4, <2>5, TodosFacts DEF Stage
<1> QED BY Zenon, <1>1, <1>4, <1>5, <1>6 DEF IInv, Proceeds, Beside

(* A core turns to the crash record, writes it or is done with it. *)
LEMMA CrashStep ==
  ASSUME HealthInv, NEW c \in Cores, \A d \in Cores : d # c => s'.core[d] = s.core[d],
         s'.h = s.h, s'.sure = s.sure, s'.starts = s.starts, s'.seen = s.seen, s'.told = s.told,
         todo(c) \notin HealthTodo, todo(c)' \notin HealthTodo,
         todo(c)' \in CrashTodo \/ todo(c)' = <<>>,
         s'.core[c].pc = "run" => s.starts # 0
  PROVE  HealthInv'
<1>1. Stage(c)'
  BY Zenon DEF Stage
<1>2. ASSUME NEW d \in Cores, d # c PROVE Stage(d)' /\ todo(d)' = todo(d)
  <2>1. Stage(d) /\ s'.core[d] = s.core[d]
    BY Zenon, <1>2 DEF HealthInv
  <2> QED BY Zenon, <2>1 DEF Stage, Kept, todo
<1>3. SumTrue' /\ (Valid' <=> Valid)
  BY Zenon DEF HealthInv, SumTrue, Valid
<1>4. \A d \in Cores : todo(d)' \in HealthTodo <=> todo(d) \in HealthTodo
  BY Zenon, <1>2
<1> QED BY Zenon, <1>1, <1>2, <1>3, <1>4 DEF HealthInv

LEMMA NotHealth ==
  ASSUME HealthInv, NEW c \in Cores, todo(c) \notin HealthTodo
  PROVE  s.core[c].pc = "run" => s.starts # 0
<1>1. Stage(c)
  BY Zenon DEF HealthInv
<1>2. CASE \E n \in Nat : todo(c) \in {Boot1(n), Boot2(n), Boot3(n)}
  BY Zenon, <1>2, TodosFacts
<1>3. CASE todo(c) \in {Boot4, Boot5, Boot6, Boot7, Snap4, Snap5} \/ todo(c) \in ClearTodo
  BY Zenon, <1>3, TodosFacts
<1>4. CASE \E x, y, z \in Nat : todo(c) \in {Snap1(x, y, z), Snap2(y, z), Snap3(z)}
  BY Zenon, <1>4, TodosFacts
<1> QED BY Zenon, <1>1, <1>2, <1>3, <1>4, TodosFacts DEF Stage

\* Core c goes on with t, and the crash record becomes this.
Marks(c, t, magic, a, b) ==
  /\ Types' /\ Beside(c) /\ s'.core[c].todo = t
  /\ s'.f.magic = magic /\ s'.f.a = a /\ s'.f.b = b
  /\ s'.h = s.h /\ s'.starts = s.starts /\ s'.sure = s.sure /\ s'.seen = s.seen /\ s'.told = s.told

LEMMA CrashMarks ==
  ASSUME Types, NEW c \in Cores, Write(c), NEW m \in Nat, NEW n \in Nat
  PROVE  /\ todo(c) = Crash1(m, n) => Marks(c, Crash2(n), m, s.f.a, s.f.b)
         /\ todo(c) = Crash2(n) => Marks(c, Crash3(n), s.f.magic, n, s.f.b)
         /\ todo(c) = Crash3(n) => Marks(c, <<>>, s.f.magic, s.f.a, n)
<1>1. s.f \in Crash
  BY Zenon DEF Types, States
<1>2. ASSUME todo(c) = Crash1(m, n) PROVE Marks(c, Crash2(n), m, s.f.a, s.f.b)
  <2>1. todo(c) # <<>> /\ Head(todo(c)) = F("magic", m) /\ Tail(todo(c)) = Crash2(n)
    BY <1>2, CrashSteps
  <2>2. Tail(todo(c)) \in Todos
    BY Zenon, <2>1, TodosFacts
  <2>3. Put(s.f, "magic", m) \in Crash
    BY Zenon, <1>1 DEF Crash, Put
  <2>4. /\ Types' /\ Beside(c)
        /\ s'.f = Put(s.f, "magic", m) /\ s'.core[c].todo = Tail(todo(c))
        /\ s'.starts = s.starts /\ s'.sure = s.sure
        /\ s'.h = s.h /\ s'.seen = s.seen /\ s'.told = s.told
    BY Zenon, <2>1, <2>2, <2>3, WriteCrash
  <2> QED BY Zenon, <1>1, <2>1, <2>4 DEF Marks, Put, Crash
<1>3. ASSUME todo(c) = Crash2(n) PROVE Marks(c, Crash3(n), s.f.magic, n, s.f.b)
  <2>1. todo(c) # <<>> /\ Head(todo(c)) = F("a", n) /\ Tail(todo(c)) = Crash3(n)
    BY <1>3, CrashSteps
  <2>2. Tail(todo(c)) \in Todos
    BY Zenon, <2>1, TodosFacts
  <2>3. Put(s.f, "a", n) \in Crash
    BY Zenon, <1>1 DEF Crash, Put
  <2>4. /\ Types' /\ Beside(c)
        /\ s'.f = Put(s.f, "a", n) /\ s'.core[c].todo = Tail(todo(c))
        /\ s'.starts = s.starts /\ s'.sure = s.sure
        /\ s'.h = s.h /\ s'.seen = s.seen /\ s'.told = s.told
    BY Zenon, <2>1, <2>2, <2>3, WriteCrash
  <2> QED BY Zenon, <1>1, <2>1, <2>4 DEF Marks, Put, Crash
<1>4. ASSUME todo(c) = Crash3(n) PROVE Marks(c, <<>>, s.f.magic, s.f.a, n)
  <2>1. todo(c) # <<>> /\ Head(todo(c)) = F("b", n) /\ Tail(todo(c)) = <<>>
    BY Zenon, <1>4, CrashSteps
  <2>2. Tail(todo(c)) \in Todos
    BY Zenon, <2>1, TodosFacts
  <2>3. Put(s.f, "b", n) \in Crash
    BY Zenon, <1>1 DEF Crash, Put
  <2>4. /\ Types' /\ Beside(c)
        /\ s'.f = Put(s.f, "b", n) /\ s'.core[c].todo = Tail(todo(c))
        /\ s'.starts = s.starts /\ s'.sure = s.sure
        /\ s'.h = s.h /\ s'.seen = s.seen /\ s'.told = s.told
    BY Zenon, <2>1, <2>2, <2>3, WriteCrash
  <2> QED BY Zenon, <1>1, <2>1, <2>4 DEF Marks, Put, Crash
<1> QED BY Zenon, <1>2, <1>3, <1>4

LEMMA CrashWriteKeeps ==
  ASSUME IInv, NEW c \in Cores, Write(c), todo(c) \in CrashTodo
  PROVE  IInv'
<1>1. Types /\ CrashInv
  BY Zenon DEF IInv
<1>2. PICK m \in Nat, n \in Nat : todo(c) \in {Crash1(m, n), Crash2(n), Crash3(n)}
  BY TodosFacts DEF CrashTodo
<1>3. PICK t, magic, a, b : Marks(c, t, magic, a, b) /\ t \in {Crash2(n), Crash3(n), <<>>}
  BY Zenon, <1>1, <1>2, CrashMarks
<1>4. /\ todo(c)' = t /\ (t \in CrashTodo \/ t = <<>>) /\ t \notin HealthTodo
      /\ todo(c) \notin HealthTodo /\ todo(c) # <<>>
  <2>1. t \in CrashTodo \/ t = <<>>
    BY Zenon, <1>3, TodosFacts
  <2> QED BY Zenon, <1>3, <2>1, RestWrites DEF Marks, todo
<1>5. \A d \in Cores : d # c => todo(d)' = todo(d) /\ s'.core[d].pc = s.core[d].pc
  BY Zenon, <1>3 DEF Marks, Beside, todo
<1>6. \A d \in Cores : s'.core[d].pc = "off" => todo(d)' = <<>>
  BY Zenon, <1>3, <1>4, <1>5 DEF IInv, Marks, Beside
<1>7. ASSUME ~s.raced PROVE HealthInv'
  <2>1. HealthInv
    BY Zenon, <1>7 DEF IInv
  <2>2. s'.core[c].pc = "run" => s.starts # 0
    BY Zenon, <1>3, <1>4, <2>1, NotHealth DEF Marks, Beside
  <2> QED BY Zenon, <1>3, <1>4, <2>1, <2>2, CrashStep DEF Marks, Beside
<1>8. ASSUME s.last # -1 PROVE CrashInv'
  <2>1. /\ todo(Other(c)) \notin CrashTodo
        /\ \E k \in Nat :
             \/ todo(c) = Crash1(k, s.last) /\ Tells(k, s.last, s.last, s.last)
             \/ todo(c) = Crash2(s.last) /\ Tells(s.f.magic, s.last, s.last, s.last)
             \/ todo(c) = Crash3(s.last) /\ Tells(s.f.magic, s.f.a, s.last, s.last)
    BY Zenon, <1>1, <1>8 DEF CrashInv
  <2>2. s'.last = s.last /\ s.last \in Nat
    BY Zenon, <1>1, <1>3, <1>8 DEF Marks, Beside, Types, States
  <2>3. /\ Other(c) \in Cores /\ Other(c) # c /\ Other(Other(c)) = c
        /\ \A d \in Cores : d = c \/ d = Other(c)
    BY Zenon DEF Cores, Other
  <2>4. todo(Other(c))' = todo(Other(c))
    BY Zenon, <1>5, <2>3
  <2>5. ASSUME NEW k \in Nat, todo(c) = Crash1(k, s.last), Tells(k, s.last, s.last, s.last)
        PROVE  CrashInv'
    <3>1. Marks(c, Crash2(s.last), k, s.f.a, s.f.b)
      BY Zenon, <1>1, <2>2, <2>5, CrashMarks
    <3>2. todo(c)' = Crash2(s.last) /\ s'.f.magic = k /\ todo(c)' \in CrashTodo
      BY Zenon, <2>2, <3>1, TodosFacts DEF Marks, todo
    <3> QED BY Zenon, <2>1, <2>2, <2>3, <2>4, <2>5, <3>2, TodosFacts DEF CrashInv
  <2>6. ASSUME todo(c) = Crash2(s.last), Tells(s.f.magic, s.last, s.last, s.last)
        PROVE  CrashInv'
    <3>1. Marks(c, Crash3(s.last), s.f.magic, s.last, s.f.b)
      BY Zenon, <1>1, <2>2, <2>6, CrashMarks, TodosFacts
    <3>2. /\ todo(c)' = Crash3(s.last) /\ s'.f.magic = s.f.magic /\ s'.f.a = s.last
          /\ todo(c)' \in CrashTodo
      BY Zenon, <2>2, <3>1, TodosFacts DEF Marks, todo
    <3> QED BY Zenon, <2>1, <2>2, <2>3, <2>4, <2>6, <3>2, TodosFacts DEF CrashInv
  <2>7. ASSUME todo(c) = Crash3(s.last), Tells(s.f.magic, s.f.a, s.last, s.last)
        PROVE  CrashInv'
    <3>1. Marks(c, <<>>, s.f.magic, s.f.a, s.last)
      BY Zenon, <1>1, <2>2, <2>7, CrashMarks, TodosFacts
    <3>2. /\ todo(c)' = <<>> /\ s'.f.magic = s.f.magic /\ s'.f.a = s.f.a /\ s'.f.b = s.last
          /\ todo(c)' \notin CrashTodo
      BY Zenon, <2>2, <3>1, RestWrites DEF Marks, todo
    <3> QED BY Zenon, <2>1, <2>2, <2>3, <2>4, <2>7, <3>2 DEF CrashInv
  <2> QED BY Zenon, <2>1, <2>5, <2>6, <2>7
<1>9. CrashInv'
  BY Zenon, <1>3, <1>8 DEF CrashInv, Marks, Beside
<1> QED BY Zenon, <1>3, <1>6, <1>7, <1>9 DEF IInv, Marks, Beside

LEMMA OtherCore ==
  ASSUME NEW c \in Cores
  PROVE  /\ Other(c) \in Cores /\ Other(c) # c /\ Other(Other(c)) = c
         /\ \A d \in Cores : d = c \/ d = Other(c)
BY Zenon DEF Cores, Other

LEMMA BeginLeaves ==
  ASSUME Types, NEW c \in Cores, NEW t \in Todos
  PROVE  LET b == Begin(c, t)
         IN /\ b \in States
            /\ b.core[c].todo = t /\ b.core[c].pc = "run"
            /\ \A d \in Cores : d # c => b.core[d] = s.core[d]
            /\ b.raced = (s.raced \/ (Writes(t, "h") /\ todo(Other(c)) \in HealthTodo))
            /\ b.h = s.h /\ b.f = s.f /\ b.last = s.last /\ b.seen = s.seen /\ b.told = s.told
            /\ b.starts = s.starts /\ b.sure = s.sure
<1> DEFINE r == s.raced \/ (Writes(t, "h") /\ todo(Other(c)) \in HealthTodo)
<1>1. r \in BOOLEAN
  BY Zenon DEF Writes
<1>2. Begin(c, t) = [s EXCEPT !.core[c].pc = "run", !.core[c].todo = t, !.raced = r]
  <2>1. Writes(Core(Other(c)).todo, "h") <=> todo(Other(c)) \in HealthTodo
    BY Zenon, OtherCore, TodoWrites
  <2>2. (s.raced \/ (Writes(t, "h") /\ Writes(Core(Other(c)).todo, "h"))) = r
    BY Zenon, <2>1 DEF Writes
  <2> QED BY Zenon, <2>2 DEF Begin
<1> HIDE DEF r
<1> DEFINE k == [[s.core EXCEPT ![c].pc = "run"] EXCEPT ![c].todo = t]
<1>3. /\ k \in [Cores -> [pc : {"off", "run", "fault"}, todo : Todos]]
      /\ k[c].todo = t /\ k[c].pc = "run" /\ \A d \in Cores : d # c => k[d] = s.core[d]
  BY Zenon DEF Types, States
<1>4. Begin(c, t) = [s EXCEPT !.core = k, !.raced = r]
  BY Zenon, <1>2 DEF Types, States
<1> HIDE DEF k
<1> QED BY Zenon, <1>1, <1>3, <1>4 DEF Types, States, r

\* Core c, which had nothing to do, goes on with t; nothing else changes but
\* s.raced.
Begins(c, t) ==
  /\ Types' /\ s'.core[c].todo = t /\ s'.core[c].pc = "run"
  /\ \A d \in Cores : d # c => s'.core[d] = s.core[d]
  /\ s'.raced = (s.raced \/ (Writes(t, "h") /\ todo(Other(c)) \in HealthTodo))
  /\ s'.h = s.h /\ s'.f = s.f /\ s'.seen = s.seen /\ s'.told = s.told
  /\ s'.starts = s.starts

LEMMA BeginsHealth ==
  ASSUME IInv, NEW c \in Cores, NEW t \in HealthTodo, Begins(c, t), todo(c) = <<>>,
         s'.last = s.last, ~s'.raced => s'.sure <= s'.h.count /\ Stage(c)'
  PROVE  IInv'
<1>1. Types /\ CrashInv
  BY Zenon DEF IInv
<1>2. /\ \A d \in Cores : d # c => todo(d)' = todo(d) /\ s'.core[d].pc = s.core[d].pc
      /\ todo(c)' = t
  BY Zenon DEF Begins, todo
<1>3. t \notin CrashTodo /\ todo(c) \notin CrashTodo /\ todo(c) \notin HealthTodo
  BY Zenon, RestWrites
<1>4. CrashInv'
  BY Zenon, <1>1, <1>2, <1>3, CrashFrame DEF Begins
<1>5. \A d \in Cores : s'.core[d].pc = "off" => todo(d)' = <<>>
  BY Zenon, <1>2 DEF IInv, Begins
<1>6. ASSUME ~s'.raced PROVE HealthInv'
  <2>1. ~s.raced /\ todo(Other(c)) \notin HealthTodo
    BY Zenon, <1>6, RestWrites DEF Begins
  <2>2. HealthInv
    BY Zenon, <2>1 DEF IInv
  <2>3. todo(Other(c))' = todo(Other(c)) /\ s'.core[Other(c)] = s.core[Other(c)]
    BY Zenon, <1>2, OtherCore DEF Begins
  <2>4. SumTrue' /\ (s'.starts # 0 => s'.h.count <= s'.starts)
    BY Zenon, <2>2 DEF HealthInv, SumTrue, Begins
  <2>5. Stage(Other(c))'
    <3>1. s.core[Other(c)].pc = "run" => s.starts # 0
      BY Zenon, <2>1, <2>2, OtherCore, NotHealth
    <3>2. todo(Other(c)) = <<>> \/ todo(Other(c)) \in CrashTodo
      BY Zenon, <1>1, <2>1, OtherCore, TodoWrites DEF Todos
    <3> QED BY Zenon, <2>3, <3>1, <3>2 DEF Stage, Begins
  <2>6. \A d \in Cores : Stage(d)'
    BY Zenon, <1>6, <2>5, OtherCore
  <2>7. todo(Other(c))' \notin HealthTodo /\ Other(c) \in Cores /\ todo(c)' \in HealthTodo
    BY Zenon, <1>2, <2>1, <2>3, OtherCore
  <2>8. s'.sure <= s'.h.count
    BY Zenon, <1>6
  <2> QED BY Zenon, <2>4, <2>6, <2>7, <2>8 DEF HealthInv
<1> QED BY Zenon, <1>4, <1>5, <1>6 DEF IInv, Begins

LEMMA StartKeeps ==
  ASSUME IInv, NEW c \in Cores, Start(c) PROVE IInv'
<1> DEFINE n == IF bootHealthRecordValid(s.h) THEN s.h.count + 1 ELSE 1
<1>1. Types /\ todo(c) = <<>> /\ s' = Begin(c, Boot1(n))
  BY Zenon, Procedures DEF IInv, Start, Core
<1>2. n \in Nat
  BY <1>1, Numbers
<1> HIDE DEF n
<1>3. Boot1(n) \in HealthTodo /\ Boot1(n) \in Todos
  BY Zenon, <1>2, TodosFacts
<1>4. Begins(c, Boot1(n)) /\ s'.last = s.last /\ s'.sure = s.sure
  BY Zenon, <1>1, <1>3, BeginLeaves DEF Begins, Types
<1>5. ASSUME ~s'.raced PROVE Stage(c)'
  <2>1. ~s.raced /\ todo(Other(c)) \notin HealthTodo
    BY Zenon, <1>3, <1>4, <1>5, RestWrites DEF Begins
  <2>2. HealthInv /\ todo(c) \notin HealthTodo
    BY Zenon, <1>1, <2>1, RestWrites DEF IInv
  <2>3. Valid \/ s.sure = 0
    BY Zenon, <2>1, <2>2, OtherCore DEF HealthInv
  <2>4. Valid => s.h.count <= s.starts
    <3>1. Contents(s.h)[2] = s.h.count /\ Contents(s.h) # <<>>
      BY DEF Contents
    <3> QED BY Zenon, <2>2, <3>1 DEF HealthInv, SumTrue, Valid
  <2>5. s.sure <= s.h.count
    BY Zenon, <2>2 DEF HealthInv
  <2>6. s.sure < n /\ n <= s.starts + 1
    BY <1>1, <2>3, <2>4, <2>5, Numbers DEF n, Valid, bootHealthRecordValid
  <2> QED BY Zenon, <1>2, <1>4, <2>6 DEF Stage, Begins, todo
<1>6. ~s'.raced => s'.sure <= s'.h.count
  BY Zenon, <1>4 DEF IInv, HealthInv, Begins
<1> QED BY Zenon, <1>1, <1>3, <1>4, <1>5, <1>6, BeginsHealth

LEMMA LookBegins ==
  ASSUME IInv, NEW c \in Cores, todo(c) = <<>>, s.core[c].pc = "run", s' = Begin(c, Boot7)
  PROVE  IInv'
<1>1. Types /\ Boot7 \in HealthTodo /\ Boot7 \in Todos
  BY Zenon, TodosFacts DEF IInv
<1>2. Begins(c, Boot7) /\ s'.last = s.last /\ s'.sure = s.sure
  BY Zenon, <1>1, BeginLeaves DEF Begins, Types
<1>3. ASSUME ~s'.raced PROVE Stage(c)'
  <2>1. ~s.raced /\ todo(Other(c)) \notin HealthTodo
    BY Zenon, <1>1, <1>2, <1>3, RestWrites DEF Begins
  <2>2. HealthInv /\ todo(c) \notin HealthTodo
    BY Zenon, <2>1, RestWrites DEF IInv
  <2>3. Valid \/ s.sure = 0
    BY Zenon, <2>1, <2>2, OtherCore DEF HealthInv
  <2>4. Kept
    BY Zenon, <2>2, <2>3, NotHealth DEF Kept, Valid
  <2> QED BY Zenon, <1>2, <2>4 DEF Stage, Kept, Begins, todo
<1>4. ~s'.raced => s'.sure <= s'.h.count
  BY Zenon, <1>2 DEF IInv, HealthInv, Begins
<1> QED BY Zenon, <1>1, <1>2, <1>3, <1>4, BeginsHealth

LEMMA ClearBegins ==
  ASSUME IInv, NEW c \in Cores, todo(c) = <<>>, s.core[c].pc = "run",
         s' = [Begin(c, Clear1) EXCEPT !.sure = 0]
  PROVE  IInv'
<1>1. Types /\ Clear1 \in HealthTodo /\ Clear1 \in Todos /\ Clear1 \in ClearTodo
  BY Zenon, TodosFacts DEF IInv, ClearTodo
<1>2. Begins(c, Clear1) /\ s'.last = s.last /\ s'.sure = 0
  <2> DEFINE b == Begin(c, Clear1)
  <2>1. /\ b \in States
        /\ b.core[c].todo = Clear1 /\ b.core[c].pc = "run"
        /\ \A d \in Cores : d # c => b.core[d] = s.core[d]
        /\ b.raced = (s.raced \/ (Writes(Clear1, "h") /\ todo(Other(c)) \in HealthTodo))
        /\ b.h = s.h /\ b.f = s.f /\ b.last = s.last /\ b.seen = s.seen /\ b.told = s.told
        /\ b.starts = s.starts
    BY Zenon, <1>1, BeginLeaves
  <2> HIDE DEF b
  <2>2. s' = [b EXCEPT !.sure = 0]
    BY Zenon DEF b
  <2>3. s' \in States
    BY Zenon, <2>1, <2>2, TodosFacts DEF States
  <2> QED BY Zenon, <2>1, <2>2, <2>3 DEF Begins, Types, States
<1>3. ASSUME ~s'.raced PROVE Stage(c)'
  <2>1. HealthInv /\ todo(c) \notin HealthTodo
    BY Zenon, <1>2, <1>3, RestWrites DEF IInv, Begins
  <2>2. s.starts # 0
    BY Zenon, <2>1, NotHealth
  <2> QED BY Zenon, <1>1, <1>2, <2>2 DEF Stage, Begins, todo
<1>4. s'.sure <= s'.h.count
  BY <1>1, <1>2, Numbers DEF Begins
<1> QED BY Zenon, <1>1, <1>2, <1>3, <1>4, BeginsHealth

(* Core c begins to write about fault n, or to clear the crash record. *)
LEMMA AboutLeaves ==
  ASSUME NEW d \in States, NEW c \in Cores, NEW n \in Nat, d.core[Other(c)].todo = todo(Other(c)), Types
  PROVE  LET b == About(d, c, n)
         IN /\ b \in States
            /\ b.last = IF todo(Other(c)) \in CrashTodo THEN -1 ELSE n
            /\ b.core = d.core /\ b.h = d.h /\ b.f = d.f /\ b.seen = d.seen /\ b.told = d.told
            /\ b.starts = d.starts /\ b.sure = d.sure /\ b.raced = d.raced
<1> DEFINE l == IF todo(Other(c)) \in CrashTodo THEN -1 ELSE n
<1>1. l \in Nat \cup {-1}
  BY Zenon
<1>2. About(d, c, n) = [d EXCEPT !.last = l]
  BY Zenon, OtherCore, TodoWrites DEF About, Core, todo
<1> HIDE DEF l
<1> QED BY Zenon, <1>1, <1>2 DEF States, l

LEMMA CrashBegins ==
  ASSUME Types, NEW c \in Cores, NEW m \in Nat, NEW n \in Nat, Tells(m, n, n, n),
         \A d \in Cores : d # c => s'.core[d] = s.core[d],
         todo(c)' = Crash1(m, n),
         s'.last = IF todo(Other(c)) \in CrashTodo THEN -1 ELSE n
  PROVE  CrashInv'
<1>1. todo(Other(c))' = todo(Other(c)) /\ todo(c)' \in CrashTodo
  BY Zenon, OtherCore, TodosFacts DEF todo
<1>2. CASE s'.last = -1
  BY Zenon, <1>2 DEF CrashInv
<1>3. CASE s'.last # -1
  <2>1. todo(Other(c))' \notin CrashTodo /\ s'.last = n
    BY Zenon, <1>1, <1>3
  <2> QED BY Zenon, <1>1, <2>1, OtherCore DEF CrashInv
<1> QED BY Zenon, <1>2, <1>3

LEMMA MaintainKeeps ==
  ASSUME IInv, NEW c \in Cores, Maintain(c) PROVE IInv'
<1>1. todo(c) = <<>> /\ s.core[c].pc = "run" /\ Types
  BY Zenon DEF Maintain, Idle, Core, todo, IInv
<1>2. CASE s' = Begin(c, <<<<"look">>>>)
  BY Zenon, <1>1, <1>2, LookBegins DEF Boot7
<1>3. CASE s' = [Begin(c, bootHealthClear) EXCEPT !.sure = 0]
  BY Zenon, <1>1, <1>3, Procedures, ClearBegins
<1>4. CASE s' = About(Begin(c, faultClearRecord), c, 0)
  <2> DEFINE b == Begin(c, Crash1(0, 0))
  <2>1. /\ Crash1(0, 0) \in Todos /\ Crash1(0, 0) \in CrashTodo
        /\ Crash1(0, 0) \notin HealthTodo /\ ~Writes(Crash1(0, 0), "h")
    BY Zenon, TodosFacts, RestWrites
  <2>2. /\ b \in States
        /\ b.core[c].todo = Crash1(0, 0) /\ b.core[c].pc = "run"
        /\ \A d \in Cores : d # c => b.core[d] = s.core[d]
        /\ b.raced = (s.raced \/ (Writes(Crash1(0, 0), "h") /\ todo(Other(c)) \in HealthTodo))
        /\ b.h = s.h /\ b.f = s.f /\ b.last = s.last /\ b.seen = s.seen /\ b.told = s.told
        /\ b.starts = s.starts /\ b.sure = s.sure
    BY Zenon, <1>1, <2>1, BeginLeaves
  <2> HIDE DEF b
  <2>3. s' = About(b, c, 0)
    BY Zenon, <1>4, Procedures DEF b
  <2>4. b.core[Other(c)].todo = todo(Other(c))
    BY Zenon, <2>2, OtherCore DEF todo
  <2>5. /\ Types' /\ s'.last = IF todo(Other(c)) \in CrashTodo THEN -1 ELSE 0
        /\ s'.core = b.core /\ s'.h = s.h /\ s'.f = s.f /\ s'.seen = s.seen /\ s'.told = s.told
        /\ s'.starts = s.starts /\ s'.sure = s.sure /\ (s'.raced <=> s.raced)
    <3>1. /\ s' \in States /\ s'.last = IF todo(Other(c)) \in CrashTodo THEN -1 ELSE 0
          /\ s'.core = b.core /\ s'.h = b.h /\ s'.f = b.f /\ s'.seen = b.seen /\ s'.told = b.told
          /\ s'.starts = b.starts /\ s'.sure = b.sure /\ s'.raced = b.raced
      BY <1>1, <2>2, <2>3, <2>4, AboutLeaves
    <3> QED BY Zenon, <2>1, <2>2, <3>1 DEF Types
  <2>6. todo(c)' = Crash1(0, 0) /\ \A d \in Cores : d # c => s'.core[d] = s.core[d]
    BY Zenon, <2>2, <2>5 DEF todo
  <2>7. CrashInv'
    <3>1. Tells(0, 0, 0, 0)
      BY DEF Tells
    <3> QED BY Zenon, <1>1, <2>5, <2>6, <3>1, CrashBegins, TodosFacts
  <2>8. \A d \in Cores : s'.core[d].pc = "off" => todo(d)' = <<>>
    BY Zenon, <2>2, <2>5, <2>6 DEF IInv, todo
  <2>9. ASSUME ~s'.raced PROVE HealthInv'
    <3>1. HealthInv /\ todo(c) \notin HealthTodo
      BY Zenon, <1>1, <2>5, <2>9, RestWrites DEF IInv
    <3>2. s.starts # 0
      BY Zenon, <1>1, <3>1, NotHealth
    <3> QED BY Zenon, <2>1, <2>5, <2>6, <3>1, <3>2, CrashStep
  <2> QED BY Zenon, <2>5, <2>7, <2>8, <2>9 DEF IInv
<1> QED BY Zenon, <1>2, <1>3, <1>4 DEF Maintain

LEMMA FaultKeeps ==
  ASSUME IInv, NEW c \in Cores, Fault(c) PROVE IInv'
<1> DEFINE n == s.faults + 1
           u == IF Writes(Core(c).todo, "h") THEN 0 ELSE s.sure
           d == [s EXCEPT !.faults = n, !.core[c] = [pc |-> "fault", todo |-> Crash1(1, n)],
                          !.sure = u]
<1>1. Types
  BY Zenon DEF IInv
<1>2. n \in Nat /\ n # 0 /\ u \in Nat
  BY <1>1 DEF Types, States
<1>3. s' = About(d, c, n)
  BY Zenon, Procedures DEF Fault
<1> HIDE DEF n
<1>4. /\ Crash1(1, n) \in Todos /\ Crash1(1, n) \in CrashTodo /\ Crash1(1, n) \notin HealthTodo
  BY Zenon, <1>2, TodosFacts, RestWrites
<1>5. u = IF todo(c) \in HealthTodo THEN 0 ELSE s.sure
  BY Zenon, <1>1, TodoWrites
<1> HIDE DEF u
<1>6. /\ d \in States
      /\ d.core[c].todo = Crash1(1, n) /\ d.core[c].pc = "fault"
      /\ \A e \in Cores : e # c => d.core[e] = s.core[e]
      /\ d.raced = s.raced /\ d.h = s.h /\ d.f = s.f /\ d.seen = s.seen /\ d.told = s.told
      /\ d.starts = s.starts /\ d.sure = u
  BY Zenon, <1>1, <1>2, <1>4 DEF Types, States
<1> HIDE DEF d
<1>7. d.core[Other(c)].todo = todo(Other(c))
  BY Zenon, <1>6, OtherCore DEF todo
<1>8. /\ Types' /\ s'.last = IF todo(Other(c)) \in CrashTodo THEN -1 ELSE n
      /\ s'.core = d.core /\ s'.h = s.h /\ s'.f = s.f /\ s'.seen = s.seen /\ s'.told = s.told
      /\ s'.starts = s.starts /\ s'.sure = u /\ s'.raced = s.raced
  <2>1. /\ s' \in States /\ s'.last = IF todo(Other(c)) \in CrashTodo THEN -1 ELSE n
        /\ s'.core = d.core /\ s'.h = d.h /\ s'.f = d.f /\ s'.seen = d.seen /\ s'.told = d.told
        /\ s'.starts = d.starts /\ s'.sure = d.sure /\ s'.raced = d.raced
    BY <1>1, <1>2, <1>3, <1>6, <1>7, AboutLeaves
  <2> QED BY Zenon, <1>6, <2>1 DEF Types
<1>9. /\ todo(c)' = Crash1(1, n) /\ s'.core[c].pc = "fault"
      /\ \A e \in Cores : e # c => s'.core[e] = s.core[e] /\ todo(e)' = todo(e)
  BY Zenon, <1>6, <1>8 DEF todo
<1>10. CrashInv'
  <2>1. Tells(1, n, n, n)
    BY Zenon, <1>2 DEF Tells
  <2> QED BY Zenon, <1>1, <1>2, <1>8, <1>9, <2>1, CrashBegins, TodosFacts
<1>11. \A e \in Cores : s'.core[e].pc = "off" => todo(e)' = <<>>
  BY Zenon, <1>9 DEF IInv
<1>12. ASSUME ~s'.raced PROVE HealthInv'
  <2>1. HealthInv
    BY Zenon, <1>8, <1>12 DEF IInv
  <2>2. CASE todo(c) \notin HealthTodo
    <3>1. s'.sure = s.sure
      BY Zenon, <1>5, <1>8, <2>2
    <3> QED BY Zenon, <1>4, <1>8, <1>9, <2>1, <2>2, <3>1, CrashStep
  <2>3. CASE todo(c) \in HealthTodo
    <3>1. s'.sure = 0
      BY Zenon, <1>5, <1>8, <2>3
    <3>2. s'.sure <= s'.h.count
      BY <1>1, <1>8, <3>1, Numbers
    <3>3. todo(Other(c)) \notin HealthTodo
      BY Zenon, <2>1, <2>3, OtherCore DEF HealthInv
    <3>4. Stage(Other(c))'
      <4>1. s.core[Other(c)].pc = "run" => s.starts # 0
        BY Zenon, <2>1, <3>3, OtherCore, NotHealth
      <4>2. todo(Other(c)) = <<>> \/ todo(Other(c)) \in CrashTodo
        BY Zenon, <1>1, <3>3, OtherCore, TodoWrites DEF Todos
      <4>3. s'.core[Other(c)] = s.core[Other(c)] /\ todo(Other(c))' = todo(Other(c))
        BY Zenon, <1>9, OtherCore
      <4> QED BY Zenon, <1>8, <4>1, <4>2, <4>3 DEF Stage
    <3>5. Stage(c)'
      BY Zenon, <1>4, <1>9 DEF Stage
    <3>6. \A e \in Cores : Stage(e)'
      BY Zenon, <3>4, <3>5, OtherCore
    <3>7. SumTrue' /\ (s'.starts # 0 => s'.h.count <= s'.starts)
      BY Zenon, <1>8, <2>1 DEF HealthInv, SumTrue
    <3>8. todo(c)' \notin HealthTodo
      BY Zenon, <1>4, <1>9
    <3> QED BY Zenon, <3>1, <3>2, <3>6, <3>7, <3>8 DEF HealthInv
  <2> QED BY Zenon, <2>2, <2>3
<1> QED BY Zenon, <1>8, <1>10, <1>11, <1>12 DEF IInv

LEMMA ResetKeeps ==
  ASSUME IInv, Reset PROVE IInv'
<1> DEFINE off == [c \in Cores |-> [pc |-> "off", todo |-> <<>>]]
           l == IF \E c \in Cores : todo(c) \in CrashTodo THEN -1 ELSE s.last
           u == IF \E c \in Cores : todo(c) \in HealthTodo THEN 0 ELSE s.sure
<1>1. Types
  BY Zenon DEF IInv
<1>2. s' = [s EXCEPT !.core = off, !.last = l, !.sure = u]
  <2>1. /\ (\E c \in Cores : Writes(Core(c).todo, "f")) <=> \E c \in Cores : todo(c) \in CrashTodo
        /\ (\E c \in Cores : Writes(Core(c).todo, "h")) <=> \E c \in Cores : todo(c) \in HealthTodo
    BY Zenon, <1>1, TodoWrites
  <2> QED BY Zenon, <2>1 DEF Reset
<1>3. /\ off \in [Cores -> [pc : {"off", "run", "fault"}, todo : Todos]]
      /\ \A c \in Cores : off[c].todo = <<>> /\ off[c].pc = "off"
  BY Zenon, TodosFacts
<1>4. l \in Nat \cup {-1} /\ u \in Nat
  BY Zenon, <1>1, TodosFacts DEF Types, States
<1> HIDE DEF off, l, u
<1>5. /\ Types' /\ s'.core = off /\ s'.last = l /\ s'.sure = u /\ s'.h = s.h /\ s'.f = s.f
      /\ s'.seen = s.seen /\ s'.told = s.told /\ s'.starts = s.starts /\ s'.raced = s.raced
  BY Zenon, <1>1, <1>2, <1>3, <1>4 DEF Types, States
<1>6. \A c \in Cores : todo(c)' = <<>> /\ s'.core[c].pc = "off"
                       /\ todo(c)' \notin HealthTodo /\ todo(c)' \notin CrashTodo
  BY Zenon, <1>3, <1>5, RestWrites DEF todo
<1>7. CrashInv'
  BY Zenon, <1>5, <1>6 DEF IInv, CrashInv, l
<1>8. ASSUME ~s'.raced PROVE HealthInv'
  <2>1. HealthInv
    BY Zenon, <1>5, <1>8 DEF IInv
  <2>2. Valid' \/ s'.sure = 0
    BY Zenon, <1>5, <2>1 DEF HealthInv, Valid, u
  <2>3. s'.sure <= s'.h.count
    <3>1. s.sure <= s.h.count /\ 0 <= s.h.count
      BY <1>1, <2>1, Numbers DEF HealthInv
    <3> QED BY Zenon, <1>5, <3>1 DEF u
  <2>4. SumTrue' /\ (s'.starts # 0 => s'.h.count <= s'.starts)
    BY Zenon, <1>5, <2>1 DEF HealthInv, SumTrue
  <2>5. \A c \in Cores : Stage(c)'
    BY Zenon, <1>6 DEF Stage
  <2>6. \E c \in Cores : todo(c)' \notin HealthTodo
    BY Zenon, <1>6 DEF Cores
  <2> QED BY Zenon, <2>2, <2>3, <2>4, <2>5, <2>6 DEF HealthInv
<1> QED BY Zenon, <1>5, <1>6, <1>7, <1>8 DEF IInv

LEMMA WriteKeeps ==
  ASSUME IInv, NEW c \in Cores, Write(c) PROVE IInv'
<1>1. Types
  BY Zenon DEF IInv
<1>2. todo(c) \in HealthTodo \/ todo(c) \in CrashTodo
  BY Zenon, <1>1, TodosFacts DEF Write, Idle, Core, todo, Todos, Types, States
<1> QED BY Zenon, <1>2, HealthWriteKeeps, CrashWriteKeeps

LEMMA InitInv == Init => IInv
<1> SUFFICES ASSUME Init PROVE IInv
  OBVIOUS
<1>1. PICK magic \in 0 .. 1, count \in {0, 5} : s = [Powered EXCEPT !.h.magic = magic, !.h.count = count]
  BY Zenon DEF Init
<1> DEFINE h == [magic |-> magic, sum |-> <<>>, count |-> count, flag |-> 0, a |-> 0, b |-> 0]
           f == [magic |-> 0, a |-> 0, b |-> 0]
           off == [c \in Cores |-> [pc |-> "off", todo |-> <<>>]]
<1>2. s = [h |-> h, f |-> f, core |-> off,
           faults |-> 0, last |-> 0, seen |-> [c \in Cores |-> 0], told |-> 0,
           starts |-> 0, sure |-> 0, raced |-> FALSE]
  BY ZenonT(30), <1>1 DEF Powered
<1>3. magic \in Nat /\ count \in Nat /\ 0 \in Nat /\ 0 <= count
  OBVIOUS
<1>4. <<>> \in Todos /\ <<>> \in Sums
  BY Zenon, TodosFacts DEF Sums
<1>5. /\ off \in [Cores -> [pc : {"off", "run", "fault"}, todo : Todos]]
      /\ \A c \in Cores : off[c].todo = <<>> /\ off[c].pc = "off"
  BY Zenon, <1>4
<1>6. h \in Health /\ h.sum = <<>> /\ h.count = count /\ f \in Crash /\ f.magic = 0 /\ f.a = 0 /\ f.b = 0
  BY Zenon, <1>3, <1>4 DEF Health, Crash
<1> HIDE DEF h, f, off
<1>7. /\ Types /\ s.core = off /\ s.h = h /\ s.f = f /\ s.sure = 0 /\ s.starts = 0 /\ s.last = 0
  BY Zenon, <1>2, <1>3, <1>5, <1>6 DEF Types, States
<1>8. \A c \in Cores : /\ todo(c) = <<>> /\ s.core[c].pc = "off"
                       /\ todo(c) \notin HealthTodo /\ todo(c) \notin CrashTodo
  BY Zenon, <1>5, <1>7, RestWrites DEF todo
<1>9. HealthInv
  <2>1. SumTrue /\ s.sure <= s.h.count /\ (\A c \in Cores : Stage(c))
    BY Zenon, <1>3, <1>6, <1>7, <1>8 DEF SumTrue, Stage
  <2>2. \E c \in Cores : todo(c) \notin HealthTodo
    BY Zenon, <1>8 DEF Cores
  <2> QED BY Zenon, <1>7, <2>1, <2>2 DEF HealthInv
<1>10. CrashInv
  <2>1. Tells(0, 0, 0, 0)
    BY DEF Tells
  <2> QED BY Zenon, <1>6, <1>7, <1>8, <2>1 DEF CrashInv
<1> QED BY Zenon, <1>7, <1>8, <1>9, <1>10 DEF IInv

LEMMA NextInv == IInv /\ [Next]_vars => IInv'
<1> SUFFICES ASSUME IInv, [Next]_vars PROVE IInv'
  OBVIOUS
<1>1. CASE UNCHANGED vars
  BY ZenonT(30), <1>1 DEF vars, IInv, Types, HealthInv, CrashInv, Stage, SumTrue, Kept, Valid, todo
<1>2. ASSUME NEW c \in Cores, Start(c) PROVE IInv'
  BY Zenon, <1>2, StartKeeps
<1>3. ASSUME NEW c \in Cores, Maintain(c) PROVE IInv'
  BY Zenon, <1>3, MaintainKeeps
<1>4. ASSUME NEW c \in Cores, Fault(c) PROVE IInv'
  BY Zenon, <1>4, FaultKeeps
<1>5. ASSUME NEW c \in Cores, Write(c) PROVE IInv'
  BY Zenon, <1>5, WriteKeeps
<1>6. CASE Reset
  BY Zenon, <1>6, ResetKeeps
<1> QED BY Zenon, <1>1, <1>2, <1>3, <1>4, <1>5, <1>6 DEF Next

LEMMA InvTrue == IInv => RecordsTrue
<1> SUFFICES ASSUME IInv, Fit
             PROVE  /\ s.sure <= s.h.count /\ s.h.count <= s.starts
                    /\ Tells(s.h.flag, s.h.a, s.h.b, s.told)
  BY Zenon DEF RecordsTrue, BootsCounted, FaultReported, Tells
<1>1. HealthInv /\ s.h.sum = Contents(s.h)
  BY Zenon DEF IInv, Fit
<1>2. /\ s.h.sum # <<>> /\ s.h.sum[2] = s.h.count /\ s.h.sum[3] = s.h.flag
      /\ s.h.sum[4] = s.h.a /\ s.h.sum[5] = s.h.b
  BY <1>1 DEF Contents
<1> QED BY Zenon, <1>1, <1>2 DEF HealthInv, SumTrue

(* For any number of faults, resets, captures and clears, at any point     *)
(* between two writes of either core: a boot-health record that passes its *)
(* checks counts the starts since it was last cut short or cleared, and    *)
(* tells of the last fault, whole, but for updates by both cores at once   *)
(* and crash records that were themselves cut short.                       *)
THEOREM RecordsAlwaysTrue == Spec => []RecordsTrue
<1>1. Spec => []IInv
  BY InitInv, NextInv, PTL DEF Spec
<1> QED BY <1>1, InvTrue, PTL
=============================================================================
