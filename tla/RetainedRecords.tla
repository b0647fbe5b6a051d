--------------------------- MODULE RetainedRecords --------------------------
(***************************************************************************)
(* The two records that outlive a reset: the crash record in shared XRAM   *)
(* (kernel/fault.nim) and the boot-health record in the retention RAM      *)
(* (kernel/boothealth.nim).  Every core that starts updates the one        *)
(* boot-health record, and a core that faults writes the one crash record  *)
(* and halts.  Each record is written word by word, so a reset, or the     *)
(* other core, may come between any two writes.                            *)
(*                                                                         *)
(* A word that only repeats a constant or describes the same fault again   *)
(* is left out: magic stands for magic, version and size, a and b for the  *)
(* first and the last of the words about a fault.  The checksum is taken   *)
(* to tell any two contents apart, and to fit no content that power-on     *)
(* left behind; 0 is <<>>.                                                 *)
(***************************************************************************)
EXTENDS Integers, Sequences

CONSTANTS
  MaxFaults,                  \* bound: faults
  MaxOps                      \* bound: resets, clears and captures

VARIABLES
  s,      \* the records, the cores and ghosts
  ops

vars == <<s, ops>>

Cores == {"m0", "d0"}

(***************************************************************************)
(* s.h, s.f: the boot-health and the crash record.                         *)
(* s.core[c]: pc ("off", "run" or "fault") and todo, the writes left of    *)
(* the procedure it is in.                                                 *)
(* s.faults: the faults so far; a fault is named by its number.            *)
(* s.last: the fault the crash record is about (0: cleared), or -1 when a  *)
(* reset or the other core came between two of its writes.                 *)
(* s.seen[c]: s.last when c captured the crash record, or -1 when it was   *)
(* being written; s.told: the same for the checksum written last.          *)
(* s.starts: starts counted since power-on; s.sure: those since an update  *)
(* was last cut short or the record cleared.                               *)
(* s.raced: both cores have written the boot-health record at once.        *)
(***************************************************************************)
Core(c) == s.core[c]
Idle(c) == Core(c).todo = <<>>
Other(c) == IF c = "m0" THEN "d0" ELSE "m0"

\* A write of a word, in the order of the code.
H(field, value) == <<"h", field, value>>
F(field, value) == <<"f", field, value>>

----------------------------------------------------------------------------
(* The procedures, as the writes they make.  "look" reads the crash record *)
(* and goes on with the writes that depend on it; "sum" writes the         *)
(* checksum of what the record then holds.                                 *)

Contents(h) == <<h.magic, h.count, h.flag, h.a, h.b>>

\* Mutant: a record with the right magic is taken as it is.
magicOnly(h) == h.magic = 1

bootHealthRecordValid(h) == h.magic = 1 /\ h.sum = Contents(h)

faultRecordValid(f) == f.magic = 1

bootHealthClearPreviousFault == <<H("flag", 0), H("a", 0), H("b", 0)>>

bootHealthCommit == <<H("sum", <<>>), <<"sum">>>>

bootHealthCaptureFaultSnapshot(f) ==
  (IF faultRecordValid(f) THEN <<H("flag", 1), H("a", f.a), H("b", f.b)>> ELSE bootHealthClearPreviousFault)
    \o bootHealthCommit

bootHealthInit(h) ==
  LET previousBootCount == IF bootHealthRecordValid(h) THEN h.count ELSE 0
  IN <<H("magic", 1), H("sum", <<>>), H("count", previousBootCount + 1), H("flag", 0), H("a", 0), H("b", 0), <<"look">>>>

bootHealthClear == <<H("magic", 0), H("sum", <<>>), H("count", 0), H("flag", 0), H("a", 0), H("b", 0)>>

faultRecord(n) == <<F("magic", 1), F("a", n), F("b", n)>>

faultClearRecord == <<F("magic", 0), F("a", 0), F("b", 0)>>

\* Whether a write still to come is to that record.
Writes(todo, rec) == \E i \in 1 .. Len(todo) : todo[i][1] \in IF rec = "h" THEN {"h", "look", "sum"} ELSE {rec}

----------------------------------------------------------------------------
(* The cores.                                                              *)

Powered ==
  [h |-> [magic |-> 0, sum |-> <<>>, count |-> 0, flag |-> 0, a |-> 0, b |-> 0],
   f |-> [magic |-> 0, a |-> 0, b |-> 0],
   core |-> [c \in Cores |-> [pc |-> "off", todo |-> <<>>]],
   faults |-> 0, last |-> 0, seen |-> [c \in Cores |-> 0], told |-> 0,
   starts |-> 0, sure |-> 0, raced |-> FALSE]

\* The retention RAM holds anything after power-on, the right magic too.
Init == /\ \E magic \in 0 .. 1, count \in {0, 5} : s = [Powered EXCEPT !.h.magic = magic, !.h.count = count]
        /\ ops = 0

Count == ops < MaxOps /\ ops' = ops + 1

\* Core c begins to write record rec.
Begin(c, todo) ==
  [s EXCEPT !.core[c].pc = "run", !.core[c].todo = todo,
            !.raced = @ \/ (Writes(todo, "h") /\ Writes(Core(Other(c)).todo, "h"))]

\* The crash record is about fault n from now on, unless the other core is
\* writing it too.
About(d, c, n) == [d EXCEPT !.last = IF Writes(d.core[Other(c)].todo, "f") THEN -1 ELSE n]

\* systemInit of a core that starts: M0 out of reset, D0 when M0 releases it.
Start(c) ==
  /\ Core(c).pc = "off" /\ (c = "d0" => Core("m0").pc = "run" /\ Idle("m0"))
  /\ s' = Begin(c, bootHealthInit(s.h))
  /\ UNCHANGED ops

\* A program captures the crash record, or clears one of the records.
Maintain(c) ==
  /\ Core(c).pc = "run" /\ Idle(c) /\ Count
  /\ \/ s' = Begin(c, <<<<"look">>>>)
     \/ s' = [Begin(c, bootHealthClear) EXCEPT !.sure = 0]
     \/ s' = About(Begin(c, faultClearRecord), c, 0)

\* A trap, between any two writes: faultHalt writes the crash record and stops.
Fault(c) ==
  /\ Core(c).pc = "run" /\ s.faults < MaxFaults
  /\ LET n == s.faults + 1
     IN s' = About([s EXCEPT !.faults = n, !.core[c] = [pc |-> "fault", todo |-> faultRecord(n)],
                             !.sure = IF Writes(Core(c).todo, "h") THEN 0 ELSE @], c, n)
  /\ UNCHANGED ops

\* A reset of the chip; the two memories keep what they hold.
Reset ==
  /\ Core("m0").pc # "off" /\ Count
  /\ LET written(rec) == \E c \in Cores : Writes(Core(c).todo, rec)
     IN s' = [s EXCEPT !.core = [c \in Cores |-> [pc |-> "off", todo |-> <<>>]],
                       !.last = IF written("f") THEN -1 ELSE @,
                       !.sure = IF written("h") THEN 0 ELSE @]

\* d after write w of core c.
Written(d, c, w) ==
  CASE w[1] = "h" ->
         LET counted == IF w[2] = "count" /\ w[3] # 0 THEN 1 ELSE 0
         IN [d EXCEPT !.h[w[2]] = w[3], !.starts = @ + counted, !.sure = @ + counted]
    [] w[1] = "f" -> [d EXCEPT !.f[w[2]] = w[3]]
    [] w[1] = "sum" -> [d EXCEPT !.h.sum = Contents(d.h), !.told = d.seen[c]]
    [] w[1] = "look" ->
         [d EXCEPT !.core[c].todo = bootHealthCaptureFaultSnapshot(d.f),
                   !.seen[c] = IF Writes(d.core[Other(c)].todo, "f") THEN -1 ELSE d.last]

\* The next write of core c.
Write(c) ==
  /\ ~Idle(c)
  /\ s' = Written([s EXCEPT !.core[c].todo = Tail(@)], c, Head(Core(c).todo))
  /\ UNCHANGED ops

Next ==
  \/ \E c \in Cores : Start(c) \/ Maintain(c) \/ Fault(c) \/ Write(c)
  \/ Reset

Spec == Init /\ [][Next]_vars

----------------------------------------------------------------------------
(* What must hold.                                                         *)

\* A valid record that no core is writing.
Fit == s.h.magic = 1 /\ s.h.sum = Contents(s.h) /\ ~s.raced /\ \A c \in Cores : ~Writes(Core(c).todo, "h")

\* A boot-health record that passes its checks counts every start since an
\* update was last cut short or the record cleared, and none twice: what
\* power-on left, and what a reset left half written, is never counted on
\* from.  Two cores that update the record at once are excepted: the code
\* lets one overwrite the other.
BootsCounted == Fit => s.sure <= s.h.count /\ s.h.count <= s.starts

\* A boot-health record that passes its checks tells of the last fault,
\* whole, and of none when there was none, however many resets came between
\* the fault and the start that reports it.  A crash record whose own writing
\* was cut short or mixed with the other core's is excepted: it has no
\* checksum, and its magic is written first.
FaultReported ==
  Fit /\ s.told # -1 => s.h.flag = (IF s.told = 0 THEN 0 ELSE 1) /\ s.h.a = s.told /\ s.h.b = s.told

RecordsTrue == BootsCounted /\ FaultReported
=============================================================================
