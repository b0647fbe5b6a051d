-------------------------------- MODULE Parts --------------------------------
(***************************************************************************)
(* The parts of the machine and of the firmware about which something is   *)
(* proved for all values of their constants, composed as MCParts composes  *)
(* its parts: they do not share state, and a behaviour is about one of     *)
(* them (unit).  What the runs of MCParts check of them on small instances *)
(* is proved here of the composition, from the invariants of the parts.    *)
(***************************************************************************)
EXTENDS Integers, Sequences, TLAPS

CONSTANTS
  FlashSize, PageSize, Aperture, AddrSpace, EraseSizes, FlashAddrs, Offsets, ResetOffset, FlashBytes,
  FlashOps,                             \* the flash and its controller (BL808SfCtrl)
  BootConfs, BootHeaders, AgeWrap, MaxDamage, BootOps,          \* BL808Boot
  Images, SlotSize, Chunk, StoreFaults, StoreOps,               \* WasmStore
  RecordFaults, RecordOps                                       \* RetainedRecords

VARIABLES unit,         \* the part this behaviour is about
          st,           \* its state
          now,          \* the virtual clock
          env,          \* the core, driver or line outside it
          job, log,     \* histories the properties refer to
          ops           \* accesses or calls so far

vars == <<unit, st, now, env, job, log, ops>>

----------------------------------------------------------------------------
(***************************************************************************)
(* The program store: StoreSound holds for every set of programs, slot and *)
(* chunk size, and number of faults.  One lemma for each action keeps      *)
(* Store!IInv.                                                             *)
(***************************************************************************)
Store == INSTANCE WasmStore WITH s <- st, Cap <- SlotSize, MaxFaults <- StoreFaults, MaxOps <- StoreOps

ASSUME StoreAssumption == Store!Fit

LEMMA StorePlaces ==
  ASSUME Store!Fit
  PROVE  /\ Store!Mark \in Store!Cells /\ Store!ImageLen \in Store!Cells /\ Store!Sum \in Store!Cells /\ Store!Fields \subseteq Store!Cells /\ 1 .. SlotSize \subseteq Store!Cells
         /\ \A x \in Store!Fields : x \notin 1 .. SlotSize
         /\ Store!Erased \in Store!Contents /\ Store!Torn \in Store!Contents /\ Store!Magic \in Store!Contents
         /\ Store!Erased # Store!Magic /\ Store!Torn # Store!Magic /\ Store!Values \subseteq Store!Contents /\ Store!Sums \subseteq Store!Contents /\ Nat \subseteq Store!Contents
         /\ Store!Erased \in Store!Values /\ Store!Torn \in Store!Values
BY DEF Store!Fit, Store!Cells, Store!Fields, Store!Mark, Store!ImageLen, Store!Sum, Store!Contents, Store!Values, Store!Erased, Store!Torn, Store!Magic

(* What a command leaves, whether it works, fails or loses its power.      *)
LEMMA StoreCommandLeaves ==
  ASSUME Store!Fit, st \in Store!States, NEW new \in [Store!Cells -> Store!Contents], NEW ok \in Store!Steps, NEW failed \in Store!Steps,
         Store!Command(new, ok, failed)
  PROVE  /\ st' \in Store!States
         /\ st'.image = st.image /\ st'.stream = st.stream /\ st'.done = st.done /\ st'.result = st.result
         /\ \/ st'.cells = new /\ st'.pc = ok /\ st'.faults = st.faults
            \/ st'.pc \in {ok, failed, "off"} /\ st'.faults = st.faults + 1
         /\ \A x \in Store!Cells : st'.cells[x] \in {st.cells[x], new[x], Store!Torn}
         /\ \A x \in Store!Cells : new[x] = st.cells[x] => st'.cells[x] = st.cells[x]
<1> DEFINE changed == {x \in Store!Cells : new[x] # st.cells[x]}
           Part(done, rest) == [x \in Store!Cells |-> IF x \in done \/ x \notin changed THEN new[x] ELSE rest[x]]
<1>1. st.faults + 1 \in Nat /\ "off" \in Store!Steps /\ Store!Torn \in Store!Contents
  BY StorePlaces DEF Store!States, Store!Steps
<1>2. ASSUME NEW c \in [Store!Cells -> Store!Contents], NEW pc \in Store!Steps
      PROVE  /\ LET g == Store!Goto(c, pc)
                IN /\ g \in Store!States /\ g.cells = c /\ g.pc = pc /\ g.faults = st.faults
                   /\ g.image = st.image /\ g.stream = st.stream /\ g.done = st.done /\ g.result = st.result
             /\ LET g == Store!Faulty(c, pc)
                IN /\ g \in Store!States /\ g.cells = c /\ g.pc = pc /\ g.faults = st.faults + 1
                   /\ g.image = st.image /\ g.stream = st.stream /\ g.done = st.done /\ g.result = st.result
  BY Zenon, <1>1, <1>2 DEF Store!States, Store!Goto, Store!Faulty
<1>3. CASE st' = Store!Goto(new, ok)
  BY Zenon, <1>2, <1>3
<1>4. ASSUME NEW x \in changed, st' = Store!Faulty([new EXCEPT ![x] = Store!Torn], ok)
      PROVE  /\ st' \in Store!States
             /\ st'.image = st.image /\ st'.stream = st.stream /\ st'.done = st.done /\ st'.result = st.result
             /\ st'.pc = ok /\ st'.faults = st.faults + 1
             /\ \A y \in Store!Cells : st'.cells[y] \in {st.cells[y], new[y], Store!Torn}
             /\ \A y \in Store!Cells : new[y] = st.cells[y] => st'.cells[y] = st.cells[y]
  <2> DEFINE c == [new EXCEPT ![x] = Store!Torn]
  <2>1. c \in [Store!Cells -> Store!Contents] /\ \A y \in Store!Cells : c[y] = IF y = x THEN Store!Torn ELSE new[y]
    BY Zenon, <1>1
  <2>2. new[x] # st.cells[x]
    BY Zenon
  <2>3. \A y \in Store!Cells : /\ c[y] \in {st.cells[y], new[y], Store!Torn}
                               /\ new[y] = st.cells[y] => c[y] = st.cells[y]
    BY Zenon, <2>1, <2>2
  <2> HIDE DEF c
  <2>4. st' = Store!Faulty(c, ok)
    BY Zenon, <1>4 DEF c
  <2>5. /\ st' \in Store!States /\ st'.cells = c /\ st'.pc = ok /\ st'.faults = st.faults + 1
        /\ st'.image = st.image /\ st'.stream = st.stream /\ st'.done = st.done /\ st'.result = st.result
    BY <1>2, <2>1, <2>4
  <2> QED BY Zenon, <2>3, <2>5
<1>5. ASSUME NEW c \in {st.cells, new}, st' = Store!Faulty(c, failed)
      PROVE  /\ st' \in Store!States
             /\ st'.image = st.image /\ st'.stream = st.stream /\ st'.done = st.done /\ st'.result = st.result
             /\ st'.pc = failed /\ st'.faults = st.faults + 1
             /\ \A y \in Store!Cells : st'.cells[y] \in {st.cells[y], new[y], Store!Torn}
             /\ \A y \in Store!Cells : new[y] = st.cells[y] => st'.cells[y] = st.cells[y]
  <2>1. c \in [Store!Cells -> Store!Contents]
    BY Zenon DEF Store!States
  <2> QED BY Zenon, <1>2, <1>5, <2>1
<1>6. ASSUME NEW done \in SUBSET changed, NEW rest \in {st.cells, [x \in Store!Cells |-> Store!Torn]},
             st' = Store!Faulty(Part(done, rest), "off")
      PROVE  /\ st' \in Store!States
             /\ st'.image = st.image /\ st'.stream = st.stream /\ st'.done = st.done /\ st'.result = st.result
             /\ st'.pc = "off" /\ st'.faults = st.faults + 1
             /\ \A y \in Store!Cells : st'.cells[y] \in {st.cells[y], new[y], Store!Torn}
             /\ \A y \in Store!Cells : new[y] = st.cells[y] => st'.cells[y] = st.cells[y]
  <2>1. \A y \in Store!Cells : rest[y] \in {st.cells[y], Store!Torn} /\ rest[y] \in Store!Contents
    BY Zenon, <1>1 DEF Store!States
  <2> DEFINE c == Part(done, rest)
  <2>2. c \in [Store!Cells -> Store!Contents]
    BY Zenon, <2>1
  <2>3. \A y \in Store!Cells : /\ c[y] \in {st.cells[y], new[y], Store!Torn}
                               /\ new[y] = st.cells[y] => c[y] = st.cells[y]
    BY Zenon, <2>1
  <2> HIDE DEF c
  <2>4. st' = Store!Faulty(c, "off")
    BY Zenon, <1>6 DEF c
  <2>5. /\ st' \in Store!States /\ st'.cells = c /\ st'.pc = "off" /\ st'.faults = st.faults + 1
        /\ st'.image = st.image /\ st'.stream = st.stream /\ st'.done = st.done /\ st'.result = st.result
    BY Zenon, <1>1, <1>2, <2>2, <2>4
  <2> QED BY Zenon, <2>3, <2>5
<1> QED BY Zenon, <1>3, <1>4, <1>5, <1>6 DEF Store!Command
(* Steps that leave the slot as it is.                                     *)
LEMMA StoreUnwritten ==
  ASSUME Store!IInv, st.pc # "idle", st'.cells = st.cells, st'.image = st.image
  PROVE  Store!Sources'
BY Zenon DEF Store!IInv, Store!Sources

(* The cells a command writes come from the image or are erased.           *)
LEMMA StoreCommandSources ==
  ASSUME Store!Fit, Store!IInv, st.pc # "idle", NEW new \in [Store!Cells -> Store!Contents], NEW ok \in Store!Steps, NEW failed \in Store!Steps,
         Store!Command(new, ok, failed), ok # "idle", failed # "idle",
         \A i \in 1 .. SlotSize : new[i] \in Store!Values,
         new[Store!Sum] \in {Store!Erased, Store!Torn} \cup Store!Sums
  PROVE  /\ Store!Sources' /\ st'.pc # "idle"
<1>1. /\ st \in Store!States /\ Store!Sources /\ st.image \in Images
  BY Zenon DEF Store!IInv, Store!Sources
<1>2. /\ st'.image = st.image /\ st'.pc \in {ok, failed, "off"}
      /\ \A x \in Store!Cells : st'.cells[x] \in {st.cells[x], new[x], Store!Torn}
  BY Zenon, <1>1, StoreCommandLeaves
<1>3. st'.pc # "idle"
  BY Zenon, <1>2
<1>4. \A i \in 1 .. SlotSize : st'.cells[i] \in Store!Values
  BY Zenon, <1>1, <1>2, StorePlaces DEF Store!Sources
<1>5. st'.cells[Store!Sum] \in {Store!Erased, Store!Torn} \cup Store!Sums
  BY Zenon, <1>1, <1>2, StorePlaces DEF Store!Sources
<1> QED BY Zenon, <1>1, <1>2, <1>3, <1>4, <1>5 DEF Store!Sources

LEMMA StorePrograms ==
  ASSUME Store!Fit, NEW c \in [Store!Cells -> Store!Contents], NEW new, DOMAIN new \subseteq Store!Cells,
         \A x \in DOMAIN new : new[x] \in Store!Contents
  PROVE  /\ Store!program(c, new) \in [Store!Cells -> Store!Contents]
         /\ \A x \in Store!Cells : x \notin DOMAIN new => Store!program(c, new)[x] = c[x]
         /\ \A x \in DOMAIN new : Store!program(c, new)[x] \in {new[x], Store!Torn} /\ (c[x] = Store!Erased => Store!program(c, new)[x] = new[x])
BY Zenon, StorePlaces DEF Store!program

LEMMA StoreHeaders ==
  ASSUME Store!Fit, NEW image \in Images
  PROVE  /\ DOMAIN Store!header(image) = Store!Fields
         /\ Store!header(image)[Store!Mark] = Store!Magic /\ Store!header(image)[Store!ImageLen] = Len(image)
         /\ Store!header(image)[Store!Sum] = Store!wasmPayloadCrc32(image) /\ Store!header(image)[Store!Sum] \in Store!Sums
         /\ \A x \in Store!Fields : Store!header(image)[x] \in Store!Contents
<1>1. Store!Mark # Store!ImageLen /\ Store!Mark # Store!Sum /\ Store!ImageLen # Store!Sum /\ Len(image) \in Nat
  BY DEF Store!Mark, Store!ImageLen, Store!Sum, Store!Fit
<1>2. /\ DOMAIN Store!header(image) = Store!Fields
      /\ Store!header(image)[Store!Mark] = Store!Magic /\ Store!header(image)[Store!ImageLen] = Len(image)
      /\ Store!header(image)[Store!Sum] = Store!wasmPayloadCrc32(image)
  BY <1>1 DEF Store!header, Store!Fields
<1>3. Store!wasmPayloadCrc32(image) \in Store!Sums
  BY Zenon DEF Store!Sums
<1> QED BY Zenon, <1>1, <1>2, <1>3, StorePlaces DEF Store!Fields

LEMMA StoreBeginKeeps ==
  ASSUME Store!IInv, Store!Begin PROVE Store!IInv'
<1>1. PICK image \in Images, stream \in BOOLEAN :
        st' = [st EXCEPT !.image = image, !.stream = stream, !.done = 0, !.pc = "erase", !.result = "none"]
  BY Zenon DEF Store!Begin
<1>2. 0 \in Nat /\ "erase" \in Store!Steps
  BY DEF Store!Steps
<1>3. /\ st' \in Store!States /\ st'.cells = st.cells /\ st'.image = image /\ st'.pc = "erase" /\ st'.done = 0
  BY Zenon, <1>1, <1>2 DEF Store!IInv, Store!States
<1> QED BY Zenon, <1>3 DEF Store!IInv, Store!Sources, Store!Compared, Store!HeaderKnown

LEMMA StoreEraseKeeps ==
  ASSUME Store!Fit, Store!IInv, Store!Erase PROVE Store!IInv'
<1>1. st \in Store!States /\ st.pc = "erase" /\ Store!Command(Store!Blank, "payload", "refused") /\ Store!Sources
  BY Zenon DEF Store!IInv, Store!Erase, Store!At
<1>2. /\ Store!Blank \in [Store!Cells -> Store!Contents] /\ \A x \in Store!Cells : Store!Blank[x] = Store!Erased
      /\ "payload" \in Store!Steps /\ "refused" \in Store!Steps
  BY Zenon, StorePlaces DEF Store!Blank, Store!Steps
<1>3. /\ st' \in Store!States
      /\ st'.image = st.image /\ st'.stream = st.stream /\ st'.done = st.done
      /\ \/ st'.cells = Store!Blank /\ st'.pc = "payload" /\ st'.faults = st.faults
         \/ st'.pc \in {"payload", "refused", "off"} /\ st'.faults = st.faults + 1
  BY Zenon, <1>1, <1>2, StoreCommandLeaves
<1>4. Store!Sources'
  BY Zenon, <1>1, <1>2, StorePlaces, StoreCommandSources
<1>5. st'.done = 0 /\ \A i \in 1 .. Len(st'.image) : ~(i <= st'.done)
  BY <1>1, <1>3 DEF Store!IInv, Store!Compared
<1>6. st'.pc # "erase" /\ st'.pc # "header" /\ st'.pc # "verify" /\ st'.pc # "written" /\ st'.pc # "cleanup"
      /\ st'.pc # "failed" /\ st'.pc # "idle"
  BY Zenon, <1>3
<1>7. st'.faults = 0 => st'.cells = Store!Blank
  BY <1>1, <1>3 DEF Store!States
<1>8. Store!HeaderKnown'
  BY Zenon, <1>2, <1>6, <1>7, StorePlaces DEF Store!HeaderKnown
<1>9. Store!Compared'
  BY Zenon, <1>5, <1>6 DEF Store!Compared
<1> QED BY Zenon, <1>3, <1>4, <1>6, <1>8, <1>9 DEF Store!IInv

LEMMA StorePayloadKeeps ==
  ASSUME Store!Fit, Store!IInv, Store!Payload PROVE Store!IInv'
<1> DEFINE bytes == [i \in Store!NextBytes |-> st.image[i]]
           new == Store!program(st.cells, bytes)
<1>1. st \in Store!States /\ st.pc = "payload" /\ Store!Command(new, "written", Store!OnError) /\ Store!Sources /\ st.image \in Images
  BY Zenon DEF Store!IInv, Store!Payload, Store!At, Store!Sources
<1>2. /\ Len(st.image) \in 1 .. SlotSize /\ st.done \in Nat /\ st.cells \in [Store!Cells -> Store!Contents] /\ st.faults \in Nat
      /\ \A i \in 1 .. Len(st.image) : st.image[i] \in Store!Values /\ i \in 1 .. SlotSize
  BY <1>1 DEF Store!States, Store!Fit
<1>3. /\ DOMAIN bytes = Store!NextBytes /\ Store!NextBytes \subseteq 1 .. SlotSize /\ Store!NextBytes \subseteq Store!Cells
      /\ \A i \in Store!NextBytes : bytes[i] \in Store!Values /\ bytes[i] \in Store!Contents /\ ~(i <= st.done)
  BY <1>2, StorePlaces DEF Store!NextBytes
<1> HIDE DEF bytes
<1>4. /\ new \in [Store!Cells -> Store!Contents]
      /\ \A x \in Store!Cells : x \notin Store!NextBytes => new[x] = st.cells[x]
      /\ \A x \in Store!NextBytes : new[x] \in {bytes[x], Store!Torn}
  <2>1. DOMAIN bytes \subseteq Store!Cells /\ \A x \in DOMAIN bytes : bytes[x] \in Store!Contents
    BY Zenon, <1>3
  <2>2. /\ new \in [Store!Cells -> Store!Contents]
        /\ \A x \in Store!Cells : x \notin DOMAIN bytes => new[x] = st.cells[x]
        /\ \A x \in DOMAIN bytes : new[x] \in {bytes[x], Store!Torn}
    BY <1>2, <2>1, StorePrograms
  <2> QED BY Zenon, <1>3, <2>2
<1> HIDE DEF new
<1>5. /\ \A i \in 1 .. SlotSize : new[i] \in Store!Values
      /\ new[Store!Sum] \in {Store!Erased, Store!Torn} \cup Store!Sums
      /\ \A x \in Store!Fields : new[x] = st.cells[x]
  BY Zenon, <1>1, <1>3, <1>4, StorePlaces DEF Store!Sources, Store!Fields
<1>6. "written" \in Store!Steps /\ Store!OnError \in Store!Steps /\ Store!OnError = IF st.stream THEN "cleanup" ELSE "failed"
  BY Zenon DEF Store!OnError, Store!Steps
<1>7. /\ st' \in Store!States
      /\ st'.image = st.image /\ st'.stream = st.stream /\ st'.done = st.done
      /\ \/ st'.cells = new /\ st'.pc = "written" /\ st'.faults = st.faults
         \/ st'.pc \in {"written", Store!OnError, "off"} /\ st'.faults = st.faults + 1
      /\ \A x \in Store!Cells : new[x] = st.cells[x] => st'.cells[x] = st.cells[x]
  BY Zenon, <1>1, <1>4, <1>6, StoreCommandLeaves
<1>8. Store!Sources'
  BY Zenon, <1>1, <1>4, <1>5, <1>6, StoreCommandSources
<1>9. st'.faults = 0 => st.faults = 0 /\ st'.pc = "written"
  BY <1>2, <1>7
<1>10. /\ st'.pc \in {"written", "cleanup", "failed", "off"}
       /\ st'.pc = "failed" => ~st'.stream
  BY Zenon, <1>6, <1>7
<1>11. Store!HeaderKnown'
  BY Zenon, <1>1, <1>5, <1>7, <1>9, <1>10, StorePlaces DEF Store!IInv, Store!HeaderKnown
<1>12. Store!Compared'
  <2> SUFFICES ASSUME st'.stream, NEW i \in 1 .. Len(st'.image), i <= st'.done PROVE st'.cells[i] = st'.image[i]
    BY Zenon, <1>10 DEF Store!Compared
  <2>1. i \in Store!Cells /\ i \notin Store!NextBytes /\ st.cells[i] = st.image[i]
    BY Zenon, <1>1, <1>2, <1>3, <1>7, StorePlaces DEF Store!IInv, Store!Compared
  <2> QED BY Zenon, <1>4, <1>7, <2>1
<1> QED BY Zenon, <1>7, <1>8, <1>10, <1>11, <1>12 DEF Store!IInv

LEMMA StoreWrittenKeeps ==
  ASSUME Store!Fit, Store!IInv, Store!Written PROVE Store!IInv'
<1>1. /\ st \in Store!States /\ st.pc = "written" /\ Store!Sources /\ st.image \in Images
      /\ st' = IF st.stream /\ ~Store!BytesMatch THEN Store!Goto(st.cells, "cleanup")
              ELSE IF Store!AllWritten THEN Store!Goto(st.cells, "header")
              ELSE [Store!Goto(st.cells, "payload") EXCEPT !.done = @ + Chunk]
  BY Zenon DEF Store!IInv, Store!Written, Store!At, Store!Sources
<1>2. /\ st.done \in Nat /\ st.done + Chunk \in Nat /\ "cleanup" \in Store!Steps /\ "header" \in Store!Steps /\ "payload" \in Store!Steps
  BY <1>1 DEF Store!States, Store!Fit, Store!Steps
<1>3. /\ st' \in Store!States /\ st'.cells = st.cells /\ st'.image = st.image /\ st'.stream = st.stream /\ st'.faults = st.faults
      /\ \/ st'.pc = "cleanup" /\ st.stream
         \/ st'.pc = "header" /\ Store!AllWritten /\ (st.stream => Store!BytesMatch)
         \/ st'.pc = "payload" /\ st'.done = st.done + Chunk /\ (st.stream => Store!BytesMatch)
  BY Zenon, <1>1, <1>2 DEF Store!States, Store!Goto
<1>4. Store!Sources'
  BY Zenon, <1>1, <1>3, StoreUnwritten
<1>5. Store!HeaderKnown'
  BY Zenon, <1>1, <1>3, StorePlaces DEF Store!IInv, Store!HeaderKnown, Store!Fields
<1>6. Store!Compared'
  <2> SUFFICES ASSUME st.stream, NEW i \in 1 .. Len(st.image), Store!BytesMatch, Store!AllWritten \/ i <= st.done + Chunk
               PROVE  st.cells[i] = st.image[i]
    BY Zenon, <1>3 DEF Store!Compared
  <2>1. i <= st.done \/ i \in Store!NextBytes
    BY <1>1, <1>2 DEF Store!NextBytes, Store!AllWritten, Store!Fit
  <2> QED BY Zenon, <1>1, <2>1 DEF Store!IInv, Store!Compared, Store!BytesMatch
<1> QED BY Zenon, <1>3, <1>4, <1>5, <1>6 DEF Store!IInv

LEMMA StoreStreamBadKeeps ==
  ASSUME Store!IInv, Store!StreamBad PROVE Store!IInv'
<1>1. st \in Store!States /\ st.pc \in {"payload", "header"} /\ st.stream /\ st' = Store!Goto(st.cells, "cleanup")
  BY Zenon DEF Store!IInv, Store!StreamBad, Store!At
<1>2. "cleanup" \in Store!Steps
  BY Zenon DEF Store!Steps
<1>3. /\ st' \in Store!States /\ st'.cells = st.cells /\ st'.image = st.image /\ st'.stream = st.stream /\ st'.faults = st.faults
      /\ st'.pc = "cleanup"
  BY Zenon, <1>1, <1>2 DEF Store!States, Store!Goto
<1>4. Store!Sources'
  BY Zenon, <1>1, <1>3, StoreUnwritten
<1> QED BY Zenon, <1>1, <1>3, <1>4 DEF Store!IInv, Store!HeaderKnown, Store!Compared, Store!Fields

LEMMA StoreHeaderKeeps ==
  ASSUME Store!Fit, Store!IInv, Store!Header PROVE Store!IInv'
<1> DEFINE new == Store!program(st.cells, Store!header(st.image))
<1>1. st \in Store!States /\ st.pc = "header" /\ Store!Command(new, "verify", Store!OnError) /\ Store!Sources /\ st.image \in Images
  BY Zenon DEF Store!IInv, Store!Header, Store!At, Store!Sources
<1>2. /\ st.cells \in [Store!Cells -> Store!Contents] /\ st.faults \in Nat /\ Len(st.image) \in 1 .. SlotSize
  BY Zenon, <1>1 DEF Store!States, Store!Fit
<1>3. /\ DOMAIN Store!header(st.image) = Store!Fields /\ Store!Fields \subseteq Store!Cells
      /\ Store!header(st.image)[Store!Sum] \in Store!Sums
      /\ \A x \in Store!Fields : Store!header(st.image)[x] \in Store!Contents
  BY Zenon, <1>1, StoreHeaders, StorePlaces
<1>4. /\ new \in [Store!Cells -> Store!Contents]
      /\ \A x \in Store!Cells : x \notin Store!Fields => new[x] = st.cells[x]
      /\ \A x \in Store!Fields : new[x] \in {Store!header(st.image)[x], Store!Torn} /\ (st.cells[x] = Store!Erased => new[x] = Store!header(st.image)[x])
  BY <1>2, <1>3, StorePrograms
<1> HIDE DEF new
<1>5. /\ \A i \in 1 .. SlotSize : new[i] = st.cells[i]
      /\ new[Store!Sum] \in {Store!Erased, Store!Torn} \cup Store!Sums
  BY Zenon, <1>3, <1>4, StorePlaces DEF Store!Fields
<1>6. \A i \in 1 .. SlotSize : new[i] \in Store!Values
  BY Zenon, <1>1, <1>5 DEF Store!Sources
<1>7. "verify" \in Store!Steps /\ Store!OnError \in Store!Steps /\ Store!OnError = IF st.stream THEN "cleanup" ELSE "failed"
  BY Zenon DEF Store!OnError, Store!Steps
<1>8. /\ st' \in Store!States
      /\ st'.image = st.image /\ st'.stream = st.stream
      /\ \/ st'.cells = new /\ st'.pc = "verify" /\ st'.faults = st.faults
         \/ st'.pc \in {"verify", Store!OnError, "off"} /\ st'.faults = st.faults + 1
      /\ \A x \in Store!Cells : new[x] = st.cells[x] => st'.cells[x] = st.cells[x]
  BY Zenon, <1>1, <1>4, <1>7, StoreCommandLeaves
<1>9. Store!Sources'
  BY Zenon, <1>1, <1>4, <1>5, <1>6, <1>7, StoreCommandSources
<1>10. st'.faults = 0 => st.faults = 0 /\ st'.pc = "verify" /\ st'.cells = new
  BY <1>2, <1>8
<1>11. /\ st'.pc \in {"verify", "cleanup", "failed", "off"}
       /\ st'.pc = "failed" => ~st'.stream
  BY Zenon, <1>7, <1>8
<1>12. Store!HeaderKnown'
  <2>1. st'.faults = 0 => \A x \in Store!Fields : st'.cells[x] = Store!header(st'.image)[x]
    BY Zenon, <1>1, <1>4, <1>8, <1>10 DEF Store!IInv, Store!HeaderKnown
  <2> QED BY Zenon, <1>10, <1>11, <2>1 DEF Store!HeaderKnown
<1>13. Store!Compared'
  <2>1. \A i \in 1 .. Len(st.image) : i \in 1 .. SlotSize
    BY <1>2 DEF Store!Fit
  <2>2. \A i \in 1 .. SlotSize : st'.cells[i] = st.cells[i]
    BY Zenon, <1>5, <1>8, StorePlaces
  <2> QED BY Zenon, <1>1, <1>8, <1>11, <2>1, <2>2 DEF Store!IInv, Store!Compared
<1> QED BY Zenon, <1>8, <1>9, <1>11, <1>12, <1>13 DEF Store!IInv

LEMMA StoreVerifyKeeps ==
  ASSUME Store!IInv, Store!Verify PROVE Store!IInv'
<1>1. /\ st \in Store!States /\ st.pc = "verify" /\ st.image \in Images
      /\ IF Store!verified(st.cells) THEN Store!Returns("ok") ELSE st' = Store!Goto(st.cells, Store!OnError)
  BY Zenon DEF Store!IInv, Store!Verify, Store!At, Store!Sources
<1>2. "idle" \in Store!Steps /\ Store!OnError \in Store!Steps /\ Store!OnError = IF st.stream THEN "cleanup" ELSE "failed"
  BY Zenon DEF Store!OnError, Store!Steps
<1>3. /\ st' \in Store!States /\ st'.cells = st.cells /\ st'.image = st.image /\ st'.stream = st.stream /\ st'.faults = st.faults
      /\ \/ st'.pc = "idle" /\ st'.result = "ok" /\ Store!verified(st.cells)
         \/ st'.pc = Store!OnError /\ ~Store!verified(st.cells)
  BY Zenon, <1>1, <1>2 DEF Store!States, Store!Goto, Store!Returns
<1>4. Store!Sources'
  BY Zenon, <1>1, <1>3, StoreUnwritten
<1>5. Store!verified(st.cells) => Store!Matches(st.cells)
  BY Zenon, <1>1 DEF Store!verified, Store!Matches, Store!IInv, Store!Compared
<1>6. st.faults = 0 /\ st.stream => Store!verified(st.cells)
  BY Zenon, <1>1 DEF Store!verified, Store!IInv, Store!HeaderKnown
<1>7. Store!HeaderKnown'
  BY Zenon, <1>2, <1>3, <1>6 DEF Store!HeaderKnown
<1>8. Store!Compared'
  BY Zenon, <1>2, <1>3 DEF Store!Compared
<1>9. st'.pc = "idle" /\ st'.result = "ok" => Store!Matches(st.cells)'
  BY Zenon, <1>2, <1>3, <1>5 DEF Store!Matches, Store!header
<1> QED BY Zenon, <1>3, <1>4, <1>7, <1>8, <1>9 DEF Store!IInv

LEMMA StoreCleanupKeeps ==
  ASSUME Store!Fit, Store!IInv, Store!Cleanup PROVE Store!IInv'
<1>1. st \in Store!States /\ st.pc = "cleanup" /\ Store!Command(Store!Blank, "failed", "failed") /\ Store!Sources /\ st.faults \in Nat
  BY Zenon DEF Store!IInv, Store!Cleanup, Store!At, Store!States
<1>2. Store!Blank \in [Store!Cells -> Store!Contents] /\ (\A x \in Store!Cells : Store!Blank[x] = Store!Erased) /\ "failed" \in Store!Steps
  BY Zenon, StorePlaces DEF Store!Blank, Store!Steps
<1>3. /\ st' \in Store!States
      /\ st'.image = st.image /\ st'.stream = st.stream
      /\ \/ st'.cells = Store!Blank /\ st'.pc = "failed" /\ st'.faults = st.faults
         \/ st'.pc \in {"failed", "off"} /\ st'.faults = st.faults + 1
      /\ \A x \in Store!Cells : st'.cells[x] \in {st.cells[x], Store!Blank[x], Store!Torn}
  BY Zenon, <1>1, <1>2, StoreCommandLeaves
<1>4. Store!Sources'
  BY Zenon, <1>1, <1>2, StorePlaces, StoreCommandSources
<1>5. st'.faults <= 1 => st'.cells[Store!Mark] # Store!Magic
  <2>1. CASE st'.cells = Store!Blank
    BY Zenon, <1>2, <2>1, StorePlaces
  <2>2. CASE st'.cells # Store!Blank /\ st'.faults <= 1
    <3>1. st.faults = 0
      BY <1>1, <1>3, <2>2
    <3> QED BY Zenon, <1>1, <1>2, <1>3, <3>1, StorePlaces DEF Store!IInv, Store!HeaderKnown
  <2> QED BY Zenon, <2>1, <2>2
<1>6. st'.pc \in {"failed", "off"}
  BY Zenon, <1>3
<1>7. Store!HeaderKnown' /\ Store!Compared'
  BY Zenon, <1>5, <1>6 DEF Store!HeaderKnown, Store!Compared
<1> QED BY Zenon, <1>3, <1>4, <1>6, <1>7 DEF Store!IInv

LEMMA StoreReturnKeeps ==
  ASSUME Store!IInv, Store!Fails \/ Store!Refused \/ Store!PowerOn PROVE Store!IInv'
<1>1. /\ st \in Store!States /\ st.pc \in {"failed", "refused", "off"} /\ st.image \in Images
      /\ \E result \in {"error", "refused", "none"} : Store!Returns(result) /\ (result = "error" => st.pc = "failed")
  BY Zenon DEF Store!IInv, Store!Fails, Store!Refused, Store!PowerOn, Store!At, Store!Sources
<1>2. "idle" \in Store!Steps
  BY Zenon DEF Store!Steps
<1>3. /\ st' \in Store!States /\ st'.cells = st.cells /\ st'.image = st.image /\ st'.stream = st.stream /\ st'.faults = st.faults
      /\ st'.pc = "idle" /\ st'.result # "ok" /\ (st'.result = "error" => st.pc = "failed")
  BY Zenon, <1>1, <1>2 DEF Store!States, Store!Returns
<1>4. Store!Sources'
  BY Zenon, <1>1, <1>3, StoreUnwritten
<1> QED BY Zenon, <1>3, <1>4 DEF Store!IInv, Store!HeaderKnown, Store!Compared

LEMMA StoreInitInv == Store!Fit /\ Store!Init => Store!IInv
<1> SUFFICES ASSUME Store!Fit, Store!Init PROVE Store!IInv
  OBVIOUS
<1>1. Store!Blank \in [Store!Cells -> Store!Contents] /\ (\A x \in Store!Cells : Store!Blank[x] = Store!Erased) /\ "idle" \in Store!Steps /\ 0 \in Nat
  BY Zenon, StorePlaces DEF Store!Blank, Store!Steps
<1>2. st \in Store!States /\ st.cells = Store!Blank /\ st.pc = "idle" /\ st.result = "none"
  BY Zenon, <1>1 DEF Store!Init, Store!States
<1> QED BY Zenon, <1>1, <1>2, StorePlaces DEF Store!IInv, Store!Sources, Store!Compared, Store!HeaderKnown

LEMMA StoreNextInv == Store!Fit /\ Store!IInv /\ [Store!Next]_(Store!vars) => Store!IInv'
<1> SUFFICES ASSUME Store!Fit, Store!IInv, [Store!Next]_(Store!vars) PROVE Store!IInv'
  OBVIOUS
<1>1. CASE UNCHANGED Store!vars
  BY Zenon, <1>1 DEF Store!vars, Store!IInv, Store!Sources, Store!Compared, Store!HeaderKnown, Store!Matches, Store!header
<1> QED BY Zenon, <1>1, StoreBeginKeeps, StoreEraseKeeps, StorePayloadKeeps, StoreWrittenKeeps, StoreStreamBadKeeps, StoreHeaderKeeps,
           StoreVerifyKeeps, StoreCleanupKeeps, StoreReturnKeeps DEF Store!Next

LEMMA StoreInvSound == Store!Fit /\ Store!CrcTells /\ Store!IInv => Store!StoreSound
<1> SUFFICES ASSUME Store!Fit, Store!CrcTells, Store!IInv PROVE Store!StoreSound
  OBVIOUS
<1>1. st \in Store!States /\ Store!Sources
  BY Zenon DEF Store!IInv
<1>2. Store!PresentIsWhole
  <2> SUFFICES ASSUME Store!Shown = "present" PROVE \E image \in Images :
                 st.cells[Store!ImageLen] = Len(image) /\ \A i \in 1 .. Len(image) : st.cells[i] = image[i]
    BY Zenon DEF Store!PresentIsWhole
  <2> DEFINE n == st.cells[Store!ImageLen]
             bytes == [i \in 1 .. n |-> st.cells[i]]
  <2>1. n \in 1 .. SlotSize /\ (st.cells[Store!Sum] = 0 \/ Store!wasmPayloadCrc32(bytes) = st.cells[Store!Sum])
    BY DEF Store!Shown, Store!queryWasmProgramSlot, Store!validateWasmProgramHeader, Store!verifyWasmProgramPayload
  <2>2. n \in Nat /\ 1 .. n \subseteq 1 .. SlotSize
    BY <2>1 DEF Store!Fit
  <2>3. bytes \in Seq(Store!Values) /\ Len(bytes) = n /\ \A i \in 1 .. n : bytes[i] = st.cells[i]
    BY <1>1, <2>2 DEF Store!Sources
  <2> HIDE DEF bytes, n
  <2>4. \A image \in Images : Store!wasmPayloadCrc32(image) \notin {0, Store!Erased, Store!Torn}
    BY Zenon DEF Store!CrcTells, Store!Fit
  <2>5. Store!Erased # 0 /\ Store!Torn # 0
    BY DEF Store!Erased, Store!Torn
  <2>6. st.cells[Store!Sum] # 0
    BY Zenon, <1>1, <2>4, <2>5 DEF Store!Sources, Store!Sums
  <2>7. PICK image \in Images : st.cells[Store!Sum] = Store!wasmPayloadCrc32(image)
    BY Zenon, <1>1, <2>1, <2>3, <2>6 DEF Store!Sources, Store!Sums, Store!CrcTells
  <2>8. bytes = image
    BY Zenon, <2>1, <2>3, <2>6, <2>7 DEF Store!CrcTells, Store!Fit
  <2> QED BY Zenon, <2>3, <2>8 DEF n
<1>3. Store!OkIsPresent
  <2> SUFFICES ASSUME st.pc = "idle", st.result = "ok" PROVE Store!Shown = "present" /\ Store!Matches(st.cells)
    BY Zenon DEF Store!OkIsPresent
  <2>1. Store!Matches(st.cells) /\ st.image \in Images
    BY Zenon DEF Store!IInv, Store!Sources
  <2>2. /\ st.cells[Store!Mark] = Store!Magic /\ st.cells[Store!ImageLen] = Len(st.image)
        /\ st.cells[Store!Sum] = Store!wasmPayloadCrc32(st.image)
        /\ \A i \in 1 .. Len(st.image) : st.cells[i] = st.image[i]
    BY Zenon, <2>1, StoreHeaders DEF Store!Matches, Store!Fields
  <2>3. Len(st.image) \in 1 .. SlotSize /\ st.image \in Seq(Store!Values)
    BY Zenon, <2>1 DEF Store!Fit
  <2>4. [i \in 1 .. st.cells[Store!ImageLen] |-> st.cells[i]] = st.image
    BY <2>2, <2>3
  <2>5. Store!validateWasmProgramHeader(st.cells) /\ Store!verifyWasmProgramPayload(st.cells) /\ ~Store!isEmptyHeader(st.cells)
    BY Zenon, <2>2, <2>3, <2>4, StorePlaces
       DEF Store!validateWasmProgramHeader, Store!verifyWasmProgramPayload, Store!isEmptyHeader
  <2> QED BY Zenon, <2>1, <2>5 DEF Store!Shown, Store!queryWasmProgramSlot
<1>4. Store!StreamFailsClean
  BY Zenon DEF Store!StreamFailsClean, Store!IInv, Store!HeaderKnown, Store!Shown, Store!queryWasmProgramSlot, Store!validateWasmProgramHeader
<1> QED BY Zenon, <1>2, <1>3, <1>4 DEF Store!StoreSound

----------------------------------------------------------------------------
SfCtrl == INSTANCE BL808SfCtrlProofs WITH s <- st, Bytes <- FlashBytes, Addrs <- FlashAddrs,
  MaxOps <- FlashOps

Boot == INSTANCE BL808BootProofs WITH s <- st, Confs <- BootConfs, Headers <- BootHeaders, MaxOps <- BootOps

Kept == INSTANCE RetainedRecordsProofs WITH s <- st, MaxFaults <- RecordFaults, MaxOps <- RecordOps

ASSUME FlashAssumption == SfCtrl!Geometry
ASSUME BootAssumption == Boot!Assumptions

Plain == now = 0 /\ env = 0 /\ job = 0 /\ log = 0
Others == UNCHANGED <<now, env, job, log>>

Start ==
  \/ unit = "sf" /\ SfCtrl!Init /\ Plain
  \/ unit = "boot" /\ Boot!Init /\ Plain
  \/ unit = "wasmstore" /\ Store!Init /\ Plain
  \/ unit = "retained" /\ Kept!Init /\ Plain

Step ==
  \/ unit = "sf" /\ SfCtrl!Next /\ Others
  \/ unit = "boot" /\ Boot!Next /\ Others
  \/ unit = "wasmstore" /\ Store!Next /\ Others
  \/ unit = "retained" /\ Kept!Next /\ Others

\* Parts that are not of this module may do anything.
Elsewhere == unit \notin {"sf", "boot", "wasmstore", "retained"}

Init == Start \/ Elsewhere
Next == UNCHANGED unit /\ (Step \/ Elsewhere)
Spec == Init /\ [][Next]_vars

----------------------------------------------------------------------------
\* What is shown of the flash is what is in it: the execute-in-place window,
\* the drive behind it, and the image the boot ROM jumps into.
FlashShown ==
  /\ unit = "sf" => SfCtrl!WindowMirrorsFlash /\ SfCtrl!DriveMirrorsFlash
  /\ unit = "boot" => Boot!RomAgrees

\* The flash changes once for each write enable, and a permanent lock holds.
FlashGuarded ==
  [][unit = "sf" => SfCtrl!OneEnableOneChangeStep /\ SfCtrl!LockIsPermanentStep]_vars

\* An update cut short anywhere leaves something that boots, and a slot that was
\* fallen back to stays chosen.
BootSurvives == [][unit = "boot" => Boot!UpdateSafeStep /\ Boot!FallbackSticksStep]_vars

\* A program shown as present is whole, one whose write returned ok is there,
\* and a stream that failed leaves none.
StoreSound == unit = "wasmstore" => Store!StoreSound

\* A record that passes its checks counts the starts and tells of the last
\* fault, wherever a reset cut a write.
RecordsTrue == unit = "retained" => Kept!RecordsTrue

----------------------------------------------------------------------------
(* A behaviour about a part is one of that part.                           *)

LEMMA Starts ==
  ASSUME Init
  PROVE  /\ unit = "sf" => SfCtrl!Init
         /\ unit = "boot" => Boot!Init
         /\ unit = "wasmstore" => Store!Init
         /\ unit = "retained" => Kept!Init
BY Zenon DEF Init, Start, Elsewhere

LEMMA Steps ==
  ASSUME Next
  PROVE  /\ unit' = unit
         /\ unit = "sf" => SfCtrl!Next
         /\ unit = "boot" => Boot!Next
         /\ unit = "wasmstore" => Store!Next
         /\ unit = "retained" => Kept!Next
BY Zenon DEF Next, Step, Elsewhere

LEMMA Stutters ==
  ASSUME UNCHANGED vars
  PROVE  /\ unit' = unit
         /\ UNCHANGED SfCtrl!vars /\ UNCHANGED Boot!vars /\ UNCHANGED Store!vars /\ UNCHANGED Kept!vars
BY Zenon DEF vars, SfCtrl!vars, Boot!vars, Store!vars, Kept!vars

FlashGood == unit = "sf" => SfCtrl!Good(st)
BootGood == unit = "boot" => Boot!IInv
StoreGood == unit = "wasmstore" => Store!IInv
RecordsGood == unit = "retained" => Kept!IInv

LEMMA FlashStays ==
  /\ Init => FlashGood
  /\ FlashGood /\ [Next]_vars =>
       /\ FlashGood'
       /\ unit = "sf" => SfCtrl!OneEnableOneChangeStep /\ SfCtrl!LockIsPermanentStep
<1>1. Init => FlashGood
  BY Zenon, Starts, FlashAssumption, SfCtrl!InitGood DEF FlashGood
<1>2. ASSUME FlashGood, [Next]_vars
      PROVE  /\ FlashGood'
             /\ unit = "sf" => SfCtrl!OneEnableOneChangeStep /\ SfCtrl!LockIsPermanentStep
  <2>1. unit' = unit /\ (unit = "sf" => [SfCtrl!Next]_(SfCtrl!vars))
    BY Zenon, <1>2, Steps, Stutters
  <2> QED BY Zenon, <1>2, <2>1, FlashAssumption, SfCtrl!NextGood DEF FlashGood
<1> QED BY Zenon, <1>1, <1>2

LEMMA BootStays ==
  /\ Init => BootGood
  /\ BootGood /\ [Next]_vars => BootGood'
  /\ BootGood /\ Next => (unit = "boot" => Boot!UpdateSafeStep /\ Boot!FallbackSticksStep)
<1>1. Init => BootGood
  BY Zenon, Starts, BootAssumption, Boot!InitInv DEF BootGood
<1>2. ASSUME BootGood, Next
      PROVE  BootGood' /\ (unit = "boot" => Boot!UpdateSafeStep /\ Boot!FallbackSticksStep)
  <2>1. unit' = unit /\ (unit = "boot" => Boot!Next)
    BY Zenon, <1>2, Steps
  <2> QED BY Zenon, <1>2, <2>1, BootAssumption, Boot!NextInv, Boot!UpdateStep, Boot!FallbackStep DEF BootGood
<1>3. ASSUME BootGood, UNCHANGED vars PROVE BootGood'
  <2>1. unit' = unit /\ UNCHANGED Boot!vars
    BY Zenon, <1>3, Stutters
  <2> QED BY Zenon, <1>3, <2>1, Boot!StutterInv DEF BootGood
<1> QED BY Zenon, <1>1, <1>2, <1>3

LEMMA StoreStays ==
  /\ Init => StoreGood
  /\ StoreGood /\ [Next]_vars => StoreGood'
<1>1. Init => StoreGood
  BY Zenon, Starts, StoreAssumption, StoreInitInv DEF StoreGood
<1>2. ASSUME StoreGood, [Next]_vars PROVE StoreGood'
  <2>1. unit' = unit /\ (unit = "wasmstore" => [Store!Next]_(Store!vars))
    BY Zenon, <1>2, Steps, Stutters
  <2> QED BY Zenon, <1>2, <2>1, StoreAssumption, StoreNextInv DEF StoreGood
<1> QED BY Zenon, <1>1, <1>2

LEMMA RecordsStay ==
  /\ Init => RecordsGood
  /\ RecordsGood /\ [Next]_vars => RecordsGood'
<1>1. Init => RecordsGood
  BY Zenon, Starts, Kept!InitInv DEF RecordsGood
<1>2. ASSUME RecordsGood, [Next]_vars PROVE RecordsGood'
  <2>1. unit' = unit /\ (unit = "retained" => [Kept!Next]_(Kept!vars))
    BY Zenon, <1>2, Steps, Stutters
  <2> QED BY Zenon, <1>2, <2>1, Kept!NextInv DEF RecordsGood
<1> QED BY Zenon, <1>1, <1>2

----------------------------------------------------------------------------
(* The windows in which the cores execute and the drive always show the    *)
(* flash, and the boot ROM and the window of M0 the same image, for any    *)
(* flash, commands, updates, damage and resets.                            *)
THEOREM FlashStaysShown == Spec => []FlashShown
<1>1. FlashGood /\ BootGood => FlashShown
  BY Zenon DEF FlashGood, BootGood, FlashShown, SfCtrl!Good, SfCtrl!WindowMirrorsFlash, SfCtrl!DriveMirrorsFlash,
     Boot!IInv, Boot!InvAt, Boot!AgreesAt, Boot!RomAgrees
<1> QED BY <1>1, FlashStays, BootStays, PTL DEF Spec

(* No step changes the flash without its write enable or undoes a lock.    *)
THEOREM FlashStaysGuarded == Spec => FlashGuarded
<1>1. FlashGood /\ [Next]_vars =>
        [unit = "sf" => SfCtrl!OneEnableOneChangeStep /\ SfCtrl!LockIsPermanentStep]_vars
  BY Zenon, FlashStays
<1> QED BY <1>1, FlashStays, PTL DEF Spec, FlashGuarded

(* However often an update is cut short, something that boots is left, and *)
(* a reset boots it; the slot fallen back to stays chosen.                 *)
THEOREM BootStaysSafe == Spec => BootSurvives
<1>1. BootGood /\ [Next]_vars =>
        [unit = "boot" => Boot!UpdateSafeStep /\ Boot!FallbackSticksStep]_vars
  BY Zenon, BootStays
<1> QED BY <1>1, BootStays, PTL DEF Spec, BootSurvives

(* For all programs that fit, and if the CRC tells contents apart: however *)
(* often and wherever flash commands fail, cells go bad or the power goes, *)
(* a slot shown as present holds a whole program, a write that returned ok *)
(* left its program there, and a stream that failed for its first fault    *)
(* left none.                                                              *)
THEOREM StoreStaysSound == ASSUME Store!CrcTells PROVE Spec => []StoreSound
<1>1. StoreGood => StoreSound
  BY Zenon, StoreAssumption, StoreInvSound DEF StoreGood, StoreSound
<1> QED BY <1>1, StoreStays, PTL DEF Spec

(* Wherever resets cut the writes of either core, a boot-health record     *)
(* that passes its checks counts the starts and tells of the last fault.   *)
THEOREM RecordsStayTrue == Spec => []RecordsTrue
<1>1. RecordsGood => RecordsTrue
  BY Zenon, Kept!InvTrue DEF RecordsGood, RecordsTrue
<1> QED BY <1>1, RecordsStay, PTL DEF Spec
===============================================================================
