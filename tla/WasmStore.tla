------------------------------- MODULE WasmStore -------------------------------
(***************************************************************************)
(* One slot of the WASM program store (wasm_store.nim) in NOR flash: the   *)
(* writer from a buffer and the writer from a reader, with flash commands  *)
(* that fail, cells that do not take their value, and the power going at   *)
(* any moment.  A cell is a header field or a byte of the payload.         *)
(***************************************************************************)
EXTENDS Integers, Sequences

CONSTANTS Images,       \* the programs, sequences of bytes
          Cap,          \* bytes of payload a slot can hold
          Chunk,        \* bytes a flash command or a read of the stream covers
          MaxFaults,    \* flash errors, bad cells and power cuts
          MaxOps        \* writes

VARIABLES s,            \* the cells, and the writer: image, its step pc, the
                        \* bytes done and the last result; faults so far
          ops           \* writes so far

vars == <<s, ops>>

\* Values of a cell besides bytes, lengths and checksums.
Erased == -1
Torn == -2              \* neither the old value nor the new one
Magic == 0

\* Places of the header: magic, version and headerLen together, imageLen, and
\* the checksum in reserved; the payload is at 1 .. Cap.
Mark == -2
ImageLen == -1
Sum == 0
Fields == {Mark, ImageLen, Sum}
Cells == Fields \cup 1 .. Cap

----------------------------------------------------------------------------
(* What a reader of the slot sees.                                         *)

\* Different for different contents, as the CRC is taken to be; never 0.
wasmPayloadCrc32(bytes) ==
  LET crc[i \in 0 .. Len(bytes)] == IF i = 0 THEN 1 ELSE 8 * crc[i - 1] + bytes[i] + 3
  IN crc[Len(bytes)]

isEmptyHeader(c) == c[Mark] = Erased
validateWasmProgramHeader(c) == c[Mark] = Magic /\ c[ImageLen] \in 1 .. Cap

\* Mutant: the payload is not compared with its checksum.
skipChecksum(c) == TRUE

\* A checksum of 0 means unchecked.
verifyWasmProgramPayload(c) ==
  c[Sum] = 0 \/ wasmPayloadCrc32([i \in 1 .. c[ImageLen] |-> c[i]]) = c[Sum]

queryWasmProgramSlot(c) ==
  IF isEmptyHeader(c) THEN "empty"
  ELSE IF validateWasmProgramHeader(c) /\ verifyWasmProgramPayload(c) THEN "present" ELSE "invalid"

----------------------------------------------------------------------------
(* Flash commands: the new cells, and whether the command says it worked.  *)

Blank == [x \in Cells |-> Erased]
header(image) ==
  [x \in Fields |-> CASE x = Mark -> Magic [] x = ImageLen -> Len(image) [] x = Sum -> wasmPayloadCrc32(image)]

\* Clearing bits of a cell that is not erased gives neither value.
program(c, new) ==
  [x \in Cells |-> IF x \notin DOMAIN new THEN c[x]
                   ELSE IF c[x] \in {Erased, new[x]} THEN new[x] ELSE Torn]

Fault == s.faults < MaxFaults
Goto(c, pc) == [s EXCEPT !.cells = c, !.pc = pc]
Faulty(c, pc) == [Goto(c, pc) EXCEPT !.faults = @ + 1]

\* A command from c to new in step pc: it works, it works but for one cell, it
\* reports an error whether or not it worked, or the power goes.
Command(new, ok, failed) ==
  LET changed == {x \in Cells : new[x] # s.cells[x]}
      Part(done, rest) == [x \in Cells |-> IF x \in done \/ x \notin changed THEN new[x] ELSE rest[x]]
  IN \/ s' = Goto(new, ok)
     \/ Fault /\ \E x \in changed : s' = Faulty([new EXCEPT ![x] = Torn], ok)
     \/ Fault /\ \E c \in {s.cells, new} : s' = Faulty(c, failed)
     \/ Fault /\ \E done \in SUBSET changed :
          \E rest \in {s.cells, [x \in Cells |-> Torn]} : s' = Faulty(Part(done, rest), "off")

At(pc) == s.pc = pc /\ UNCHANGED ops
Returns(result) == s' = [s EXCEPT !.pc = "idle", !.result = result]

\* The error path of the stream writer erases the slot, the other one does not.
OnError == IF s.stream THEN "cleanup" ELSE "failed"

----------------------------------------------------------------------------
Begin ==
  /\ s.pc = "idle" /\ ops < MaxOps /\ ops' = ops + 1
  /\ \E image \in Images, stream \in BOOLEAN :
       s' = [s EXCEPT !.image = image, !.stream = stream, !.done = 0, !.pc = "erase", !.result = "none"]

Erase == At("erase") /\ Command(Blank, "payload", "refused")

\* The next bytes of the payload.
NextBytes == {i \in 1 .. Len(s.image) : i > s.done /\ i <= s.done + Chunk}
Payload ==
  /\ At("payload")
  /\ Command(program(s.cells, [i \in NextBytes |-> s.image[i]]), "written", OnError)

BytesMatch == \A i \in NextBytes : s.cells[i] = s.image[i]
AllWritten == s.done + Chunk >= Len(s.image)

\* The stream writer compares each chunk.
Written ==
  /\ At("written")
  /\ s' = IF s.stream /\ ~BytesMatch THEN Goto(s.cells, "cleanup")
          ELSE IF AllWritten THEN Goto(s.cells, "header")
          ELSE [Goto(s.cells, "payload") EXCEPT !.done = @ + Chunk]

\* The reader of the stream ends early, or the program does not parse.
StreamBad == (At("payload") \/ At("header")) /\ s.stream /\ s' = Goto(s.cells, "cleanup")

Header == At("header") /\ Command(program(s.cells, header(s.image)), "verify", OnError)

Matches(c) ==
  /\ \A x \in Fields : c[x] = header(s.image)[x]
  /\ \A i \in 1 .. Len(s.image) : c[i] = s.image[i]

\* The stream writer has compared the payload already.
verified(c) ==
  IF s.stream THEN \A x \in Fields : c[x] = header(s.image)[x] ELSE Matches(c)

Verify == At("verify") /\ IF verified(s.cells) THEN Returns("ok") ELSE s' = Goto(s.cells, OnError)

\* The result of this erase is not looked at.
Cleanup == At("cleanup") /\ Command(Blank, "failed", "failed")

Fails == At("failed") /\ Returns("error")
Refused == At("refused") /\ Returns("refused")
PowerOn == At("off") /\ Returns("none")

----------------------------------------------------------------------------
Init ==
  /\ s = [cells |-> Blank, image |-> <<>>, stream |-> FALSE, done |-> 0, pc |-> "idle",
          result |-> "none", faults |-> 0]
  /\ ops = 0

Next ==
  \/ Begin \/ Erase \/ Payload \/ Written \/ StreamBad \/ Header \/ Verify \/ Cleanup
  \/ Fails \/ Refused \/ PowerOn

Spec == Init /\ [][Next]_vars

----------------------------------------------------------------------------
Shown == queryWasmProgramSlot(s.cells)

\* "An interrupted upload is not visible as a valid slot": a slot that is shown
\* as present holds a whole program, wherever the power went or the flash failed.
PresentIsWhole ==
  Shown = "present" => \E image \in Images :
    s.cells[ImageLen] = Len(image) /\ \A i \in 1 .. Len(image) : s.cells[i] = image[i]

\* After a write that returned ok the slot shows exactly that program.
OkIsPresent ==
  (s.pc = "idle" /\ s.result = "ok") => Shown = "present" /\ Matches(s.cells)

\* A stream that failed after its first erase, with at most the one fault it
\* failed for, leaves no program in the slot.
StreamFailsClean ==
  (s.pc = "idle" /\ s.result = "error" /\ s.stream /\ s.faults <= 1) => Shown # "present"

\* What readers and writers of the slot may rely on after any fault.
StoreSound == PresentIsWhole /\ OkIsPresent /\ StreamFailsClean

----------------------------------------------------------------------------
(***************************************************************************)
(* StoreSound holds for every set of programs, slot and chunk size, and    *)
(* number of faults.                                                       *)
(***************************************************************************)
Values == {Erased, Torn} \cup UNION {{image[i] : i \in 1 .. Len(image)} : image \in Images}

\* Programs are not empty and fit into the slot.
Fit ==
  /\ Cap \in Nat /\ Chunk \in Nat \ {0}
  /\ \A image \in Images : Len(image) \in 1 .. Cap /\ image \in Seq(Values)

\* The idealised CRC: contents that differ have different checksums, and none
\* is the mark of an unchecked, an erased or a torn field.
CrcTells ==
  /\ \A p, q \in Seq(Values) : wasmPayloadCrc32(p) = wasmPayloadCrc32(q) => p = q
  /\ \A p \in Seq(Values) : wasmPayloadCrc32(p) \notin {0, Erased, Torn}

Sums == {wasmPayloadCrc32(image) : image \in Images}
Contents == Values \cup Nat \cup Sums
Steps == {"idle", "erase", "payload", "written", "header", "verify", "cleanup", "failed", "refused", "off"}

States == [cells : [Cells -> Contents], image : Images \cup {<<>>}, stream : BOOLEAN, done : Nat, pc : Steps,
           result : {"none", "ok", "error", "refused"}, faults : Nat]

\* Where the payload and the checksum may come from.
Sources ==
  /\ \A i \in 1 .. Cap : s.cells[i] \in Values
  /\ s.cells[Sum] \in {Erased, Torn} \cup Sums
  /\ s.pc # "idle" \/ s.result = "ok" => s.image \in Images

\* What the stream writer has compared.
Compared ==
  /\ s.pc = "erase" => s.done = 0
  /\ s.stream => \A i \in 1 .. Len(s.image) :
       s.pc \in {"header", "verify"} \/ (s.pc \in {"payload", "written"} /\ i <= s.done) => s.cells[i] = s.image[i]

\* Without a fault so far the header is blank until it is written, and then
\* what it should be; a stream that fails leaves none.
HeaderKnown ==
  /\ s.faults = 0 /\ s.pc \in {"payload", "written", "header"} => \A x \in Fields : s.cells[x] = Erased
  /\ s.faults = 0 /\ s.pc = "verify" => \A x \in Fields : s.cells[x] = header(s.image)[x]
  /\ s.faults = 0 /\ s.pc = "cleanup" => s.cells[Mark] = Erased
  /\ s.stream /\ s.faults <= 1 /\ (s.pc = "failed" \/ (s.pc = "idle" /\ s.result = "error")) => s.cells[Mark] # Magic

IInv ==
  /\ s \in States /\ Sources /\ Compared /\ HeaderKnown
  /\ s.pc = "idle" /\ s.result = "ok" => Matches(s.cells)
===============================================================================
