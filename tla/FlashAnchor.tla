------------------------------ MODULE FlashAnchor ------------------------------
(***************************************************************************)
(* The program that writes the flash of a board over its serial line       *)
(* (tools/uart_flash_anchor.c), and the host that feeds it                 *)
(* (tools/hw_validate.py).  A 32-bit field of a frame is one symbol on the *)
(* line; a symbol may be lost, the host may give up waiting too early, and *)
(* a flash command may time out.  A checksum is the data it was made of,   *)
(* so that collisions do not happen.                                       *)
(***************************************************************************)
EXTENDS Integers, Sequences, FiniteSets, SequencesExt

CONSTANTS FlashSize,    \* bytes of the flash
          SectorSize,   \* FLASH_SECTOR_SIZE
          BlockSize,    \* FLASH_BLOCK64_SIZE
          PageSize,     \* FLASH_PAGE_SIZE
          DataMax,      \* DATA_MAX
          Base,         \* address of the segment to write
          Images,       \* what may have to be written there: sequences of bytes
          ChunkSize,    \* bytes per write command
          Attempts,     \* times the host tries a command
          MaxFaults     \* bound on losses, early time-outs and failures

VARIABLES s,            \* anchor, host with its image, flash and the symbols
                        \* under way; outside: a byte changed that the
                        \* request served does not name; again: the erase
                        \* was sent more than once
          ops           \* faults so far

vars == <<s, ops>>

Cells == 0 .. FlashSize - 1
SymOf(kind, val) == <<kind, val>>
Cmd(name, address, length, payload) ==
  [name |-> name, address |-> address, length |-> length, payload |-> payload]

----------------------------------------------------------------------------
(* The flash chip.  A byte is the set of its bits that are one: erasing    *)
(* sets them all, programming only clears bits, and wraps around inside    *)
(* the page it starts in.                                                  *)

Ones == {0, 1}

\* The chip after the bytes from .. from + size - 1 are erased.
EraseBytes(f, from, size) ==
  [a \in DOMAIN f |-> IF a >= from /\ a < from + size THEN Ones ELSE f[a]]

\* The chip after one page command.
ProgramPage(f, pageSize, address, bytes) ==
  LET page == (address \div pageSize) * pageSize
      at(i) == page + ((address + i - 1) % pageSize)
  IN [a \in DOMAIN f |-> LET here == {i \in 1 .. Len(bytes) : at(i) = a}
                         IN {b \in f[a] : \A i \in here : b \in bytes[i]}]

----------------------------------------------------------------------------
(* The host *)

Chunks(image) == (Len(image) + ChunkSize - 1) \div ChunkSize
ChunkOf(image, i) ==
  LET from == (i - 1) * ChunkSize
      bytes == SubSeq(image, from + 1, IF from + ChunkSize > Len(image) THEN Len(image)
                                       ELSE from + ChunkSize)
  IN Cmd("write", Base + from, Len(bytes), bytes)

\* What the host asks for, in order.
Plan(image) ==
  <<Cmd("ping", 0, 0, <<>>), Cmd("id", 0, 0, <<>>), Cmd("erase", Base, Len(image), <<>>)>>
  \o [i \in 1 .. Chunks(image) |-> ChunkOf(image, i)] \o <<Cmd("reboot", 0, 0, <<>>)>>

Asked(d) == Plan(d.image)[d.step]

checksum_header(name, address, length) == SymOf("headersum", <<name, address, length>>)
checksum_data(bytes) == SymOf("datasum", bytes)

ByteSyms(bytes) == [i \in 1 .. Len(bytes) |-> SymOf("byte", bytes[i])]

Frame(c) ==
  LET name == SymOf("command", c.name)
      address == SymOf("word", c.address)
      length == SymOf("word", c.length)
      data == ByteSyms(c.payload)
  IN <<SymOf("magic", {}), SymOf("guard", {}), name, address, length,
       checksum_header(name, address, length)>>
     \o (IF data = <<>> THEN <<>> ELSE <<checksum_data(data)>> \o data)

send(d) == [d EXCEPT !.line = @ \o Frame(Asked(d))]

\* A response is taken for the answer to the command if the counter is right.
host_response(d) ==
  LET r == Head(d.back)
      e == [d EXCEPT !.back = Tail(@)]
      done == d.step = Len(Plan(d.image))
  IN CASE r.status # "ok" -> [e EXCEPT !.host = "retry"]
       [] r.status = "ok" /\ r.counter # Asked(d).address + Asked(d).length -> e
       [] OTHER -> IF done THEN [e EXCEPT !.host = "finished"]
                   ELSE send([e EXCEPT !.step = @ + 1, !.attempt = 1])

\* The next attempt first drains the line from the anchor.
host_retry(d) == IF d.attempt >= Attempts THEN [d EXCEPT !.host = "failed"]
                 ELSE send([d EXCEPT !.attempt = @ + 1, !.host = "wait", !.back = <<>>,
                                !.again = @ \/ Asked(d).name = "erase"])

----------------------------------------------------------------------------
(* The flash behind its controller *)

flash_erase_cmd(f, from, size) == EraseBytes(f, from, size)
page_command(f, address, bytes) == ProgramPage(f, PageSize, address, bytes)

\* The states of the flash after each step of erasing a range.
flash_erase_range(f, address, length) ==
  LET end == ((address + length + SectorSize - 1) \div SectorSize) * SectorSize
      from[pos \in 0 .. end] ==
        LET size == IF pos % BlockSize = 0 /\ end - pos >= BlockSize
                    THEN BlockSize ELSE SectorSize
        IN IF pos >= end THEN <<>> ELSE <<<<pos, size>>>> \o from[pos + size]
      parts == from[(address \div SectorSize) * SectorSize]
  IN [n \in 0 .. Len(parts) |->
        FoldLeft(LAMBDA g, p : flash_erase_cmd(g, p[1], p[2]), f, SubSeq(parts, 1, n))]

\* Bytes of the next page command.
page_span(address, length, done) ==
  LET n == PageSize - ((address + done) % PageSize)
  IN IF n > length - done THEN length - done ELSE n

\* The states of the flash after each page that is programmed.
flash_program(f, address, bytes) ==
  LET from[done \in 0 .. Len(bytes)] ==
        LET n == page_span(address, Len(bytes), done)
        IN IF done >= Len(bytes) THEN <<>>
           ELSE <<<<address + done, SubSeq(bytes, done + 1, done + n)>>>> \o from[done + n]
      pages == from[0]
  IN [n \in 0 .. Len(pages) |->
        FoldLeft(LAMBDA g, p : page_command(g, p[1], p[2]), f, SubSeq(pages, 1, n))]

flash_read_compare(f, address, bytes) == \A i \in 1 .. Len(bytes) : f[address + i - 1] = bytes[i]

----------------------------------------------------------------------------
(* The anchor *)

uart_send_response(d, status) ==
  [d EXCEPT !.back = Append(@, [status |-> status, counter |-> d.req.counter]), !.pc = "hunt"]

\* A request without its guard is answered like one with a bad header.
NoRequest == [name |-> "none", address |-> 0, length |-> 0, psum |-> <<>>, data |-> <<>>,
              counter |-> 0]

request_starts(x) == x[1] = "magic"

uart_recv_payload(d, x) ==
  IF d.pc = "psum" THEN [d EXCEPT !.req.psum = x, !.pc = "payload"]
  ELSE [d EXCEPT !.req.data = Append(@, x),
                 !.pc = IF Len(d.req.data) + 1 = d.req.length THEN "write" ELSE "payload"]

\* The next symbol a request needs is received.
uart_recv_symbol(d) ==
  LET x == Head(d.line)
      e == [d EXCEPT !.line = Tail(@)]
  IN CASE d.pc = "hunt" -> IF request_starts(x) THEN [e EXCEPT !.pc = "guard", !.got = <<>>] ELSE e
       [] d.pc = "guard" -> IF x[1] = "guard" THEN [e EXCEPT !.pc = "header"]
                            ELSE uart_send_response([e EXCEPT !.req = NoRequest], "checksum")
       [] d.pc = "header" -> [e EXCEPT !.got = Append(@, x),
                                       !.pc = IF Len(d.got) = 3 THEN "dispatch" ELSE "header"]
       [] OTHER -> uart_recv_payload(e, x)

header_ok(g) == g[4] = checksum_header(g[1], g[2], g[3])

\* A header that arrived whole is acted on.
dispatch(d) ==
  LET g == d.got
      e == [d EXCEPT !.req = [NoRequest EXCEPT !.name = g[1][2], !.address = g[2][2],
                                               !.length = g[3][2],
                                               !.counter = g[2][2] + g[3][2]]]
  IN CASE ~header_ok(g) -> uart_send_response([d EXCEPT !.req = NoRequest], "checksum")
       [] header_ok(g) /\ e.req.name \in {"ping", "id"} -> uart_send_response(e, "ok")
       [] header_ok(g) /\ e.req.name = "erase" ->
            IF e.req.length = 0 THEN uart_send_response(e, "length") ELSE [e EXCEPT !.pc = "erase"]
       [] header_ok(g) /\ e.req.name = "write" ->
            IF e.req.length \notin 1 .. DataMax THEN uart_send_response(e, "length")
            ELSE [e EXCEPT !.pc = "psum"]
       [] header_ok(g) /\ e.req.name = "reboot" ->
            [uart_send_response(e, "ok") EXCEPT !.pc = "rebooting"]
       [] OTHER -> uart_send_response(e, "command")

\* Bytes a request names: whole sectors to erase, exactly its bytes to write.
Named(d) ==
  LET q == d.req
  IN IF d.pc = "erase"
     THEN {a \in Cells : \E b \in q.address .. q.address + q.length - 1 :
                           a \div SectorSize = b \div SectorSize}
     ELSE q.address .. q.address + q.length - 1

flash_becomes(d, f) ==
  [d EXCEPT !.flash = f, !.outside = @ \/ \E a \in Cells : f[a] # d.flash[a] /\ a \notin Named(d)]

\* An erase ends, or times out after some of its commands.
Erased(d, n, all) == uart_send_response(flash_becomes(d, all[n]),
                                        IF n = Cardinality(DOMAIN all) - 1 THEN "ok" ELSE "timeout")

\* Mutant: what was received is written whatever its checksum.
payloadNotChecked(d) == TRUE

payload_ok(d) == d.req.psum = checksum_data(d.req.data)

\* A field taken for a byte of the payload counts as zero.
Bytes(d) == [i \in 1 .. d.req.length |-> IF d.req.data[i][1] = "byte" THEN d.req.data[i][2] ELSE {}]

\* The data is read back after the last page; reading may time out too.
flash_program_verify(d, n, all, readable) ==
  LET same == flash_read_compare(all[n], d.req.address, Bytes(d))
      status == IF n # Cardinality(DOMAIN all) - 1 THEN "timeout"
                ELSE IF readable /\ same THEN "ok" ELSE "verify"
  IN uart_send_response(flash_becomes(d, all[n]), status)

----------------------------------------------------------------------------
Init ==
  /\ \E image \in Images :
       s = send([image |-> image, again |-> FALSE, pc |-> "hunt", got |-> <<>>, req |-> NoRequest, line |-> <<>>,
                 back |-> <<>>, step |-> 1, attempt |-> 1, host |-> "wait",
                 flash |-> [a \in Cells |-> {}], outside |-> FALSE])
  /\ ops = 0

Goes(d) == s' = d /\ UNCHANGED ops
Fault(d) == ops < MaxFaults /\ ops' = ops + 1 /\ s' = d

Receive == /\ s.pc \in {"hunt", "guard", "header", "psum", "payload"} /\ s.line # <<>>
           /\ Goes(uart_recv_symbol(s))
Dispatch == s.pc = "dispatch" /\ Goes(dispatch(s))
Erase == /\ s.pc = "erase"
         /\ LET all == flash_erase_range(s.flash, s.req.address, s.req.length)
                last == Cardinality(DOMAIN all) - 1
            IN \/ Goes(Erased(s, last, all))
               \/ \E n \in 0 .. last - 1 : Fault(Erased(s, n, all))
Write == /\ s.pc = "write"
         /\ IF ~payload_ok(s) THEN Goes(uart_send_response(s, "checksum"))
            ELSE LET all == flash_program(s.flash, s.req.address, Bytes(s))
                     last == Cardinality(DOMAIN all) - 1
                 IN \/ Goes(flash_program_verify(s, last, all, TRUE))
                    \/ \E n \in 0 .. last : Fault(flash_program_verify(s, n, all, FALSE))
\* The anchor resets the chip after its answer.
Reboot == s.pc = "rebooting" /\ Goes([s EXCEPT !.pc = "gone"])

HostReads == s.host = "wait" /\ s.back # <<>> /\ Goes(host_response(s))
HostRetries == s.host = "retry" /\ Goes(host_retry(s))
\* Nothing more will come, and the host waits no longer.
Quiet == s.back = <<>> /\ (s.line = <<>> \/ s.pc = "gone")
         /\ s.pc \in {"hunt", "guard", "header", "psum", "payload", "gone"}
HostTimesOut == s.host = "wait" /\ Quiet /\ Goes([s EXCEPT !.host = "retry"])
HostTooEarly == s.host = "wait" /\ ~Quiet /\ Fault([s EXCEPT !.host = "retry"])
LoseSymbol == s.line # <<>> /\ Fault([s EXCEPT !.line = Tail(@)])
LoseResponse == s.back # <<>> /\ Fault([s EXCEPT !.back = Tail(@)])

Next == \/ Receive \/ Dispatch \/ Erase \/ Write \/ Reboot
        \/ HostReads \/ HostRetries \/ HostTimesOut \/ HostTooEarly \/ LoseSymbol \/ LoseResponse

Spec == Init /\ [][Next]_vars

----------------------------------------------------------------------------
\* When the host goes on after its last chunk, the flash holds the image: no
\* late, lost or repeated message makes it believe what was not done.  Not
\* claimed for an image of a single chunk whose erase was sent more than once:
\* the counter of that erase is also the counter of the write, so that a second
\* answer to it is taken for the answer to the write.
ImageWritten ==
  s.host # "failed" /\ Asked(s).name = "reboot" /\ (s.again => Chunks(s.image) > 1) =>
    flash_read_compare(s.flash, Base, s.image)

\* No byte changes that the request being served does not name.
OnlyNamedBytes == ~s.outside

\* One fault never makes the host give up, up to the reboot (whose answer, once
\* lost, cannot be had again).
OneFaultTolerated == s.host = "failed" => ops >= 2 \/ Asked(s).name = "reboot"
===============================================================================
