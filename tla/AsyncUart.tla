------------------------------- MODULE AsyncUart -------------------------------
(***************************************************************************)
(* The asynchronous UART receiver (kernel/asyncuart.nim) over the ISR      *)
(* bridge: recv goes statement by statement, and the interrupt may come    *)
(* between any two of them.  Bytes are numbered in the order they arrive.  *)
(* One task reads; it may put a time-out on the future of recv.            *)
(***************************************************************************)
EXTENDS CpsFutures

CONSTANTS MaxIsrSlots,
          CompletionRingSize,
          MaxBytes,     \* bytes that arrive
          MaxOps        \* bound on calls of recv

VARIABLES s,            \* the FIFO with the mask of its interrupt, the driver,
                        \* the bridge and the reader; got: the bytes it has
                        \* (Nothing for the 0 of a recv without data)
          ops           \* calls so far

vars == <<s, ops>>
Reader == "reader"
Nothing == 0

----------------------------------------------------------------------------
uartIsrCommon(d) ==
  LET read == [d EXCEPT !.rxByte = Head(d.fifo), !.rxGotData = TRUE, !.fifo = Tail(@)]
      done == IF d.rxSlot # NoSlot THEN [completeIsrSlot(read, d.rxSlot) EXCEPT !.rxSlot = NoSlot] ELSE d
  IN [done EXCEPT !.masked = TRUE]

\* The FIFO's status bit follows its contents, so clearing it changes nothing.
Interrupt == s.fifo # <<>> /\ ~s.masked /\ UNCHANGED ops /\ s' = uartIsrCommon(s)

ByteArrives ==
  /\ s.arrived < MaxBytes /\ UNCHANGED ops
  /\ s' = [s EXCEPT !.arrived = @ + 1, !.fifo = Append(@, s.arrived + 1)]

----------------------------------------------------------------------------
Got(d, b) == [d EXCEPT !.got = Append(@, b)]

Result(d, t, f) == IF hasError(d, f) THEN d ELSE Got(d, d.fut[f].value)

\* The callbacks of the future in the slot: the bridge's, and recv's own.
typedCallback(d, f) == complete(d, f, IF d.rxGotData THEN d.rxByte ELSE Nothing)

User(d, cb) ==
  IF cb[1] = "slot" THEN releaseIsrSlotIfFuture(d, cb[2], cb[3]) ELSE typedCallback(d, cb[2])

Call(d) == Running(s, Reader) /\ ops < MaxOps /\ ops' = ops + 1 /\ s' = d
Step(name) == s.stack # <<>> /\ Last(s.stack) = <<name>> /\ UNCHANGED ops
Goto(d, name) == Push(Pop(d), <<name>>)

recv(d) ==
  LET e == newFuture(d)
      r == registerIsrFuture(e, e.ret)
  IN IF d.fifo # <<>> THEN Got([d EXCEPT !.fifo = Tail(@)], Head(d.fifo))
     ELSE IF r.slot = NoSlot THEN Result(r, Reader, Failed)
     ELSE Push([r EXCEPT !.void = r.ret], <<"slot">>)

Recv == Call(recv(s))

\* Mutant: the interrupt is enabled before rxGotData is cleared.
slotAndEnable == Step("slot") /\ s' = Goto([s EXCEPT !.rxSlot = s.slot, !.masked = FALSE], "flag")

RecvSetsSlot == Step("slot") /\ s' = Goto([s EXCEPT !.rxSlot = s.slot], "flag")
RecvClearsFlag == Step("flag") /\ s' = Goto([s EXCEPT !.rxGotData = FALSE], "enable")

enableInterrupt(d) == Goto([d EXCEPT !.masked = FALSE], "await")
RecvEnables == Step("enable") /\ s' = enableInterrupt(s)

\* The typed future, the callback that fills it, and the reader's await.
RecvAwaits ==
  /\ Step("await")
  /\ LET e == newFuture(Pop(s))
         f == addCallback(e, s.void, <<"typed", e.ret>>)
     IN \E timed \in BOOLEAN : s' = Await(f, Reader, timed, Result)

Rest == Running(s, Reader) /\ UNCHANGED ops /\ s' = Rests(s, Reader)
Schedule == s.stack = <<>> /\ s.task[Reader].at = "rest" /\ UNCHANGED ops /\ s' = Runs(s, Reader)
TimerFires ==
  /\ s.stack = <<>> /\ UNCHANGED ops
  /\ \E m \in s.timers : s' = timeoutFires([s EXCEPT !.timeouts = @ + 1], m)

drainIsrCompletions ==
  /\ s.stack = <<>> /\ s.ring.count > 0 /\ UNCHANGED ops
  /\ s' = drainOne(s)

Callback ==
  /\ s.stack # <<>> /\ Last(s.stack)[1] = "fire" /\ UNCHANGED ops
  /\ s' = CallNext(s, Result, User)
CancelInner ==
  /\ s.stack # <<>> /\ Last(s.stack)[1] = "cancel" /\ UNCHANGED ops
  /\ s' = cancel(Pop(s), Last(s.stack)[2])

----------------------------------------------------------------------------
Init ==
  /\ s = [fifo |-> <<>>, masked |-> TRUE, arrived |-> 0, rxSlot |-> NoSlot, rxByte |-> 0,
          rxGotData |-> FALSE, slot |-> NoSlot, void |-> 0, got |-> <<>>, timeouts |-> 0,
          slots |-> isrBridgeInit(MaxIsrSlots), ring |-> ring(CompletionRingSize),
          fut |-> <<>>, stack |-> <<>>, timers |-> {}, ret |-> 0,
          task |-> [t \in {Reader} |-> [at |-> "rest", waits |-> 0]]]
  /\ ops = 0

Next ==
  \/ ByteArrives \/ Interrupt \/ Recv \/ RecvSetsSlot \/ RecvClearsFlag \/ RecvEnables \/ RecvAwaits
  \/ Rest \/ Schedule \/ TimerFires \/ drainIsrCompletions \/ Callback \/ CancelInner

----------------------------------------------------------------------------
Waiting == s.task[Reader].at = "wait"
Real == SelectSeq(s.got, LAMBDA b : b # Nothing)

\* The reader has the bytes in the order they arrived, none twice.  As long as
\* no recv timed out none is missing or made up either; after a time-out that
\* is not so: nothing withdraws the pending receive (withTimeout cancels the
\* typed future only), and with the interrupt still enabled the handler may run
\* before the next recv clears rxGotData.
BytesInOrder ==
  /\ \A i, j \in DOMAIN Real : i < j => Real[i] < Real[j]
  /\ s.timeouts = 0 => s.got = [i \in 1 .. Len(s.got) |-> i]
  /\ (s.timeouts = 0 /\ s.stack = <<>> /\ s.ring.count = 0) => Len(s.got) + Len(s.fifo) = s.arrived

\* A reader that waits with a byte in the FIFO is about to be woken: by the
\* interrupt, by a completion in the ring, or by a callback on its way.
ReaderWoken ==
  (Waiting /\ s.fifo # <<>>) => ~s.masked \/ s.ring.count > 0 \/ s.stack # <<>>

\* A slot is taken while a recv waits; each time-out may leave one more taken.
NoSlotLeak ==
  Settled(s) =>
    LET waits == IF Waiting THEN 1 ELSE 0
    IN Cardinality(ActiveSlots(s)) \in waits .. waits + s.timeouts
===============================================================================
