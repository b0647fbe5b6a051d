------------------------------ MODULE EmacDriver ------------------------------
(***************************************************************************)
(* The Ethernet driver (kernel/emacdrv.nim) over the ISR bridge: two rings *)
(* of buffer descriptors shared with the device, sendAsync and recvAsync,  *)
(* the interrupt handler and the polling fallback.  The device and the     *)
(* interrupt may come between any two steps of a task or of the poll.      *)
(* Frames are numbered in the order they are sent or arrive.               *)
(***************************************************************************)
EXTENDS CpsFutures

CONSTANTS NumTxBd, NumRxBd,
          MaxIsrSlots,
          CompletionRingSize,
          MaxFrames,    \* frames that arrive
          MaxOps        \* bound on calls of the two tasks

VARIABLES s,            \* the rings (ready, txBufs, rx: 0 is an empty BD) with
                        \* the driver's index next and the device's hw, the
                        \* interrupt status, the driver's slots and futures,
                        \* the bridge; wire: frames sent, got: frames received
          ops           \* calls so far

vars == <<s, ops>>
Ways == {"tx", "rx"}    \* the two directions, each with one task
Size(x) == IF x = "tx" THEN NumTxBd ELSE NumRxBd
Advance(d, x) == [d EXCEPT !.next[x] = (@ + 1) % Size(x)]

----------------------------------------------------------------------------
(* The device.                                                             *)

Turn(d, x) == [d EXCEPT !.hw[x] = (@ + 1) % Size(x), !.status = @ \cup {x}]

FrameSent ==
  /\ s.ready[s.hw["tx"]] /\ UNCHANGED ops
  /\ s' = Turn([s EXCEPT !.ready[s.hw["tx"]] = FALSE, !.wire = Append(@, s.txBufs[s.hw["tx"]])], "tx")

FrameArrives ==
  /\ s.arrived < MaxFrames /\ s.rx[s.hw["rx"]] = 0 /\ UNCHANGED ops
  /\ s' = Turn([s EXCEPT !.arrived = @ + 1, !.rx[s.hw["rx"]] = s.arrived + 1], "rx")

----------------------------------------------------------------------------
(* The interrupt handler and the poll.                                     *)

\* A direction with something pending: its slot goes into the ring.
isrWay(d, x) ==
  IF x \in d.status /\ d.slotOf[x] # NoSlot
  THEN [completeIsrSlot(d, d.slotOf[x]) EXCEPT !.slotOf[x] = NoSlot] ELSE d

emacIsr(d) == [isrWay(isrWay(d, "tx"), "rx") EXCEPT !.status = {}]

Interrupt == s.status # {} /\ UNCHANGED ops /\ s' = emacIsr(s)

\* The status is read once; then each direction is acknowledged, and its future
\* completed by the poll itself.
Frame == Last(s.stack)
Internal(name) == s.stack # <<>> /\ Frame[1] = name /\ UNCHANGED ops

PollReads ==
  /\ s.stack = <<>> /\ s.status # {} /\ UNCHANGED ops
  /\ s' = Push(Push(s, <<"poll", "rx", s.status>>), <<"poll", "tx", s.status>>)

PollAcks ==
  /\ Internal("poll")
  /\ LET x == Frame[2]
         d == IF x \in Frame[3] THEN [Pop(s) EXCEPT !.status = @ \ {x}] ELSE Pop(s)
     IN s' = IF x \in Frame[3] /\ s.slotOf[x] # NoSlot THEN Push(d, <<"release", x, s.slotOf[x]>>) ELSE d

pollRelease(d, x, i) ==
  complete(releaseIsrSlot([d EXCEPT !.slotOf[x] = NoSlot, !.futureOf[x] = Completed], i), d.futureOf[x], 0)

PollReleases == Internal("release") /\ s' = pollRelease(Pop(s), Frame[2], Frame[3])

drainIsrCompletions ==
  s.stack = <<>> /\ s.ring.count > 0 /\ UNCHANGED ops /\ s' = drainOne(s)

----------------------------------------------------------------------------
(* The tasks.                                                              *)

Result(d, t, f) == d
User(d, cb) == releaseIsrSlotIfFuture(d, cb[2], cb[3])

\* send and the start of sendAsync; the future is registered a step later.
send(d) ==
  LET i == d.next["tx"]
  IN IF d.ready[i] THEN Result(d, "tx", Failed)
     ELSE Push(Advance([d EXCEPT !.sent = @ + 1, !.txBufs[i] = d.sent + 1, !.ready[i] = TRUE], "tx"),
               <<"register", "tx">>)

recvAsync(d) ==
  IF d.rx[d.next["rx"]] # 0 THEN Result(d, "rx", Completed) ELSE Push(d, <<"register", "rx">>)

\* tryRecv, and recycleRxBd when there is a frame.
takeFrame(d) ==
  LET i == d.next["rx"]
  IN IF d.rx[i] = 0 THEN d ELSE Advance([d EXCEPT !.got = Append(@, d.rx[i]), !.rx[i] = 0], "rx")

Call(x, d) == Running(s, x) /\ ops < MaxOps /\ ops' = ops + 1 /\ s' = d

SendAsync == Call("tx", send(s))
RecvAsync == Call("rx", recvAsync(s))
TryRecv == Call("rx", takeFrame(s))

Registers ==
  /\ Internal("register")
  /\ LET x == Frame[2]
         e == newFuture(Pop(s))
         r == registerIsrFuture(e, e.ret)
         d == [r EXCEPT !.slotOf[x] = r.slot]
     IN IF r.slot = NoSlot THEN s' = Result(d, x, Failed)
        ELSE \E timed \in BOOLEAN : s' = Await([d EXCEPT !.futureOf[x] = d.ret], x, timed, Result)

Rest(x) == Running(s, x) /\ UNCHANGED ops /\ s' = Rests(s, x)
Schedule(x) == s.stack = <<>> /\ s.task[x].at = "rest" /\ UNCHANGED ops /\ s' = Runs(s, x)
TimerFires ==
  /\ s.stack = <<>> /\ UNCHANGED ops
  /\ \E m \in s.timers : s' = timeoutFires([s EXCEPT !.timedOut = TRUE], m)
Callback == Internal("fire") /\ s' = CallNext(s, Result, User)
CancelInner == Internal("cancel") /\ s' = cancel(Pop(s), Frame[2])

----------------------------------------------------------------------------
Init ==
  /\ s = [ready |-> [i \in 0 .. NumTxBd - 1 |-> FALSE], txBufs |-> [i \in 0 .. NumTxBd - 1 |-> 0],
          rx |-> [i \in 0 .. NumRxBd - 1 |-> 0], next |-> [x \in Ways |-> 0], hw |-> [x \in Ways |-> 0],
          status |-> {}, slotOf |-> [x \in Ways |-> NoSlot], futureOf |-> [x \in Ways |-> Completed],
          slot |-> NoSlot, sent |-> 0, arrived |-> 0, wire |-> <<>>, got |-> <<>>, timedOut |-> FALSE,
          slots |-> isrBridgeInit(MaxIsrSlots), ring |-> ring(CompletionRingSize),
          fut |-> <<>>, stack |-> <<>>, timers |-> {}, ret |-> 0,
          task |-> [x \in Ways |-> [at |-> "rest", waits |-> 0]]]
  /\ ops = 0

Next ==
  \/ FrameSent \/ FrameArrives \/ Interrupt \/ PollReads \/ PollAcks \/ PollReleases \/ drainIsrCompletions
  \/ SendAsync \/ RecvAsync \/ TryRecv \/ Registers \/ TimerFires \/ Callback \/ CancelInner
  \/ \E x \in Ways : Rest(x) \/ Schedule(x)

----------------------------------------------------------------------------
\* From place i of the ring on, in ring order.
From(list, i) == [k \in 1 .. NumRxBd |-> list[(i + k - 1) % NumRxBd]]
UpTo(n) == [i \in 1 .. n |-> i]

\* The wire carries the frames of the successful sends in order, and the frames
\* received and those still in the ring are all that arrived, in order, with
\* whatever time-outs and early wake-ups the driver goes through.
FramesInOrder ==
  /\ s.wire = UpTo(Len(s.wire))
  /\ Len(s.wire) + Cardinality({i \in DOMAIN s.ready : s.ready[i]}) = s.sent
  /\ s.got \o SelectSeq(From(s.rx, s.next["rx"]), LAMBDA f : f # 0) = UpTo(s.arrived)

Waiting(x) == s.task[x].at = "wait"

\* Until a time-out leaves the driver with a slot that is no longer its own, the
\* slots taken are those of the futures that tasks wait for.
SlotsMatch ==
  (~s.timedOut /\ s.stack = <<>>) =>
    {s.slots[i].future : i \in ActiveSlots(s)} = {Behind(s, x) : x \in {y \in Ways : Waiting(y)}}
===============================================================================
