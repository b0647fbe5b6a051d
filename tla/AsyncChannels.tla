----------------------------- MODULE AsyncChannels -----------------------------
(***************************************************************************)
(* The typed channels of the async kernel (kernel/channels.nim): bounded,  *)
(* with a ring buffer, blocked senders and blocked receivers, and          *)
(* unbounded.  Tasks send and receive with and without a time-out and      *)
(* cancel each other's waits.  Values are numbered in the order of send.   *)
(***************************************************************************)
EXTENDS CpsFutures

CONSTANTS Tasks,
          Caps,         \* capacities; 0 is the unbounded channel
          MaxOps        \* bound on calls of tasks and timers

VARIABLES s,            \* the channel, its futures and the tasks; got: what a
                        \* task received, told: what the sender of a value
                        \* knows: "waits", "sent" or "not sent"; torn: a
                        \* task sent or received inside a time-out that had
                        \* still to cancel its wait
          ops           \* calls so far

vars == <<s, ops>>

----------------------------------------------------------------------------
(* The buffer: a ring, or a sequence that grows.                           *)

Bounded(d) == d.cap > 0
Buffered(d) == IF Bounded(d) THEN contents(d.buf) ELSE d.buf
HasRoom(d) == ~Bounded(d) \/ d.buf.count < d.cap
Put(d, v) == IF Bounded(d) THEN [d EXCEPT !.buf = push(@, v)] ELSE [d EXCEPT !.buf = Append(@, v)]
Take(d) == IF Bounded(d) THEN [d EXCEPT !.buf = pop(@)] ELSE [d EXCEPT !.buf = Tail(@)]

----------------------------------------------------------------------------
\* The list without the finished waiters before the first live one.
FromLive(d, list, Fut(_)) ==
  LET live == {i \in DOMAIN list : ~finished(d, Fut(list[i]))}
  IN IF live = {} THEN <<>> ELSE SubSeq(list, Min(live), Len(list))

Itself(w) == w
Future(w) == w.future

\* Mutant: the oldest receiver is taken even when it has given up.
oldestReceiver(d) == d.recvWaiters

popRecvWaiter(d) == FromLive(d, d.recvWaiters, Itself)

\* A receiver waits: it gets the value.
Deliver(d, receivers, v) == complete([d EXCEPT !.recvWaiters = Tail(receivers)], Head(receivers), v)

\* The oldest blocked sender hands its value to a receiver or to the buffer,
\* and only then is its own future completed.
wakeOneSender(d) ==
  LET ws == FromLive(d, d.sendWaiters, Future)
      e == [d EXCEPT !.sendWaiters = IF ws = <<>> THEN <<>> ELSE Tail(ws)]
      rs == popRecvWaiter(e)
      f == [e EXCEPT !.recvWaiters = rs]
  IN IF ws = <<>> THEN e
     ELSE IF rs # <<>> THEN Deliver(Push(e, <<"complete", Head(ws).future>>), rs, Head(ws).value)
     ELSE IF HasRoom(d) THEN complete(Put(f, Head(ws).value), Head(ws).future, 0)
     ELSE [f EXCEPT !.sendWaiters = ws]

Told(d, v, what) == [d EXCEPT !.told[v] = what]

block(d, v) ==
  LET e == newFuture(d) IN [e EXCEPT !.sendWaiters = Append(@, [value |-> v, future |-> e.ret])]

\* Whether the value went out at once.
Sends(d) == popRecvWaiter(d) # <<>> \/ HasRoom(d)
sendNow(d, v) ==
  LET rs == popRecvWaiter(d)
      e == Return(d, Completed)
  IN IF rs # <<>> THEN Deliver(e, rs, v) ELSE Put([e EXCEPT !.recvWaiters = <<>>], v)

send(d, v) ==
  IF d.closed THEN Return(d, Failed)
  ELSE IF Sends(d) THEN sendNow(d, v)
  ELSE block([d EXCEPT !.recvWaiters = <<>>], v)

trySend(d, v) ==
  IF d.closed THEN Return(d, Failed)
  ELSE IF Sends(d) THEN sendNow(d, v)
  ELSE Return([d EXCEPT !.recvWaiters = <<>>], Failed)

\* recv and tryRecv with a value there: the sender that is woken runs before
\* the call returns the value to task t.
takeFirst(d, t) ==
  LET e == Push(Take(d), <<"got", t, Head(Buffered(d))>>)
  IN IF Bounded(d) THEN wakeOneSender(e) ELSE e

recv(d) ==
  IF d.closed THEN Return(d, Failed)
  ELSE LET e == newFuture(d) IN [e EXCEPT !.recvWaiters = Append(@, e.ret)]

close(d) == Push([d EXCEPT !.closed = TRUE], <<"close", "recv", 1, Len(d.recvWaiters)>>)

----------------------------------------------------------------------------
(* The tasks.                                                              *)

Got(d, t, v) == [d EXCEPT !.task[t].got = Append(@, v)]

\* A receiver takes the value of its future, a sender learns what became of its.
Result(d, t, f) ==
  LET v == d.task[t].sending
  IN IF v > 0
     THEN Told([d EXCEPT !.task[t].sending = 0], v, IF hasError(d, f) THEN "not sent" ELSE "sent")
     ELSE IF hasError(d, f) THEN d ELSE Got(d, t, d.fut[f].value)

\* A task that a time-out resumed runs before its old wait is cancelled.
Tearing == [s EXCEPT !.torn = @ \/ \E i \in DOMAIN s.stack : s.stack[i][1] = "cancel"]

Do(d) == ops < MaxOps /\ ops' = ops + 1 /\ s' = d
Call(t, d) == Running(s, t) /\ Do(d)

NewValue(t) ==
  [Tearing EXCEPT !.told = Append(@, "waits"), !.task[t].sending = Len(s.told) + 1]
Sent(d) == Len(d.told)

\* A send that wakes a receiver runs it first, then goes on in its own task;
\* what the sender knows then is noted at once.  The unbounded channel drops
\* what is sent after close and tells nobody.
SendReturns(d, t, timed) ==
  IF d.ret \in {Completed, Failed} THEN Result(d, t, d.ret) ELSE Await(d, t, timed, Result)

Send(t) ==
  LET d == NewValue(t)
  IN \E timed \in BOOLEAN : Call(t, SendReturns(send(d, Sent(d)), t, timed))
TrySend(t) == LET d == NewValue(t) IN Call(t, SendReturns(trySend(d, Sent(d)), t, FALSE))
RecvTakes(t) == Buffered(s) # <<>> /\ Call(t, takeFirst(Tearing, t))
RecvWaits(t) ==
  Buffered(s) = <<>> /\ \E timed \in BOOLEAN : Call(t, Await(recv(s), t, timed, Result))
Close(t) == ~s.closed /\ Call(t, close(s))
CancelWait(t, u) == s.task[u].at = "wait" /\ Call(t, cancel(s, s.task[u].waits))

Rest(t) == Running(s, t) /\ UNCHANGED ops /\ s' = Rests(s, t)
Schedule(t) == s.stack = <<>> /\ s.task[t].at = "rest" /\ UNCHANGED ops /\ s' = Runs(s, t)
TimerFires == s.stack = <<>> /\ \E m \in s.timers : Do(timeoutFires(s, m))

----------------------------------------------------------------------------
(* The calls in progress.                                                  *)

Internal(name) == s.stack # <<>> /\ Last(s.stack)[1] = name /\ UNCHANGED ops
Frame == Last(s.stack)

Callback == Internal("fire") /\ s' = CallNext(s, Result, NoUser)
CancelInner == Internal("cancel") /\ s' = cancel(Pop(s), Frame[2])

\* recv has its value for the task; or the receiver that a blocked sender's
\* value went to has run, and the sender is next.
CallReturns ==
  \E name \in {"got", "complete"} :
    /\ Internal(name)
    /\ s' = IF name = "got" THEN Got(Pop(s), Frame[2], Frame[3]) ELSE complete(Pop(s), Frame[2], 0)

\* close fails every receiver, then every sender; what it does past the end of
\* a list that became shorter is undefined.
CloseStep ==
  /\ Internal("close") /\ Frame[3] <= Frame[4]
  /\ LET i == Frame[3]
         d == [s EXCEPT !.stack[Len(s.stack)][3] = i + 1]
     IN IF Frame[2] = "recv" THEN i <= Len(s.recvWaiters) /\ s' = fail(d, s.recvWaiters[i])
        ELSE i <= Len(s.sendWaiters) /\ s' = fail(d, s.sendWaiters[i].future)

CloseNextList ==
  /\ Internal("close") /\ Frame[3] > Frame[4]
  /\ s' = IF Frame[2] = "recv"
          THEN [s EXCEPT !.recvWaiters = <<>>,
                         !.stack[Len(s.stack)] = <<"close", "send", 1, Len(s.sendWaiters)>>]
          ELSE Pop([s EXCEPT !.sendWaiters = <<>>])

----------------------------------------------------------------------------
Init ==
  /\ \E cap \in Caps :
       s = [cap |-> cap, buf |-> IF cap > 0 THEN ring(cap) ELSE <<>>, closed |-> FALSE, torn |-> FALSE,
            recvWaiters |-> <<>>, sendWaiters |-> <<>>, told |-> <<>>,
            fut |-> <<>>, stack |-> <<>>, timers |-> {}, ret |-> 0,
            task |-> [t \in Tasks |-> [at |-> "rest", waits |-> 0, sending |-> 0, got |-> <<>>]]]
  /\ ops = 0

Next ==
  \/ \E t \in Tasks :
       \/ Send(t) \/ TrySend(t) \/ RecvTakes(t) \/ RecvWaits(t) \/ Close(t) \/ Rest(t) \/ Schedule(t)
       \/ \E u \in Tasks \ {t} : CancelWait(t, u)
  \/ TimerFires \/ Callback \/ CancelInner \/ CallReturns
  \/ CloseStep \/ CloseNextList

----------------------------------------------------------------------------
LiveSenders(d) == SelectSeq(d.sendWaiters, LAMBDA w : ~finished(d, w.future))
LiveReceivers(d) == SelectSeq(d.recvWaiters, LAMBDA w : ~finished(d, w))
Values(list) == [i \in DOMAIN list |-> list[i].value]
Increasing(list) == \A i, j \in DOMAIN list : i < j => list[i] < list[j]

\* How often value v is in the buffer, in a recv that is about to return it, or
\* with a task that received it.
Copies(v) ==
  Cardinality({i \in DOMAIN Buffered(s) : Buffered(s)[i] = v})
  + Cardinality({i \in DOMAIN s.stack : s.stack[i][1] = "got" /\ s.stack[i][3] = v})
  + Cardinality({t \in Tasks : Contains(s.task[t].got, v)})

\* A value is never in two places, and one whose sender still waits is with its
\* live sender.  A value whose send succeeded is in one place, and a value whose
\* send failed, timed out or was cancelled in none (send, wakeOneSender, close):
\* unless a task that its time-out resumed sends or receives before its old
\* wait is cancelled, and so hands a value to, or takes it from, that wait.
ValueConserved ==
  Settled(s) => \A v \in 1 .. Sent(s) :
    /\ Copies(v) <= 1
    /\ CASE s.told[v] = "sent" -> ~s.torn => Copies(v) = 1
         [] s.told[v] = "not sent" ->
              /\ ~s.torn => Copies(v) = 0
              /\ s.stack = <<>> => ~Contains(Values(LiveSenders(s)), v)
         [] s.told[v] = "waits" -> Copies(v) = 0 /\ Contains(Values(LiveSenders(s)), v)

\* The values of the channel, those of blocked senders after those of the
\* buffer, are in the order of their sends, and so are those a task received:
\* no send overtakes one that blocked before it.
SendOrder ==
  /\ Increasing(Buffered(s) \o Values(LiveSenders(s)))
  /\ \A t \in Tasks : Increasing(s.task[t].got)

\* Between two callbacks of the scheduler no receiver waits while there is a
\* value or a sender, no sender while there is room, and nobody once closed.
NoIdleEnd ==
  s.stack = <<>> =>
    /\ LiveReceivers(s) # <<>> => Buffered(s) = <<>> /\ LiveSenders(s) = <<>> /\ ~s.closed
    /\ LiveSenders(s) # <<>> => ~HasRoom(s) /\ ~s.closed
===============================================================================
