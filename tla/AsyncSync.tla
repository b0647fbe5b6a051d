------------------------------- MODULE AsyncSync -------------------------------
(***************************************************************************)
(* Semaphore, mutex, event and barrier of the async kernel                 *)
(* (kernel/sync.nim), used by tasks that wait on them with and without a   *)
(* time-out, cancel each other's waits, and run inside each other's calls. *)
(* One behaviour is about one primitive.                                   *)
(***************************************************************************)
EXTENDS CpsFutures

CONSTANTS Tasks,        \* the tasks; the parties of the barrier
          Kinds,        \* the primitives: "sem", "mutex", "event", "barrier"
          Permits,      \* permits of the semaphore at the start
          MaxPermits,   \* and at most
          MaxOps        \* bound on calls of tasks and timers

VARIABLES s,            \* the primitive, its futures and the tasks; a task is
                        \* at rest, running or waiting for the future waits;
                        \* held: permits or locks it owns, arrived and passed:
                        \* its calls of arrive and those that are over; torn:
                        \* a task used the primitive inside a call that was
                        \* only half done
          ops           \* calls so far

vars == <<s, ops>>

----------------------------------------------------------------------------
(* The primitives.                                                         *)

pend(d) == LET e == newFuture(d) IN [e EXCEPT !.waiters = Append(@, e.ret)]

acquire(d) ==
  IF d.closed THEN Return(d, Failed)
  ELSE IF d.permits > 0 THEN Return([d EXCEPT !.permits = @ - 1], Completed)
  ELSE pend(d)

\* The live waiters, and all waiters from the first live one on: release and
\* unlock drop those before it.
Live(d) == SelectSeq(d.waiters, LAMBDA w : ~finished(d, w))
FromLive(d) ==
  LET live == {i \in DOMAIN d.waiters : ~finished(d, d.waiters[i])}
  IN IF live = {} THEN <<>> ELSE SubSeq(d.waiters, Min(live), Len(d.waiters))

release(d) ==
  LET ws == FromLive(d)
  IN IF d.closed THEN d
     ELSE IF ws # <<>> THEN complete([d EXCEPT !.waiters = Tail(ws)], Head(ws), 0)
     ELSE [d EXCEPT !.waiters = <<>>, !.permits = IF @ < MaxPermits THEN @ + 1 ELSE @]

tryAcquire(d) == IF ~d.closed /\ d.permits > 0 THEN acquire(d) ELSE Return(d, Failed)

lock(d) ==
  IF ~d.locked THEN Return([d EXCEPT !.locked = TRUE], Completed) ELSE pend(d)

unlock(d) ==
  LET ws == FromLive(d)
  IN IF ws # <<>> THEN complete([d EXCEPT !.waiters = Tail(ws)], Head(ws), 0)
     ELSE [d EXCEPT !.waiters = <<>>, !.locked = FALSE]

tryLock(d) == IF ~d.locked THEN lock(d) ELSE Return(d, Failed)

wait(d) == IF d.flag THEN Return(d, Completed) ELSE pend(d)

\* The loops over all waiters fix their length when they start; the frame is
\* the loop, the next index and that length.
Loop(d, name) == Push(d, <<name, 1, Len(d.waiters)>>)

close(d) == Loop([d EXCEPT !.closed = TRUE], "close")
set(d) == Loop([d EXCEPT !.flag = TRUE], "set")
clear(d) == [d EXCEPT !.flag = FALSE]

arrive(d, t) ==
  LET e == [d EXCEPT !.count = @ + 1]
  IN IF e.count >= Cardinality(Tasks) THEN Push(e, <<"arrive", 1, Len(e.waiters), t>>) ELSE pend(e)

----------------------------------------------------------------------------
(* The tasks.                                                              *)

\* What a successful wait gives the task.
Granted(d, t) ==
  CASE d.kind \in {"sem", "mutex"} -> [d EXCEPT !.task[t].held = @ + 1]
    [] d.kind = "barrier" -> [d EXCEPT !.task[t].passed = @ + 1]
    [] OTHER -> d

Result(d, t, f) == IF hasError(d, f) THEN d ELSE Granted(d, t)

\* A task that set, arrive or a time-out resumed runs inside it: it finds the
\* loop over the waiters half done, or the timed-out waiter not cancelled yet.
Inside(names) == \E i \in DOMAIN s.stack : s.stack[i][1] \in names
Tearing(names) == [s EXCEPT !.torn = @ \/ Inside(names)]

Do(d) == ops < MaxOps /\ ops' = ops + 1 /\ s' = d
Call(t, kind, d) == Running(s, t) /\ s.kind = kind /\ Do(d)
Owns(t) == s.task[t].held > 0
Without(t) == [Tearing({"cancel"}) EXCEPT !.task[t].held = @ - 1]

Acquire(t) == \E timed \in BOOLEAN : Call(t, "sem", Await(acquire(s), t, timed, Result))
TryAcquire(t) == Call(t, "sem", Await(tryAcquire(s), t, FALSE, Result))
Release(t) == Owns(t) /\ Call(t, "sem", release(Without(t)))
Close(t) == ~s.closed /\ Call(t, "sem", close(s))
Lock(t) == \E timed \in BOOLEAN : Call(t, "mutex", Await(lock(s), t, timed, Result))
TryLock(t) == Call(t, "mutex", Await(tryLock(s), t, FALSE, Result))
Unlock(t) == Owns(t) /\ Call(t, "mutex", unlock(Without(t)))
Wait(t) == \E timed \in BOOLEAN : Call(t, "event", Await(wait(s), t, timed, Result))
Set(t) == Call(t, "event", set(Tearing({"set"})))
Clear(t) == s.flag /\ Call(t, "event", clear(Tearing({"set"})))

Arrive(t) ==
  LET d == arrive([Tearing({"arrive"}) EXCEPT !.task[t].arrived = @ + 1], t)
  IN Call(t, "barrier", IF Running(d, t) THEN Await(d, t, FALSE, Result) ELSE d)

\* Another task's wait is cancelled; a party of a barrier never is.
CancelWait(t, u) ==
  /\ s.task[u].at = "wait" /\ s.kind # "barrier" /\ Running(s, t)
  /\ Do(cancel(s, s.task[u].waits))

\* The task waits for something else, and goes on later.
Rest(t) == Running(s, t) /\ UNCHANGED ops /\ s' = Rests(s, t)

Schedule(t) == s.stack = <<>> /\ s.task[t].at = "rest" /\ UNCHANGED ops /\ s' = Runs(s, t)

TimerFires == s.stack = <<>> /\ \E m \in s.timers : Do(timeoutFires(s, m))

----------------------------------------------------------------------------
(* The calls in progress.                                                  *)

Internal(name) == s.stack # <<>> /\ Last(s.stack)[1] = name /\ UNCHANGED ops

Callback == Internal("fire") /\ s' = CallNext(s, Result, NoUser)
CancelInner == Internal("cancel") /\ s' = cancel(Pop(s), Last(s.stack)[2])

\* A waiter that is not finished is completed, or failed when the semaphore is
\* closed.  What a loop does past the end of a list that became shorter is
\* undefined: no step.
LoopStep(name) ==
  /\ Internal(name)
  /\ LET i == Last(s.stack)[2]
         d == [s EXCEPT !.stack[Len(s.stack)][2] = i + 1]
     IN /\ i <= Last(s.stack)[3] /\ i <= Len(s.waiters)
        /\ s' = IF finished(d, s.waiters[i]) THEN d
                ELSE IF name = "close" THEN fail(d, s.waiters[i])
                ELSE complete(d, s.waiters[i], 0)

LoopDone(name) == Internal(name) /\ Last(s.stack)[2] > Last(s.stack)[3]

WokenAll ==
  \E name \in {"close", "set"} : LoopDone(name) /\ s' = Pop([s EXCEPT !.waiters = <<>>])

BarrierOpens ==
  /\ LoopDone("arrive")
  /\ s' = Await(Return(Pop([s EXCEPT !.waiters = <<>>, !.count = 0]), Completed),
                Last(s.stack)[4], FALSE, Result)

----------------------------------------------------------------------------
Init ==
  /\ \E kind \in Kinds :
       s = [kind |-> kind, permits |-> Permits, locked |-> FALSE, flag |-> FALSE, count |-> 0,
            closed |-> FALSE, torn |-> FALSE, waiters |-> <<>>, fut |-> <<>>, stack |-> <<>>, timers |-> {}, ret |-> 0,
            task |-> [t \in Tasks |-> [at |-> "rest", waits |-> 0, held |-> 0, arrived |-> 0, passed |-> 0]]]
  /\ ops = 0

Next ==
  \/ \E t \in Tasks :
       \/ Acquire(t) \/ TryAcquire(t) \/ Release(t) \/ Close(t)
       \/ Lock(t) \/ TryLock(t) \/ Unlock(t) \/ Wait(t) \/ Set(t) \/ Clear(t) \/ Arrive(t)
       \/ Rest(t) \/ Schedule(t)
       \/ \E u \in Tasks \ {t} : CancelWait(t, u)
  \/ TimerFires \/ Callback \/ CancelInner \/ WokenAll \/ BarrierOpens
  \/ \E name \in {"close", "set", "arrive"} : LoopStep(name)

----------------------------------------------------------------------------
Waiting(t) == s.task[t].at = "wait"
Held == FoldSet(LAMBDA t, n : n + s.task[t].held, 0, Tasks)

\* Whatever tasks release, time out or are cancelled, and wherever their code
\* runs, a permit or lock never has two owners; and none is lost, unless a task
\* that its own time-out resumed released or unlocked before the time-out was
\* over: the waiter that is about to be cancelled gets it then (sleep.nim fails
\* the outer future first, and cancels the inner one after its callbacks).
PermitsConserved ==
  Settled(s) =>
    /\ (s.kind = "sem" /\ ~s.closed) => /\ s.permits + Held <= Permits
                                        /\ ~s.torn => s.permits + Held = Permits
    /\ s.kind = "mutex" => LET n == IF s.locked THEN 1 ELSE 0
                           IN Held <= n /\ (~s.torn => Held = n)

\* A task that waits can still be woken: its future is pending and in the list
\* that release, unlock, set, close and arrive go through.  Not claimed of an
\* event or a barrier once a task that set or arrive woke has called set, clear
\* or arrive inside the loop: when the loop ends it drops who waits anew.
NoLostWaiter ==
  (Settled(s) /\ (s.torn => s.kind \in {"sem", "mutex"})) => \A t \in Tasks : Waiting(t) =>
    ~finished(s, s.task[t].waits) /\ ~finished(s, Behind(s, t)) /\ Contains(s.waiters, Behind(s, t))

\* Between two callbacks of the scheduler nobody in the list waits for what is
\* there: a free permit, a free mutex, an event that is set, a barrier all have
\* reached.
NoIdleWaiter ==
  (s.stack = <<>> /\ Live(s) # <<>>) =>
    CASE s.kind = "sem" -> s.permits = 0 /\ ~s.closed
      [] s.kind = "mutex" -> s.locked
      [] s.kind = "event" -> ~s.flag
      [] s.kind = "barrier" -> s.count = Len(Live(s)) /\ s.count < Cardinality(Tasks)

\* No party is through its n-th arrive before every party has called it n times,
\* unless a party that arrive woke arrives again inside the loop: the count is
\* only reset after it.
InStep ==
  (s.kind = "barrier" /\ ~s.torn) => \A t, u \in Tasks : s.task[t].passed <= s.task[u].arrived
===============================================================================
