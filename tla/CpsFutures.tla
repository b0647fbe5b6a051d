------------------------------ MODULE CpsFutures ------------------------------
(***************************************************************************)
(* Futures and their callbacks (kernel/runtime.nim), the time-out wrapper  *)
(* (kernel/sleep.nim) and the bridge from interrupt handlers to futures    *)
(* (kernel/isrbridge.nim), as operators on a record d with the fields      *)
(*   fut     the futures made so far,                                      *)
(*   stack   the calls in progress, the running one last,                  *)
(*   timers  the armed time-outs, as [outer, inner],                       *)
(*   ret     the future the last call returned,                            *)
(*   task    the tasks: at rest, running, or waiting for the future waits, *)
(* and, for drivers, the bridge's slots, ring and slot (the last taken).   *)
(* Completing a future runs its callbacks at once, and the callback of a   *)
(* waiting task runs the task: what a task does after an await happens     *)
(* inside the call that completed the future, before that call returns.    *)
(* A frame of the stack is a call that is not over:                        *)
(*   run(t)     task t runs,                                               *)
(*   fire(cbs)  fireCallbacks has the callbacks cbs left,                  *)
(*   cancel(f)  a time-out has failed its future and cancels f next,       *)
(* and the loops of the module that uses this one.                         *)
(***************************************************************************)
EXTENDS RingFifo, SequencesExt

\* Futures that are finished when they are returned are not kept.
Completed == 0
Failed == -1

NewFuture == [state |-> "pending", error |-> FALSE, value |-> 0, cbs |-> <<>>]

finished(d, f) == f \in {Completed, Failed} \/ d.fut[f].state # "pending"
hasError(d, f) == f = Failed \/ (f # Completed /\ d.fut[f].error)

newFuture(d) == [d EXCEPT !.fut = Append(@, NewFuture), !.ret = Len(d.fut) + 1]
Return(d, f) == [d EXCEPT !.ret = f]

----------------------------------------------------------------------------
Push(d, frame) == [d EXCEPT !.stack = Append(@, frame)]
Pop(d) == [d EXCEPT !.stack = Front(@)]
Running(d, t) == d.stack # <<>> /\ Last(d.stack) = <<"run", t>>

\* A callback is <<"resume", t, f>> (task t awaits f), <<"inner", outer, f>> or
\* <<"outer", outer, f>> (the two of withTimeout), or one of the user's.
addCallback(d, f, cb) ==
  IF finished(d, f) THEN Push(d, <<"fire", <<cb>>>>)
  ELSE [d EXCEPT !.fut[f].cbs = Append(@, cb)]

\* The first callback has a place of its own, the others run last first.
fireCallbacks(d, f) ==
  LET cbs == d.fut[f].cbs
  IN IF cbs = <<>> THEN d
     ELSE Push([d EXCEPT !.fut[f].cbs = <<>>], <<"fire", <<Head(cbs)>> \o Reverse(Tail(cbs))>>)

Settle(d, f, state, error, value) ==
  IF finished(d, f) THEN d
  ELSE fireCallbacks([d EXCEPT !.fut[f].state = state, !.fut[f].error = error,
                               !.fut[f].value = value], f)

complete(d, f, value) == Settle(d, f, "done", FALSE, value)
fail(d, f) == Settle(d, f, "done", TRUE, 0)
cancel(d, f) == Settle(d, f, "cancelled", TRUE, 0)

----------------------------------------------------------------------------
cancelTimer(d, g) == [d EXCEPT !.timers = {m \in @ : m.outer # g}]

withTimeout(d, inner) ==
  IF finished(d, inner) THEN Return(d, inner)
  ELSE LET e == newFuture(d)
           armed == [e EXCEPT !.timers = @ \cup {[outer |-> e.ret, inner |-> inner]}]
       IN addCallback(addCallback(armed, inner, <<"inner", e.ret, inner>>),
                      e.ret, <<"outer", e.ret, inner>>)

\* Mutant: the inner future is left alone.
failOuterOnly(d, m) == LET e == cancelTimer(d, m.outer) IN fail(e, m.outer)

\* The timer of a time-out: fail the outer future, then cancel the inner one.
timeoutFires(d, m) ==
  LET e == cancelTimer(d, m.outer)
  IN IF finished(e, m.outer) THEN e ELSE fail(Push(e, <<"cancel", m.inner>>), m.outer)

innerCallback(d, outer, inner) ==
  IF finished(d, outer) THEN d
  ELSE LET e == cancelTimer(d, outer)
       IN IF hasError(e, inner) THEN fail(e, outer) ELSE complete(e, outer, e.fut[inner].value)

outerCallback(d, outer, inner) ==
  IF d.fut[outer].state = "cancelled" THEN cancel(cancelTimer(d, outer), inner) ELSE d

----------------------------------------------------------------------------
(* Tasks.  Result(d, t, f) is what task t does with the finished future f. *)

Runs(d, t) == Push([d EXCEPT !.task[t].at = "run", !.task[t].waits = 0], <<"run", t>>)
Rests(d, t) == Pop([d EXCEPT !.task[t].at = "rest"])

\* await of the future the call returned: the task goes on at once or suspends.
Await(d, t, timed, Result(_, _, _)) ==
  LET e == IF timed THEN withTimeout(d, d.ret) ELSE d
  IN IF finished(e, e.ret) THEN Result(e, t, e.ret)
     ELSE Pop(addCallback([e EXCEPT !.task[t].at = "wait", !.task[t].waits = e.ret],
                          e.ret, <<"resume", t, e.ret>>))

\* The next callback of the fire frame on top; User(d, cb) is the module's own.
CallNext(d, Result(_, _, _), User(_, _)) ==
  LET cb == Head(Last(d.stack)[2])
      left == Tail(Last(d.stack)[2])
      e == IF left = <<>> THEN Pop(d) ELSE [d EXCEPT !.stack[Len(d.stack)] = <<"fire", left>>]
  IN CASE cb[1] = "resume" -> Result(Runs(e, cb[2]), cb[2], cb[3])
       [] cb[1] = "inner" -> innerCallback(e, cb[2], cb[3])
       [] cb[1] = "outer" -> outerCallback(e, cb[2], cb[3])
       [] OTHER -> User(e, cb)

NoUser(d, cb) == d

\* No callback is on its way.
Settled(d) == d.stack = <<>> \/ Last(d.stack)[1] = "run"

\* The future that task t waits for, behind its time-out.
Behind(d, t) ==
  LET f == d.task[t].waits
      wrapped == {m \in d.timers : m.outer = f}
  IN IF wrapped = {} THEN f ELSE (CHOOSE m \in wrapped : TRUE).inner

----------------------------------------------------------------------------
(* The ISR bridge: a driver registers a future in a slot, its interrupt    *)
(* handler puts the number of the slot into the completion ring, and the   *)
(* scheduler drains the ring and completes the futures.                    *)

NoSlot == -1
FreeSlot == [active |-> FALSE, future |-> 0]

isrBridgeInit(n) == [i \in 0 .. n - 1 |-> FreeSlot]

\* The slot goes into the field slot; the future frees it when it finishes.
registerIsrFuture(d, f) ==
  LET free == {i \in DOMAIN d.slots : ~d.slots[i].active}
  IN IF free = {} THEN [d EXCEPT !.slot = NoSlot]
     ELSE addCallback([d EXCEPT !.slots[Min(free)] = [active |-> TRUE, future |-> f],
                                !.slot = Min(free)], f, <<"slot", Min(free), f>>)

releaseIsrSlotIfFuture(d, i, f) == IF d.slots[i].future = f THEN [d EXCEPT !.slots[i] = FreeSlot] ELSE d

releaseIsrSlot(d, i) == [d EXCEPT !.slots[i] = FreeSlot]

\* In the interrupt handler; a full ring drops the completion.
completeIsrSlot(d, i) ==
  IF d.slots[i].active /\ d.ring.count < size(d.ring) THEN [d EXCEPT !.ring = push(@, i)] ELSE d

\* One turn of the drain loop: the ring and the slot with interrupts disabled,
\* then the future, whose task runs before the next turn.
drainOne(d) ==
  LET i == first(d.ring)
      e == [d EXCEPT !.ring = pop([@ EXCEPT !.buf[d.ring.head] = NoSlot])]
  IN IF d.slots[i].active THEN complete(releaseIsrSlot(e, i), d.slots[i].future, 0) ELSE e

ActiveSlots(d) == {i \in DOMAIN d.slots : d.slots[i].active}
===============================================================================
