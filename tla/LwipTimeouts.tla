------------------------------ MODULE LwipTimeouts ------------------------------
(***************************************************************************)
(* The timers of the network stack (lwip_wifi_smoke/timeouts.c): a list of *)
(* pending timeouts sorted by due time, on a millisecond clock that wraps  *)
(* around, and the cyclic timers that live in it.  One loop calls          *)
(* sys_check_timeouts; handlers take time and may call the timer functions *)
(* themselves.                                                             *)
(***************************************************************************)
EXTENDS Integers, Sequences, FiniteSets, SequencesExt

CONSTANTS Wrap,         \* the clock counts modulo Wrap (2^32)
          Interval,     \* cyclic timer -> its interval_ms
          Tcp,          \* the cyclic timer that is started on demand
          Once,         \* delay of a one-shot timeout
          PoolSize,     \* elements of MEMP_SYS_TIMEOUT
          MaxLate,      \* the loop is at most this late for a timeout
          MaxOps        \* bound on calls

VARIABLES s,            \* the clock and the state of timeouts.c; check is the
                        \* time the running check began at (-1: none), handler
                        \* the cyclic timer whose handler runs (Nobody: none);
                        \* overslept: a sleep went past a due time; lost:
                        \* whose timeout the empty pool dropped
          ops           \* calls so far

vars == <<s, ops>>
Timers == DOMAIN Interval
Nobody == "nobody"
Shot == "shot"
Never == -1

----------------------------------------------------------------------------
\* Mutant: times are compared as plain numbers.
plainLess(t, than) == t < than

TIME_LESS_THAN(t, than) == (t - than + Wrap) % Wrap > (Wrap \div 2) - 1

after(t, ms) == (t + ms) % Wrap
Entry(time, who) == [time |-> time, who |-> who]

\* A new timeout goes before the first one that is due later; without an
\* element for it, it is dropped.
sys_timeout_abs(d, e) ==
  LET later == {i \in 1 .. Len(d.list) : TIME_LESS_THAN(e.time, d.list[i].time)}
      at == IF later = {} THEN Len(d.list) + 1 ELSE CHOOSE i \in later : \A j \in later : i <= j
  IN IF Len(d.list) >= PoolSize THEN [d EXCEPT !.lost = @ \cup {e.who}]
     ELSE [d EXCEPT !.list = InsertAt(@, at, e)]

sys_timeout(d, ms, who) == sys_timeout_abs(d, Entry(after(d.now, ms), who))

sys_untimeout(d, who) ==
  LET hits == {i \in 1 .. Len(d.list) : d.list[i].who = who}
  IN IF hits = {} THEN d
     ELSE [d EXCEPT !.list = RemoveAt(@, CHOOSE i \in hits : \A j \in hits : i <= j)]

\* All but the timer on demand are running from the start.
sys_timeouts_init(d) ==
  FoldSet(LAMBDA c, e : sys_timeout(e, Interval[c], c), d, Timers \ {Tcp})

tcp_timer_needed(d) ==
  IF d.pending THEN d ELSE sys_timeout([d EXCEPT !.pending = TRUE], Interval[Tcp], Tcp)

\* A cyclic timer is due: it stops, or its handler runs.
cyclic_due(d, c) ==
  CASE d.status[c] = "stopping" -> [d EXCEPT !.status[c] = "idle"]
    [] d.status[c] = "running" -> [d EXCEPT !.handler = c]
    [] OTHER -> d

\* ... and is started again, from its due time unless that has passed.
cyclic_again(d) ==
  LET next == after(d.due, Interval[d.handler])
      time == IF TIME_LESS_THAN(next, d.now) THEN after(d.now, Interval[d.handler]) ELSE next
  IN [sys_timeout_abs(d, Entry(time, d.handler)) EXCEPT !.handler = Nobody]

\* The loop of a check goes on while the first timeout is due.
more_due(d) == d.list # <<>> /\ ~TIME_LESS_THAN(d.check, d.list[1].time)

check_next(d) ==
  LET t == Head(d.list)
      e == [d EXCEPT !.list = Tail(@), !.due = t.time]
  IN IF t.who = Shot THEN e ELSE cyclic_due(e, t.who)

sys_restart_timeouts(d) ==
  [d EXCEPT !.list = [i \in 1 .. Len(@) |->
                        [@[i] EXCEPT !.time = (@ - d.list[1].time + Wrap + d.now) % Wrap]]]

sys_timeouts_sleeptime(d) ==
  IF TIME_LESS_THAN(d.list[1].time, d.now) THEN 0 ELSE (d.list[1].time - d.now + Wrap) % Wrap

timer_enable(d, c) ==
  IF d.status[c] = "idle" THEN [sys_timeout(d, Interval[c], c) EXCEPT !.status[c] = "running"]
  ELSE [d EXCEPT !.status[c] = "running"]

timer_disable(d, c) == [d EXCEPT !.status[c] = IF @ = "running" THEN "stopping" ELSE @]

----------------------------------------------------------------------------
Init ==
  /\ \E now \in {0, Wrap - 1} :
       s = sys_timeouts_init([now |-> now, list |-> <<>>, due |-> 0, check |-> Never,
                              handler |-> Nobody, pending |-> FALSE,
                              status |-> [c \in Timers |-> "running"], overslept |-> FALSE, lost |-> {}])
  /\ ops = 0

Step(d) == ops < MaxOps /\ ops' = ops + 1 /\ s' = d
Goes(d) == s' = d /\ UNCHANGED ops

\* How far ahead of the clock a time is.
Ahead(t, now) == LET x == (t - now + Wrap) % Wrap IN IF x < Wrap \div 2 THEN x ELSE x - Wrap

\* Calls, from the loop or from a handler.
NeedTcp == Step(tcp_timer_needed(s))
Start == /\ \A i \in 1 .. Len(s.list) : s.list[i].who # Shot
         /\ Step(sys_timeout(s, Once, Shot))
Cancel == Step(sys_untimeout(s, Shot))
Enable == \E c \in Timers \ {Tcp} : s.status[c] # "running" /\ Step(timer_enable(s, c))
Disable == \E c \in Timers \ {Tcp} : s.status[c] = "running" /\ Step(timer_disable(s, c))
Restart == s.list # <<>> /\ s.check = Never /\ Step(sys_restart_timeouts(s))

\* The loop.
CheckBegins == s.check = Never /\ Goes([s EXCEPT !.check = s.now])
CheckNext == s.check # Never /\ s.handler = Nobody /\ more_due(s) /\ Goes(check_next(s))
HandlerEnds == s.handler # Nobody /\ Goes(cyclic_again(s))
CheckEnds == /\ s.check # Never /\ s.handler = Nobody /\ ~more_due(s)
             /\ Goes([s EXCEPT !.check = Never])

\* The loop sleeps until something is due.
Sleep ==
  /\ s.check = Never /\ s.list # <<>>
  /\ LET ms == sys_timeouts_sleeptime(s)
         then == after(s.now, ms)
     IN Step([s EXCEPT !.now = then,
                       !.overslept = \E i \in 1 .. Len(s.list) :
                                       Ahead(s.list[i].time, s.now) \in 0 .. ms - 1])

\* Time passes; the loop is never later than MaxLate.
Tick == /\ \A i \in 1 .. Len(s.list) : Ahead(s.list[i].time, s.now) > -MaxLate
        /\ s.check = Never \/ Ahead(s.now, s.check) < MaxLate
        /\ Goes([s EXCEPT !.now = after(@, 1)])

Next == \/ NeedTcp \/ Start \/ Cancel \/ Enable \/ Disable \/ Restart
        \/ CheckBegins \/ CheckNext \/ HandlerEnds \/ CheckEnds \/ Sleep \/ Tick

Spec == Init /\ [][Next]_vars

----------------------------------------------------------------------------
\* When a check ends, everything that was due when it began has been handled,
\* also across the wrap-around of the clock.
DueHandled ==
  s.check # Never /\ s.handler = Nobody /\ ~more_due(s) =>
    \A i \in 1 .. Len(s.list) : Ahead(s.list[i].time, s.check) > 0

\* A cyclic timer that is not idle is in the list exactly once (or its handler
\* runs), an idle one is not, whatever the order of stops and starts.  One that
\* found the pool empty is in it no more, and nothing starts it again.
OnePending ==
  \A c \in Timers :
    LET n == Cardinality({i \in 1 .. Len(s.list) : s.list[i].who = c})
                + (IF s.handler = c THEN 1 ELSE 0)
        live == IF c = Tcp THEN s.pending ELSE s.status[c] # "idle"
    IN n = (IF live /\ c \notin s.lost THEN 1 ELSE 0)

\* Sleeping for sys_timeouts_sleeptime never goes past a due time.
NoOversleep == ~s.overslept
===============================================================================
