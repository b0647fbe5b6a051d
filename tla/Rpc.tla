-------------------------------- MODULE Rpc --------------------------------
(***************************************************************************)
(* What kernel/ipcbridge.nim promises its caller: the future of a call     *)
(* is completed once, either with the result of the caller's own request   *)
(* or with an error.                                                       *)
(***************************************************************************)
CONSTANTS Calls, Result(_), NoValue

VARIABLES status, value

vars == <<status, value>>

Init ==
  /\ status = [c \in Calls |-> "new"]
  /\ value = [c \in Calls |-> NoValue]

Issue(c) ==
  /\ status[c] = "new"
  /\ status' = [status EXCEPT ![c] = "waiting"]
  /\ UNCHANGED value

Answer(c) ==
  /\ status[c] = "waiting"
  /\ status' = [status EXCEPT ![c] = "ok"]
  /\ value' = [value EXCEPT ![c] = Result(c)]

(* Refused at once, no handler, or timed out. *)
Fail(c) ==
  /\ status[c] \in {"new", "waiting"}
  /\ status' = [status EXCEPT ![c] = "failed"]
  /\ UNCHANGED value

Next == \E c \in Calls : Issue(c) \/ Answer(c) \/ Fail(c)

Spec == Init /\ [][Next]_vars
=============================================================================
