------------------------------ MODULE PeerControl ------------------------------
(***************************************************************************)
(* Control of the WASM tasks of another core (wasm_peer_control.nim): M0   *)
(* writes a request into a record in shared memory, the peer polls the     *)
(* record, works and writes its result into the same record, and M0 polls  *)
(* for it and may give up.  Each step is one access to the record.         *)
(*                                                                         *)
(* Requests are numbered by their seq, and every word of a request holds   *)
(* that number, so that a mixture shows.  op stands for the words the peer *)
(* reads before it claims a request, arg for those it reads afterwards,    *)
(* task for the words a result overwrites, value for the result's own.     *)
(***************************************************************************)
EXTENDS Integers, Sequences, TLAPS

CONSTANTS MaxTimeouts,  \* bound on requests M0 gives up
          MaxOps        \* bound on requests and set-ups

VARIABLES s,            \* mem: the record; at, i: where M0 is; n: its request,
                        \* got: the result it read; peer, j: where the peer is,
                        \* req: the request it read; timeouts so far; ghosts:
                        \* clean: the peer was at rest when request n began,
                        \* and the record has not been set up anew since;
                        \* runs, ran: how often the peer has worked since, and
                        \* on what last
          ops           \* requests and set-ups so far

vars == <<s, ops>>

\* WasmPeerControlState and, for status, WasmControlStatus.
Idle == 0
Pending == 1
Done == 2
Busy == 3
BadRequest == 4
Ok == 0
BadSlot == 1
Stage == 2              \* a debug stage
Noop == 0
BadOpcode == -1

----------------------------------------------------------------------------
\* The words in the order the code accesses them, before state.
RequestWords == <<"magic", "seq", "op", "task", "arg">>
ReadWords == <<"seq", "op", "task">>
ResultWords == <<"task", "status", "value", "seq">>
BadWords == <<"status", "seq">>
ReplyWords == <<"task", "status", "value">>
InitWords == <<"op", "seq", "task", "status", "value", "arg", "magic">>

M0 == s.at
Set(word, v) == [s.mem EXCEPT ![word] = v]

----------------------------------------------------------------------------
(* M0.                                                                     *)

\* initPeerWasmControlMailbox: state first, magic last.
initPeerWasmControlMailbox ==
  /\ M0 = "idle" /\ ops < MaxOps /\ ops' = ops + 1
  /\ s' = [s EXCEPT !.mem = Set("state", Idle), !.at = "init", !.i = 1, !.clean = FALSE]

InitWord ==
  /\ M0 = "init" /\ s.i <= Len(InitWords) /\ UNCHANGED ops
  /\ s' = [s EXCEPT !.mem = Set(InitWords[s.i], IF InitWords[s.i] = "magic" THEN 1 ELSE 0), !.i = @ + 1]

InitReturns == M0 = "init" /\ s.i > Len(InitWords) /\ UNCHANGED ops /\ s' = [s EXCEPT !.at = "idle"]

dispatchPeerRequest ==
  /\ M0 = "idle" /\ ops < MaxOps /\ ops' = ops + 1
  /\ s' = [s EXCEPT !.at = "publish", !.i = 1, !.n = @ + 1, !.runs = 0, !.ran = <<>>,
                    !.clean = s.peer = "idle" /\ s.mem["state"] # Pending]

PublishWord ==
  /\ M0 = "publish" /\ s.i <= Len(RequestWords) /\ UNCHANGED ops
  /\ s' = [s EXCEPT !.mem = Set(RequestWords[s.i], IF RequestWords[s.i] = "magic" THEN 1 ELSE s.n), !.i = @ + 1]

\* Mutant: the peer may take the request before its last word.
publishEarly ==
  /\ M0 = "publish" /\ s.i = Len(RequestWords) /\ UNCHANGED ops
  /\ s' = [s EXCEPT !.mem = Set("state", Pending), !.at = "poll"]

publishPeerRequest ==
  /\ M0 = "publish" /\ s.i > Len(RequestWords) /\ UNCHANGED ops
  /\ s' = [s EXCEPT !.mem = Set("state", Pending), !.at = "poll"]

PollSeq ==
  M0 = "poll" /\ s.mem["magic"] = 1 /\ s.mem["seq"] = s.n /\ UNCHANGED ops /\ s' = [s EXCEPT !.at = "state"]

PollState ==
  /\ M0 = "state" /\ UNCHANGED ops
  /\ s' = IF s.mem["state"] \in {Done, BadRequest} THEN [s EXCEPT !.at = "read", !.i = 1]
          ELSE [s EXCEPT !.at = "poll"]

readPeerResult ==
  /\ M0 = "read" /\ s.i <= Len(ReplyWords) /\ UNCHANGED ops
  /\ s' = [s EXCEPT !.got = [@ EXCEPT ![ReplyWords[s.i]] = s.mem[ReplyWords[s.i]]], !.i = @ + 1]

\* The caller goes on with the result until its next request.
ResultTaken == M0 = "read" /\ s.i > Len(ReplyWords) /\ UNCHANGED ops /\ s' = [s EXCEPT !.at = "taken"]
CallerGoesOn == M0 = "taken" /\ UNCHANGED ops /\ s' = [s EXCEPT !.at = "idle"]

GivesUp ==
  /\ M0 = "poll" /\ s.timeouts < MaxTimeouts /\ UNCHANGED ops
  /\ s' = [s EXCEPT !.at = "idle", !.timeouts = @ + 1]

----------------------------------------------------------------------------
(* The peer: servicePeerWasmControlCommand.                                *)

Peer(name) == s.peer = name /\ UNCHANGED ops

Looks ==
  /\ Peer("idle") /\ s.mem["magic"] = 1 /\ s.mem["state"] = Pending
  /\ s' = [s EXCEPT !.peer = "read", !.j = 1]

ReadWord ==
  /\ Peer("read") /\ s.j <= Len(ReadWords)
  /\ s' = [s EXCEPT !.req = [@ EXCEPT ![ReadWords[s.j]] = s.mem[ReadWords[s.j]]], !.j = @ + 1]

Claims ==
  /\ Peer("read") /\ s.j > Len(ReadWords)
  /\ s' = IF s.req["op"] = BadOpcode THEN [s EXCEPT !.peer = "bad", !.j = 1]
          ELSE [s EXCEPT !.mem = Set("state", Busy), !.peer = "stage"]

writePeerDebugStage == Peer("stage") /\ s' = [s EXCEPT !.mem = Set("status", Stage), !.peer = "args"]

ReadArgs == Peer("args") /\ s' = [s EXCEPT !.req = [@ EXCEPT !["arg"] = s.mem["arg"]], !.peer = "work"]

\* The work itself, between two more debug stages.
Works ==
  /\ Peer("work")
  /\ s' = [s EXCEPT !.mem = Set("status", Stage), !.peer = "result", !.j = 1, !.runs = @ + 1,
                    !.ran = <<s.req["op"], s.req["task"], s.req["arg"]>>]

\* What the peer's result is for request req: its number, when all words are
\* of one request; the task of a result is told apart by its sign.
Outcome == IF s.req["op"] = s.req["task"] /\ s.req["op"] = s.req["arg"] THEN s.req["op"] ELSE 0

ResultWord(word) ==
  CASE word = "seq" -> s.req["seq"]
    [] word = "task" -> 0 - Outcome
    [] word = "status" -> IF s.req["op"] = Noop THEN BadSlot ELSE Ok
    [] OTHER -> Outcome

writePeerResult ==
  /\ Peer("result") /\ s.j <= Len(ResultWords)
  /\ s' = [s EXCEPT !.mem = Set(ResultWords[s.j], ResultWord(ResultWords[s.j])), !.j = @ + 1]

\* Mutant: the result is declared done before its last words.
doneEarly ==
  Peer("result") /\ s.j = Len(ResultWords) - 1 /\ s' = [s EXCEPT !.mem = Set("state", Done), !.peer = "idle"]

\* Mutant: the result is written and never declared.
keepBusy == Peer("result") /\ s.j > Len(ResultWords) /\ s' = [s EXCEPT !.peer = "idle"]

PublishesResult ==
  Peer("result") /\ s.j > Len(ResultWords) /\ s' = [s EXCEPT !.mem = Set("state", Done), !.peer = "idle"]

writePeerBadRequest ==
  /\ Peer("bad") /\ s.j <= Len(BadWords)
  /\ s' = [s EXCEPT !.mem = Set(BadWords[s.j], IF BadWords[s.j] = "seq" THEN s.req["seq"] ELSE BadSlot), !.j = @ + 1]

Refuses == Peer("bad") /\ s.j > Len(BadWords) /\ s' = [s EXCEPT !.mem = Set("state", BadRequest), !.peer = "idle"]

----------------------------------------------------------------------------
Words == {"magic", "seq", "op", "task", "arg", "state", "status", "value"}

\* The shared memory holds anything at the start.
Init ==
  /\ \E magic \in {0, 1}, state \in {Idle, Pending, Done}, op \in {Noop, BadOpcode} :
       s = [mem |-> [w \in Words |-> CASE w = "magic" -> magic [] w = "state" -> state [] w = "op" -> op [] OTHER -> 0],
            at |-> "idle", i |-> 1, n |-> 0, got |-> [w \in Words |-> 0],
            peer |-> "idle", j |-> 1, req |-> [w \in Words |-> 0],
            timeouts |-> 0, clean |-> FALSE, runs |-> 0, ran |-> <<>>]
  /\ ops = 0

Caller ==
  \/ initPeerWasmControlMailbox \/ InitWord \/ InitReturns
  \/ dispatchPeerRequest \/ PublishWord \/ publishPeerRequest
  \/ PollSeq \/ PollState \/ readPeerResult \/ ResultTaken \/ CallerGoesOn \/ GivesUp

Worker ==
  \/ Looks \/ ReadWord \/ Claims \/ writePeerDebugStage \/ ReadArgs \/ Works
  \/ writePeerResult \/ PublishesResult \/ writePeerBadRequest \/ Refuses

Next == Caller \/ Worker

Spec == Init /\ [][Next]_vars

\* M0 goes on with what it began, and the peer's main loop keeps servicing the
\* record.  That M0 gives up or begins something new is not relied on.
Progress ==
  \/ InitWord \/ InitReturns \/ PublishWord \/ publishPeerRequest
  \/ PollSeq \/ PollState \/ readPeerResult \/ ResultTaken \/ CallerGoesOn

FairSpec == Spec /\ WF_vars(Progress) /\ WF_vars(Worker)

----------------------------------------------------------------------------
\* A request that began while the peer was at rest is answered with its own
\* result, whatever earlier requests M0 gave up and however late the peer was
\* with them (dispatchPeerRequest matches answers by seq and state only).
ResultOfRequest ==
  (s.clean /\ s.at = "taken") =>
    s.got["task"] = 0 - s.n /\ s.got["status"] = Ok /\ s.got["value"] = s.n

\* The peer works on such a request once, with the words of that request only,
\* and before its result is taken.
RunOnce ==
  s.clean => /\ s.runs <= 1
             /\ s.runs = 1 => s.ran = <<s.n, s.n, s.n>>
             /\ s.at = "taken" => s.runs = 1

\* While M0 polls for it, such a request waits to be seen, is being worked on,
\* or its answer is there: M0 never polls for what will not come.
NotForgotten ==
  (s.clean /\ s.at \in {"poll", "state"}) =>
    \/ s.peer = "idle" /\ s.mem["state"] \in {Pending, Done} /\ s.mem["magic"] = 1
    \/ s.peer \in {"read", "stage", "args", "work", "result"}

\* Such a request, once published, is answered unless M0 gives up first: the
\* answer alone ends the polling, not the time-out.
AnswerComes == (s.clean /\ s.at = "poll") ~> (s.at \in {"taken", "idle"})

----------------------------------------------------------------------------
(* Proofs, for any number of requests, set-ups and requests given up.      *)

Places == {"idle", "init", "publish", "poll", "state", "read", "taken"}
PeerPlaces == {"idle", "read", "stage", "args", "work", "result", "bad"}
Pos == Nat \ {0}

RecordType ==
  [mem : [Words -> Int], at : Places, i : Pos, n : Nat, got : [Words -> Int],
   peer : PeerPlaces, j : Pos, req : [Words -> Int], timeouts : Int,
   clean : BOOLEAN, runs : Nat, ran : Seq(Int)]

\* The stages of a request that began with the peer at rest.
Holds(words, v) == \A w \in words : s.mem[w] = v
Read(words, v) == \A w \in words : s.req[w] = v

\* M0 writes it; the peer has no reason to move.
Publishing ==
  /\ s.at = "publish" /\ s.peer = "idle" /\ s.mem["state"] # Pending /\ s.runs = 0 /\ s.i \in 1 .. 6
  /\ s.i > 1 => s.mem["magic"] = 1
  /\ s.i > 2 => s.mem["seq"] = s.n
  /\ s.i > 3 => s.mem["op"] = s.n
  /\ s.i > 4 => s.mem["task"] = s.n
  /\ s.i > 5 => s.mem["arg"] = s.n

\* It lies there whole, seen or not.
Waits ==
  /\ s.mem["state"] = Pending /\ Holds({"op", "task", "arg"}, s.n) /\ s.runs = 0
  /\ \/ s.peer = "idle"
     \/ /\ s.peer = "read" /\ s.j \in 1 .. 4
        /\ s.j > 1 => s.req["seq"] = s.n
        /\ s.j > 2 => s.req["op"] = s.n
        /\ s.j > 3 => s.req["task"] = s.n

\* The peer has claimed it.
Claimed ==
  /\ s.mem["state"] = Busy /\ Read({"seq", "op", "task"}, s.n) /\ s.runs = 0
  /\ \/ s.peer \in {"stage", "args"} /\ s.mem["arg"] = s.n
     \/ s.peer = "work" /\ s.req["arg"] = s.n

\* The peer has worked on it, and writes the result.
Ran == s.runs = 1 /\ s.ran = <<s.n, s.n, s.n>>
Answering ==
  /\ s.mem["state"] = Busy /\ Read({"seq", "op", "task", "arg"}, s.n) /\ Ran
  /\ s.peer = "result" /\ s.j \in 1 .. 5
  /\ s.j > 1 => s.mem["task"] = 0 - s.n
  /\ s.j > 2 => s.mem["status"] = Ok
  /\ s.j > 3 => s.mem["value"] = s.n

\* The result lies there, and M0 may be reading it.
Answered ==
  /\ s.mem["state"] = Done /\ Ran /\ s.peer = "idle"
  /\ s.mem["task"] = 0 - s.n /\ s.mem["status"] = Ok /\ s.mem["value"] = s.n

Taking ==
  s.at \in {"read", "taken"} =>
    /\ Answered /\ s.i \in 1 .. 4
    /\ s.i > 1 => s.got["task"] = 0 - s.n
    /\ s.i > 2 => s.got["status"] = Ok
    /\ s.i > 3 => s.got["value"] = s.n
    /\ s.at = "taken" => s.i = 4

UnderWay ==
  /\ s.at \in {"idle", "poll", "state", "read", "taken"} /\ s.mem["magic"] = 1 /\ s.mem["seq"] = s.n
  /\ Waits \/ Claimed \/ Answering \/ Answered
  /\ Taking

Stages == s.clean => s.n >= 1 /\ (Publishing \/ UnderWay)

IInv == s \in RecordType /\ Stages

----------------------------------------------------------------------------
\* The order of the words.
LEMMA WordOrder ==
  /\ Len(RequestWords) = 5 /\ Len(ReadWords) = 3 /\ Len(ResultWords) = 4 /\ Len(BadWords) = 2
  /\ Len(ReplyWords) = 3 /\ Len(InitWords) = 7
  /\ RequestWords[1] = "magic" /\ RequestWords[2] = "seq" /\ RequestWords[3] = "op"
  /\ RequestWords[4] = "task" /\ RequestWords[5] = "arg"
  /\ ReadWords[1] = "seq" /\ ReadWords[2] = "op" /\ ReadWords[3] = "task"
  /\ ResultWords[1] = "task" /\ ResultWords[2] = "status" /\ ResultWords[3] = "value" /\ ResultWords[4] = "seq"
  /\ BadWords[1] = "status" /\ BadWords[2] = "seq"
  /\ ReplyWords[1] = "task" /\ ReplyWords[2] = "status" /\ ReplyWords[3] = "value"
  BY Zenon DEF RequestWords, ReadWords, ResultWords, BadWords, ReplyWords, InitWords

LEMMA WordsTyped ==
  /\ \A k \in Nat : 1 <= k /\ k <= Len(RequestWords) => RequestWords[k] \in Words
  /\ \A k \in Nat : 1 <= k /\ k <= Len(ReadWords) => ReadWords[k] \in Words
  /\ \A k \in Nat : 1 <= k /\ k <= Len(ResultWords) => ResultWords[k] \in Words
  /\ \A k \in Nat : 1 <= k /\ k <= Len(BadWords) => BadWords[k] \in Words
  /\ \A k \in Nat : 1 <= k /\ k <= Len(ReplyWords) => ReplyWords[k] \in Words
  /\ \A k \in Nat : 1 <= k /\ k <= Len(InitWords) => InitWords[k] \in Words
  BY DEF RequestWords, ReadWords, ResultWords, BadWords, ReplyWords, InitWords, Words

----------------------------------------------------------------------------
\* A word written to the record changes that word only.
LEMMA SetWord ==
  ASSUME s \in RecordType
  PROVE  \A w \in Words, v \in Int :
           /\ Set(w, v) \in [Words -> Int]
           /\ Set(w, v)[w] = v
           /\ \A x \in Words \ {w} : Set(w, v)[x] = s.mem[x]
<1>1. s.mem \in [Words -> Int]
  BY Zenon DEF RecordType
<1>. QED
  BY Zenon, <1>1 DEF Set

\* So does a word read from it.
LEMMA Update ==
  ASSUME NEW f \in [Words -> Int], NEW w \in Words, NEW v \in Int
  PROVE  /\ [f EXCEPT ![w] = v] \in [Words -> Int]
         /\ [f EXCEPT ![w] = v][w] = v
         /\ \A x \in Words \ {w} : [f EXCEPT ![w] = v][x] = f[x]
  OBVIOUS

\* Where M0 and the peer are tells the stage of the request.
LEMMA Where ==
  ASSUME Stages, s.clean
  PROVE  /\ s.n >= 1 /\ s.at # "init" /\ s.peer # "bad"
         /\ s.at = "publish" => Publishing
         /\ s.at # "publish" => UnderWay
         /\ s.peer = "read" => UnderWay /\ Waits
         /\ s.peer \in {"stage", "args", "work"} => UnderWay /\ Claimed
         /\ s.peer = "result" => UnderWay /\ Answering
         /\ s.peer # "idle" => s.at \in {"idle", "poll", "state"}
  BY Zenon DEF Stages, Publishing, UnderWay, Waits, Claimed, Answering, Answered, Taking

\* The invariant is inductive.
LEMMA Inductive ==
  ASSUME IInv, [Next]_vars
  PROVE  IInv'
<1>0. s \in RecordType /\ Stages
  BY Zenon DEF IInv
<1>t. /\ s.mem \in [Words -> Int] /\ s.got \in [Words -> Int] /\ s.req \in [Words -> Int]
      /\ s.i \in Pos /\ s.j \in Pos /\ s.n \in Nat /\ s.runs \in Nat /\ s.timeouts \in Int
  BY Zenon, <1>0 DEF RecordType
<1>p. /\ 1 \in Pos /\ \A k \in Pos : k \in Nat /\ k >= 1 /\ k + 1 \in Pos
      /\ <<>> \in Seq(Int)
  BY DEF Pos
<1>1. CASE initPeerWasmControlMailbox
  <2>1. "state" \in Words
    BY Zenon DEF Words
  <2>2. Idle \in Int
    BY DEF Idle
  <2>3. PICK m \in [Words -> Int] :
           /\ m = Set("state", Idle)
           /\ m["state"] = Idle
           /\ \A x \in Words \ {"state"} : m[x] = s.mem[x]
    BY <1>0, <2>1, <2>2, SetWord
  <2>4. s.at = "idle" /\ s' = [s EXCEPT !.mem = m, !.at = "init", !.i = 1, !.clean = FALSE]
    BY Zenon, <1>1, <2>3 DEF initPeerWasmControlMailbox, M0
  <2>5. s' \in RecordType
    BY Zenon, <1>0, <1>p, <2>4 DEF RecordType, Places, PeerPlaces
  <2>6. Stages'
    BY Zenon, <1>0, <2>4 DEF RecordType, Stages
  <2>. QED
    BY Zenon, <2>5, <2>6 DEF IInv
<1>2. CASE InitWord
  <2>1. InitWords[s.i] \in Words
    BY Zenon, <1>t, <1>p, <1>2, WordsTyped DEF InitWord, M0
  <2>2. (IF InitWords[s.i] = "magic" THEN 1 ELSE 0) \in Int
    BY <1>t, <2>1
  <2>3. PICK m \in [Words -> Int] :
           /\ m = Set(InitWords[s.i], IF InitWords[s.i] = "magic" THEN 1 ELSE 0)
           /\ m[InitWords[s.i]] = (IF InitWords[s.i] = "magic" THEN 1 ELSE 0)
           /\ \A x \in Words \ {InitWords[s.i]} : m[x] = s.mem[x]
    BY <1>0, <2>1, <2>2, SetWord
  <2>4. PICK k \in Pos : k = s.i + 1
    BY Zenon, <1>t, <1>p
  <2>5. s.at = "init" /\ s.i <= Len(InitWords) /\ s' = [s EXCEPT !.mem = m, !.i = k]
    BY Zenon, <1>2, <2>3, <2>4 DEF InitWord, M0
  <2>6. s' \in RecordType
    BY Zenon, <1>0, <1>p, <2>5 DEF RecordType, Places, PeerPlaces
  <2>7. s'.clean = s.clean
    BY Zenon, <1>0, <2>5 DEF RecordType
  <2>8. ~ s.clean
    BY Zenon, <1>0, <2>5, Where
  <2>. QED
    BY Zenon, <2>6, <2>7, <2>8 DEF IInv, Stages
<1>3. CASE InitReturns
  <2>1. s.at = "init" /\ s' = [s EXCEPT !.at = "idle"]
    BY Zenon, <1>3 DEF InitReturns, M0
  <2>2. s' \in RecordType
    BY Zenon, <1>0, <1>p, <2>1 DEF RecordType, Places, PeerPlaces
  <2>3. s'.clean = s.clean
    BY Zenon, <1>0, <2>1 DEF RecordType
  <2>4. ~ s.clean
    BY Zenon, <1>0, <2>1, Where
  <2>. QED
    BY Zenon, <2>2, <2>3, <2>4 DEF IInv, Stages
<1>4. CASE dispatchPeerRequest
  <2>1. PICK k \in Nat : k = s.n + 1
    BY <1>t, <1>p
  <2>2. PICK b \in BOOLEAN : b = (s.peer = "idle" /\ s.mem["state"] # Pending)
    OBVIOUS
  <2>3. s.at = "idle" /\ s' = [s EXCEPT !.at = "publish", !.i = 1, !.n = k, !.clean = b, !.runs = 0, !.ran = <<>>]
    BY Zenon, <1>4, <2>1, <2>2 DEF dispatchPeerRequest, M0
  <2>4. s' \in RecordType
    BY Zenon, <1>0, <1>p, <2>3 DEF RecordType, Places, PeerPlaces
  <2>5. /\ s'.mem = s.mem /\ s'.at = "publish" /\ s'.i = 1 /\ s'.n = k /\ s'.got = s.got /\ s'.peer = s.peer
        /\ s'.j = s.j /\ s'.req = s.req /\ s'.clean = b /\ s'.runs = 0 /\ s'.ran = <<>>
    BY Zenon, <1>0, <2>3 DEF RecordType
  <2>6. ASSUME b PROVE s'.n >= 1 /\ Publishing'
    <3>1. s.peer = "idle" /\ s.mem["state"] # Pending
      BY Zenon, <2>2, <2>6
    <3>2. k >= 1
      BY <1>t, <2>1
    <3>. QED
      BY <2>5, <3>1, <3>2 DEF Publishing
  <2>. QED
    BY Zenon, <2>4, <2>5, <2>6 DEF IInv, Stages
<1>5. CASE PublishWord
  <2>1. RequestWords[s.i] \in Words
    BY Zenon, <1>t, <1>p, <1>5, WordsTyped DEF PublishWord, M0
  <2>2. (IF RequestWords[s.i] = "magic" THEN 1 ELSE s.n) \in Int
    BY <1>t, <2>1
  <2>3. PICK m \in [Words -> Int] :
           /\ m = Set(RequestWords[s.i], IF RequestWords[s.i] = "magic" THEN 1 ELSE s.n)
           /\ m[RequestWords[s.i]] = (IF RequestWords[s.i] = "magic" THEN 1 ELSE s.n)
           /\ \A x \in Words \ {RequestWords[s.i]} : m[x] = s.mem[x]
    BY <1>0, <2>1, <2>2, SetWord
  <2>4. PICK k \in Pos : k = s.i + 1
    BY Zenon, <1>t, <1>p
  <2>5. s.at = "publish" /\ s.i <= Len(RequestWords) /\ s' = [s EXCEPT !.mem = m, !.i = k]
    BY Zenon, <1>5, <2>3, <2>4 DEF PublishWord, M0
  <2>6. s' \in RecordType
    BY Zenon, <1>0, <1>p, <2>5 DEF RecordType, Places, PeerPlaces
  <2>7. /\ s'.mem = m /\ s'.at = s.at /\ s'.i = k /\ s'.n = s.n /\ s'.got = s.got /\ s'.peer = s.peer
        /\ s'.j = s.j /\ s'.req = s.req /\ s'.clean = s.clean /\ s'.runs = s.runs /\ s'.ran = s.ran
    BY Zenon, <1>0, <2>5 DEF RecordType
  <2>8. ASSUME s.clean PROVE s.n >= 1 /\ Publishing'
    <3>1. s.n >= 1 /\ Publishing
      BY Zenon, <1>0, <2>5, <2>8, Where
    <3>. QED
      BY <1>t, <1>p, <2>3, <2>4, <2>5, <2>7, <3>1, WordOrder
         DEF Publishing, Words, Pending, Done, Busy, Ok
  <2>. QED
    BY Zenon, <2>6, <2>7, <2>8 DEF IInv, Stages
<1>6. CASE publishPeerRequest
  <2>1. "state" \in Words
    BY Zenon DEF Words
  <2>2. Pending \in Int
    BY DEF Pending
  <2>3. PICK m \in [Words -> Int] :
           /\ m = Set("state", Pending)
           /\ m["state"] = Pending
           /\ \A x \in Words \ {"state"} : m[x] = s.mem[x]
    BY <1>0, <2>1, <2>2, SetWord
  <2>4. s.at = "publish" /\ s.i > Len(RequestWords) /\ s' = [s EXCEPT !.mem = m, !.at = "poll"]
    BY Zenon, <1>6, <2>3 DEF publishPeerRequest, M0
  <2>5. s' \in RecordType
    BY Zenon, <1>0, <1>p, <2>4 DEF RecordType, Places, PeerPlaces
  <2>6. /\ s'.mem = m /\ s'.at = "poll" /\ s'.i = s.i /\ s'.n = s.n /\ s'.got = s.got /\ s'.peer = s.peer
        /\ s'.j = s.j /\ s'.req = s.req /\ s'.clean = s.clean /\ s'.runs = s.runs /\ s'.ran = s.ran
    BY Zenon, <1>0, <2>4 DEF RecordType
  <2>7. ASSUME s.clean PROVE s.n >= 1 /\ UnderWay'
    <3>1. s.n >= 1 /\ Publishing
      BY Zenon, <1>0, <2>4, <2>7, Where
    <3>. QED
      BY <1>t, <1>p, <2>3, <2>4, <2>6, <3>1, WordOrder
         DEF Publishing, UnderWay, Waits, Taking, Holds, Words, Pending, Done, Busy, Ok
  <2>. QED
    BY Zenon, <2>5, <2>6, <2>7 DEF IInv, Stages
<1>7. CASE PollSeq
  <2>1. s.at = "poll" /\ s' = [s EXCEPT !.at = "state"]
    BY Zenon, <1>7 DEF PollSeq, M0
  <2>2. s' \in RecordType
    BY Zenon, <1>0, <1>p, <2>1 DEF RecordType, Places, PeerPlaces
  <2>3. /\ s'.mem = s.mem /\ s'.at = "state" /\ s'.i = s.i /\ s'.n = s.n /\ s'.got = s.got /\ s'.peer = s.peer
        /\ s'.j = s.j /\ s'.req = s.req /\ s'.clean = s.clean /\ s'.runs = s.runs /\ s'.ran = s.ran
    BY Zenon, <1>0, <2>1 DEF RecordType
  <2>4. ASSUME s.clean PROVE s.n >= 1 /\ UnderWay'
    <3>1. s.n >= 1 /\ UnderWay
      BY Zenon, <1>0, <2>1, <2>4, Where
    <3>. QED
      BY Zenon, <1>t, <1>p, <2>1, <2>3, <3>1
         DEF Stages, Publishing, UnderWay, Waits, Claimed, Answering, Answered, Taking, Ran, Holds,
         Read, Words, Pending, Done, Busy, Ok
  <2>. QED
    BY Zenon, <2>2, <2>3, <2>4 DEF IInv, Stages
<1>8. CASE PollState
  <2>1. /\ s.at = "state"
        /\ \/ s' = [s EXCEPT !.at = "poll"]
           \/ s.mem["state"] \in {Done, BadRequest} /\ s' = [s EXCEPT !.at = "read", !.i = 1]
    BY Zenon, <1>8 DEF PollState, M0
  <2>2. s' \in RecordType
    BY Zenon, <1>0, <1>p, <2>1 DEF RecordType, Places
  <2>3. /\ s'.mem = s.mem /\ s'.n = s.n /\ s'.got = s.got /\ s'.peer = s.peer /\ s'.j = s.j
        /\ s'.req = s.req /\ s'.clean = s.clean /\ s'.runs = s.runs /\ s'.ran = s.ran
        /\ \/ s'.at = "poll"
           \/ s.mem["state"] \in {Done, BadRequest} /\ s'.at = "read" /\ s'.i = 1
    BY Zenon, <1>0, <2>1 DEF RecordType
  <2>4. ASSUME s.clean PROVE s.n >= 1 /\ UnderWay'
    <3>1. s.n >= 1 /\ UnderWay
      BY Zenon, <1>0, <2>1, <2>4, Where
    <3>2. (Waits \/ Claimed \/ Answering \/ Answered)'
      BY Zenon, <2>3, <3>1 DEF UnderWay, Waits, Claimed, Answering, Answered, Ran, Holds, Read
    <3>3. s.mem["state"] \in {Done, BadRequest} => Answered
      BY <3>1 DEF UnderWay, Waits, Claimed, Answering, Pending, Busy, Done, BadRequest
    <3>4. Answered => Answered'
      BY Zenon, <2>3 DEF Answered, Ran
    <3>. QED
      BY <2>3, <3>1, <3>2, <3>3, <3>4 DEF UnderWay, Taking
  <2>. QED
    BY Zenon, <2>2, <2>3, <2>4 DEF IInv, Stages
<1>9. CASE readPeerResult
  <2>1. ReplyWords[s.i] \in Words
    BY Zenon, <1>t, <1>p, <1>9, WordsTyped DEF readPeerResult, M0
  <2>2. s.mem[ReplyWords[s.i]] \in Int
    BY Zenon, <1>t, <2>1
  <2>3. PICK m \in [Words -> Int] :
           /\ m = [s.got EXCEPT ![ReplyWords[s.i]] = s.mem[ReplyWords[s.i]]]
           /\ m[ReplyWords[s.i]] = s.mem[ReplyWords[s.i]]
           /\ \A x \in Words \ {ReplyWords[s.i]} : m[x] = s.got[x]
    <3>1. s.got \in [Words -> Int]
      BY Zenon, <1>t
    <3>2. /\ [s.got EXCEPT ![ReplyWords[s.i]] = s.mem[ReplyWords[s.i]]] \in [Words -> Int]
          /\ [s.got EXCEPT ![ReplyWords[s.i]] = s.mem[ReplyWords[s.i]]][ReplyWords[s.i]] = s.mem[ReplyWords[s.i]]
          /\ \A x \in Words \ {ReplyWords[s.i]} : [s.got EXCEPT ![ReplyWords[s.i]] = s.mem[ReplyWords[s.i]]][x] = s.got[x]
      BY Zenon, <2>1, <2>2, <3>1, Update
    <3>. QED
      BY Zenon, <3>2
  <2>4. PICK k \in Pos : k = s.i + 1
    BY Zenon, <1>t, <1>p
  <2>5. s.at = "read" /\ s.i <= Len(ReplyWords) /\ s' = [s EXCEPT !.i = k, !.got = m]
    BY Zenon, <1>9, <2>3, <2>4 DEF readPeerResult, M0
  <2>6. s' \in RecordType
    BY Zenon, <1>0, <1>p, <2>5 DEF RecordType, Places, PeerPlaces
  <2>7. /\ s'.mem = s.mem /\ s'.at = s.at /\ s'.i = k /\ s'.n = s.n /\ s'.got = m /\ s'.peer = s.peer
        /\ s'.j = s.j /\ s'.req = s.req /\ s'.clean = s.clean /\ s'.runs = s.runs /\ s'.ran = s.ran
    BY Zenon, <1>0, <2>5 DEF RecordType
  <2>8. ASSUME s.clean PROVE s.n >= 1 /\ UnderWay'
    <3>1. s.n >= 1 /\ UnderWay
      BY Zenon, <1>0, <2>5, <2>8, Where
    <3>. QED
      BY <1>t, <1>p, <2>3, <2>4, <2>5, <2>7, <3>1, WordOrder
         DEF UnderWay, Answered, Taking, Ran, Words, Pending, Done, Busy, Ok
  <2>. QED
    BY Zenon, <2>6, <2>7, <2>8 DEF IInv, Stages
<1>10. CASE ResultTaken
  <2>1. s.at = "read" /\ s.i > Len(ReplyWords) /\ s' = [s EXCEPT !.at = "taken"]
    BY Zenon, <1>10 DEF ResultTaken, M0
  <2>2. s' \in RecordType
    BY Zenon, <1>0, <1>p, <2>1 DEF RecordType, Places, PeerPlaces
  <2>3. /\ s'.mem = s.mem /\ s'.at = "taken" /\ s'.i = s.i /\ s'.n = s.n /\ s'.got = s.got /\ s'.peer = s.peer
        /\ s'.j = s.j /\ s'.req = s.req /\ s'.clean = s.clean /\ s'.runs = s.runs /\ s'.ran = s.ran
    BY Zenon, <1>0, <2>1 DEF RecordType
  <2>4. ASSUME s.clean PROVE s.n >= 1 /\ UnderWay'
    <3>1. s.n >= 1 /\ UnderWay
      BY Zenon, <1>0, <2>1, <2>4, Where
    <3>. QED
      BY <1>t, <1>p, <2>1, <2>3, <3>1, WordOrder
         DEF UnderWay, Answered, Taking, Ran, Words, Pending, Done, Busy, Ok
  <2>. QED
    BY Zenon, <2>2, <2>3, <2>4 DEF IInv, Stages
<1>11. CASE CallerGoesOn
  <2>1. s.at = "taken" /\ s' = [s EXCEPT !.at = "idle"]
    BY Zenon, <1>11 DEF CallerGoesOn, M0
  <2>2. s' \in RecordType
    BY Zenon, <1>0, <1>p, <2>1 DEF RecordType, Places, PeerPlaces
  <2>3. /\ s'.mem = s.mem /\ s'.at = "idle" /\ s'.i = s.i /\ s'.n = s.n /\ s'.got = s.got /\ s'.peer = s.peer
        /\ s'.j = s.j /\ s'.req = s.req /\ s'.clean = s.clean /\ s'.runs = s.runs /\ s'.ran = s.ran
    BY Zenon, <1>0, <2>1 DEF RecordType
  <2>4. ASSUME s.clean PROVE s.n >= 1 /\ UnderWay'
    <3>1. s.n >= 1 /\ UnderWay
      BY Zenon, <1>0, <2>1, <2>4, Where
    <3>. QED
      BY Zenon, <1>t, <1>p, <2>1, <2>3, <3>1
         DEF UnderWay, Answered, Taking, Ran, Words, Pending, Done, Busy, Ok
  <2>. QED
    BY Zenon, <2>2, <2>3, <2>4 DEF IInv, Stages
<1>12. CASE GivesUp
  <2>1. PICK k \in Int : k = s.timeouts + 1
    BY <1>t, <1>p
  <2>2. s.at = "poll" /\ s' = [s EXCEPT !.at = "idle", !.timeouts = k]
    BY Zenon, <1>12, <2>1 DEF GivesUp, M0
  <2>3. s' \in RecordType
    BY Zenon, <1>0, <1>p, <2>2 DEF RecordType, Places, PeerPlaces
  <2>4. /\ s'.mem = s.mem /\ s'.at = "idle" /\ s'.i = s.i /\ s'.n = s.n /\ s'.got = s.got /\ s'.peer = s.peer
        /\ s'.j = s.j /\ s'.req = s.req /\ s'.clean = s.clean /\ s'.runs = s.runs /\ s'.ran = s.ran
    BY Zenon, <1>0, <2>2 DEF RecordType
  <2>5. ASSUME s.clean PROVE s.n >= 1 /\ UnderWay'
    <3>1. s.n >= 1 /\ UnderWay
      BY Zenon, <1>0, <2>2, <2>5, Where
    <3>. QED
      BY Zenon, <1>t, <1>p, <2>1, <2>2, <2>4, <3>1
         DEF Stages, Publishing, UnderWay, Waits, Claimed, Answering, Answered, Taking, Ran, Holds,
         Read, Words, Pending, Done, Busy, Ok
  <2>. QED
    BY Zenon, <2>3, <2>4, <2>5 DEF IInv, Stages
<1>13. CASE Looks
  <2>1. s.peer = "idle" /\ s.mem["state"] = Pending /\ s' = [s EXCEPT !.peer = "read", !.j = 1]
    BY Zenon, <1>13 DEF Looks, Peer
  <2>2. s' \in RecordType
    BY Zenon, <1>0, <1>p, <2>1 DEF RecordType, Places, PeerPlaces
  <2>3. /\ s'.mem = s.mem /\ s'.at = s.at /\ s'.i = s.i /\ s'.n = s.n /\ s'.got = s.got /\ s'.peer = "read"
        /\ s'.j = 1 /\ s'.req = s.req /\ s'.clean = s.clean /\ s'.runs = s.runs /\ s'.ran = s.ran
    BY Zenon, <1>0, <2>1 DEF RecordType
  <2>4. ASSUME s.clean PROVE s.n >= 1 /\ UnderWay'
    <3>1. s.n >= 1 /\ UnderWay
      BY Zenon, <1>0, <2>1, <2>4, Where DEF Publishing
    <3>. QED
      BY <1>t, <1>p, <2>1, <2>3, <3>1 DEF Stages, Publishing, UnderWay, Waits, Claimed, Answering,
         Answered, Taking, Ran, Holds, Read, Words, Pending, Done, Busy, Ok
  <2>. QED
    BY Zenon, <2>2, <2>3, <2>4 DEF IInv, Stages
<1>14. CASE ReadWord
  <2>1. ReadWords[s.j] \in Words
    BY Zenon, <1>t, <1>p, <1>14, WordsTyped DEF ReadWord, Peer
  <2>2. s.mem[ReadWords[s.j]] \in Int
    BY Zenon, <1>t, <2>1
  <2>3. PICK m \in [Words -> Int] :
           /\ m = [s.req EXCEPT ![ReadWords[s.j]] = s.mem[ReadWords[s.j]]]
           /\ m[ReadWords[s.j]] = s.mem[ReadWords[s.j]]
           /\ \A x \in Words \ {ReadWords[s.j]} : m[x] = s.req[x]
    <3>1. s.req \in [Words -> Int]
      BY Zenon, <1>t
    <3>2. /\ [s.req EXCEPT ![ReadWords[s.j]] = s.mem[ReadWords[s.j]]] \in [Words -> Int]
          /\ [s.req EXCEPT ![ReadWords[s.j]] = s.mem[ReadWords[s.j]]][ReadWords[s.j]] = s.mem[ReadWords[s.j]]
          /\ \A x \in Words \ {ReadWords[s.j]} : [s.req EXCEPT ![ReadWords[s.j]] = s.mem[ReadWords[s.j]]][x] = s.req[x]
      BY Zenon, <2>1, <2>2, <3>1, Update
    <3>. QED
      BY Zenon, <3>2
  <2>4. PICK k \in Pos : k = s.j + 1
    BY Zenon, <1>t, <1>p
  <2>5. s.peer = "read" /\ s.j <= Len(ReadWords) /\ s' = [s EXCEPT !.j = k, !.req = m]
    BY Zenon, <1>14, <2>3, <2>4 DEF ReadWord, Peer
  <2>6. s' \in RecordType
    BY Zenon, <1>0, <1>p, <2>5 DEF RecordType, Places, PeerPlaces
  <2>7. /\ s'.mem = s.mem /\ s'.at = s.at /\ s'.i = s.i /\ s'.n = s.n /\ s'.got = s.got /\ s'.peer = s.peer
        /\ s'.j = k /\ s'.req = m /\ s'.clean = s.clean /\ s'.runs = s.runs /\ s'.ran = s.ran
    BY Zenon, <1>0, <2>5 DEF RecordType
  <2>8. ASSUME s.clean PROVE s.n >= 1 /\ UnderWay'
    <3>1. s.n >= 1 /\ UnderWay /\ Waits /\ s.at \in {"idle", "poll", "state"}
      BY Zenon, <1>0, <2>5, <2>8, Where
    <3>. QED
      BY <1>t, <1>p, <2>3, <2>4, <2>5, <2>7, <3>1, WordOrder
         DEF UnderWay, Waits, Taking, Holds, Words, Pending, Done, Busy, Ok
  <2>. QED
    BY Zenon, <2>6, <2>7, <2>8 DEF IInv, Stages
<1>15. CASE Claims
  <2>1. "state" \in Words
    BY Zenon DEF Words
  <2>2. Busy \in Int
    BY DEF Busy
  <2>3. PICK m \in [Words -> Int] :
           /\ m = Set("state", Busy)
           /\ m["state"] = Busy
           /\ \A x \in Words \ {"state"} : m[x] = s.mem[x]
    BY <1>0, <2>1, <2>2, SetWord
  <2>4. /\ s.peer = "read" /\ s.j > Len(ReadWords)
        /\ \/ s.req["op"] = BadOpcode /\ s' = [s EXCEPT !.peer = "bad", !.j = 1]
           \/ s' = [s EXCEPT !.mem = m, !.peer = "stage"]
    BY Zenon, <1>15, <2>3 DEF Claims, Peer
  <2>5. s' \in RecordType
    BY ZenonT(30), <1>0, <1>p, <2>4 DEF RecordType, Places, PeerPlaces
  <2>6. /\ s'.at = s.at /\ s'.i = s.i /\ s'.n = s.n /\ s'.got = s.got /\ s'.req = s.req /\ s'.clean = s.clean
        /\ s'.runs = s.runs /\ s'.ran = s.ran
        /\ s.req["op"] # BadOpcode => s'.mem = m /\ s'.peer = "stage" /\ s'.j = s.j
    BY Zenon, <1>0, <2>4 DEF RecordType
  <2>7. ASSUME s.clean PROVE s.n >= 1 /\ UnderWay'
    <3>1. s.n >= 1 /\ UnderWay /\ Waits /\ s.at \in {"idle", "poll", "state"}
      BY Zenon, <1>0, <2>4, <2>7, Where
    <3>. QED
      BY <1>t, <1>p, <2>3, <2>4, <2>6, <3>1, WordOrder
         DEF UnderWay, Waits, Claimed, Taking, Holds, Read, Words, Pending, Done, Busy, Ok, BadOpcode
  <2>. QED
    BY Zenon, <2>5, <2>6, <2>7 DEF IInv, Stages
<1>16. CASE writePeerDebugStage
  <2>1. "status" \in Words
    BY Zenon DEF Words
  <2>2. Stage \in Int
    BY DEF Stage
  <2>3. PICK m \in [Words -> Int] :
           /\ m = Set("status", Stage)
           /\ m["status"] = Stage
           /\ \A x \in Words \ {"status"} : m[x] = s.mem[x]
    BY <1>0, <2>1, <2>2, SetWord
  <2>4. s.peer = "stage" /\ s' = [s EXCEPT !.mem = m, !.peer = "args"]
    BY Zenon, <1>16, <2>3 DEF writePeerDebugStage, Peer
  <2>5. s' \in RecordType
    BY Zenon, <1>0, <1>p, <2>4 DEF RecordType, Places, PeerPlaces
  <2>6. /\ s'.mem = m /\ s'.at = s.at /\ s'.i = s.i /\ s'.n = s.n /\ s'.got = s.got /\ s'.peer = "args"
        /\ s'.j = s.j /\ s'.req = s.req /\ s'.clean = s.clean /\ s'.runs = s.runs /\ s'.ran = s.ran
    BY Zenon, <1>0, <2>4 DEF RecordType
  <2>7. ASSUME s.clean PROVE s.n >= 1 /\ UnderWay'
    <3>1. s.n >= 1 /\ UnderWay /\ Claimed /\ s.at \in {"idle", "poll", "state"}
      BY Zenon, <1>0, <2>4, <2>7, Where
    <3>. QED
      BY <1>t, <1>p, <2>3, <2>4, <2>6, <3>1
         DEF UnderWay, Claimed, Taking, Read, Words, Pending, Done, Busy, Ok
  <2>. QED
    BY Zenon, <2>5, <2>6, <2>7 DEF IInv, Stages
<1>17. CASE ReadArgs
  <2>1. "arg" \in Words
    BY Zenon DEF Words
  <2>2. s.mem["arg"] \in Int
    BY Zenon, <1>t, <2>1
  <2>3. PICK m \in [Words -> Int] :
           /\ m = [s.req EXCEPT !["arg"] = s.mem["arg"]]
           /\ m["arg"] = s.mem["arg"]
           /\ \A x \in Words \ {"arg"} : m[x] = s.req[x]
    <3>1. s.req \in [Words -> Int]
      BY Zenon, <1>t
    <3>2. /\ [s.req EXCEPT !["arg"] = s.mem["arg"]] \in [Words -> Int]
          /\ [s.req EXCEPT !["arg"] = s.mem["arg"]]["arg"] = s.mem["arg"]
          /\ \A x \in Words \ {"arg"} : [s.req EXCEPT !["arg"] = s.mem["arg"]][x] = s.req[x]
      BY Zenon, <2>1, <2>2, <3>1, Update
    <3>. QED
      BY Zenon, <3>2
  <2>4. s.peer = "args" /\ s' = [s EXCEPT !.peer = "work", !.req = m]
    BY Zenon, <1>17, <2>3 DEF ReadArgs, Peer
  <2>5. s' \in RecordType
    BY Zenon, <1>0, <1>p, <2>4 DEF RecordType, Places, PeerPlaces
  <2>6. /\ s'.mem = s.mem /\ s'.at = s.at /\ s'.i = s.i /\ s'.n = s.n /\ s'.got = s.got /\ s'.peer = "work"
        /\ s'.j = s.j /\ s'.req = m /\ s'.clean = s.clean /\ s'.runs = s.runs /\ s'.ran = s.ran
    BY Zenon, <1>0, <2>4 DEF RecordType
  <2>7. ASSUME s.clean PROVE s.n >= 1 /\ UnderWay'
    <3>1. s.n >= 1 /\ UnderWay /\ Claimed /\ s.at \in {"idle", "poll", "state"}
      BY Zenon, <1>0, <2>4, <2>7, Where
    <3>. QED
      BY <1>t, <1>p, <2>3, <2>4, <2>6, <3>1
         DEF UnderWay, Claimed, Taking, Read, Words, Pending, Done, Busy, Ok
  <2>. QED
    BY Zenon, <2>5, <2>6, <2>7 DEF IInv, Stages
<1>18. CASE Works
  <2>1. PICK k \in Nat : k = s.runs + 1
    BY <1>t, <1>p
  <2>2. PICK q \in Seq(Int) : q = <<s.req["op"], s.req["task"], s.req["arg"]>>
    <3>1. s.req["op"] \in Int /\ s.req["task"] \in Int /\ s.req["arg"] \in Int
      BY Zenon, <1>t DEF Words
    <3>2. \A x, y, z \in Int : <<x, y, z>> \in Seq(Int)
      OBVIOUS
    <3>. QED
      BY Zenon, <3>1, <3>2
  <2>3. PICK m \in [Words -> Int] : m = Set("status", Stage) /\ \A x \in Words \ {"status"} : m[x] = s.mem[x]
    <3>1. "status" \in Words /\ Stage \in Int
      BY DEF Words, Stage
    <3>. QED
      BY <1>0, <3>1, SetWord
  <2>4. s.peer = "work" /\ s' = [s EXCEPT !.mem = m, !.peer = "result", !.j = 1, !.runs = k, !.ran = q]
    BY Zenon, <1>18, <2>1, <2>2, <2>3 DEF Works, Peer
  <2>5. s' \in RecordType
    BY Zenon, <1>0, <1>p, <2>4 DEF RecordType, Places, PeerPlaces
  <2>6. /\ s'.mem = m /\ s'.at = s.at /\ s'.i = s.i /\ s'.n = s.n /\ s'.got = s.got /\ s'.peer = "result"
        /\ s'.j = 1 /\ s'.req = s.req /\ s'.clean = s.clean /\ s'.runs = k /\ s'.ran = q
    BY Zenon, <1>0, <2>4 DEF RecordType
  <2>7. ASSUME s.clean PROVE s.n >= 1 /\ UnderWay'
    <3>1. s.n >= 1 /\ UnderWay /\ Claimed /\ s.at \in {"idle", "poll", "state"}
      BY Zenon, <1>0, <2>4, <2>7, Where
    <3>. QED
      BY <1>t, <1>p, <2>1, <2>2, <2>3, <2>4, <2>6, <3>1
         DEF UnderWay, Claimed, Answering, Taking, Ran, Read, Words, Pending, Done, Busy, Ok
  <2>. QED
    BY Zenon, <2>5, <2>6, <2>7 DEF IInv, Stages
<1>19. CASE writePeerResult
  <2>1. ResultWords[s.j] \in Words
    BY Zenon, <1>t, <1>p, <1>19, WordsTyped DEF writePeerResult, Peer
  <2>2. ResultWord(ResultWords[s.j]) \in Int
    BY <1>t DEF ResultWord, Outcome, Words, Ok, BadSlot
  <2>3. PICK m \in [Words -> Int] :
           /\ m = Set(ResultWords[s.j], ResultWord(ResultWords[s.j]))
           /\ m[ResultWords[s.j]] = ResultWord(ResultWords[s.j])
           /\ \A x \in Words \ {ResultWords[s.j]} : m[x] = s.mem[x]
    BY <1>0, <2>1, <2>2, SetWord
  <2>4. PICK k \in Pos : k = s.j + 1
    BY Zenon, <1>t, <1>p
  <2>5. s.peer = "result" /\ s.j <= Len(ResultWords) /\ s' = [s EXCEPT !.mem = m, !.j = k]
    BY Zenon, <1>19, <2>3, <2>4 DEF writePeerResult, Peer
  <2>6. s' \in RecordType
    BY Zenon, <1>0, <1>p, <2>5 DEF RecordType, Places, PeerPlaces
  <2>7. /\ s'.mem = m /\ s'.at = s.at /\ s'.i = s.i /\ s'.n = s.n /\ s'.got = s.got /\ s'.peer = s.peer
        /\ s'.j = k /\ s'.req = s.req /\ s'.clean = s.clean /\ s'.runs = s.runs /\ s'.ran = s.ran
    BY Zenon, <1>0, <2>5 DEF RecordType
  <2>8. ASSUME s.clean PROVE s.n >= 1 /\ UnderWay'
    <3>1. s.n >= 1 /\ UnderWay /\ Answering /\ s.at \in {"idle", "poll", "state"}
      BY Zenon, <1>0, <2>5, <2>8, Where
    <3>2. s.j \in 1 .. 4 /\ Outcome = s.n /\ s.req["seq"] = s.n /\ s.req["op"] # Noop
      BY <1>t, <1>p, <2>5, <3>1, WordOrder DEF Answering, Read, Outcome, Noop
    <3>3. /\ s.j = 1 => m["task"] = 0 - s.n
          /\ s.j = 2 => m["status"] = Ok
          /\ s.j = 3 => m["value"] = s.n
          /\ s.j = 4 => m["seq"] = s.n
      BY Zenon, <2>3, <3>2, WordOrder DEF ResultWord
    <3>4. /\ m["state"] = Busy /\ m["magic"] = 1
          /\ s.j # 4 => m["seq"] = s.mem["seq"]
          /\ s.j # 1 => m["task"] = s.mem["task"]
          /\ s.j # 2 => m["status"] = s.mem["status"]
          /\ s.j # 3 => m["value"] = s.mem["value"]
      BY <2>3, <3>1, <3>2, WordOrder DEF UnderWay, Answering, Words
    <3>5. k \in 2 .. 5
      BY <2>4, <3>2
    <3>6. Answering'
      BY <2>4, <2>5, <2>7, <3>1, <3>2, <3>3, <3>4, <3>5 DEF Answering, Ran, Read
    <3>. QED
      BY Zenon, <2>7, <3>1, <3>2, <3>3, <3>4, <3>6 DEF UnderWay, Taking
  <2>. QED
    BY Zenon, <2>6, <2>7, <2>8 DEF IInv, Stages
<1>20. CASE PublishesResult
  <2>1. "state" \in Words
    BY Zenon DEF Words
  <2>2. Done \in Int
    BY DEF Done
  <2>3. PICK m \in [Words -> Int] :
           /\ m = Set("state", Done)
           /\ m["state"] = Done
           /\ \A x \in Words \ {"state"} : m[x] = s.mem[x]
    BY <1>0, <2>1, <2>2, SetWord
  <2>4. s.peer = "result" /\ s.j > Len(ResultWords) /\ s' = [s EXCEPT !.mem = m, !.peer = "idle"]
    BY Zenon, <1>20, <2>3 DEF PublishesResult, Peer
  <2>5. s' \in RecordType
    BY Zenon, <1>0, <1>p, <2>4 DEF RecordType, Places, PeerPlaces
  <2>6. /\ s'.mem = m /\ s'.at = s.at /\ s'.i = s.i /\ s'.n = s.n /\ s'.got = s.got /\ s'.peer = "idle"
        /\ s'.j = s.j /\ s'.req = s.req /\ s'.clean = s.clean /\ s'.runs = s.runs /\ s'.ran = s.ran
    BY Zenon, <1>0, <2>4 DEF RecordType
  <2>7. ASSUME s.clean PROVE s.n >= 1 /\ UnderWay'
    <3>1. s.n >= 1 /\ UnderWay /\ Answering /\ s.at \in {"idle", "poll", "state"}
      BY Zenon, <1>0, <2>4, <2>7, Where
    <3>. QED
      BY <1>t, <1>p, <2>3, <2>4, <2>6, <3>1, WordOrder
         DEF UnderWay, Answering, Answered, Taking, Ran, Read, Words, Pending, Done, Busy, Ok
  <2>. QED
    BY Zenon, <2>5, <2>6, <2>7 DEF IInv, Stages
<1>21. CASE writePeerBadRequest
  <2>1. BadWords[s.j] \in Words
    BY Zenon, <1>t, <1>p, <1>21, WordsTyped DEF writePeerBadRequest, Peer
  <2>2. (IF BadWords[s.j] = "seq" THEN s.req["seq"] ELSE BadSlot) \in Int
    BY <1>t DEF Words, BadSlot
  <2>3. PICK m \in [Words -> Int] :
           /\ m = Set(BadWords[s.j], IF BadWords[s.j] = "seq" THEN s.req["seq"] ELSE BadSlot)
           /\ m[BadWords[s.j]] = (IF BadWords[s.j] = "seq" THEN s.req["seq"] ELSE BadSlot)
           /\ \A x \in Words \ {BadWords[s.j]} : m[x] = s.mem[x]
    BY <1>0, <2>1, <2>2, SetWord
  <2>4. PICK k \in Pos : k = s.j + 1
    BY Zenon, <1>t, <1>p
  <2>5. s.peer = "bad" /\ s.j <= Len(BadWords) /\ s' = [s EXCEPT !.mem = m, !.j = k]
    BY Zenon, <1>21, <2>3, <2>4 DEF writePeerBadRequest, Peer
  <2>6. s' \in RecordType
    BY Zenon, <1>0, <1>p, <2>5 DEF RecordType, Places, PeerPlaces
  <2>7. s'.clean = s.clean
    BY Zenon, <1>0, <2>5 DEF RecordType
  <2>8. ~ s.clean
    BY Zenon, <1>0, <2>5, Where
  <2>. QED
    BY Zenon, <2>6, <2>7, <2>8 DEF IInv, Stages
<1>22. CASE Refuses
  <2>1. "state" \in Words
    BY Zenon DEF Words
  <2>2. BadRequest \in Int
    BY DEF BadRequest
  <2>3. PICK m \in [Words -> Int] :
           /\ m = Set("state", BadRequest)
           /\ m["state"] = BadRequest
           /\ \A x \in Words \ {"state"} : m[x] = s.mem[x]
    BY <1>0, <2>1, <2>2, SetWord
  <2>4. s.peer = "bad" /\ s.j > Len(BadWords) /\ s' = [s EXCEPT !.mem = m, !.peer = "idle"]
    BY Zenon, <1>22, <2>3 DEF Refuses, Peer
  <2>5. s' \in RecordType
    BY Zenon, <1>0, <1>p, <2>4 DEF RecordType, Places, PeerPlaces
  <2>6. s'.clean = s.clean
    BY Zenon, <1>0, <2>4 DEF RecordType
  <2>7. ~ s.clean
    BY Zenon, <1>0, <2>4, Where
  <2>. QED
    BY Zenon, <2>5, <2>6, <2>7 DEF IInv, Stages
<1>23. CASE UNCHANGED vars
  <2>1. s' = s
    BY Zenon, <1>23 DEF vars
  <2>. QED
    BY Zenon, <1>0, <2>1 DEF IInv, Stages, Publishing, UnderWay, Waits, Claimed, Answering, Answered,
       Taking, Ran, Holds, Read
<1>. QED
  BY Zenon, <1>1, <1>2, <1>3, <1>4, <1>5, <1>6, <1>7, <1>8, <1>9, <1>10, <1>11, <1>12, <1>13, <1>14,
     <1>15, <1>16, <1>17, <1>18, <1>19, <1>20, <1>21, <1>22, <1>23 DEF Next, Caller, Worker

\* The shared memory may hold anything at the start: no request is out.
LEMMA Initial ==
  ASSUME Init
  PROVE  IInv
<1>1. PICK magic \in {0, 1}, state \in {Idle, Pending, Done}, op \in {Noop, BadOpcode} :
         s = [mem |-> [w \in Words |-> CASE w = "magic" -> magic [] w = "state" -> state [] w = "op" -> op [] OTHER -> 0],
              at |-> "idle", i |-> 1, n |-> 0, got |-> [w \in Words |-> 0],
              peer |-> "idle", j |-> 1, req |-> [w \in Words |-> 0],
              timeouts |-> 0, clean |-> FALSE, runs |-> 0, ran |-> <<>>]
  BY Zenon DEF Init
<1>2. [w \in Words |-> CASE w = "magic" -> magic [] w = "state" -> state [] w = "op" -> op [] OTHER -> 0]
        \in [Words -> Int]
  BY DEF Idle, Pending, Done, Noop, BadOpcode
<1>3. [w \in Words |-> 0] \in [Words -> Int]
  OBVIOUS
<1>4. 1 \in Pos /\ <<>> \in Seq(Int)
  BY DEF Pos
<1>5. s \in RecordType
  BY <1>1, <1>2, <1>3, <1>4 DEF RecordType, Places, PeerPlaces
<1>6. s.clean = FALSE
  BY Zenon, <1>1
<1>. QED
  BY Zenon, <1>5, <1>6 DEF IInv, Stages

LEMMA Always == Spec => []IInv
<1>1. Init => IInv
  BY Zenon, Initial
<1>2. IInv /\ [Next]_vars => IInv'
  BY Zenon, Inductive
<1>. QED
  BY <1>1, <1>2, PTL DEF Spec

\* A request that began while the peer was at rest is answered with its own
\* result, whatever earlier requests M0 gave up (dispatchPeerRequest).
THEOREM ResultAlwaysOfRequest == Spec => []ResultOfRequest
<1>1. IInv => ResultOfRequest
  <2>1. SUFFICES ASSUME IInv, s.clean, s.at = "taken"
                 PROVE  s.got["task"] = 0 - s.n /\ s.got["status"] = Ok /\ s.got["value"] = s.n
    BY Zenon DEF ResultOfRequest
  <2>2. UnderWay
    BY Zenon, <2>1, Where DEF IInv
  <2>. QED
    BY <2>1, <2>2 DEF UnderWay, Taking
<1>. QED
  BY <1>1, Always, PTL

\* The peer works once on such a request, with that request's words only, and
\* before M0 takes the result (servicePeerWasmControlCommand).
THEOREM AlwaysRunOnce == Spec => []RunOnce
<1>1. IInv => RunOnce
  <2>1. SUFFICES ASSUME IInv, s.clean
                 PROVE  /\ s.runs <= 1
                        /\ s.runs = 1 => s.ran = <<s.n, s.n, s.n>>
                        /\ s.at = "taken" => s.runs = 1
    BY Zenon DEF RunOnce
  <2>2. Stages /\ (Publishing \/ UnderWay)
    BY Zenon, <2>1 DEF IInv, Stages
  <2>3. CASE Publishing
    BY <2>3 DEF Publishing
  <2>4. CASE UnderWay
    BY <2>4 DEF UnderWay, Waits, Claimed, Answering, Answered, Taking, Ran
  <2>. QED
    BY Zenon, <2>2, <2>3, <2>4
<1>. QED
  BY <1>1, Always, PTL

\* While M0 polls for such a request, the request waits to be seen, is being
\* worked on, or its answer is there: the poll loop of dispatchPeerRequest
\* never waits for what will not come.
THEOREM NeverForgotten == Spec => []NotForgotten
<1>1. IInv => NotForgotten
  <2>1. SUFFICES ASSUME IInv, s.clean, s.at \in {"poll", "state"}
                 PROVE  \/ s.peer = "idle" /\ s.mem["state"] \in {Pending, Done} /\ s.mem["magic"] = 1
                        \/ s.peer \in {"read", "stage", "args", "work", "result"}
    BY Zenon DEF NotForgotten
  <2>2. UnderWay
    BY Zenon, <2>1, Where DEF IInv
  <2>. QED
    BY Zenon, <2>2 DEF UnderWay, Waits, Claimed, Answering, Answered
<1>. QED
  BY <1>1, Always, PTL
===============================================================================
