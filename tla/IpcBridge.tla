----------------------------- MODULE IpcBridge -----------------------------
(***************************************************************************)
(* Remote procedure calls between cores, kernel/ipcbridge.nim: the caller  *)
(* core, and one server core for each route (M0 calls D0 and LP; D0 and LP *)
(* call M0).  A route owns one request and one response slot of shared     *)
(* memory; word 0 of a slot is the token, and publishes the rest.          *)
(*                                                                         *)
(* A step is one access to shared memory, with the work on local state     *)
(* that follows it; the cores interleave between accesses.  The barriers   *)
(* of the code make each access take effect in order.                      *)
(*                                                                         *)
(* Abstractions.  A call stands for its tag, its arguments and its future. *)
(* A result is the pair of the calls whose tag and whose arguments the     *)
(* handler saw.  The length word is whether the response is usable.  The   *)
(* interrupt signal is left out: it only makes a core poll sooner, and     *)
(* ipcBridgeInit registers ipcPoll as an untimed poll hook, which keeps    *)
(* the scheduler polling.  A continuation that an overflowing completion   *)
(* queue resumes inline does not itself call.  Locals are forgotten when   *)
(* their procedure returns.                                                *)
(***************************************************************************)
EXTENDS Integers, Sequences, FiniteSets

CONSTANTS
  Routes, Calls,
  RouteOf,            \* the route of each call
  Handled,            \* calls whose tag has a handler that gives a usable answer
  Timed,              \* calls issued with timeoutMs > 0
  MaxPendingCalls, MaxIpcCompletions,
  MaxToken,           \* BOUND on tokens, below the wrap of the 32-bit counter
  MaxRestarts,        \* BOUND on restarts of the caller core
  NoCall

ASSUME RouteAssumption == RouteOf \in [Calls -> Routes]
ASSUME CallsAssumption ==
  Handled \subseteq Calls /\ Timed \subseteq Calls /\ NoCall \notin Calls
ASSUME BoundsAssumption ==
  /\ MaxPendingCalls \in Nat /\ MaxIpcCompletions \in Nat
  /\ MaxToken \in Nat /\ MaxRestarts \in Nat

VARIABLES
  reqTok, reqTag, reqDat,     \* request slots in XRAM
  respTok, respLen, respDat,  \* response slots in XRAM
  spc, stok, stag,            \* servers: processRequestAt and its locals
  cpc, cret, rret,            \* caller: label and return labels
  ccall, croute, ctok, clen, cdat, pollLeft,  \* locals of the caller
  pending, token, nextToken,  \* pendingCalls
  completions,                \* the deferred completions, oldest first
  status, value,              \* the futures
  restarts

xram     == <<reqTok, reqTag, reqDat, respTok, respLen, respDat>>
server   == <<spc, stok, stag>>
locals   == <<ccall, croute, ctok, clen, cdat, pollLeft>>
control  == <<cpc, cret, rret>>
table    == <<pending, token, nextToken>>
futures  == <<status, value>>
vars == <<xram, server, control, locals, table, completions, futures, restarts>>

Tokens == 1 .. MaxToken
Free == 0                     \* the token word of a slot not in use
Results == Calls \X Calls
NoResult == <<NoCall, NoCall>>
Result(c) == <<c, c>>

Init ==
  /\ reqTok = [r \in Routes |-> Free] /\ respTok = [r \in Routes |-> Free]
  /\ reqTag = [r \in Routes |-> NoCall] /\ reqDat = [r \in Routes |-> NoCall]
  /\ respLen = [r \in Routes |-> FALSE]
  /\ respDat = [r \in Routes |-> NoResult]
  /\ spc = [r \in Routes |-> "idle"] /\ stok = [r \in Routes |-> Free]
  /\ stag = [r \in Routes |-> NoCall]
  /\ cpc = "idle" /\ cret = "idle" /\ rret = "poll"
  /\ ccall = NoCall /\ croute \in Routes /\ ctok = Free /\ clen = FALSE
  /\ cdat = NoResult /\ pollLeft = {}
  /\ pending = {} /\ token = [c \in Calls |-> Free] /\ nextToken = 1
  /\ completions = <<>>
  /\ status = [c \in Calls |-> "new"] /\ value = [c \in Calls |-> NoResult]
  /\ restarts = 0

-----------------------------------------------------------------------------
(***************************************************************************)
(* Futures and deferred completions.                                       *)
(***************************************************************************)

(* complete or fail, unless the future is finished *)
Finish(c, v) ==
  IF status[c] = "waiting"
  THEN /\ status' = [status EXCEPT ![c] = IF v = NoResult THEN "failed" ELSE "ok"]
       /\ value' = [value EXCEPT ![c] = v]
  ELSE UNCHANGED futures

(* Mutant: the queue accepts one entry too many. *)
enqueueOffByOne(c, v) ==
  IF Len(completions) > MaxIpcCompletions
  THEN Finish(c, v) /\ UNCHANGED completions
  ELSE completions' = Append(completions, [call |-> c, val |-> v])
       /\ UNCHANGED futures

(* Complete call c with v, or fail it if v = NoResult: through the queue,  *)
(* or at once when the queue is full; nothing for a cancelled future. *)
enqueueIpcCompletion(c, v) ==
  IF status[c] # "waiting" THEN UNCHANGED <<completions, futures>>
  ELSE IF Len(completions) >= MaxIpcCompletions
  THEN Finish(c, v) /\ UNCHANGED completions
  ELSE completions' = Append(completions, [call |-> c, val |-> v])
       /\ UNCHANGED futures

(* A task gives up a call it awaits; the bridge keeps the pending entry. *)
cancel(c) ==
  /\ cpc \in {"idle", "resumed"}
  /\ status[c] = "waiting"
  /\ status' = [status EXCEPT ![c] = "failed"]
  /\ UNCHANGED <<xram, server, control, locals, table, completions, value,
                 restarts>>

(***************************************************************************)
(* Server: processRequestAt and processIncomingRequest.                    *)
(***************************************************************************)

(* Mutant: the server frees the request slot as soon as it takes it. *)
serveReadTokenFrees(r) ==
  /\ spc[r] = "idle"
  /\ reqTok[r] # Free
  /\ stok' = [stok EXCEPT ![r] = reqTok[r]]
  /\ reqTok' = [reqTok EXCEPT ![r] = Free]
  /\ spc' = [spc EXCEPT ![r] = "tag"]
  /\ UNCHANGED <<reqTag, reqDat, respTok, respLen, respDat, stag, control,
                 locals, table, completions, futures, restarts>>

serveReadToken(r) ==
  /\ spc[r] = "idle"
  /\ reqTok[r] # Free
  /\ stok' = [stok EXCEPT ![r] = reqTok[r]]
  /\ spc' = [spc EXCEPT ![r] = "tag"]
  /\ UNCHANGED <<xram, stag, control, locals, table, completions, futures,
                 restarts>>

(* The tag is looked up: without a handler only the length is written. *)
serveReadTag(r) ==
  /\ spc[r] = "tag"
  /\ stag' = [stag EXCEPT ![r] = reqTag[r]]
  /\ spc' = [spc EXCEPT ![r] = IF reqTag[r] \in Handled THEN "handle" ELSE "len"]
  /\ UNCHANGED <<xram, stok, control, locals, table, completions, futures,
                 restarts>>

(* The handler reads its arguments in place and writes its answer in place. *)
serveHandle(r) ==
  /\ spc[r] = "handle"
  /\ respDat' = [respDat EXCEPT ![r] = <<stag[r], reqDat[r]>>]
  /\ spc' = [spc EXCEPT ![r] = "len"]
  /\ UNCHANGED <<reqTok, reqTag, reqDat, respTok, respLen, stok, stag, control,
                 locals, table, completions, futures, restarts>>

serveWriteLen(r) ==
  /\ spc[r] = "len"
  /\ respLen' = [respLen EXCEPT ![r] = stag[r] \in Handled]
  /\ spc' = [spc EXCEPT ![r] = "publish"]
  /\ UNCHANGED <<reqTok, reqTag, reqDat, respTok, respDat, stok, stag, control,
                 locals, table, completions, futures, restarts>>

servePublish(r) ==
  /\ spc[r] = "publish"
  /\ respTok' = [respTok EXCEPT ![r] = stok[r]]
  /\ spc' = [spc EXCEPT ![r] = "clear"]
  /\ UNCHANGED <<reqTok, reqTag, reqDat, respLen, respDat, stok, stag, control,
                 locals, table, completions, futures, restarts>>

(* The request word is cleared whatever it holds by now. *)
serveClear(r) ==
  /\ spc[r] = "clear"
  /\ reqTok' = [reqTok EXCEPT ![r] = Free]
  /\ spc' = [spc EXCEPT ![r] = "idle"]
  /\ stok' = [stok EXCEPT ![r] = Free] /\ stag' = [stag EXCEPT ![r] = NoCall]
  /\ UNCHANGED <<reqTag, reqDat, respTok, respLen, respDat, control, locals,
                 table, completions, futures, restarts>>

(***************************************************************************)
(* Caller: processResponseAt, run by polls and by the start of every call. *)
(***************************************************************************)

(* Mutant: a response is taken for whatever call waits on its route. *)
AwaitedOnRoute(t) == {c \in pending : RouteOf[c] = croute}

(* findPendingCallIndex *)
Awaited(t) == {c \in pending : token[c] = t}

respReadToken ==
  /\ cpc = "respToken"
  /\ ctok' = respTok[croute]
  /\ cpc' = IF respTok[croute] = Free THEN rret ELSE "respLen"
  /\ UNCHANGED <<xram, server, cret, rret, ccall, croute, clen, cdat, pollLeft,
                 table, completions, futures, restarts>>

respReadLen ==
  /\ cpc = "respLen"
  /\ clen' = respLen[croute]
  /\ cpc' = IF Awaited(ctok) # {} /\ respLen[croute] THEN "respData"
            ELSE "respClear"
  /\ UNCHANGED <<xram, server, cret, rret, ccall, croute, ctok, cdat, pollLeft,
                 table, completions, futures, restarts>>

respReadData ==
  /\ cpc = "respData"
  /\ cdat' = respDat[croute]
  /\ cpc' = "respClear"
  /\ UNCHANGED <<xram, server, cret, rret, ccall, croute, ctok, clen, pollLeft,
                 table, completions, futures, restarts>>

(* Free the slot, then completePendingCall or completePendingCallU32At. *)
respClear ==
  /\ cpc = "respClear"
  /\ respTok' = [respTok EXCEPT ![croute] = Free]
  /\ \/ /\ Awaited(ctok) = {}
        /\ UNCHANGED <<pending, completions, futures>>
     \/ \E c \in Awaited(ctok) :
          /\ pending' = pending \ {c}
          /\ enqueueIpcCompletion(c, IF clen THEN cdat ELSE NoResult)
  /\ cpc' = rret
  /\ ctok' = Free /\ clen' = FALSE /\ cdat' = NoResult
  /\ UNCHANGED <<reqTok, reqTag, reqDat, respLen, respDat, server, cret, rret,
                 ccall, croute, pollLeft, token, nextToken, restarts>>

(***************************************************************************)
(* Caller: ipcCallWire and ipcCallU32Wire.                                 *)
(***************************************************************************)

(* wireSlotError first processes a response that may be waiting. *)
ipcCall(c) ==
  /\ cpc \in {"idle", "resumed"}
  /\ status[c] = "new"
  /\ nextToken <= MaxToken
  /\ status' = [status EXCEPT ![c] = "calling"]
  /\ ccall' = c /\ croute' = RouteOf[c]
  /\ cret' = cpc /\ rret' = "checkReq" /\ cpc' = "respToken"
  /\ UNCHANGED <<xram, server, ctok, clen, cdat, pollLeft, table, completions,
                 value, restarts>>

(* The call returns a failed future. *)
Refuse ==
  /\ status' = [status EXCEPT ![ccall] = "failed"]
  /\ cpc' = cret

(* Mutants: the request word is not looked at; neither is the table. *)
callCheckActiveOnly ==
  /\ cpc = "checkReq"
  /\ IF \E c \in pending : RouteOf[c] = croute
     THEN Refuse
     ELSE cpc' = "checkResp" /\ UNCHANGED status
  /\ UNCHANGED <<xram, server, cret, rret, locals, table, completions, value,
                 restarts>>

callCheckNothing ==
  /\ cpc = "checkReq"
  /\ cpc' = "checkResp"
  /\ UNCHANGED <<xram, server, cret, rret, locals, table, completions, futures,
                 restarts>>

(* wireSlotActive, request slot busy *)
callCheckReq ==
  /\ cpc = "checkReq"
  /\ IF (\E c \in pending : RouteOf[c] = croute) \/ reqTok[croute] # Free
     THEN Refuse
     ELSE cpc' = "checkResp" /\ UNCHANGED status
  /\ UNCHANGED <<xram, server, cret, rret, locals, table, completions, value,
                 restarts>>

(* response slot busy; else allocPendingCall *)
callCheckResp ==
  /\ cpc = "checkResp"
  /\ IF respTok[croute] # Free
     THEN Refuse /\ UNCHANGED table
     ELSE /\ nextToken' = nextToken + 1
          /\ IF Cardinality(pending) >= MaxPendingCalls
             THEN Refuse /\ UNCHANGED <<pending, token>>
             ELSE /\ pending' = pending \cup {ccall}
                  /\ token' = [token EXCEPT ![ccall] = nextToken]
                  /\ cpc' = "writeTag"
                  /\ UNCHANGED status
  /\ UNCHANGED <<xram, server, cret, rret, locals, completions, value, restarts>>

(* Mutant: the token is written first. *)
callWriteTokenFirst ==
  /\ cpc = "writeTag"
  /\ reqTok' = [reqTok EXCEPT ![croute] = token[ccall]]
  /\ reqTag' = [reqTag EXCEPT ![croute] = ccall]
  /\ cpc' = "writeData"
  /\ UNCHANGED <<reqDat, respTok, respLen, respDat, server, cret, rret, locals,
                 table, completions, futures, restarts>>

callWriteTag ==
  /\ cpc = "writeTag"
  /\ reqTag' = [reqTag EXCEPT ![croute] = ccall]
  /\ cpc' = "writeData"
  /\ UNCHANGED <<reqTok, reqDat, respTok, respLen, respDat, server, cret, rret,
                 locals, table, completions, futures, restarts>>

callWriteData ==
  /\ cpc = "writeData"
  /\ reqDat' = [reqDat EXCEPT ![croute] = ccall]
  /\ cpc' = "publish"
  /\ UNCHANGED <<reqTok, reqTag, respTok, respLen, respDat, server, cret, rret,
                 locals, table, completions, futures, restarts>>

callPublish ==
  /\ cpc = "publish"
  /\ reqTok' = [reqTok EXCEPT ![croute] = token[ccall]]
  /\ status' = [status EXCEPT ![ccall] = "waiting"]
  /\ cpc' = cret
  /\ UNCHANGED <<reqTag, reqDat, respTok, respLen, respDat, server, cret, rret,
                 locals, table, completions, value, restarts>>

(***************************************************************************)
(* Caller: ipcPoll (every route), ipcProcessPosted (the primary route) and *)
(* drainIpcCompletions, which resumes the tasks that await the futures.    *)
(***************************************************************************)

ipcPoll ==
  /\ cpc = "idle"
  /\ pollLeft' \in {Routes} \cup {{r} : r \in Routes}
  /\ cpc' = "poll"
  /\ UNCHANGED <<xram, server, cret, rret, ccall, croute, ctok, clen, cdat,
                 table, completions, futures, restarts>>

pollRoute(r) ==
  /\ cpc = "poll"
  /\ r \in pollLeft
  /\ pollLeft' = pollLeft \ {r}
  /\ croute' = r /\ rret' = "poll" /\ cpc' = "respToken"
  /\ UNCHANGED <<xram, server, cret, ccall, ctok, clen, cdat, table,
                 completions, futures, restarts>>

pollDone ==
  /\ cpc = "poll"
  /\ pollLeft = {}
  /\ cpc' = "drain"
  /\ UNCHANGED <<xram, server, cret, rret, locals, table, completions, futures,
                 restarts>>

drainIpcCompletions ==
  /\ cpc = "drain"
  /\ IF completions = <<>>
     THEN cpc' = "idle" /\ UNCHANGED <<completions, futures>>
     ELSE /\ completions' = Tail(completions)
          /\ Finish(Head(completions).call, Head(completions).val)
          /\ cpc' = "resumed"
  /\ UNCHANGED <<xram, server, cret, rret, locals, table, restarts>>

(* The resumed task suspends again. *)
drainReturn ==
  /\ cpc = "resumed"
  /\ cpc' = "drain"
  /\ UNCHANGED <<xram, server, cret, rret, locals, table, completions, futures,
                 restarts>>

(***************************************************************************)
(* Caller: timeoutPendingCall, run by the scheduler's timer.               *)
(***************************************************************************)

timeoutPendingCall(c) ==
  /\ cpc = "idle"
  /\ c \in pending \cap Timed
  /\ ccall' = c /\ croute' = RouteOf[c]
  /\ cpc' = "timeoutReq"
  /\ UNCHANGED <<xram, server, cret, rret, ctok, clen, cdat, pollLeft, table,
                 completions, futures, restarts>>

(* Read and write of the request word are one step: between them a server  *)
(* could only write Free. *)
timeoutReq ==
  /\ cpc = "timeoutReq"
  /\ reqTok' = [reqTok EXCEPT ![croute] = IF @ = token[ccall] THEN Free ELSE @]
  /\ cpc' = "timeoutResp"
  /\ UNCHANGED <<reqTag, reqDat, respTok, respLen, respDat, server, cret, rret,
                 locals, table, completions, futures, restarts>>

timeoutReadResp ==
  /\ cpc = "timeoutResp"
  /\ ctok' = respTok[croute]
  /\ cpc' = "timeoutDone"
  /\ UNCHANGED <<xram, server, cret, rret, ccall, croute, clen, cdat, pollLeft,
                 table, completions, futures, restarts>>

(* Free the response word if it held the token; completePendingCallAt. *)
timeoutDone ==
  /\ cpc = "timeoutDone"
  /\ respTok' = [respTok EXCEPT ![croute] =
                   IF ctok = token[ccall] THEN Free ELSE @]
  /\ pending' = pending \ {ccall}
  /\ enqueueIpcCompletion(ccall, NoResult)
  /\ cpc' = "idle" /\ ccall' = NoCall /\ ctok' = Free
  /\ UNCHANGED <<reqTok, reqTag, reqDat, respLen, respDat, server, cret, rret,
                 croute, clen, cdat, pollLeft, token, nextToken, restarts>>

(***************************************************************************)
(* The caller core restarts, alone or with the other cores: ipcBridgeInit  *)
(* clears its tables and resets the tokens, and leaves the shared memory   *)
(* as it is.                                                               *)
(***************************************************************************)

ipcBridgeInit ==
  /\ restarts < MaxRestarts
  /\ restarts' = restarts + 1
  /\ nextToken' = 1 /\ pending' = {} /\ completions' = <<>>
  /\ cpc' = "idle" /\ ccall' = NoCall /\ pollLeft' = {}
  /\ ctok' = Free /\ clen' = FALSE /\ cdat' = NoResult
  /\ status' = [c \in Calls |-> IF status[c] \in {"calling", "waiting"}
                                THEN "lost" ELSE status[c]]
  /\ \/ UNCHANGED server
     \/ /\ spc' = [r \in Routes |-> "idle"] /\ stok' = [r \in Routes |-> Free]
        /\ stag' = [r \in Routes |-> NoCall]
  /\ UNCHANGED <<xram, cret, rret, croute, token, value>>

-----------------------------------------------------------------------------

Serve(r) ==
  \/ serveReadToken(r) \/ serveReadTag(r) \/ serveHandle(r)
  \/ serveWriteLen(r) \/ servePublish(r) \/ serveClear(r)

(* What the caller core does of itself, once it runs. *)
Proceed ==
  \/ respReadToken \/ respReadLen \/ respReadData \/ respClear
  \/ callCheckReq \/ callCheckResp \/ callWriteTag \/ callWriteData
  \/ callPublish
  \/ pollDone \/ drainIpcCompletions \/ drainReturn
  \/ \E r \in Routes : pollRoute(r)
  \/ timeoutReq \/ timeoutReadResp \/ timeoutDone

Next ==
  \/ \E r \in Routes : Serve(r)
  \/ Proceed
  \/ \E c \in Calls : ipcCall(c) \/ cancel(c)
  \/ ipcPoll
  \/ \E c \in Calls : timeoutPendingCall(c)
  \/ ipcBridgeInit

Spec == Init /\ [][Next]_vars

(* Each core keeps running: the servers poll and the caller finishes what  *)
(* it began; its poll hook polls every route (the poll of all routes has a *)
(* fairness of its own), and an armed timer expires. *)
FairSpec ==
  /\ Spec
  /\ \A r \in Routes : WF_vars(Serve(r))
  /\ WF_vars(Proceed)
  /\ SF_vars(ipcPoll /\ pollLeft' = Routes)
  /\ \A c \in Timed : SF_vars(timeoutPendingCall(c))

-----------------------------------------------------------------------------
(***************************************************************************)
(* Properties.                                                             *)
(***************************************************************************)

CallerLabels ==
  {"idle", "poll", "drain", "resumed", "respToken", "respLen", "respData",
   "respClear", "checkReq", "checkResp", "writeTag", "writeData", "publish",
   "timeoutReq", "timeoutResp", "timeoutDone"}

TokenWords == Tokens \cup {Free}
MaybeCalls == Calls \cup {NoCall}
MaybeResults == MaybeCalls \X MaybeCalls

(* Every variable has its type: in particular the completion queue holds   *)
(* at most MaxIpcCompletions entries. *)
TypeOK ==
  /\ reqTok \in [Routes -> TokenWords] /\ respTok \in [Routes -> TokenWords]
  /\ reqTag \in [Routes -> MaybeCalls] /\ reqDat \in [Routes -> MaybeCalls]
  /\ respLen \in [Routes -> BOOLEAN] /\ respDat \in [Routes -> MaybeResults]
  /\ spc \in [Routes -> {"idle", "tag", "handle", "len", "publish", "clear"}]
  /\ stok \in [Routes -> TokenWords] /\ stag \in [Routes -> MaybeCalls]
  /\ cpc \in CallerLabels
  /\ cret \in {"idle", "resumed"} /\ rret \in {"poll", "checkReq"}
  /\ ccall \in MaybeCalls /\ croute \in Routes /\ ctok \in TokenWords
  /\ clen \in BOOLEAN /\ cdat \in MaybeResults /\ pollLeft \in SUBSET Routes
  /\ pending \in SUBSET Calls /\ token \in [Calls -> TokenWords]
  /\ nextToken \in 1 .. MaxToken + 1
  /\ completions \in Seq([call : Calls, val : MaybeResults])
  /\ Len(completions) <= MaxIpcCompletions
  /\ status \in [Calls -> {"new", "calling", "waiting", "ok", "failed", "lost"}]
  /\ value \in [Calls -> MaybeResults]
  /\ restarts \in 0 .. MaxRestarts

(* A call that completes without an error delivers the result of its own   *)
(* request, computed by the handler of its own tag (processResponseAt). *)
ResultMatches == \A c \in Calls : status[c] = "ok" => value[c] = Result(c)

(* A call that was published and not answered yet is still in one of the   *)
(* two slots of its route: processRequestAt clears a request only after    *)
(* its response is published, and the caller issues no call into a slot    *)
(* that is in use. *)
Publishing == IF cpc \in {"writeTag", "writeData", "publish"} THEN {ccall} ELSE {}
NoLostCall ==
  \A c \in pending \ Publishing :
    token[c] \in {reqTok[RouteOf[c]], respTok[RouteOf[c]]}

(* The handler runs with the tag and the arguments of the call whose token *)
(* the server read: the token word publishes the rest of the slot. *)
TokenPublishesRequest ==
  \A r \in Routes : spc[r] = "handle" =>
    \E c \in Calls : token[c] = stok[r] /\ stag[r] = c /\ reqDat[r] = c

(* Every call that was sent finishes: the future is completed or failed,   *)
(* or is lost with the caller core itself. *)
CallsFinish == \A c \in Calls : status[c] = "waiting" ~> status[c] # "waiting"

(* The bridge implements remote procedure calls; a call in preparation is  *)
(* not yet issued. *)
rpcStatus == [c \in Calls |-> IF status[c] = "calling" THEN "new" ELSE status[c]]
Rpc == INSTANCE Rpc WITH status <- rpcStatus, NoValue <- NoResult
ImplementsRpc == Rpc!Spec
=============================================================================
