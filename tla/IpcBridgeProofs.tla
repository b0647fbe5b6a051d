-------------------------- MODULE IpcBridgeProofs --------------------------
(***************************************************************************)
(* Proofs about IpcBridge, for every set of calls and routes: types and    *)
(* results are right unless the caller core restarts, and without timeouts *)
(* no call is lost and handlers see what was published.                    *)
(***************************************************************************)
EXTENDS IpcBridge, TLAPS

USE DEF xram, server, locals, control, table, futures

-----------------------------------------------------------------------------
(***************************************************************************)
(* The inductive invariant, for a caller that does not restart.  A call    *)
(* is identified by its token; the slots of a route hold at most the       *)
(* pending call of the route and remains of earlier ones, which no longer  *)
(* match a token that is awaited.                                          *)
(***************************************************************************)

(* Tokens name calls, and those in use were given out. *)
TokensUnique ==
  /\ \A c, d \in Calls : token[c] = token[d] /\ token[c] # Free => c = d
  /\ \A c \in Calls : token[c] < nextToken
  /\ \A c \in pending : token[c] # Free
  /\ \A c \in Calls : status[c] = "new" => token[c] = Free
  /\ \A r \in Routes : /\ reqTok[r] < nextToken /\ stok[r] < nextToken
                       /\ respTok[r] < nextToken
  /\ ctok < nextToken

(* A token appears only on the route of its call. *)
TokensOnRoute ==
  \A r \in Routes, c \in Calls :
    token[c] # Free /\ token[c] \in {reqTok[r], stok[r], respTok[r]}
      => RouteOf[c] = r

OnePerRoute ==
  \A c, d \in pending : RouteOf[c] = RouteOf[d] => c = d

Preparing ==
  \/ cpc \in {"respToken", "respLen", "respData", "respClear"}
     /\ rret = "checkReq"
  \/ cpc \in {"checkReq", "checkResp"}

Writing == cpc \in {"writeTag", "writeData", "publish"}

TimingOut == cpc \in {"timeoutReq", "timeoutResp", "timeoutDone"}

(* What the caller knows while it prepares, writes or times out a call. *)
CallerKnows ==
  /\ Preparing \/ Writing \/ TimingOut =>
       ccall \in Calls /\ croute = RouteOf[ccall]
  /\ Preparing => /\ token[ccall] = Free /\ status[ccall] = "calling"
                  /\ nextToken <= MaxToken
  /\ Writing \/ TimingOut => ccall \in pending
  /\ Writing => status[ccall] = "calling"
  /\ cpc = "checkResp" => \A c \in pending : RouteOf[c] # croute
  /\ Writing \/ cpc = "checkResp" => reqTok[croute] = Free
  /\ cpc \in {"writeData", "publish"} => reqTag[croute] = ccall
  /\ cpc = "publish" => reqDat[croute] = ccall

(* A published request is whole, and the only one of its route. *)
RequestWhole ==
  \A r \in Routes : reqTok[r] # Free =>
    \E c \in Calls : /\ token[c] = reqTok[r] /\ RouteOf[c] = r
                     /\ reqTag[r] = c /\ reqDat[r] = c
                     /\ \A d \in pending : RouteOf[d] = r => d = c

(* The server works on the request of the pending call, if it is its own. *)
Serving(r, c) ==
  /\ c \notin Publishing
  /\ reqTag[r] = c /\ reqDat[r] = c
  /\ spc[r] # "tag" => stag[r] = c
  /\ spc[r] = "handle" => c \in Handled
  /\ spc[r] \in {"len", "publish"} /\ c \in Handled => respDat[r] = Result(c)
  /\ spc[r] = "publish" => (respLen[r] <=> c \in Handled)

ServesPending ==
  \A r \in Routes, c \in pending :
    spc[r] # "idle" /\ stok[r] = token[c] => Serving(r, c)

(* A response to the pending call is whole, and the server is done. *)
Answered(r, c) ==
  /\ c \notin Publishing
  /\ respLen[r] <=> c \in Handled
  /\ c \in Handled => respDat[r] = Result(c)
  /\ spc[r] = "clear" \/ (spc[r] = "idle" /\ reqTok[r] = Free)

ResponseWhole ==
  \A r \in Routes, c \in pending : respTok[r] = token[c] => Answered(r, c)

(* What the caller has read belongs to the call it will complete. *)
ReadMatches ==
  \A c \in pending :
    cpc \in {"respLen", "respData", "respClear"} /\ ctok = token[c] =>
      /\ respTok[croute] = ctok
      /\ cpc \in {"respData", "respClear"} => (clen <=> c \in Handled)
      /\ cpc = "respClear" /\ clen => cdat = Result(c)

CompletionsMatch ==
  \A i \in 1 .. Len(completions) :
    completions[i].val \in {NoResult, Result(completions[i].call)}

NotRestarted == restarts = 0

IInv ==
  /\ TypeOK /\ TokensUnique /\ TokensOnRoute /\ OnePerRoute /\ CallerKnows
  /\ RequestWhole /\ ServesPending /\ ResponseWhole /\ ReadMatches
  /\ CompletionsMatch /\ ResultMatches /\ NotRestarted

-----------------------------------------------------------------------------
(* Facts about results and the queue of completions. *)

Completion == [call : Calls, val : MaybeResults]

LEMMA ResultFacts ==
  /\ NoResult \in MaybeResults
  /\ \A c \in Calls : Result(c) \in MaybeResults /\ Result(c) # NoResult
BY Zenon, CallsAssumption DEF NoResult, Result, MaybeResults, MaybeCalls

LEMMA QueueFacts ==
  ASSUME NEW s \in Seq(Completion)
  PROVE  /\ Len(s) \in Nat
         /\ \A i \in 1 .. Len(s) : s[i] \in Completion
         /\ \A e \in Completion :
              /\ Append(s, e) \in Seq(Completion)
              /\ Len(Append(s, e)) = Len(s) + 1
              /\ \A i \in 1 .. Len(s) : Append(s, e)[i] = s[i]
              /\ Append(s, e)[Len(s) + 1] = e
         /\ s # <<>> => /\ Head(s) = s[1] /\ 1 \in 1 .. Len(s)
                        /\ Tail(s) \in Seq(Completion)
                        /\ Len(Tail(s)) = Len(s) - 1
                        /\ \A i \in 1 .. Len(s) - 1 : Tail(s)[i] = s[i + 1]
<1>1. Len(s) \in Nat /\ \A i \in 1 .. Len(s) : s[i] \in Completion
  OBVIOUS
<1>2. ASSUME NEW e \in Completion
      PROVE  /\ Append(s, e) \in Seq(Completion)
             /\ Len(Append(s, e)) = Len(s) + 1
             /\ \A i \in 1 .. Len(s) : Append(s, e)[i] = s[i]
             /\ Append(s, e)[Len(s) + 1] = e
  OBVIOUS
<1>3. ASSUME s # <<>>
      PROVE  /\ Head(s) = s[1] /\ 1 \in 1 .. Len(s)
             /\ Tail(s) \in Seq(Completion)
             /\ Len(Tail(s)) = Len(s) - 1
             /\ \A i \in 1 .. Len(s) - 1 : Tail(s)[i] = s[i + 1]
  BY <1>1, <1>3
<1> QED BY Zenon, <1>1, <1>2, <1>3

(* Completing the future of call c with its own result, or failing it. *)
FuturesOK ==
  /\ status \in [Calls -> {"new", "calling", "waiting", "ok", "failed", "lost"}]
  /\ value \in [Calls -> MaybeResults]

StatusMoves ==
  \A d \in Calls : \/ status'[d] = status[d]
                   \/ status[d] = "waiting" /\ status'[d] \in {"ok", "failed"}

LEMMA FinishKeeps ==
  ASSUME FuturesOK, ResultMatches, NEW c \in Calls,
         NEW v \in {NoResult, Result(c)}, Finish(c, v)
  PROVE  FuturesOK' /\ ResultMatches' /\ StatusMoves
<1>1. CASE status[c] = "waiting"
  <2>1. /\ status' = [status EXCEPT ![c] = IF v = NoResult THEN "failed" ELSE "ok"]
        /\ value' = [value EXCEPT ![c] = v]
    BY Zenon, <1>1 DEF Finish
  <2>2. FuturesOK' /\ StatusMoves
    BY Zenon, <1>1, <2>1, ResultFacts DEF FuturesOK, StatusMoves
  <2>3. ResultMatches'
    BY Zenon, <2>1, ResultFacts DEF FuturesOK, ResultMatches
  <2> QED BY Zenon, <2>2, <2>3
<1>2. CASE status[c] # "waiting"
  BY Zenon, <1>2 DEF Finish, FuturesOK, ResultMatches, StatusMoves
<1> QED BY Zenon, <1>1, <1>2

QueueOK == completions \in Seq(Completion) /\ Len(completions) <= MaxIpcCompletions

LEMMA EnqueueKeeps ==
  ASSUME FuturesOK, QueueOK, CompletionsMatch, ResultMatches, NEW c \in Calls,
         NEW v \in {NoResult, Result(c)}, enqueueIpcCompletion(c, v)
  PROVE  /\ FuturesOK' /\ QueueOK' /\ CompletionsMatch' /\ ResultMatches'
         /\ StatusMoves
<1>1. CASE status[c] # "waiting"
  BY Zenon, <1>1
  DEF enqueueIpcCompletion, FuturesOK, QueueOK, CompletionsMatch,
              ResultMatches, StatusMoves
<1>2. CASE status[c] = "waiting" /\ Len(completions) >= MaxIpcCompletions
  <2>1. Finish(c, v) /\ UNCHANGED completions
    BY Zenon, <1>2 DEF enqueueIpcCompletion
  <2> QED BY Zenon, <2>1, FinishKeeps DEF QueueOK, CompletionsMatch
<1>3. CASE status[c] = "waiting" /\ ~ (Len(completions) >= MaxIpcCompletions)
  <2> DEFINE e == [call |-> c, val |-> v]
  <2>1. completions' = Append(completions, e) /\ UNCHANGED futures
    BY Zenon, <1>3 DEF enqueueIpcCompletion
  <2>2. e \in Completion /\ e.val \in {NoResult, Result(e.call)}
    BY Zenon, ResultFacts DEF Completion
  <2>3. QueueOK'
    BY <1>3, <2>1, <2>2, QueueFacts, BoundsAssumption DEF QueueOK
  <2>4. CompletionsMatch'
    <3>1. SUFFICES ASSUME NEW i \in 1 .. Len(completions) + 1
                   PROVE  completions'[i].val \in {NoResult, Result(completions'[i].call)}
      BY ZenonT(60), <2>1, <2>2, QueueFacts DEF QueueOK, CompletionsMatch
    <3>2. CASE i \in 1 .. Len(completions)
      BY <3>2, <2>1, <2>2, QueueFacts DEF QueueOK, CompletionsMatch
    <3>3. CASE i = Len(completions) + 1
      BY Zenon, <3>3, <2>1, <2>2, QueueFacts DEF QueueOK
    <3> QED BY <3>2, <3>3, QueueFacts DEF QueueOK
  <2> QED BY Zenon, <2>1, <2>3, <2>4 DEF FuturesOK, ResultMatches, StatusMoves
<1> QED BY Zenon, <1>1, <1>2, <1>3

-----------------------------------------------------------------------------
(* What a step leaves alone keeps its part of the invariant. *)

LEMMA TypeFacts ==
  /\ Free \in TokenWords /\ NoCall \in MaybeCalls /\ Calls \subseteq MaybeCalls
  /\ NoResult \in MaybeResults
  /\ \A t \in TokenWords : t \in Nat
  /\ \A b, c \in MaybeCalls : <<b, c>> \in MaybeResults
BY BoundsAssumption
DEF TokenWords, Tokens, Free, MaybeCalls, MaybeResults, NoResult

LEMMA FreeBelow == IInv => Free < nextToken
BY BoundsAssumption DEF IInv, TypeOK, Free

LEMMA ServesFrame ==
  ASSUME ServesPending,
         UNCHANGED <<server, reqTag, reqDat, respLen, respDat, token>>,
         pending' \subseteq pending, Publishing' \subseteq Publishing
  PROVE  ServesPending'
<1>1. SUFFICES ASSUME NEW r \in Routes, NEW c \in pending',
                      spc'[r] # "idle", stok'[r] = token'[c]
               PROVE  Serving(r, c)'
  BY Zenon DEF ServesPending
<1>2. Serving(r, c)
  BY Zenon, <1>1 DEF ServesPending
<1> QED BY Zenon, <1>2 DEF Serving

LEMMA ResponseFrame ==
  ASSUME ResponseWhole, UNCHANGED <<spc, xram, token>>,
         pending' \subseteq pending, Publishing' \subseteq Publishing
  PROVE  ResponseWhole'
<1>1. SUFFICES ASSUME NEW r \in Routes, NEW c \in pending',
                      respTok'[r] = token'[c]
               PROVE  Answered(r, c)'
  BY Zenon DEF ResponseWhole
<1>2. Answered(r, c)
  BY Zenon, <1>1 DEF ResponseWhole
<1> QED BY Zenon, <1>2 DEF Answered

LEMMA TokensFrame ==
  ASSUME TokensUnique, UNCHANGED <<reqTok, stok, respTok, table>>,
         ctok' < nextToken,
         \A c \in Calls : status'[c] = "new" => status[c] = "new"
  PROVE  TokensUnique'
BY Zenon DEF TokensUnique

LEMMA RoutesFrame ==
  ASSUME TokensOnRoute, OnePerRoute,
         UNCHANGED <<reqTok, stok, respTok, pending, token>>
  PROVE  TokensOnRoute' /\ OnePerRoute'
BY Zenon DEF TokensOnRoute, OnePerRoute

LEMMA RequestFrame ==
  ASSUME RequestWhole, UNCHANGED <<pending, token>>,
         \A r \in Routes : reqTok'[r] # Free =>
           /\ reqTok'[r] = reqTok[r] /\ reqTag'[r] = reqTag[r]
           /\ reqDat'[r] = reqDat[r]
  PROVE  RequestWhole'
<1>1. SUFFICES ASSUME NEW r \in Routes, reqTok'[r] # Free
               PROVE  \E c \in Calls :
                        /\ token[c] = reqTok'[r] /\ RouteOf[c] = r
                        /\ reqTag'[r] = c /\ reqDat'[r] = c
                        /\ \A d \in pending : RouteOf[d] = r => d = c
  BY Zenon DEF RequestWhole
<1>2. PICK c \in Calls : /\ token[c] = reqTok[r] /\ RouteOf[c] = r
                         /\ reqTag[r] = c /\ reqDat[r] = c
                         /\ \A d \in pending : RouteOf[d] = r => d = c
  BY Zenon, <1>1 DEF RequestWhole
<1> QED BY ZenonT(60), <1>1, <1>2

LEMMA ResultFrame ==
  ASSUME CompletionsMatch, ResultMatches, UNCHANGED <<completions, value>>,
         \A c \in Calls : status'[c] = "ok" => status[c] = "ok"
  PROVE  CompletionsMatch' /\ ResultMatches'
BY Zenon DEF CompletionsMatch, ResultMatches

LEMMA NoRestart ==
  ASSUME NotRestarted, restarts' = restarts PROVE NotRestarted'
BY Zenon DEF NotRestarted

(* A step of the caller that writes no slot and no entry of the table. *)
LEMMA CallerStep ==
  ASSUME IInv,
         UNCHANGED <<xram, server, table, completions, value, restarts>>,
         Publishing' \subseteq Publishing, ctok' < nextToken,
         \A c \in Calls : status'[c] \in {"new", "ok"} => status'[c] = status[c],
         TypeOK', CallerKnows', ReadMatches'
  PROVE  IInv'
<1>1. TokensUnique' /\ TokensOnRoute' /\ OnePerRoute' /\ RequestWhole'
  BY Zenon, TokensFrame, RoutesFrame, RequestFrame DEF IInv
<1>2. ServesPending' /\ ResponseWhole'
  BY Zenon, ServesFrame, ResponseFrame DEF IInv
<1>3. CompletionsMatch' /\ ResultMatches' /\ NotRestarted'
  BY Zenon, ResultFrame, NoRestart DEF IInv
<1> QED BY Zenon, <1>1, <1>2, <1>3 DEF IInv

(* A step of the server of route r. *)
SameAt(q) ==
  /\ reqTok'[q] = reqTok[q] /\ respTok'[q] = respTok[q]
  /\ respLen'[q] = respLen[q] /\ respDat'[q] = respDat[q]
  /\ spc'[q] = spc[q] /\ stok'[q] = stok[q] /\ stag'[q] = stag[q]

AtRoute(r, c) ==
  /\ spc[r] # "idle" /\ stok[r] = token[c] => Serving(r, c)
  /\ respTok[r] = token[c] => Answered(r, c)

LEMMA OtherRoutes ==
  ASSUME NEW q \in Routes, NEW c \in pending, SameAt(q), AtRoute(q, c),
         UNCHANGED <<reqTag, reqDat, token>>, Publishing' = Publishing
  PROVE  AtRoute(q, c)'
<1>1. Serving(q, c) => Serving(q, c)'
  BY Zenon DEF SameAt, Serving
<1>2. Answered(q, c) => Answered(q, c)'
  BY Zenon DEF SameAt, Answered
<1> QED BY Zenon, <1>1, <1>2 DEF SameAt, AtRoute

LEMMA ServerStep ==
  ASSUME IInv, NEW r \in Routes, \A q \in Routes \ {r} : SameAt(q),
         UNCHANGED <<reqTag, reqDat, control, locals, table, completions,
                     futures, restarts>>,
         reqTok'[r] \in {reqTok[r], Free},
         stok'[r] \in {stok[r], reqTok[r], Free},
         respTok'[r] \in {respTok[r], stok[r]},
         TypeOK', ReadMatches',
         \A c \in pending : AtRoute(r, c)'
  PROVE  IInv'
<1>1. \A q \in Routes : /\ reqTok'[q] \in {reqTok[q], Free}
                        /\ stok'[q] \in {stok[q], reqTok[q], Free}
                        /\ respTok'[q] \in {respTok[q], stok[q]}
  BY Zenon DEF SameAt
<1>2. TokensUnique'
  <2>1. \A q \in Routes : /\ reqTok'[q] < nextToken /\ stok'[q] < nextToken
                          /\ respTok'[q] < nextToken
    BY Zenon, <1>1, FreeBelow DEF IInv, TokensUnique
  <2> QED BY Zenon, <2>1 DEF IInv, TokensUnique
<1>3. TokensOnRoute' /\ OnePerRoute'
  BY <1>1 DEF IInv, TokensOnRoute, OnePerRoute
<1>4. RequestWhole'
  BY <1>1 DEF IInv, RequestWhole
<1>5. CallerKnows'
  <2>1. croute \in Routes
    BY Zenon DEF IInv, TypeOK
  <2> QED
    BY Zenon, <1>1, <2>1 DEF IInv, CallerKnows, Preparing, Writing, TimingOut
<1>6. ServesPending' /\ ResponseWhole'
  <2>1. ASSUME NEW q \in Routes, NEW c \in pending PROVE AtRoute(q, c)'
    <3>1. CASE q = r
      BY Zenon, <3>1
    <3>2. CASE q # r
      <4>1. AtRoute(q, c) /\ SameAt(q)
        BY Zenon, <3>2 DEF IInv, ServesPending, ResponseWhole, AtRoute
      <4>2. Publishing' = Publishing
        BY Zenon DEF Publishing
      <4> QED BY Zenon, <4>1, <4>2, OtherRoutes
    <3> QED BY Zenon, <3>1, <3>2
  <2> QED BY Zenon, <2>1 DEF ServesPending, ResponseWhole, AtRoute
<1>7. CompletionsMatch' /\ ResultMatches' /\ NotRestarted'
  BY Zenon, ResultFrame, NoRestart DEF IInv
<1> QED BY Zenon, <1>2, <1>3, <1>4, <1>5, <1>6, <1>7 DEF IInv

LEMMA ReadFrame ==
  ASSUME ReadMatches, UNCHANGED <<respTok, cpc, croute, ctok, clen, cdat,
                                  pending, token>>
  PROVE  ReadMatches'
BY Zenon DEF ReadMatches

-----------------------------------------------------------------------------
(* The server's steps keep the invariant. *)

LEMMA serveReadTokenKeeps ==
  ASSUME IInv, NEW r \in Routes, serveReadToken(r) PROVE IInv'
<1>1. /\ UNCHANGED <<xram, stag, control, locals, table, completions, futures,
                     restarts>>
      /\ spc[r] = "idle" /\ reqTok[r] # Free
      /\ stok' = [stok EXCEPT ![r] = reqTok[r]]
      /\ spc' = [spc EXCEPT ![r] = "tag"]
  BY Zenon DEF serveReadToken
<1>2. TypeOK'
  BY Zenon, <1>1 DEF IInv, TypeOK
<1>3. /\ stok'[r] = reqTok[r] /\ spc'[r] = "tag"
      /\ \A q \in Routes \ {r} : stok'[q] = stok[q] /\ spc'[q] = spc[q]
  BY Zenon, <1>1 DEF IInv, TypeOK
<1>4. ReadMatches' /\ Publishing' = Publishing
  BY Zenon, <1>1, ReadFrame DEF IInv, Publishing
<1>5. ASSUME NEW c \in pending PROVE AtRoute(r, c)'
  <2>1. ASSUME stok'[r] = token[c] PROVE Serving(r, c)'
    <3>1. token[c] # Free /\ c \in Calls
      BY Zenon DEF IInv, TypeOK, TokensUnique
    <3>2. RouteOf[c] = r
      BY ZenonT(60), <1>3, <2>1, <3>1 DEF IInv, TokensOnRoute
    <3>3. reqTag[r] = c /\ reqDat[r] = c
      BY Zenon, <1>1, <3>2 DEF IInv, RequestWhole
    <3>4. c \notin Publishing
      BY Zenon, <1>1, <3>2 DEF IInv, CallerKnows, Writing, Publishing
    <3> QED BY Zenon, <1>1, <1>3, <1>4, <3>3, <3>4 DEF Serving
  <2>2. respTok[r] # token[c]
    BY Zenon, <1>1 DEF IInv, ResponseWhole, Answered
  <2> QED BY Zenon, <1>1, <2>1, <2>2 DEF AtRoute
<1>6. \A q \in Routes \ {r} : SameAt(q)
  BY Zenon, <1>1, <1>3 DEF SameAt
<1> QED BY Zenon, <1>1, <1>2, <1>3, <1>4, <1>5, <1>6, ServerStep

LEMMA serveReadTagKeeps ==
  ASSUME IInv, NEW r \in Routes, serveReadTag(r) PROVE IInv'
<1>1. /\ UNCHANGED <<xram, stok, control, locals, table, completions, futures,
                     restarts>>
      /\ spc[r] = "tag"
      /\ stag' = [stag EXCEPT ![r] = reqTag[r]]
      /\ spc' = [spc EXCEPT ![r] = IF reqTag[r] \in Handled THEN "handle"
                                                            ELSE "len"]
  BY Zenon DEF serveReadTag
<1>2. TypeOK'
  BY Zenon, <1>1 DEF IInv, TypeOK
<1>3. /\ stag'[r] = reqTag[r]
      /\ spc'[r] = IF reqTag[r] \in Handled THEN "handle" ELSE "len"
      /\ \A q \in Routes \ {r} : stag'[q] = stag[q] /\ spc'[q] = spc[q]
  BY Zenon, <1>1 DEF IInv, TypeOK
<1>4. ReadMatches' /\ Publishing' = Publishing
  BY Zenon, <1>1, ReadFrame DEF IInv, Publishing
<1>5. ASSUME NEW c \in pending PROVE AtRoute(r, c)'
  <2>1. stok[r] = token[c] => Serving(r, c)
    BY Zenon, <1>1 DEF IInv, ServesPending
  <2>2. respTok[r] # token[c]
    BY Zenon, <1>1 DEF IInv, ResponseWhole, Answered
  <2> QED BY <1>1, <1>3, <1>4, <2>1, <2>2 DEF AtRoute, Serving
<1>6. \A q \in Routes \ {r} : SameAt(q)
  BY Zenon, <1>1, <1>3 DEF SameAt
<1> QED BY Zenon, <1>1, <1>2, <1>4, <1>5, <1>6, ServerStep

LEMMA serveHandleKeeps ==
  ASSUME IInv, NEW r \in Routes, serveHandle(r) PROVE IInv'
<1>1. /\ UNCHANGED <<reqTok, reqTag, reqDat, respTok, respLen, stok, stag,
                     control, locals, table, completions, futures, restarts>>
      /\ spc[r] = "handle"
      /\ respDat' = [respDat EXCEPT ![r] = <<stag[r], reqDat[r]>>]
      /\ spc' = [spc EXCEPT ![r] = "len"]
  BY Zenon DEF serveHandle
<1>2. TypeOK'
  BY Zenon, <1>1, TypeFacts DEF IInv, TypeOK
<1>3. /\ respDat'[r] = <<stag[r], reqDat[r]>> /\ spc'[r] = "len"
      /\ \A q \in Routes \ {r} : respDat'[q] = respDat[q] /\ spc'[q] = spc[q]
  BY Zenon, <1>1 DEF IInv, TypeOK
<1>4. ReadMatches' /\ Publishing' = Publishing
  BY Zenon, <1>1, ReadFrame DEF IInv, Publishing
<1>5. ASSUME NEW c \in pending PROVE AtRoute(r, c)'
  <2>1. stok[r] = token[c] => Serving(r, c)
    BY Zenon, <1>1 DEF IInv, ServesPending
  <2>2. respTok[r] # token[c]
    BY Zenon, <1>1 DEF IInv, ResponseWhole, Answered
  <2> QED BY Zenon, <1>1, <1>3, <1>4, <2>1, <2>2 DEF AtRoute, Serving, Result
<1>6. \A q \in Routes \ {r} : SameAt(q)
  BY Zenon, <1>1, <1>3 DEF SameAt
<1> QED BY Zenon, <1>1, <1>2, <1>4, <1>5, <1>6, ServerStep

LEMMA serveWriteLenKeeps ==
  ASSUME IInv, NEW r \in Routes, serveWriteLen(r) PROVE IInv'
<1>1. /\ UNCHANGED <<reqTok, reqTag, reqDat, respTok, respDat, stok, stag,
                     control, locals, table, completions, futures, restarts>>
      /\ spc[r] = "len"
      /\ respLen' = [respLen EXCEPT ![r] = stag[r] \in Handled]
      /\ spc' = [spc EXCEPT ![r] = "publish"]
  BY Zenon DEF serveWriteLen
<1>2. TypeOK'
  BY <1>1 DEF IInv, TypeOK
<1>3. /\ spc'[r] = "publish"
      /\ \A q \in Routes \ {r} : respLen'[q] = respLen[q] /\ spc'[q] = spc[q]
  BY Zenon, <1>1 DEF IInv, TypeOK
<1>4. respLen'[r] <=> stag[r] \in Handled
  BY Zenon, <1>1 DEF IInv, TypeOK
<1>5. ReadMatches' /\ Publishing' = Publishing
  BY Zenon, <1>1, ReadFrame DEF IInv, Publishing
<1>6. ASSUME NEW c \in pending PROVE AtRoute(r, c)'
  <2>1. stok[r] = token[c] => Serving(r, c)
    BY Zenon, <1>1 DEF IInv, ServesPending
  <2>2. respTok[r] # token[c]
    BY Zenon, <1>1 DEF IInv, ResponseWhole, Answered
  <2> QED BY Zenon, <1>1, <1>3, <1>4, <1>5, <2>1, <2>2 DEF AtRoute, Serving
<1>7. \A q \in Routes \ {r} : SameAt(q)
  BY Zenon, <1>1, <1>3 DEF SameAt
<1> QED BY Zenon, <1>1, <1>2, <1>5, <1>6, <1>7, ServerStep

LEMMA servePublishKeeps ==
  ASSUME IInv, NEW r \in Routes, servePublish(r) PROVE IInv'
<1>1. /\ UNCHANGED <<reqTok, reqTag, reqDat, respLen, respDat, stok, stag,
                     control, locals, table, completions, futures, restarts>>
      /\ spc[r] = "publish"
      /\ respTok' = [respTok EXCEPT ![r] = stok[r]]
      /\ spc' = [spc EXCEPT ![r] = "clear"]
  BY Zenon DEF servePublish
<1>2. TypeOK'
  BY Zenon, <1>1 DEF IInv, TypeOK
<1>3. /\ respTok'[r] = stok[r] /\ spc'[r] = "clear"
      /\ \A q \in Routes \ {r} : respTok'[q] = respTok[q] /\ spc'[q] = spc[q]
  BY Zenon, <1>1 DEF IInv, TypeOK
<1>4. Publishing' = Publishing
  BY Zenon, <1>1 DEF Publishing
<1>5. \A c \in pending : respTok[r] # token[c]
  BY Zenon, <1>1 DEF IInv, ResponseWhole, Answered
<1>6. ReadMatches'
  <2>1. croute \in Routes
    BY Zenon DEF IInv, TypeOK
  <2> QED BY Zenon, <1>1, <1>3, <1>5, <2>1 DEF IInv, ReadMatches
<1>7. ASSUME NEW c \in pending PROVE AtRoute(r, c)'
  <2>1. stok[r] = token[c] => Serving(r, c)
    BY Zenon, <1>1 DEF IInv, ServesPending
  <2> QED BY Zenon, <1>1, <1>3, <1>4, <2>1 DEF AtRoute, Serving, Answered
<1>8. \A q \in Routes \ {r} : SameAt(q)
  BY Zenon, <1>1, <1>3 DEF SameAt
<1> QED BY Zenon, <1>1, <1>2, <1>3, <1>6, <1>7, <1>8, ServerStep

LEMMA serveClearKeeps ==
  ASSUME IInv, NEW r \in Routes, serveClear(r) PROVE IInv'
<1>1. /\ UNCHANGED <<reqTag, reqDat, respTok, respLen, respDat, control,
                     locals, table, completions, futures, restarts>>
      /\ spc[r] = "clear"
      /\ reqTok' = [reqTok EXCEPT ![r] = Free]
      /\ spc' = [spc EXCEPT ![r] = "idle"]
      /\ stok' = [stok EXCEPT ![r] = Free] /\ stag' = [stag EXCEPT ![r] = NoCall]
  BY Zenon DEF serveClear
<1>2. TypeOK'
  BY Zenon, <1>1, TypeFacts DEF IInv, TypeOK
<1>3. /\ reqTok'[r] = Free /\ spc'[r] = "idle" /\ stok'[r] = Free
      /\ \A q \in Routes \ {r} : /\ reqTok'[q] = reqTok[q] /\ spc'[q] = spc[q]
                                 /\ stok'[q] = stok[q] /\ stag'[q] = stag[q]
  BY Zenon, <1>1 DEF IInv, TypeOK
<1>4. ReadMatches' /\ Publishing' = Publishing
  BY Zenon, <1>1, ReadFrame DEF IInv, Publishing
<1>5. ASSUME NEW c \in pending PROVE AtRoute(r, c)'
  <2>1. respTok[r] = token[c] => Answered(r, c)
    BY Zenon DEF IInv, ResponseWhole
  <2> QED BY Zenon, <1>1, <1>3, <1>4, <2>1 DEF AtRoute, Answered
<1>6. \A q \in Routes \ {r} : SameAt(q)
  BY Zenon, <1>1, <1>3 DEF SameAt
<1> QED BY Zenon, <1>1, <1>2, <1>3, <1>4, <1>5, <1>6, ServerStep

-----------------------------------------------------------------------------
(* The caller's steps that write no slot and no table keep the invariant. *)

LEMMA respReadTokenKeeps ==
  ASSUME IInv, respReadToken PROVE IInv'
<1>1. /\ cpc = "respToken" /\ ctok' = respTok[croute]
      /\ cpc' \in {rret, "respLen"}
      /\ UNCHANGED <<xram, server, cret, rret, ccall, croute, clen, cdat,
                     pollLeft, table, completions, futures, restarts>>
  BY Zenon DEF respReadToken
<1>2. rret \in {"poll", "checkReq"} /\ croute \in Routes
  BY Zenon DEF IInv, TypeOK
<1>3. TypeOK'
  BY Zenon, <1>1, <1>2 DEF IInv, TypeOK, CallerLabels
<1>4. Publishing' = Publishing
  BY Zenon, <1>1, <1>2 DEF Publishing
<1>5. ctok' < nextToken
  BY Zenon, <1>1, <1>2 DEF IInv, TokensUnique
<1>6. CallerKnows'
  BY Zenon, <1>1, <1>2 DEF IInv, CallerKnows, Preparing, Writing, TimingOut
<1>7. ReadMatches'
  BY Zenon, <1>1, <1>2 DEF ReadMatches
<1> QED BY Zenon, <1>1, <1>3, <1>4, <1>5, <1>6, <1>7, CallerStep

LEMMA respReadLenKeeps ==
  ASSUME IInv, respReadLen PROVE IInv'
<1>1. /\ cpc = "respLen" /\ clen' = respLen[croute]
      /\ cpc' \in {"respData", "respClear"}
      /\ cpc' = "respClear" /\ respLen[croute] => Awaited(ctok) = {}
      /\ UNCHANGED <<xram, server, cret, rret, ccall, croute, ctok, cdat,
                     pollLeft, table, completions, futures, restarts>>
  BY Zenon DEF respReadLen
<1>2. croute \in Routes /\ respLen[croute] \in BOOLEAN
  BY Zenon DEF IInv, TypeOK
<1>3. TypeOK'
  BY Zenon, <1>1, <1>2 DEF IInv, TypeOK, CallerLabels
<1>4. Publishing' = Publishing
  BY Zenon, <1>1 DEF Publishing
<1>5. ctok' < nextToken
  BY Zenon, <1>1 DEF IInv, TokensUnique
<1>6. CallerKnows'
  BY Zenon, <1>1 DEF IInv, CallerKnows, Preparing, Writing, TimingOut
<1>7. ReadMatches'
  <2>1. SUFFICES ASSUME NEW c \in pending, ctok = token[c]
                 PROVE  /\ respTok[croute] = ctok
                        /\ clen' <=> c \in Handled
                        /\ ~ (cpc' = "respClear" /\ clen')
    BY Zenon, <1>1 DEF ReadMatches
  <2>2. respTok[croute] = ctok
    BY Zenon, <1>1, <2>1 DEF IInv, ReadMatches
  <2>3. respLen[croute] <=> c \in Handled
    BY Zenon, <1>2, <2>1, <2>2 DEF IInv, ResponseWhole, Answered
  <2>4. c \in Awaited(ctok)
    BY Zenon, <2>1 DEF Awaited
  <2> QED BY Zenon, <1>1, <2>2, <2>3, <2>4
<1> QED BY Zenon, <1>1, <1>3, <1>4, <1>5, <1>6, <1>7, CallerStep

LEMMA respReadDataKeeps ==
  ASSUME IInv, respReadData PROVE IInv'
<1>1. /\ cpc = "respData" /\ cdat' = respDat[croute] /\ cpc' = "respClear"
      /\ UNCHANGED <<xram, server, cret, rret, ccall, croute, ctok, clen,
                     pollLeft, table, completions, futures, restarts>>
  BY Zenon DEF respReadData
<1>2. croute \in Routes
  BY Zenon DEF IInv, TypeOK
<1>3. TypeOK'
  BY Zenon, <1>1, <1>2 DEF IInv, TypeOK, CallerLabels
<1>4. Publishing' = Publishing
  BY Zenon, <1>1 DEF Publishing
<1>5. ctok' < nextToken
  BY Zenon, <1>1 DEF IInv, TokensUnique
<1>6. CallerKnows'
  BY Zenon, <1>1 DEF IInv, CallerKnows, Preparing, Writing, TimingOut
<1>7. ReadMatches'
  BY ZenonT(60), <1>1, <1>2 DEF IInv, ReadMatches, ResponseWhole, Answered
<1> QED BY Zenon, <1>1, <1>3, <1>4, <1>5, <1>6, <1>7, CallerStep

LEMMA ipcCallKeeps ==
  ASSUME IInv, NEW c \in Calls, ipcCall(c) PROVE IInv'
<1>1. /\ cpc \in {"idle", "resumed"} /\ cpc' = "respToken"
      /\ status[c] = "new" /\ nextToken <= MaxToken
      /\ status' = [status EXCEPT ![c] = "calling"]
      /\ ccall' = c /\ croute' = RouteOf[c] /\ cret' = cpc /\ rret' = "checkReq"
      /\ UNCHANGED <<xram, server, ctok, clen, cdat, pollLeft, table,
                     completions, value, restarts>>
  BY Zenon DEF ipcCall
<1>2. TypeOK'
  BY Zenon, <1>1, TypeFacts, RouteAssumption DEF IInv, TypeOK, CallerLabels
<1>3. status'[c] = "calling" /\ \A d \in Calls \ {c} : status'[d] = status[d]
  BY Zenon, <1>1 DEF IInv, TypeOK
<1>4. Publishing' = {}
  BY Zenon, <1>1 DEF Publishing
<1>5. ctok' < nextToken /\ token[c] = Free
  BY Zenon, <1>1 DEF IInv, TokensUnique
<1>6. CallerKnows'
  BY Zenon, <1>1, <1>3, <1>5 DEF CallerKnows, Preparing, Writing, TimingOut
<1>7. ReadMatches'
  BY Zenon, <1>1 DEF ReadMatches
<1> QED BY Zenon, <1>1, <1>2, <1>3, <1>4, <1>5, <1>6, <1>7, CallerStep

LEMMA cancelKeeps ==
  ASSUME IInv, NEW c \in Calls, cancel(c) PROVE IInv'
<1>1. /\ cpc \in {"idle", "resumed"}
      /\ status' = [status EXCEPT ![c] = "failed"]
      /\ UNCHANGED <<xram, server, control, locals, table, completions, value,
                     restarts>>
  BY Zenon DEF cancel
<1>2. TypeOK'
  BY Zenon, <1>1 DEF IInv, TypeOK
<1>3. status'[c] = "failed" /\ \A d \in Calls \ {c} : status'[d] = status[d]
  BY Zenon, <1>1 DEF IInv, TypeOK
<1>4. Publishing' = {}
  BY Zenon, <1>1 DEF Publishing
<1>5. ctok' < nextToken
  BY Zenon, <1>1 DEF IInv, TokensUnique
<1>6. CallerKnows'
  BY Zenon, <1>1 DEF CallerKnows, Preparing, Writing, TimingOut
<1>7. ReadMatches'
  BY Zenon, <1>1 DEF ReadMatches
<1> QED BY Zenon, <1>1, <1>2, <1>3, <1>4, <1>5, <1>6, <1>7, CallerStep

LEMMA callCheckReqKeeps ==
  ASSUME IInv, callCheckReq PROVE IInv'
<1>1. /\ cpc = "checkReq"
      /\ UNCHANGED <<xram, server, cret, rret, locals, table, completions,
                     value, restarts>>
      /\ \/ cpc' = cret /\ status' = [status EXCEPT ![ccall] = "failed"]
         \/ /\ cpc' = "checkResp" /\ status' = status
            /\ reqTok[croute] = Free /\ \A c \in pending : RouteOf[c] # croute
  BY Zenon DEF callCheckReq, Refuse
<1>2. /\ cret \in {"idle", "resumed"} /\ ccall \in Calls
      /\ status' = status \/ status'[ccall] = "failed"
      /\ \A d \in Calls \ {ccall} : status'[d] = status[d]
  BY Zenon, <1>1 DEF IInv, TypeOK, CallerKnows, Preparing
<1>3. TypeOK'
  BY Zenon, <1>1, <1>2 DEF IInv, TypeOK, CallerLabels
<1>4. Publishing' = {}
  BY Zenon, <1>1, <1>2 DEF Publishing
<1>5. ctok' < nextToken
  BY Zenon, <1>1 DEF IInv, TokensUnique
<1>6. CallerKnows'
  BY Zenon, <1>1, <1>2 DEF IInv, CallerKnows, Preparing, Writing, TimingOut
<1>7. ReadMatches'
  BY Zenon, <1>1, <1>2 DEF ReadMatches
<1> QED BY Zenon, <1>1, <1>2, <1>3, <1>4, <1>5, <1>6, <1>7, CallerStep

LEMMA timeoutReadRespKeeps ==
  ASSUME IInv, timeoutReadResp PROVE IInv'
<1>1. /\ cpc = "timeoutResp" /\ ctok' = respTok[croute] /\ cpc' = "timeoutDone"
      /\ UNCHANGED <<xram, server, cret, rret, ccall, croute, clen, cdat,
                     pollLeft, table, completions, futures, restarts>>
  BY Zenon DEF timeoutReadResp
<1>2. croute \in Routes
  BY Zenon DEF IInv, TypeOK
<1>3. TypeOK'
  BY Zenon, <1>1, <1>2 DEF IInv, TypeOK, CallerLabels
<1>4. Publishing' = {}
  BY Zenon, <1>1 DEF Publishing
<1>5. ctok' < nextToken
  BY Zenon, <1>1, <1>2 DEF IInv, TokensUnique
<1>6. CallerKnows'
  BY Zenon, <1>1 DEF IInv, CallerKnows, Preparing, Writing, TimingOut
<1>7. ReadMatches'
  BY Zenon, <1>1 DEF ReadMatches
<1> QED BY Zenon, <1>1, <1>3, <1>4, <1>5, <1>6, <1>7, CallerStep

(* The caller turns to its next piece of work. *)
Turn ==
  \/ pollDone \/ drainReturn \/ ipcPoll
  \/ \E r \in Routes : pollRoute(r)
  \/ \E c \in Calls : timeoutPendingCall(c)

LEMMA TurnKeeps ==
  ASSUME IInv, Turn PROVE IInv'
<1>1. /\ UNCHANGED <<xram, server, cret, ctok, clen, cdat, table, completions,
                     futures, restarts>>
      /\ pollLeft' \in SUBSET Routes
      /\ \/ cpc' \in {"poll", "drain"} /\ UNCHANGED <<ccall, croute, rret>>
         \/ cpc' = "respToken" /\ rret' = "poll" /\ croute' \in Routes
            /\ ccall' = ccall
         \/ cpc' = "timeoutReq" /\ ccall' \in pending
            /\ croute' = RouteOf[ccall'] /\ rret' = rret
  <2>1. pollLeft \in SUBSET Routes
    BY Zenon DEF IInv, TypeOK
  <2>2. CASE pollDone \/ drainReturn
    BY Zenon, <2>1, <2>2 DEF pollDone, drainReturn
  <2>3. CASE ipcPoll
    BY Zenon, <2>3 DEF ipcPoll
  <2>4. CASE \E r \in Routes : pollRoute(r)
    BY Zenon, <2>1, <2>4 DEF pollRoute
  <2>5. CASE \E c \in Calls : timeoutPendingCall(c)
    BY Zenon, <2>1, <2>5 DEF timeoutPendingCall
  <2> QED BY Zenon, <2>2, <2>3, <2>4, <2>5 DEF Turn
<1>2. pending \in SUBSET Calls
  BY Zenon DEF IInv, TypeOK
<1>3. TypeOK'
  BY Zenon, <1>1, <1>2, TypeFacts, RouteAssumption
  DEF IInv, TypeOK, CallerLabels
<1>4. Publishing' = {}
  BY Zenon, <1>1 DEF Publishing
<1>5. ctok' < nextToken
  BY Zenon, <1>1 DEF IInv, TokensUnique
<1>6. CallerKnows'
  BY Zenon, <1>1, <1>2 DEF CallerKnows, Preparing, Writing, TimingOut
<1>7. ReadMatches'
  BY Zenon, <1>1 DEF ReadMatches
<1> QED BY Zenon, <1>1, <1>3, <1>4, <1>5, <1>6, <1>7, CallerStep

-----------------------------------------------------------------------------
(***************************************************************************)
(* The other steps of the caller keep the invariant.                       *)
(***************************************************************************)
USE RouteAssumption, CallsAssumption, BoundsAssumption DEF Free

LEMMA callWriteTagKeeps ==
  ASSUME IInv, callWriteTag PROVE IInv'
<1> USE DEF callWriteTag
<1>1. TypeOK'
  BY Zenon, TypeFacts DEF IInv, TypeOK, CallerLabels
<1>2. Publishing' = Publishing
  BY Zenon DEF Publishing
<1>3. TokensUnique' /\ TokensOnRoute' /\ OnePerRoute'
  BY Zenon, <1>2 DEF IInv, TokensUnique, TokensOnRoute, OnePerRoute
<1>4. ResponseWhole'
  BY Zenon, <1>2 DEF IInv, ResponseWhole, Answered
<1>5. ReadMatches' /\ CompletionsMatch' /\ ResultMatches'
  BY Zenon, <1>2 DEF IInv, ReadMatches, CompletionsMatch, ResultMatches
<1>6. CallerKnows'
  BY Zenon, <1>2 DEF IInv, CallerKnows, Preparing, Writing, TimingOut, TypeOK
<1>7. RequestWhole'
  <2>1. croute \in Routes /\ reqTok[croute] = Free
    BY Zenon DEF IInv, TypeOK, CallerKnows, Writing
  <2>2. \A r \in Routes \ {croute} : reqTag'[r] = reqTag[r]
    BY Zenon DEF IInv, TypeOK
  <2> QED BY Zenon, <2>1, <2>2, RequestFrame DEF IInv
<1>8. ServesPending'
  <2>1. SUFFICES ASSUME NEW r \in Routes, NEW c \in pending,
                        spc[r] # "idle", stok[r] = token[c]
                 PROVE  Serving(r, c)'
    BY Zenon DEF ServesPending
  <2>2. Serving(r, c) /\ c # ccall
    BY Zenon, <2>1 DEF IInv, ServesPending, Serving, Publishing
  <2>3. r # croute
    <3>1. RouteOf[c] = r /\ ccall \in pending /\ RouteOf[ccall] = croute
      BY Zenon, <2>1
      DEF IInv, TypeOK, TokensUnique, TokensOnRoute, CallerKnows,
                  Writing
    <3> QED BY Zenon, <2>2, <3>1 DEF IInv, OnePerRoute
  <2> QED BY Zenon, <1>2, <2>2, <2>3 DEF IInv, TypeOK, Serving
<1> QED
  BY Zenon, <1>1, <1>3, <1>4, <1>5, <1>6, <1>7, <1>8, NoRestart DEF IInv

LEMMA callWriteDataKeeps ==
  ASSUME IInv, callWriteData PROVE IInv'
<1> USE DEF callWriteData
<1>1. TypeOK'
  BY Zenon, TypeFacts DEF IInv, TypeOK, CallerLabels
<1>2. Publishing' = Publishing
  BY Zenon DEF Publishing
<1>3. TokensUnique' /\ TokensOnRoute' /\ OnePerRoute'
  BY Zenon, <1>2 DEF IInv, TokensUnique, TokensOnRoute, OnePerRoute
<1>4. ResponseWhole'
  BY Zenon, <1>2 DEF IInv, ResponseWhole, Answered
<1>5. ReadMatches' /\ CompletionsMatch' /\ ResultMatches'
  BY Zenon, <1>2 DEF IInv, ReadMatches, CompletionsMatch, ResultMatches
<1>6. CallerKnows'
  BY Zenon, <1>2 DEF IInv, CallerKnows, Preparing, Writing, TimingOut, TypeOK
<1>7. RequestWhole'
  <2>1. croute \in Routes /\ reqTok[croute] = Free
    BY Zenon DEF IInv, TypeOK, CallerKnows, Writing
  <2>2. \A r \in Routes \ {croute} : reqDat'[r] = reqDat[r]
    BY Zenon DEF IInv, TypeOK
  <2> QED BY Zenon, <2>1, <2>2, RequestFrame DEF IInv
<1>8. ServesPending'
  <2>1. SUFFICES ASSUME NEW r \in Routes, NEW c \in pending,
                        spc[r] # "idle", stok[r] = token[c]
                 PROVE  Serving(r, c)'
    BY Zenon DEF ServesPending
  <2>2. Serving(r, c) /\ c # ccall
    BY Zenon, <2>1 DEF IInv, ServesPending, Serving, Publishing
  <2>3. r # croute
    <3>1. RouteOf[c] = r /\ ccall \in pending /\ RouteOf[ccall] = croute
      BY Zenon, <2>1
      DEF IInv, TypeOK, TokensUnique, TokensOnRoute, CallerKnows,
                  Writing
    <3> QED BY Zenon, <2>2, <3>1 DEF IInv, OnePerRoute
  <2> QED BY Zenon, <1>2, <2>2, <2>3 DEF IInv, TypeOK, Serving
<1> QED
  BY Zenon, <1>1, <1>3, <1>4, <1>5, <1>6, <1>7, <1>8, NoRestart DEF IInv

LEMMA timeoutReqKeeps ==
  ASSUME IInv, timeoutReq PROVE IInv'
<1> USE DEF timeoutReq
<1>1. TypeOK'
  BY Zenon, TypeFacts DEF IInv, TypeOK, CallerLabels
<1>2. Publishing' = {} /\ Publishing = {}
  BY Zenon DEF Publishing, IInv, TypeOK
<1>3. OnePerRoute'
  BY Zenon, <1>2 DEF IInv, OnePerRoute
<1>4. ServesPending'
  BY Zenon, <1>2, ServesFrame DEF IInv
<1>5. ReadMatches' /\ CompletionsMatch' /\ ResultMatches'
  BY Zenon, <1>2 DEF IInv, ReadMatches, CompletionsMatch, ResultMatches
<1>6. TokensUnique'
  BY <1>2 DEF IInv, TokensUnique, TypeOK
<1>7. TokensOnRoute'
  BY Zenon, <1>2 DEF IInv, TokensOnRoute, TypeOK
<1>8. CallerKnows'
  BY Zenon, <1>2 DEF IInv, CallerKnows, Preparing, Writing, TimingOut, TypeOK
<1>9. RequestWhole'
  <2>1. \A r \in Routes : reqTok'[r] # Free => reqTok'[r] = reqTok[r]
    BY Zenon DEF IInv, TypeOK
  <2> QED BY Zenon, <2>1, RequestFrame DEF IInv
<1>10. ResponseWhole'
  BY ZenonT(60), <1>2 DEF IInv, ResponseWhole, Answered, TypeOK
<1> QED
  BY Zenon, <1>1, <1>3, <1>4, <1>5, <1>6, <1>7, <1>8, <1>9, <1>10, NoRestart DEF
    IInv

LEMMA callPublishKeeps ==
  ASSUME IInv, callPublish PROVE IInv'
<1> USE DEF callPublish
<1>1. TypeOK'
  BY Zenon, TypeFacts DEF IInv, TypeOK, CallerLabels, CallerKnows, Writing
<1>2. Publishing' = {} /\ Publishing = {ccall}
  BY Zenon DEF Publishing, IInv, TypeOK
<1>3. TokensUnique' /\ TokensOnRoute'
  BY ZenonT(60)
  DEF IInv, TypeOK, TokensUnique, TokensOnRoute, CallerKnows, Writing
<1>4. OnePerRoute' /\ CompletionsMatch'
  BY Zenon DEF IInv, OnePerRoute, CompletionsMatch
<1>5. CallerKnows'
  BY Zenon DEF IInv, TypeOK, CallerKnows, Preparing, Writing, TimingOut
<1>6. RequestWhole'
  <2>1. SUFFICES ASSUME NEW r \in Routes, reqTok'[r] # Free
                 PROVE  \E c \in Calls :
                          /\ token[c] = reqTok'[r] /\ RouteOf[c] = r
                          /\ reqTag[r] = c /\ reqDat[r] = c
                          /\ \A d \in pending : RouteOf[d] = r => d = c
    BY Zenon DEF RequestWhole
  <2>2. CASE r = croute
    <3>1. /\ ccall \in Calls /\ ccall \in pending /\ croute = RouteOf[ccall]
          /\ reqTag[croute] = ccall /\ reqDat[croute] = ccall
      BY Zenon DEF IInv, CallerKnows, Writing
    <3>2. reqTok'[croute] = token[ccall]
      BY Zenon DEF IInv, TypeOK
    <3>3. \A d \in pending : RouteOf[d] = croute => d = ccall
      BY Zenon, <3>1 DEF IInv, OnePerRoute
    <3> QED BY Zenon, <2>2, <3>1, <3>2, <3>3
  <2>3. CASE r # croute
    BY ZenonT(60), <2>1, <2>3 DEF IInv, TypeOK, RequestWhole
  <2> QED BY Zenon, <2>2, <2>3
<1>7. ServesPending'
  BY Zenon, <1>2, ServesFrame DEF IInv
<1>8. ResponseWhole'
  <2>1. SUFFICES ASSUME NEW r \in Routes, NEW c \in pending,
                        respTok[r] = token[c]
                 PROVE  Answered(r, c)'
    BY Zenon DEF ResponseWhole
  <2>2. Answered(r, c) /\ c # ccall
    BY Zenon, <2>1, <1>2 DEF IInv, ResponseWhole, Answered
  <2>3. r # croute
    <3>1. RouteOf[c] = r /\ ccall \in pending /\ RouteOf[ccall] = croute
      BY Zenon, <2>1
      DEF IInv, TypeOK, TokensUnique, TokensOnRoute, CallerKnows,
                  Writing
    <3> QED BY Zenon, <2>2, <3>1 DEF IInv, OnePerRoute
  <2> QED BY Zenon, <1>2, <2>2, <2>3 DEF IInv, TypeOK, Answered
<1>9. ReadMatches'
  BY Zenon DEF IInv, TypeOK, ReadMatches
<1>10. ResultMatches'
  BY Zenon DEF IInv, TypeOK, ResultMatches, CallerKnows, Writing
<1> QED
  BY Zenon, <1>1, <1>3, <1>4, <1>5, <1>6, <1>7, <1>8, <1>9, <1>10, NoRestart
  DEF IInv

(* A refused call changes the status of its own future only. *)
LEMMA RefuseKeeps ==
  ASSUME IInv, cpc \in {"checkReq", "checkResp"}, Refuse,
         nextToken' \in {nextToken, nextToken + 1},
         UNCHANGED <<xram, server, cret, rret, locals, pending, token,
                     completions, value, restarts>>
  PROVE  IInv'
<1>0. /\ ccall \in Calls /\ status[ccall] = "calling" /\ nextToken <= MaxToken
      /\ nextToken \in Nat
  BY DEF IInv, TypeOK, CallerKnows, Preparing
<1>1. TypeOK'
  BY <1>0 DEF IInv, TypeOK, CallerLabels, Refuse
<1>2. Publishing' = {} /\ Publishing = {}
  BY Zenon DEF Publishing, IInv, TypeOK, Refuse
<1>3. TokensUnique'
  <2>1. \A c \in Calls : status'[c] = "new" => status[c] = "new"
    BY Zenon, <1>0 DEF IInv, TypeOK, Refuse
  <2>2. nextToken <= nextToken' /\ nextToken' \in Nat
    BY <1>0
  <2>3. \A t \in TokenWords : t < nextToken => t < nextToken'
    BY <1>0, <2>2, TypeFacts
  <2> QED BY Zenon, <2>1, <2>3 DEF IInv, TypeOK, TokensUnique
<1>4. TokensOnRoute' /\ OnePerRoute' /\ RequestWhole' /\ CompletionsMatch'
  BY Zenon, RoutesFrame, RequestFrame DEF IInv, CompletionsMatch
<1>5. CallerKnows'
  BY Zenon DEF IInv, TypeOK, CallerKnows, Preparing, Writing, TimingOut, Refuse
<1>6. ServesPending' /\ ResponseWhole'
  BY Zenon, <1>2, ServesFrame, ResponseFrame DEF IInv
<1>7. ReadMatches'
  BY Zenon DEF IInv, TypeOK, ReadMatches, Refuse
<1>8. ResultMatches'
  BY Zenon, <1>0 DEF IInv, TypeOK, ResultMatches, Refuse
<1> QED
  BY Zenon, <1>1, <1>3, <1>4, <1>5, <1>6, <1>7, <1>8, NoRestart DEF IInv

LEMMA callCheckRespKeeps ==
  ASSUME IInv, callCheckResp PROVE IInv'
<1>1. CASE Refuse /\ UNCHANGED <<pending, token>>
           /\ nextToken' \in {nextToken, nextToken + 1}
  BY Zenon, <1>1, RefuseKeeps DEF callCheckResp
<1>2. CASE /\ nextToken' = nextToken + 1
           /\ pending' = pending \cup {ccall}
           /\ token' = [token EXCEPT ![ccall] = nextToken]
           /\ cpc = "checkResp" /\ cpc' = "writeTag"
           /\ UNCHANGED <<xram, server, cret, rret, locals, completions, value,
                          status, restarts>>
  <2>0. /\ ccall \in Calls /\ token[ccall] = Free /\ status[ccall] = "calling"
        /\ nextToken \in Nat /\ nextToken # Free /\ nextToken <= MaxToken
        /\ croute = RouteOf[ccall] /\ reqTok[croute] = Free
        /\ \A c \in pending : RouteOf[c] # croute
        /\ ccall \notin pending
    <3>1. /\ ccall \in Calls /\ token[ccall] = Free /\ status[ccall] = "calling"
          /\ nextToken <= MaxToken
          /\ croute = RouteOf[ccall] /\ reqTok[croute] = Free
          /\ \A c \in pending : RouteOf[c] # croute
      BY Zenon, <1>2 DEF IInv, CallerKnows, Preparing
    <3>2. nextToken \in Nat /\ nextToken # Free
      BY DEF IInv, TypeOK
    <3>3. ccall \notin pending
      BY Zenon, <3>1 DEF IInv, TokensUnique
    <3> QED BY Zenon, <3>1, <3>2, <3>3
  <2>1. TypeOK'
    <3>1. nextToken \in TokenWords /\ nextToken + 1 \in 1 .. MaxToken + 1
      BY <2>0 DEF TokenWords, Tokens
    <3> QED BY Zenon, <1>2, <2>0, <3>1 DEF IInv, TypeOK, CallerLabels
  <2>2. Publishing' = {ccall}
    BY Zenon, <1>2 DEF Publishing
  <2>3. \A c \in Calls : c # ccall => token'[c] = token[c]
    BY Zenon, <1>2 DEF IInv, TypeOK
  <2>4. token'[ccall] = nextToken
    BY Zenon, <1>2, <2>0 DEF IInv, TypeOK
  <2>5. \A t \in TokenWords : t < nextToken => t < nextToken' /\ t # nextToken
    BY <1>2, <2>0, TypeFacts
  <2>6. TokensUnique'
    <3>1. \A c, d \in Calls : token'[c] = token'[d] /\ token'[c] # Free => c = d
      BY <2>0, <2>3, <2>4, <2>5 DEF IInv, TypeOK, TokensUnique
    <3>2. \A c \in Calls : token'[c] < nextToken'
      <4>1. \A c \in Calls : token[c] \in TokenWords /\ token[c] < nextToken
        BY Zenon DEF IInv, TypeOK, TokensUnique
      <4>2. nextToken' = nextToken + 1 /\ nextToken \in Nat
        BY Zenon, <1>2, <2>0
      <4>3. ASSUME NEW c \in Calls, c # ccall PROVE token'[c] < nextToken'
        BY Zenon, <2>3, <2>5, <4>1, <4>3
      <4> QED BY <2>4, <4>2, <4>3
    <3>3. \A c \in pending' : token'[c] # Free
      BY Zenon, <1>2, <2>0, <2>3, <2>4 DEF IInv, TypeOK, TokensUnique
    <3>4. \A c \in Calls : status'[c] = "new" => token'[c] = Free
      BY Zenon, <1>2, <2>0, <2>3 DEF IInv, TypeOK, TokensUnique
    <3>5. /\ \A r \in Routes : /\ reqTok'[r] < nextToken' /\ stok'[r] < nextToken'
                               /\ respTok'[r] < nextToken'
          /\ ctok' < nextToken'
      BY Zenon, <1>2, <2>5 DEF IInv, TypeOK, TokensUnique
    <3> QED BY Zenon, <3>1, <3>2, <3>3, <3>4, <3>5 DEF TokensUnique
  <2>7. TokensOnRoute'
    BY Zenon, <1>2, <2>3, <2>4, <2>5
    DEF IInv, TypeOK, TokensOnRoute, TokensUnique
  <2>8. OnePerRoute'
    BY Zenon, <1>2, <2>0 DEF IInv, OnePerRoute
  <2>9. CallerKnows'
    BY Zenon, <1>2, <2>0 DEF IInv, CallerKnows, Preparing, Writing, TimingOut
  <2>10. RequestWhole'
    <3>1. SUFFICES ASSUME NEW r \in Routes, reqTok[r] # Free
                   PROVE  \E c \in Calls :
                            /\ token'[c] = reqTok[r] /\ RouteOf[c] = r
                            /\ reqTag[r] = c /\ reqDat[r] = c
                            /\ \A d \in pending' : RouteOf[d] = r => d = c
      BY <1>2 DEF RequestWhole
    <3>2. PICK c \in Calls : /\ token[c] = reqTok[r] /\ RouteOf[c] = r
                             /\ reqTag[r] = c /\ reqDat[r] = c
                             /\ \A d \in pending : RouteOf[d] = r => d = c
      BY Zenon, <3>1 DEF IInv, RequestWhole
    <3>3. token'[c] = token[c] /\ r # croute
      BY Zenon, <2>0, <2>3, <3>1, <3>2
    <3> QED BY Zenon, <1>2, <2>0, <3>2, <3>3
  <2>11. \A r \in Routes, c \in pending' :
           /\ token'[c] \in {stok[r], respTok[r]} =>
                c # ccall /\ c \in pending /\ token'[c] = token[c]
           /\ c \notin Publishing
    <3>1. \A r \in Routes : stok[r] # nextToken /\ respTok[r] # nextToken
      BY Zenon, <2>5 DEF IInv, TypeOK, TokensUnique
    <3>2. Publishing = {} /\ pending \in SUBSET Calls
      BY Zenon, <1>2 DEF Publishing, IInv, TypeOK
    <3> QED BY Zenon, <1>2, <2>3, <2>4, <3>1, <3>2
  <2>12. ServesPending' /\ ResponseWhole'
    <3>1. ASSUME NEW r \in Routes, NEW c \in pending',
                 spc'[r] # "idle", stok'[r] = token'[c]
          PROVE  Serving(r, c)'
      <4>1. Serving(r, c) /\ c \notin Publishing'
        BY Zenon, <1>2, <2>2, <2>11, <3>1 DEF IInv, ServesPending
      <4> QED BY Zenon, <1>2, <4>1 DEF Serving
    <3>2. ASSUME NEW r \in Routes, NEW c \in pending', respTok'[r] = token'[c]
          PROVE  Answered(r, c)'
      <4>1. Answered(r, c) /\ c \notin Publishing'
        BY Zenon, <1>2, <2>2, <2>11, <3>2 DEF IInv, ResponseWhole
      <4> QED BY Zenon, <1>2, <4>1 DEF Answered
    <3> QED BY Zenon, <3>1, <3>2 DEF ServesPending, ResponseWhole
  <2>13. ReadMatches' /\ CompletionsMatch' /\ ResultMatches'
    BY Zenon, <1>2 DEF IInv, ReadMatches, CompletionsMatch, ResultMatches
  <2> QED
    BY Zenon, <1>2, <2>1, <2>6, <2>7, <2>8, <2>9, <2>10, <2>11, <2>12, <2>13,
       NoRestart DEF IInv
<1> QED
  BY Zenon, <1>1, <1>2 DEF callCheckResp

(* Removing a call from the table; its future may finish. *)
LEMMA DropKeeps ==
  ASSUME IInv, pending' \subseteq pending, StatusMoves, FuturesOK', Publishing = {},
         Publishing' = {},
         UNCHANGED <<reqTok, reqTag, reqDat, respLen, respDat, server, token,
                     nextToken>>,
         NEW r \in Routes, NEW t \in {Free, respTok[r]},
         respTok' = [respTok EXCEPT ![r] = t], ctok' = Free
  PROVE  /\ TokensUnique' /\ TokensOnRoute' /\ OnePerRoute' /\ RequestWhole'
         /\ ServesPending' /\ ResponseWhole'
<1>1. \A q \in Routes : respTok'[q] \in {Free, respTok[q]}
  BY Zenon DEF IInv, TypeOK
<1>2. TokensUnique'
  <2>1. \A c \in Calls : status'[c] = "new" => status[c] = "new"
    BY Zenon DEF StatusMoves
  <2>2. Free < nextToken
    BY DEF IInv, TypeOK
  <2>3. \A q \in Routes : respTok'[q] < nextToken
    BY Zenon, <1>1, <2>2 DEF IInv, TokensUnique
  <2> QED BY Zenon, <2>1, <2>2, <2>3 DEF IInv, TokensUnique
<1>3. TokensOnRoute' /\ OnePerRoute'
  BY Zenon, <1>1 DEF IInv, TokensOnRoute, OnePerRoute
<1>4. RequestWhole' /\ ServesPending'
  <2>1. RequestWhole'
    BY DEF IInv, RequestWhole
  <2> QED BY Zenon, <2>1, ServesFrame DEF IInv
<1>5. ResponseWhole'
  <2>1. SUFFICES ASSUME NEW q \in Routes, NEW c \in pending',
                        respTok'[q] = token[c]
                 PROVE  Answered(q, c)'
    BY Zenon DEF ResponseWhole
  <2>2. token[c] # Free /\ c \in pending
    BY Zenon DEF IInv, TokensUnique
  <2>3. Answered(q, c)
    BY Zenon, <1>1, <2>1, <2>2 DEF IInv, ResponseWhole
  <2> QED BY Zenon, <2>3 DEF Answered
<1> QED BY Zenon, <1>2, <1>3, <1>4, <1>5

LEMMA respClearKeeps ==
  ASSUME IInv, respClear PROVE IInv'
<1>1. /\ cpc = "respClear" /\ cpc' = rret
      /\ respTok' = [respTok EXCEPT ![croute] = Free]
      /\ ctok' = Free /\ clen' = FALSE /\ cdat' = NoResult
      /\ UNCHANGED <<reqTok, reqTag, reqDat, respLen, respDat, server, cret,
                     rret, ccall, croute, pollLeft, token, nextToken, restarts>>
  BY Zenon DEF respClear
<1>2. FuturesOK /\ QueueOK /\ CompletionsMatch /\ ResultMatches
  BY Zenon DEF IInv, TypeOK, FuturesOK, QueueOK, Completion
<1>3. /\ FuturesOK' /\ QueueOK' /\ CompletionsMatch' /\ ResultMatches'
      /\ StatusMoves /\ pending' \subseteq pending
  <2>1. CASE UNCHANGED <<pending, completions, futures>>
    BY Zenon, <1>2, <2>1
    DEF FuturesOK, QueueOK, CompletionsMatch, ResultMatches,
                      StatusMoves
  <2>2. ASSUME NEW c \in Awaited(ctok), pending' = pending \ {c},
               enqueueIpcCompletion(c, IF clen THEN cdat ELSE NoResult)
        PROVE  /\ FuturesOK' /\ QueueOK' /\ CompletionsMatch' /\ ResultMatches'
               /\ StatusMoves /\ pending' \subseteq pending
    <3>1. c \in pending /\ c \in Calls /\ token[c] = ctok
      BY Zenon DEF Awaited, IInv, TypeOK
    <3>2. (IF clen THEN cdat ELSE NoResult) \in {NoResult, Result(c)}
      BY Zenon, <1>1, <3>1 DEF IInv, ReadMatches
    <3> QED BY Zenon, <1>2, <2>2, <3>1, <3>2, EnqueueKeeps
  <2> QED BY Zenon, <2>1, <2>2 DEF respClear
<1>4. TypeOK'
  BY Zenon, <1>1, <1>3, TypeFacts
  DEF IInv, TypeOK, FuturesOK, QueueOK, Completion, CallerLabels
<1>5. Publishing = {} /\ Publishing' = {}
  BY Zenon, <1>1 DEF Publishing, IInv, TypeOK
<1>6. /\ TokensUnique' /\ TokensOnRoute' /\ OnePerRoute' /\ RequestWhole'
      /\ ServesPending' /\ ResponseWhole'
  BY Zenon, <1>1, <1>3, <1>5, DropKeeps DEF IInv, TypeOK
<1>7. CallerKnows'
  BY Zenon, <1>1, <1>3
  DEF IInv, TypeOK, CallerKnows, Preparing, Writing, TimingOut,
                    StatusMoves
<1>8. ReadMatches'
  BY Zenon, <1>1 DEF IInv, TypeOK, ReadMatches
<1> QED BY Zenon, <1>1, <1>3, <1>4, <1>6, <1>7, <1>8, NoRestart DEF IInv

LEMMA timeoutDoneKeeps ==
  ASSUME IInv, timeoutDone PROVE IInv'
<1>1. /\ cpc = "timeoutDone" /\ cpc' = "idle"
      /\ respTok' = [respTok EXCEPT ![croute] =
                       IF ctok = token[ccall] THEN Free ELSE respTok[croute]]
      /\ pending' = pending \ {ccall} /\ ccall' = NoCall /\ ctok' = Free
      /\ enqueueIpcCompletion(ccall, NoResult)
      /\ UNCHANGED <<reqTok, reqTag, reqDat, respLen, respDat, server, cret,
                     rret, croute, clen, cdat, pollLeft, token, nextToken,
                     restarts>>
  BY Zenon DEF timeoutDone
<1>2. FuturesOK /\ QueueOK /\ CompletionsMatch /\ ResultMatches
  BY Zenon DEF IInv, TypeOK, FuturesOK, QueueOK, Completion
<1>3. /\ FuturesOK' /\ QueueOK' /\ CompletionsMatch' /\ ResultMatches'
      /\ StatusMoves
  <2>1. ccall \in Calls
    BY Zenon, <1>1 DEF IInv, CallerKnows, TimingOut
  <2> QED BY Zenon, <1>1, <1>2, <2>1, EnqueueKeeps
<1>4. TypeOK'
  <2>1. respTok' \in [Routes -> TokenWords]
    BY Zenon, <1>1, TypeFacts DEF IInv, TypeOK
  <2> QED
    BY Zenon, <1>1, <1>3, <2>1, TypeFacts
    DEF IInv, TypeOK, FuturesOK, QueueOK, Completion, CallerLabels
<1>5. Publishing = {} /\ Publishing' = {}
  BY Zenon, <1>1 DEF Publishing
<1>6. /\ TokensUnique' /\ TokensOnRoute' /\ OnePerRoute' /\ RequestWhole'
      /\ ServesPending' /\ ResponseWhole'
  <2>1. (IF ctok = token[ccall] THEN Free ELSE respTok[croute])
          \in {Free, respTok[croute]}
    OBVIOUS
  <2> QED BY Zenon, <1>1, <1>3, <1>5, <2>1, DropKeeps DEF IInv, TypeOK
<1>7. CallerKnows' /\ ReadMatches'
  BY Zenon, <1>1 DEF CallerKnows, Preparing, Writing, TimingOut, ReadMatches
<1> QED BY Zenon, <1>1, <1>3, <1>4, <1>6, <1>7, NoRestart DEF IInv

LEMMA drainIpcCompletionsKeeps ==
  ASSUME IInv, drainIpcCompletions PROVE IInv'
<1>1. /\ cpc = "drain" /\ cpc' \in {"idle", "resumed"}
      /\ UNCHANGED <<xram, server, cret, rret, locals, table, restarts>>
  BY Zenon DEF drainIpcCompletions
<1>2. FuturesOK /\ QueueOK /\ CompletionsMatch /\ ResultMatches
  BY Zenon DEF IInv, TypeOK, FuturesOK, QueueOK, Completion
<1>3. /\ FuturesOK' /\ QueueOK' /\ CompletionsMatch' /\ ResultMatches'
      /\ StatusMoves
  <2>1. CASE completions = <<>>
    BY Zenon, <1>2, <2>1 DEF drainIpcCompletions, FuturesOK, QueueOK,
                      CompletionsMatch, ResultMatches, StatusMoves
  <2>2. CASE completions # <<>>
    <3>1. /\ completions' = Tail(completions)
          /\ Finish(Head(completions).call, Head(completions).val)
      BY Zenon, <2>2 DEF drainIpcCompletions
    <3>2. /\ Head(completions) = completions[1] /\ 1 \in 1 .. Len(completions)
          /\ Tail(completions) \in Seq(Completion)
          /\ Len(Tail(completions)) = Len(completions) - 1
          /\ \A i \in 1 .. Len(completions) - 1 :
               Tail(completions)[i] = completions[i + 1]
          /\ Len(completions) \in Nat
          /\ \A i \in 1 .. Len(completions) : completions[i] \in Completion
      BY Zenon, <1>2, <2>2, QueueFacts DEF QueueOK
    <3>3. /\ Head(completions).call \in Calls
          /\ Head(completions).val \in {NoResult, Result(Head(completions).call)}
      BY Zenon, <1>2, <3>2 DEF CompletionsMatch, Completion
    <3>4. FuturesOK' /\ ResultMatches' /\ StatusMoves
      BY Zenon, <1>2, <3>1, <3>3, FinishKeeps
    <3>5. QueueOK'
      BY <1>2, <3>1, <3>2 DEF QueueOK
    <3>6. CompletionsMatch'
      BY <1>2, <3>1, <3>2 DEF CompletionsMatch
    <3> QED BY Zenon, <3>4, <3>5, <3>6
  <2> QED BY Zenon, <2>1, <2>2
<1>4. TypeOK'
  BY Zenon, <1>1, <1>3
  DEF IInv, TypeOK, FuturesOK, QueueOK, Completion, CallerLabels
<1>5. Publishing = {} /\ Publishing' = {}
  BY Zenon, <1>1 DEF Publishing
<1>6. TokensUnique' /\ TokensOnRoute' /\ OnePerRoute' /\ RequestWhole'
  <2>1. TokensUnique'
    BY Zenon, <1>1, <1>3 DEF IInv, TokensUnique, StatusMoves
  <2>2. TokensOnRoute' /\ OnePerRoute' /\ RequestWhole'
    BY Zenon, <1>1 DEF IInv, TokensOnRoute, OnePerRoute, RequestWhole
  <2> QED BY Zenon, <2>1, <2>2
<1>7. ServesPending' /\ ResponseWhole'
  BY Zenon, <1>1, <1>5, ServesFrame, ResponseFrame DEF IInv
<1>8. CallerKnows' /\ ReadMatches'
  BY Zenon, <1>1 DEF CallerKnows, Preparing, Writing, TimingOut, ReadMatches
<1> QED BY Zenon, <1>1, <1>3, <1>4, <1>6, <1>7, <1>8, NoRestart DEF IInv

-----------------------------------------------------------------------------

LEMMA InitInv == Init => IInv
<1> SUFFICES ASSUME Init PROVE IInv
    OBVIOUS
<1>1. TypeOK
  <2>1. completions \in Seq(Completion) /\ Len(completions) = 0
    BY DEF Init
  <2>2. nextToken \in 1 .. MaxToken + 1 /\ restarts \in 0 .. MaxRestarts
    BY DEF Init
  <2>3. /\ reqTok \in [Routes -> TokenWords] /\ respTok \in [Routes -> TokenWords]
        /\ reqTag \in [Routes -> MaybeCalls] /\ reqDat \in [Routes -> MaybeCalls]
        /\ respLen \in [Routes -> BOOLEAN] /\ respDat \in [Routes -> MaybeResults]
        /\ spc \in [Routes -> {"idle", "tag", "handle", "len", "publish", "clear"}]
        /\ stok \in [Routes -> TokenWords] /\ stag \in [Routes -> MaybeCalls]
    BY Zenon, TypeFacts DEF Init
  <2>4. /\ cpc \in CallerLabels
        /\ cret \in {"idle", "resumed"} /\ rret \in {"poll", "checkReq"}
        /\ ccall \in MaybeCalls /\ croute \in Routes /\ ctok \in TokenWords
        /\ clen \in BOOLEAN /\ cdat \in MaybeResults /\ pollLeft \in SUBSET Routes
    BY Zenon, TypeFacts DEF Init, CallerLabels
  <2>5. /\ pending \in SUBSET Calls /\ token \in [Calls -> TokenWords]
        /\ status \in [Calls -> {"new", "calling", "waiting", "ok", "failed", "lost"}]
        /\ value \in [Calls -> MaybeResults]
    BY Zenon, TypeFacts DEF Init
  <2> QED BY <2>1, <2>2, <2>3, <2>4, <2>5 DEF TypeOK, Completion
<1>2. TokensUnique /\ TokensOnRoute /\ OnePerRoute /\ RequestWhole
  <2>1. TokensUnique
    BY DEF Init, TokensUnique
  <2>2. TokensOnRoute /\ OnePerRoute /\ RequestWhole
    BY Zenon DEF Init, TokensOnRoute, OnePerRoute, RequestWhole
  <2> QED BY Zenon, <2>1, <2>2
<1>3. CallerKnows /\ ReadMatches
  BY Zenon DEF Init, CallerKnows, Preparing, Writing, TimingOut, ReadMatches
<1>4. ServesPending /\ ResponseWhole
  BY Zenon DEF Init, ServesPending, ResponseWhole
<1>5. CompletionsMatch /\ ResultMatches /\ NotRestarted
  BY DEF Init, CompletionsMatch, ResultMatches, NotRestarted
<1> QED BY Zenon, <1>1, <1>2, <1>3, <1>4, <1>5 DEF IInv

LEMMA StutterInv == IInv /\ UNCHANGED vars => IInv'
<1> SUFFICES ASSUME IInv, UNCHANGED vars PROVE IInv'
    OBVIOUS
<1> USE DEF vars
<1>1. TypeOK'
  BY Zenon DEF IInv, TypeOK
<1>2. CallerKnows' /\ ReadMatches'
  BY Zenon DEF IInv, CallerKnows, Preparing, Writing, TimingOut, ReadMatches
<1>3. Publishing' = Publishing /\ ctok' < nextToken
  BY Zenon DEF IInv, Publishing, TokensUnique
<1> QED BY Zenon, <1>1, <1>2, <1>3, CallerStep

LEMMA NextInv ==
  ASSUME MaxRestarts = 0 PROVE IInv /\ Next => IInv'
<1> SUFFICES ASSUME IInv, Next PROVE IInv'
    OBVIOUS
<1>1. ASSUME NEW r \in Routes, Serve(r) PROVE IInv'
  BY Zenon, <1>1, serveReadTokenKeeps, serveReadTagKeeps, serveHandleKeeps,
     serveWriteLenKeeps, servePublishKeeps, serveClearKeeps DEF Serve
<1>2. CASE Proceed
  <2>1. ASSUME NEW r \in Routes, pollRoute(r) PROVE IInv'
    BY Zenon, <2>1, TurnKeeps DEF Turn
  <2>2. CASE pollDone \/ drainReturn
    BY Zenon, <2>2, TurnKeeps DEF Turn
  <2> QED
    BY Zenon, <1>2, <2>1, <2>2, respReadTokenKeeps, respReadLenKeeps,
       respReadDataKeeps, respClearKeeps, callCheckReqKeeps,
       callCheckRespKeeps, callWriteTagKeeps, callWriteDataKeeps,
       callPublishKeeps, drainIpcCompletionsKeeps, timeoutReqKeeps,
       timeoutReadRespKeeps, timeoutDoneKeeps DEF Proceed
<1>3. ASSUME NEW c \in Calls, ipcCall(c) \/ cancel(c) \/ timeoutPendingCall(c)
      PROVE  IInv'
  BY Zenon, <1>3, ipcCallKeeps, cancelKeeps, TurnKeeps DEF Turn
<1>4. CASE ipcPoll
  BY Zenon, <1>4, TurnKeeps DEF Turn
<1>5. CASE ipcBridgeInit
  BY <1>5 DEF IInv, NotRestarted, ipcBridgeInit
<1> QED BY Zenon, <1>1, <1>2, <1>3, <1>4, <1>5 DEF Next

(* As long as the caller core does not restart, every variable keeps its   *)
(* type; in particular enqueueIpcCompletion never overruns its queue. *)
THEOREM IpcTypeCorrect ==
  ASSUME MaxRestarts = 0 PROVE Spec => []TypeOK
<1>1. IInv => TypeOK
  BY Zenon DEF IInv
<1> QED BY <1>1, InitInv, NextInv, StutterInv, PTL DEF Spec

(* As long as the caller core does not restart, a call that completes      *)
(* without error delivers its own result, whatever calls time out and      *)
(* whenever: processResponseAt never takes a late response for another     *)
(* call's. *)
THEOREM ResultsMatch ==
  ASSUME MaxRestarts = 0 PROVE Spec => []ResultMatches
<1>1. IInv => ResultMatches
  BY Zenon DEF IInv
<1> QED BY <1>1, InitInv, NextInv, StutterInv, PTL DEF Spec

-----------------------------------------------------------------------------
(***************************************************************************)
(* A bridge whose caller core does not restart implements Rpc.  A failing  *)
(* future leaves its value alone only because the value was never set.     *)
(***************************************************************************)

ValuesUnset == \A c \in Calls : status[c] # "ok" => value[c] = NoResult

Fulfils == ValuesUnset' /\ [Rpc!Next]_(Rpc!vars)

LEMMA IdleFulfils ==
  ASSUME ValuesUnset, UNCHANGED futures PROVE Fulfils
BY Zenon DEF Fulfils, ValuesUnset, Rpc!vars, rpcStatus

(* What the caller sees when the state of one call changes. *)
LEMMA SeenStatus ==
  ASSUME FuturesOK, NEW c \in Calls, NEW x,
         status' = [status EXCEPT ![c] = x]
  PROVE  /\ rpcStatus[c] = IF status[c] = "calling" THEN "new" ELSE status[c]
         /\ rpcStatus' = [rpcStatus EXCEPT ![c] = IF x = "calling" THEN "new"
                                                  ELSE x]
BY Zenon DEF FuturesOK, rpcStatus

LEMMA IssueFulfils ==
  ASSUME FuturesOK, ValuesUnset, NEW c \in Calls, status[c] = "calling",
         status' = [status EXCEPT ![c] = "waiting"], UNCHANGED value
  PROVE  Fulfils
<1>1. ValuesUnset'
  BY Zenon DEF FuturesOK, ValuesUnset
<1>2. Rpc!Issue(c)
  BY Zenon, SeenStatus DEF Rpc!Issue
<1> QED BY Zenon, <1>1, <1>2 DEF Fulfils, Rpc!Next

LEMMA CallFulfils ==
  ASSUME FuturesOK, ValuesUnset, NEW c \in Calls, status[c] = "new",
         status' = [status EXCEPT ![c] = "calling"], UNCHANGED value
  PROVE  Fulfils
<1>1. ValuesUnset'
  BY Zenon DEF FuturesOK, ValuesUnset
<1>2. rpcStatus' = rpcStatus
  BY Zenon DEF FuturesOK, rpcStatus
<1> QED BY Zenon, <1>1, <1>2 DEF Fulfils, Rpc!vars

LEMMA FailFulfils ==
  ASSUME FuturesOK, ValuesUnset, NEW c \in Calls,
         status[c] \in {"calling", "waiting"},
         status' = [status EXCEPT ![c] = "failed"], UNCHANGED value
  PROVE  Fulfils
<1>1. ValuesUnset'
  BY Zenon DEF FuturesOK, ValuesUnset
<1>2. Rpc!Fail(c)
  BY Zenon, SeenStatus DEF Rpc!Fail
<1> QED BY Zenon, <1>1, <1>2 DEF Fulfils, Rpc!Next

LEMMA FinishFulfils ==
  ASSUME FuturesOK, ValuesUnset, NEW c \in Calls,
         NEW v \in {NoResult, Result(c)}, Finish(c, v)
  PROVE  Fulfils
<1>1. CASE status[c] # "waiting"
  BY Zenon, <1>1, IdleFulfils DEF Finish
<1>2. CASE status[c] = "waiting" /\ v = NoResult
  <2>1. /\ status' = [status EXCEPT ![c] = "failed"]
        /\ value' = [value EXCEPT ![c] = NoResult] /\ value[c] = NoResult
    BY Zenon, <1>2 DEF Finish, ValuesUnset
  <2>2. value' = value
    BY Zenon, <2>1 DEF FuturesOK
  <2> QED BY Zenon, <1>2, <2>1, <2>2, FailFulfils
<1>3. CASE status[c] = "waiting" /\ v = Result(c)
  <2>1. /\ status' = [status EXCEPT ![c] = "ok"]
        /\ value' = [value EXCEPT ![c] = Result(c)]
    BY Zenon, <1>3, ResultFacts DEF Finish
  <2>2. ValuesUnset'
    BY Zenon, <2>1 DEF FuturesOK, ValuesUnset
  <2>3. Rpc!Answer(c)
    BY Zenon, <1>3, <2>1, SeenStatus DEF Rpc!Answer
  <2> QED BY Zenon, <2>2, <2>3 DEF Fulfils, Rpc!Next
<1> QED BY Zenon, <1>1, <1>2, <1>3

LEMMA EnqueueFulfils ==
  ASSUME FuturesOK, ValuesUnset, NEW c \in Calls,
         NEW v \in {NoResult, Result(c)}, enqueueIpcCompletion(c, v)
  PROVE  Fulfils
BY Zenon, IdleFulfils, FinishFulfils DEF enqueueIpcCompletion

LEMMA InitImplements == Init => Rpc!Init /\ ValuesUnset
<1> SUFFICES ASSUME Init PROVE Rpc!Init /\ ValuesUnset
    OBVIOUS
<1>1. status = [c \in Calls |-> "new"] /\ value = [c \in Calls |-> NoResult]
  BY Zenon DEF Init
<1>2. rpcStatus = [c \in Calls |-> "new"]
  BY Zenon, <1>1 DEF rpcStatus
<1> QED BY Zenon, <1>1, <1>2 DEF Rpc!Init, ValuesUnset

LEMMA ProceedImplements ==
  ASSUME IInv, ValuesUnset, Proceed PROVE Fulfils
<1>1. FuturesOK /\ QueueOK /\ CompletionsMatch
  BY Zenon DEF IInv, TypeOK, FuturesOK, QueueOK, Completion
<1>2. CASE \/ respReadToken \/ respReadLen \/ respReadData \/ callWriteTag
           \/ callWriteData \/ pollDone \/ drainReturn \/ timeoutReq
           \/ timeoutReadResp \/ \E r \in Routes : pollRoute(r)
  <2>1. UNCHANGED futures
    BY Zenon, <1>2 DEF respReadToken, respReadLen, respReadData, callWriteTag,
       callWriteData, pollDone, drainReturn, timeoutReq, timeoutReadResp,
       pollRoute
  <2> QED BY Zenon, <2>1, IdleFulfils
<1>3. CASE respClear
  <2>1. CASE UNCHANGED futures
    BY Zenon, <2>1, IdleFulfils
  <2>2. ASSUME NEW c \in Awaited(ctok),
               enqueueIpcCompletion(c, IF clen THEN cdat ELSE NoResult)
        PROVE  Fulfils
    <3>1. c \in pending /\ c \in Calls /\ token[c] = ctok
      BY Zenon DEF Awaited, IInv, TypeOK
    <3>2. (IF clen THEN cdat ELSE NoResult) \in {NoResult, Result(c)}
      BY Zenon, <1>3, <3>1 DEF IInv, ReadMatches, respClear
    <3> QED BY Zenon, <1>1, <2>2, <3>1, <3>2, EnqueueFulfils
  <2> QED BY Zenon, <1>3, <2>1, <2>2 DEF respClear
<1>4. CASE callCheckReq \/ callCheckResp
  <2>1. ccall \in Calls /\ status[ccall] = "calling" /\ UNCHANGED value
    BY Zenon, <1>4 DEF IInv, CallerKnows, Preparing, callCheckReq, callCheckResp
  <2>2. UNCHANGED status \/ status' = [status EXCEPT ![ccall] = "failed"]
    BY Zenon, <1>4 DEF callCheckReq, callCheckResp, Refuse
  <2> QED BY Zenon, <1>1, <2>1, <2>2, IdleFulfils, FailFulfils
<1>5. CASE callPublish
  <2>1. ccall \in Calls /\ status[ccall] = "calling" /\ UNCHANGED value
    BY Zenon, <1>5 DEF IInv, CallerKnows, Writing, callPublish
  <2> QED BY Zenon, <1>1, <1>5, <2>1, IssueFulfils DEF callPublish
<1>6. CASE drainIpcCompletions
  <2>1. CASE completions = <<>>
    BY Zenon, <1>6, <2>1, IdleFulfils DEF drainIpcCompletions
  <2>2. CASE completions # <<>>
    <3>1. /\ Head(completions) = completions[1] /\ 1 \in 1 .. Len(completions)
          /\ completions[1] \in Completion
      BY Zenon, <1>1, <2>2, QueueFacts DEF QueueOK
    <3>2. /\ Head(completions).call \in Calls
          /\ Head(completions).val \in {NoResult, Result(Head(completions).call)}
      BY Zenon, <1>1, <3>1 DEF CompletionsMatch, Completion
    <3>3. Finish(Head(completions).call, Head(completions).val)
      BY Zenon, <1>6, <2>2 DEF drainIpcCompletions
    <3> QED BY Zenon, <1>1, <3>2, <3>3, FinishFulfils
  <2> QED BY Zenon, <2>1, <2>2
<1>7. CASE timeoutDone
  <2>1. ccall \in Calls
    BY Zenon, <1>7 DEF IInv, CallerKnows, TimingOut, timeoutDone
  <2> QED BY Zenon, <1>1, <1>7, <2>1, EnqueueFulfils DEF timeoutDone
<1> QED BY Zenon, <1>2, <1>3, <1>4, <1>5, <1>6, <1>7 DEF Proceed

LEMMA NextImplements ==
  ASSUME MaxRestarts = 0 PROVE IInv /\ ValuesUnset /\ Next => Fulfils
<1> SUFFICES ASSUME IInv, ValuesUnset, Next PROVE Fulfils
    OBVIOUS
<1>1. FuturesOK
  BY Zenon DEF IInv, TypeOK, FuturesOK
<1>2. ASSUME NEW r \in Routes, Serve(r) PROVE Fulfils
  BY Zenon, <1>2, IdleFulfils DEF Serve, serveReadToken, serveReadTag,
     serveHandle, serveWriteLen, servePublish, serveClear
<1>3. CASE Proceed
  BY Zenon, <1>3, ProceedImplements
<1>4. ASSUME NEW c \in Calls, ipcCall(c) \/ cancel(c) \/ timeoutPendingCall(c)
      PROVE  Fulfils
  BY Zenon, <1>1, <1>4, CallFulfils, FailFulfils, IdleFulfils
  DEF ipcCall, cancel, timeoutPendingCall
<1>5. CASE ipcPoll
  BY Zenon, <1>5, IdleFulfils DEF ipcPoll
<1>6. CASE ipcBridgeInit
  BY <1>6 DEF IInv, NotRestarted, ipcBridgeInit
<1> QED BY Zenon, <1>2, <1>3, <1>4, <1>5, <1>6 DEF Next

(* As long as the caller core does not restart, the bridge implements Rpc: *)
(* the future of every call is completed once, with the result of the      *)
(* caller's own request or with an error, and no step of a server, a poll, *)
(* a timeout or a cancellation is visible in any other way. *)
THEOREM BridgeImplementsRpc ==
  ASSUME MaxRestarts = 0 PROVE Spec => ImplementsRpc
<1>1. ValuesUnset /\ UNCHANGED vars => Fulfils
  BY Zenon, IdleFulfils DEF vars
<1>2. Fulfils => ValuesUnset' /\ [Rpc!Next]_(Rpc!vars)
  BY Zenon DEF Fulfils
<1> QED
  BY <1>1, <1>2, InitInv, NextInv, StutterInv, InitImplements, NextImplements,
     PTL DEF Spec, ImplementsRpc, Rpc!Spec

-----------------------------------------------------------------------------
(***************************************************************************)
(* Without timeouts the two slots of a route hand a call over without a    *)
(* gap: the request stays until its response is published, and a response  *)
(* is published into a free slot only.                                     *)
(***************************************************************************)

(* A server at work holds the request in its slot, and has read its tag. *)
RequestHeld ==
  \A r \in Routes : spc[r] # "idle" =>
    /\ reqTok[r] = stok[r] /\ stok[r] # Free
    /\ spc[r] # "tag" => stag[r] = reqTag[r]

(* A response in its slot means that the server is done with the request. *)
ResponseLast ==
  \A r \in Routes : respTok[r] # Free =>
    spc[r] = "clear" \/ (spc[r] = "idle" /\ reqTok[r] = Free)

(* Before the request is cleared, its response is there or was taken. *)
ResponseFirst ==
  \A r \in Routes, c \in pending \ Publishing :
    spc[r] = "clear" /\ token[c] = stok[r] => respTok[r] = token[c]

(* The caller takes the response it read, and calls into free slots. *)
CallerHolds ==
  /\ cpc \in {"respLen", "respData", "respClear"} =>
       respTok[croute] = ctok /\ ctok # Free
  /\ Writing => respTok[croute] = Free
  /\ ~ TimingOut

HandOver ==
  RequestHeld /\ ResponseLast /\ ResponseFirst /\ CallerHolds /\ NoLostCall

(* Steps of the caller that change no slot and no table. *)
Quiet ==
  \/ respReadToken \/ respReadLen \/ respReadData \/ callCheckReq
  \/ callWriteData \/ pollDone \/ drainIpcCompletions \/ drainReturn
  \/ ipcPoll
  \/ \E r \in Routes : pollRoute(r)
  \/ \E c \in Calls : ipcCall(c) \/ cancel(c)

LEMMA FirstFrame ==
  ASSUME ResponseFirst, UNCHANGED <<respTok, pending, token>>,
         Publishing' = Publishing,
         \A q \in Routes :
           spc'[q] = "clear" => spc[q] = "clear" /\ stok'[q] = stok[q]
  PROVE  ResponseFirst'
BY Zenon DEF ResponseFirst

LEMMA LostFrame ==
  ASSUME NoLostCall, UNCHANGED <<reqTok, respTok, pending, token>>,
         Publishing' = Publishing
  PROVE  NoLostCall'
BY Zenon DEF NoLostCall

LEMMA QuietHandsOver ==
  ASSUME IInv, HandOver, Quiet PROVE HandOver'
<1> USE DEF Writing, TimingOut
<1>1. UNCHANGED <<reqTok, reqTag, respTok, server, pending, token>>
  BY Zenon DEF Quiet, respReadToken, respReadLen, respReadData, callCheckReq,
         callWriteData, pollDone, drainIpcCompletions, drainReturn, ipcPoll,
         pollRoute, ipcCall, cancel
<1>2. CallerHolds' /\ Publishing' = Publishing
  <2> USE DEF HandOver, CallerHolds, Publishing
  <2>1. CASE respReadToken
    BY Zenon, <2>1 DEF IInv, TypeOK, respReadToken
  <2>2. CASE respReadLen \/ respReadData
    BY Zenon, <2>2 DEF respReadLen, respReadData
  <2>3. CASE callCheckReq
    BY Zenon, <2>3 DEF IInv, TypeOK, callCheckReq, Refuse
  <2>4. CASE callWriteData
    BY Zenon, <2>4 DEF callWriteData
  <2>5. CASE pollDone \/ drainIpcCompletions \/ drainReturn \/ ipcPoll
    BY Zenon, <2>5 DEF pollDone, drainIpcCompletions, drainReturn, ipcPoll
  <2>6. CASE \E r \in Routes : pollRoute(r)
    BY Zenon, <2>6 DEF pollRoute
  <2>7. CASE \E c \in Calls : ipcCall(c) \/ cancel(c)
    BY Zenon, <2>7 DEF ipcCall, cancel
  <2> QED BY Zenon, <2>1, <2>2, <2>3, <2>4, <2>5, <2>6, <2>7 DEF Quiet
<1>3. RequestHeld' /\ ResponseLast'
  BY Zenon, <1>1 DEF HandOver, RequestHeld, ResponseLast
<1>4. ResponseFirst' /\ NoLostCall'
  BY Zenon, <1>1, <1>2, FirstFrame, LostFrame DEF HandOver
<1> QED BY Zenon, <1>2, <1>3, <1>4 DEF HandOver

LEMMA serveReadTokenHandsOver ==
  ASSUME IInv, HandOver, NEW r \in Routes, serveReadToken(r) PROVE HandOver'
<1>1. /\ UNCHANGED <<reqTok, reqTag, respTok, control, locals, table>>
      /\ spc[r] = "idle" /\ spc'[r] = "tag"
      /\ reqTok[r] # Free /\ stok'[r] = reqTok[r]
      /\ \A q \in Routes \ {r} : /\ spc'[q] = spc[q] /\ stok'[q] = stok[q]
                                  /\ stag'[q] = stag[q]
  BY Zenon DEF serveReadToken, IInv, TypeOK
<1>2. RequestHeld'
  BY Zenon, <1>1 DEF HandOver, RequestHeld
<1>3. ResponseLast'
  BY Zenon, <1>1 DEF HandOver, ResponseLast
<1>4. Publishing' = Publishing
  BY Zenon, <1>1 DEF Publishing
<1>5. ResponseFirst' /\ NoLostCall'
  <2>1. \A q \in Routes :
          spc'[q] = "clear" => spc[q] = "clear" /\ stok'[q] = stok[q]
    BY Zenon, <1>1
  <2> QED BY Zenon, <1>1, <1>4, <2>1, FirstFrame, LostFrame DEF HandOver
<1>6. CallerHolds'
  BY Zenon, <1>1 DEF HandOver, CallerHolds, Writing, TimingOut
<1> QED BY Zenon, <1>2, <1>3, <1>5, <1>6 DEF HandOver

LEMMA serveWorkHandsOver ==
  ASSUME IInv, HandOver, NEW r \in Routes,
         serveReadTag(r) \/ serveHandle(r) \/ serveWriteLen(r)
  PROVE  HandOver'
<1>1. /\ UNCHANGED <<reqTok, reqTag, respTok, stok, control, locals, table>>
      /\ spc[r] \in {"tag", "handle", "len"}
      /\ spc'[r] \in {"handle", "len", "publish"}
      /\ stag'[r] = reqTag[r]
      /\ \A q \in Routes \ {r} : spc'[q] = spc[q] /\ stag'[q] = stag[q]
  <2>1. CASE serveReadTag(r)
    BY Zenon, <2>1 DEF serveReadTag, IInv, TypeOK
  <2>2. CASE serveHandle(r)
    BY Zenon, <2>2 DEF serveHandle, IInv, TypeOK, HandOver, RequestHeld
  <2>3. CASE serveWriteLen(r)
    BY Zenon, <2>3 DEF serveWriteLen, IInv, TypeOK, HandOver, RequestHeld
  <2> QED BY Zenon, <2>1, <2>2, <2>3
<1>2. RequestHeld'
  BY Zenon, <1>1 DEF HandOver, RequestHeld
<1>3. ResponseLast'
  BY Zenon, <1>1 DEF HandOver, ResponseLast
<1>4. Publishing' = Publishing
  BY Zenon, <1>1 DEF Publishing
<1>5. ResponseFirst' /\ NoLostCall'
  <2>1. \A q \in Routes :
          spc'[q] = "clear" => spc[q] = "clear" /\ stok'[q] = stok[q]
    BY Zenon, <1>1
  <2> QED BY Zenon, <1>1, <1>4, <2>1, FirstFrame, LostFrame DEF HandOver
<1>6. CallerHolds'
  BY Zenon, <1>1 DEF HandOver, CallerHolds, Writing, TimingOut
<1> QED BY Zenon, <1>2, <1>3, <1>5, <1>6 DEF HandOver

LEMMA servePublishHandsOver ==
  ASSUME IInv, HandOver, NEW r \in Routes, servePublish(r) PROVE HandOver'
<1>1. /\ UNCHANGED <<reqTok, reqTag, stok, stag, control, locals, table>>
      /\ spc[r] = "publish" /\ spc'[r] = "clear" /\ respTok'[r] = stok[r]
      /\ \A q \in Routes \ {r} : spc'[q] = spc[q] /\ respTok'[q] = respTok[q]
  BY Zenon DEF servePublish, IInv, TypeOK
<1>2. respTok[r] = Free
  BY Zenon, <1>1 DEF HandOver, ResponseLast
<1>3. RequestHeld'
  BY Zenon, <1>1 DEF HandOver, RequestHeld
<1>4. ResponseLast'
  BY Zenon, <1>1 DEF HandOver, ResponseLast
<1>5. Publishing' = Publishing
  BY Zenon, <1>1 DEF Publishing
<1>6. ResponseFirst'
  <2>1. SUFFICES ASSUME NEW q \in Routes, NEW c \in pending \ Publishing,
                        spc'[q] = "clear", token[c] = stok[q]
                 PROVE  respTok'[q] = token[c]
    BY Zenon, <1>1, <1>5 DEF ResponseFirst
  <2>2. CASE q = r
    BY Zenon, <1>1, <2>1, <2>2
  <2>3. CASE q # r
    BY Zenon, <1>1, <2>1, <2>3 DEF HandOver, ResponseFirst
  <2> QED BY Zenon, <2>2, <2>3
<1>7. NoLostCall'
  <2>1. \A c \in pending : token[c] # Free /\ RouteOf[c] \in Routes
    BY Zenon, RouteAssumption DEF IInv, TypeOK, TokensUnique
  <2> QED BY ZenonT(60), <1>1, <1>2, <1>5, <2>1 DEF HandOver, NoLostCall
<1>8. CallerHolds'
  <2>1. reqTok[r] # Free
    BY Zenon, <1>1 DEF HandOver, RequestHeld
  <2>2. croute = r => ~ Writing
    BY Zenon, <2>1 DEF IInv, CallerKnows
  <2>3. Writing' = Writing /\ TimingOut' = TimingOut /\ croute \in Routes
    BY Zenon, <1>1 DEF Writing, TimingOut, IInv, TypeOK
  <2> QED BY Zenon, <1>1, <1>2, <2>2, <2>3 DEF HandOver, CallerHolds
<1> QED BY Zenon, <1>3, <1>4, <1>6, <1>7, <1>8 DEF HandOver

LEMMA serveClearHandsOver ==
  ASSUME IInv, HandOver, NEW r \in Routes, serveClear(r) PROVE HandOver'
<1>1. /\ UNCHANGED <<reqTag, respTok, control, locals, table>>
      /\ spc[r] = "clear" /\ spc'[r] = "idle" /\ reqTok'[r] = Free
      /\ \A q \in Routes \ {r} : /\ spc'[q] = spc[q] /\ reqTok'[q] = reqTok[q]
                                  /\ stok'[q] = stok[q] /\ stag'[q] = stag[q]
  BY Zenon DEF serveClear, IInv, TypeOK
<1>2. RequestHeld'
  BY Zenon, <1>1 DEF HandOver, RequestHeld
<1>3. ResponseLast'
  BY Zenon, <1>1 DEF HandOver, ResponseLast
<1>4. Publishing' = Publishing
  BY Zenon, <1>1 DEF Publishing
<1>5. ResponseFirst'
  <2>1. \A q \in Routes :
          spc'[q] = "clear" => spc[q] = "clear" /\ stok'[q] = stok[q]
    BY Zenon, <1>1
  <2> QED BY Zenon, <1>1, <1>4, <2>1, FirstFrame DEF HandOver
<1>6. NoLostCall'
  <2>1. SUFFICES ASSUME NEW c \in pending \ Publishing
                 PROVE  token[c] \in {reqTok'[RouteOf[c]], respTok[RouteOf[c]]}
    BY Zenon, <1>1, <1>4 DEF NoLostCall
  <2>2. RouteOf[c] \in Routes
    BY Zenon, RouteAssumption DEF IInv, TypeOK
  <2>3. CASE RouteOf[c] # r
    BY Zenon, <1>1, <2>2, <2>3 DEF HandOver, NoLostCall
  <2>4. CASE RouteOf[c] = r
    <3>1. reqTok[r] = stok[r]
      BY Zenon, <1>1 DEF HandOver, RequestHeld
    <3>2. token[c] \in {reqTok[r], respTok[r]}
      BY Zenon, <2>1, <2>4 DEF HandOver, NoLostCall
    <3>3. token[c] = stok[r] => respTok[r] = token[c]
      BY Zenon, <1>1, <2>1 DEF HandOver, ResponseFirst
    <3> QED BY Zenon, <2>4, <3>1, <3>2, <3>3
  <2> QED BY Zenon, <2>3, <2>4
<1>7. CallerHolds'
  BY Zenon, <1>1 DEF HandOver, CallerHolds, Writing, TimingOut
<1> QED BY Zenon, <1>2, <1>3, <1>5, <1>6, <1>7 DEF HandOver

LEMMA respClearHandsOver ==
  ASSUME IInv, HandOver, respClear PROVE HandOver'
<1>1. /\ UNCHANGED <<reqTok, reqTag, server, croute, rret, token>>
      /\ cpc = "respClear" /\ cpc' = rret
      /\ respTok'[croute] = Free /\ croute \in Routes
      /\ \A q \in Routes \ {croute} : respTok'[q] = respTok[q]
      /\ pending' \subseteq pending
      /\ \A c \in pending' : token[c] # ctok
  <2>1. /\ UNCHANGED <<reqTok, reqTag, server, croute, rret, token>>
        /\ cpc = "respClear" /\ cpc' = rret
        /\ respTok' = [respTok EXCEPT ![croute] = Free]
    BY Zenon DEF respClear
  <2>2. croute \in Routes /\ respTok \in [Routes -> TokenWords]
    BY Zenon DEF IInv, TypeOK
  <2>3. pending' \subseteq pending /\ \A c \in pending' : token[c] # ctok
    <3>1. CASE Awaited(ctok) = {} /\ pending' = pending
      BY Zenon, <3>1 DEF Awaited
    <3>2. ASSUME NEW c \in Awaited(ctok), pending' = pending \ {c}
          PROVE  \A d \in pending' : token[d] # ctok
      BY Zenon, <3>2 DEF Awaited, IInv, TypeOK, TokensUnique
    <3> QED BY Zenon, <3>1, <3>2 DEF respClear
  <2> QED BY Zenon, <2>1, <2>2, <2>3
<1>2. rret \in {"poll", "checkReq"}
  BY Zenon DEF IInv, TypeOK
<1>3. Publishing' = {} /\ Publishing = {}
  BY Zenon, <1>1, <1>2 DEF Publishing
<1>4. respTok[croute] = ctok
  BY Zenon, <1>1 DEF HandOver, CallerHolds
<1>5. RequestHeld' /\ ResponseLast'
  BY Zenon, <1>1 DEF HandOver, RequestHeld, ResponseLast
<1>6. ResponseFirst'
  <2>1. SUFFICES ASSUME NEW r \in Routes, NEW c \in pending',
                        spc[r] = "clear", token[c] = stok[r]
                 PROVE  respTok'[r] = token[c]
    BY Zenon, <1>1, <1>3 DEF ResponseFirst
  <2>2. respTok[r] = token[c] /\ token[c] # ctok
    BY Zenon, <1>1, <1>3, <2>1 DEF HandOver, ResponseFirst
  <2>3. r # croute
    BY Zenon, <1>4, <2>2
  <2> QED BY Zenon, <1>1, <2>2, <2>3
<1>7. CallerHolds'
  BY Zenon, <1>1, <1>2 DEF CallerHolds, Writing, TimingOut
<1>8. NoLostCall'
  <2>1. \A c \in pending' : RouteOf[c] \in Routes
    BY Zenon, <1>1, RouteAssumption DEF IInv, TypeOK
  <2>2. SUFFICES ASSUME NEW c \in pending'
                 PROVE  token[c] \in {reqTok[RouteOf[c]], respTok'[RouteOf[c]]}
    BY Zenon, <1>1 DEF NoLostCall
  <2>3. /\ token[c] \in {reqTok[RouteOf[c]], respTok[RouteOf[c]]}
        /\ token[c] # ctok
    BY Zenon, <1>1, <1>3 DEF HandOver, NoLostCall
  <2>4. CASE RouteOf[c] = croute
    BY Zenon, <1>4, <2>3, <2>4
  <2>5. CASE RouteOf[c] # croute
    BY Zenon, <1>1, <2>1, <2>3, <2>5
  <2> QED BY Zenon, <2>4, <2>5
<1> QED BY Zenon, <1>5, <1>6, <1>7, <1>8 DEF HandOver

LEMMA callCheckRespHandsOver ==
  ASSUME IInv, HandOver, callCheckResp PROVE HandOver'
<1>1. /\ UNCHANGED <<reqTok, reqTag, respTok, server, croute>>
      /\ cpc = "checkResp" /\ cret \in {"idle", "resumed"}
      /\ \/ cpc' = cret /\ UNCHANGED <<pending, token>>
         \/ /\ cpc' = "writeTag" /\ respTok[croute] = Free
            /\ pending' = pending \cup {ccall} /\ ccall' = ccall
            /\ \A c \in Calls \ {ccall} : token'[c] = token[c]
      /\ pending \in SUBSET Calls
  BY Zenon DEF callCheckResp, Refuse, IInv, TypeOK
<1>2. /\ Publishing = {}
      /\ pending' \ Publishing' = pending \ {ccall} \/ UNCHANGED <<pending, token>>
      /\ \A c \in pending' \ Publishing' : c \in pending /\ token'[c] = token[c]
  BY Zenon, <1>1 DEF Publishing
<1>3. RequestHeld' /\ ResponseLast'
  BY Zenon, <1>1 DEF HandOver, RequestHeld, ResponseLast
<1>4. ResponseFirst'
  <2> SUFFICES ASSUME NEW r \in Routes, NEW c \in pending' \ Publishing',
                      spc'[r] = "clear", token'[c] = stok'[r]
               PROVE  respTok'[r] = token'[c]
    BY Zenon DEF ResponseFirst
  <2>1. c \in pending \ Publishing /\ token'[c] = token[c]
    BY Zenon, <1>2
  <2> QED BY Zenon, <1>1, <2>1 DEF HandOver, ResponseFirst
<1>5. NoLostCall'
  <2> SUFFICES ASSUME NEW c \in pending' \ Publishing'
               PROVE  token'[c] \in {reqTok'[RouteOf[c]], respTok'[RouteOf[c]]}
    BY Zenon DEF NoLostCall
  <2>1. c \in pending \ Publishing /\ token'[c] = token[c]
    BY Zenon, <1>2
  <2> QED BY Zenon, <1>1, <2>1 DEF HandOver, NoLostCall
<1>6. CallerHolds'
  BY Zenon, <1>1 DEF CallerHolds, Writing, TimingOut
<1> QED BY Zenon, <1>3, <1>4, <1>5, <1>6 DEF HandOver

LEMMA callWriteTagHandsOver ==
  ASSUME IInv, HandOver, callWriteTag PROVE HandOver'
<1>1. /\ UNCHANGED <<reqTok, respTok, server, croute, ccall, pending, token>>
      /\ cpc = "writeTag" /\ cpc' = "writeData"
      /\ \A q \in Routes \ {croute} : reqTag'[q] = reqTag[q]
      /\ croute \in Routes
  BY Zenon DEF callWriteTag, IInv, TypeOK
<1>2. reqTok[croute] = Free
  BY Zenon, <1>1 DEF IInv, CallerKnows, Writing
<1>3. RequestHeld'
  BY Zenon, <1>1, <1>2 DEF HandOver, RequestHeld
<1>4. ResponseLast'
  BY Zenon, <1>1 DEF HandOver, ResponseLast
<1>5. Publishing' = Publishing
  BY Zenon, <1>1 DEF Publishing
<1>6. ResponseFirst' /\ NoLostCall'
  BY Zenon, <1>1, <1>5 DEF HandOver, ResponseFirst, NoLostCall
<1>7. CallerHolds'
  BY Zenon, <1>1 DEF HandOver, CallerHolds, Writing, TimingOut
<1> QED BY Zenon, <1>3, <1>4, <1>6, <1>7 DEF HandOver

LEMMA callPublishHandsOver ==
  ASSUME IInv, HandOver, callPublish PROVE HandOver'
<1>1. /\ UNCHANGED <<reqTag, respTok, server, pending, token>>
      /\ cpc = "publish" /\ cpc' \in {"idle", "resumed"}
      /\ reqTok'[croute] = token[ccall] /\ croute \in Routes
      /\ \A q \in Routes \ {croute} : reqTok'[q] = reqTok[q]
  BY Zenon DEF callPublish, IInv, TypeOK
<1>2. /\ reqTok[croute] = Free /\ respTok[croute] = Free
      /\ ccall \in pending /\ croute = RouteOf[ccall]
  BY Zenon, <1>1 DEF IInv, CallerKnows, Writing, HandOver, CallerHolds
<1>3. Publishing = {ccall} /\ Publishing' = {}
  BY Zenon, <1>1 DEF Publishing
<1>4. RequestHeld'
  BY Zenon, <1>1, <1>2 DEF HandOver, RequestHeld
<1>5. ResponseLast'
  BY Zenon, <1>1, <1>2 DEF HandOver, ResponseLast
<1>6. ResponseFirst'
  <2>1. SUFFICES ASSUME NEW r \in Routes, NEW c \in pending,
                        spc[r] = "clear", token[c] = stok[r]
                 PROVE  respTok[r] = token[c]
    BY Zenon, <1>1 DEF ResponseFirst
  <2>2. c \notin Publishing
    BY Zenon, <2>1 DEF IInv, ServesPending, Serving
  <2> QED BY Zenon, <2>1, <2>2 DEF HandOver, ResponseFirst
<1>7. NoLostCall'
  <2>1. \A c \in pending : RouteOf[c] \in Routes /\ (RouteOf[c] = croute => c = ccall)
    BY Zenon, <1>2, RouteAssumption DEF IInv, TypeOK, OnePerRoute
  <2> QED BY Zenon, <1>1, <1>2, <1>3, <2>1 DEF HandOver, NoLostCall
<1>8. CallerHolds'
  BY Zenon, <1>1 DEF CallerHolds, Writing, TimingOut
<1> QED BY Zenon, <1>4, <1>5, <1>6, <1>7, <1>8 DEF HandOver

LEMMA InitHandsOver == Init => HandOver
BY DEF Init, HandOver, RequestHeld, ResponseLast, ResponseFirst, CallerHolds,
       Writing, TimingOut, NoLostCall

LEMMA StutterHandsOver == HandOver /\ UNCHANGED vars => HandOver'
<1> SUFFICES ASSUME HandOver, UNCHANGED vars PROVE HandOver'
    OBVIOUS
<1>1. RequestHeld' /\ ResponseLast' /\ CallerHolds'
  BY Zenon DEF vars, HandOver, RequestHeld, ResponseLast, CallerHolds, Writing,
         TimingOut
<1>2. ResponseFirst' /\ NoLostCall'
  BY Zenon DEF vars, HandOver, ResponseFirst, NoLostCall, Publishing
<1> QED BY Zenon, <1>1, <1>2 DEF HandOver

LEMMA NextHandsOver ==
  ASSUME MaxRestarts = 0, Timed = {} PROVE IInv /\ HandOver /\ Next => HandOver'
<1> SUFFICES ASSUME IInv, HandOver, Next PROVE HandOver'
    OBVIOUS
<1>1. ASSUME NEW r \in Routes, Serve(r) PROVE HandOver'
  BY Zenon, <1>1, serveReadTokenHandsOver, serveWorkHandsOver,
     servePublishHandsOver, serveClearHandsOver DEF Serve
<1>2. CASE Quiet
  BY Zenon, <1>2, QuietHandsOver
<1>3. CASE respClear \/ callCheckResp \/ callWriteTag \/ callPublish
  BY Zenon, <1>3, respClearHandsOver, callCheckRespHandsOver, callWriteTagHandsOver,
     callPublishHandsOver
<1>4. CASE timeoutReq \/ timeoutReadResp \/ timeoutDone
  BY Zenon, <1>4
  DEF HandOver, CallerHolds, TimingOut, timeoutReq, timeoutReadResp,
              timeoutDone
<1>5. CASE \E c \in Calls : timeoutPendingCall(c)
  BY Zenon, <1>5 DEF timeoutPendingCall
<1>6. CASE ipcBridgeInit
  BY <1>6 DEF IInv, NotRestarted, ipcBridgeInit
<1> QED
  BY Zenon, <1>1, <1>2, <1>3, <1>4, <1>5, <1>6 DEF Next, Proceed, Quiet

(* Without timeouts and restarts no call is lost: from callPublish until   *)
(* its response is taken, its token is in one of the two slots of its      *)
(* route. *)
THEOREM NoCallLost ==
  ASSUME MaxRestarts = 0, Timed = {} PROVE Spec => []NoLostCall
<1>1. HandOver => NoLostCall
  BY Zenon DEF HandOver
<1> QED
  BY <1>1, InitInv, InitHandsOver, NextInv, NextHandsOver, StutterInv,
     StutterHandsOver, PTL DEF Spec

(* Without timeouts and restarts the handler of processRequestAt sees the  *)
(* tag and the arguments of the call whose token the server read. *)
THEOREM HandlerSeesRequest ==
  ASSUME MaxRestarts = 0, Timed = {} PROVE Spec => []TokenPublishesRequest
<1>1. IInv /\ HandOver => TokenPublishesRequest
  BY Zenon DEF IInv, HandOver, RequestHeld, RequestWhole, TokenPublishesRequest
<1> QED
  BY <1>1, InitInv, InitHandsOver, NextInv, NextHandsOver, StutterInv,
     StutterHandsOver, PTL DEF Spec
=============================================================================
