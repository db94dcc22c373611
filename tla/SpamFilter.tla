------------------------------ MODULE SpamFilter ------------------------------
(***************************************************************************)
(* Spam filter mode: a Marlin gateway asks of each message whether to let  *)
(* it through.  recvRoutineSpamFilter (marlin/marlin.go) reads requests    *)
(* and sends them to marlinFrom, throwing the oldest away when that is     *)
(* full.  Workers (beginServicingSpamFilter, chains/cosmos) take requests, *)
(* ask the Tendermint node for validators, and send verdicts to marlinTo,  *)
(* waiting for room.  sendRoutineSpamFilter writes them to the gateway.    *)
(* RunSpamFilterHandler listens for the gateway, starts both routines on   *)
(* the connection, and listens again when one of them fails.               *)
(*                                                                         *)
(* A worker that cannot decode one of the two messages of a 0x90 request   *)
(* sends a denial and goes on to the next step, so that such a request has *)
(* two or three verdicts.  Workers and channels outlive connections: a     *)
(* verdict may be written on a later connection than its request came on.  *)
(*                                                                         *)
(* A request is named by its connection and its number there, which stand  *)
(* for the gateway's 8-byte id; its content says what the checks find.     *)
(* The gateway frames its requests as the code expects.                    *)
(* Bounds: MaxConns connections, MaxRequests requests on all of them.  The *)
(* last connection does not fail.                                          *)
(***************************************************************************)
EXTENDS Integers, Sequences, FiniteSets

CONSTANTS Workers, Contents, Capacity, MaxConns, MaxRequests

(* What a worker can meet: a vote or a bundle of proposal and block part   *)
(* (0x90) that passes every check, a message of one part that does not, a  *)
(* bundle that decodes and does not, and bundles that do not decode.       *)
Bundles == {"block", "falseBlock", "noFirst", "noSecond", "neither"}

ASSUME CapacityAssumption == Capacity \in Nat \ {0}
ASSUME BoundsAssumption == MaxConns \in Nat \ {0} /\ MaxRequests \in Nat
ASSUME ContentsAssumption == Contents \subseteq {"vote", "other"} \union Bundles

VARIABLES
    currentlyServicing, \* the chain let through: "none" or "chain"
    listening,          \* the handler's listener is not nil
    retried,            \* retry > 0
    conn,               \* connections made so far; the last one is watched
    supPc,              \* where the supervisor is
    handler,            \* the handler of each connection (see NewHandler)
    asked,              \* requests that have arrived on all of them
    marlinFrom,         \* requests for the workers, oldest first
    dropped,            \* requests thrown away from it
    worker,             \* where each worker is, and with which request
    marlinTo,           \* verdicts for the gateway, oldest first
    written,            \* per connection: the verdicts written to it
    lost                \* verdicts discarded or in the hand of a failed write

supVars == <<listening, retried, conn, supPc>>
fromVars == <<marlinFrom, dropped, worker>>
toVars == <<marlinTo, written, lost>>
vars == <<currentlyServicing, supVars, handler, asked, fromVars, toVars>>

Conns == 1..MaxConns
Request(g, n, c) == [from |-> g, n |-> n, content |-> c]
Requests == [from : Conns, n : 1..MaxRequests,
             content : {"garbled", "vote", "other"} \union Bundles]
NoRequest == Request(0, 0, "none")

(* spamVerdictMessage, for the request and the step that it comes from     *)
Verdict(r, step, allow, chain) ==
    [request |-> r, step |-> step, allow |-> allow, chain |-> chain]
Verdicts == [request : Requests, step : {"garbled", "first", "second", "judge"},
             allow : BOOLEAN, chain : {"none", "chain"}]
NoVerdict == Verdict(NoRequest, "none", FALSE, "none")

(* A MarlinHandler, its signal channels and its two routines               *)
NewHandler ==
    [link |-> "none",       \* then "up", "eof" (reads fail) or "down"
     connError |-> 0,       \* tokens in signalConnError and in the two
     shutSend |-> 0,        \*   signalShut channels, of capacity 1
     shutRecv |-> 0,
     unread |-> 0,          \* requests that have arrived and were not read
     read |-> 0,            \* requests read that somebody is to answer
     recv |-> "none",       \* where recvRoutineSpamFilter is
     request |-> NoRequest, \* the request in its hand
     chain |-> "none",      \* the chain in the denial in its hand
     send |-> "none",       \* where sendRoutineSpamFilter is
     verdict |-> NoVerdict] \* the verdict it took last

Init ==
    /\ currentlyServicing = "none"
    /\ listening = FALSE /\ retried = FALSE
    /\ conn = 0 /\ supPc = "connect"
    /\ handler = [g \in Conns |-> NewHandler]
    /\ asked = 0
    /\ marlinFrom = << >> /\ dropped = {}
    /\ worker = [w \in Workers |-> [pc |-> "idle", request |-> NoRequest]]
    /\ marlinTo = << >> /\ written = [g \in Conns |-> << >>] /\ lost = {}

-------------------------------------------------------------------------------
(* RunSpamFilterHandler *)

(* connectMarlin closes the former listener and listens again. *)
Listen ==
    /\ supPc = "connect" /\ (retried => listening)
    /\ listening' = TRUE
    /\ supPc' = "accept"
    /\ UNCHANGED <<currentlyServicing, retried, conn, handler, asked, fromVars, toVars>>

(* The port cannot be listened on: the listener is nil. *)
ListenFails ==
    /\ supPc = "connect" /\ (retried => listening)
    /\ listening' = FALSE
    /\ supPc' = "sleep"
    /\ UNCHANGED <<currentlyServicing, retried, conn, handler, asked, fromVars, toVars>>

(* Close of a listener that is nil panics. *)
ClosePanics ==
    /\ supPc = "connect" /\ retried /\ ~listening
    /\ supPc' = "crashed"
    /\ UNCHANGED <<currentlyServicing, listening, retried, conn, handler, asked,
                   fromVars, toVars>>

(* The gateway connects: beginServicingSpamFilter starts both routines. *)
Accept ==
    /\ supPc = "accept" /\ conn < MaxConns
    /\ conn' = conn + 1
    /\ handler' = [handler EXCEPT ![conn + 1].link = "up", ![conn + 1].send = "range",
                                  ![conn + 1].recv = "top"]
    /\ supPc' = "watch"
    /\ UNCHANGED <<currentlyServicing, listening, retried, asked, fromVars, toVars>>

AcceptFails ==
    /\ supPc = "accept"
    /\ supPc' = "sleep"
    /\ UNCHANGED <<currentlyServicing, listening, retried, conn, handler, asked,
                   fromVars, toVars>>

(* case <-handler.signalConnError *)
ConnErrorSeen ==
    /\ supPc = "watch" /\ handler[conn].connError = 1
    /\ handler' = [handler EXCEPT ![conn].connError = 0]
    /\ supPc' = "shutSend"
    /\ UNCHANGED <<currentlyServicing, listening, retried, conn, asked, fromVars, toVars>>

ShutSend ==
    /\ supPc = "shutSend" /\ handler[conn].shutSend = 0
    /\ handler' = [handler EXCEPT ![conn].shutSend = 1]
    /\ supPc' = "shutRecv"
    /\ UNCHANGED <<currentlyServicing, listening, retried, conn, asked, fromVars, toVars>>

ShutRecv ==
    /\ supPc = "shutRecv" /\ handler[conn].shutRecv = 0
    /\ handler' = [handler EXCEPT ![conn].shutRecv = 1]
    /\ supPc' = "sleep"
    /\ UNCHANGED <<currentlyServicing, listening, retried, conn, asked, fromVars, toVars>>

(* REATTEMPT_CONNECTION, one second later *)
Reattempt ==
    /\ supPc = "sleep"
    /\ retried' = TRUE
    /\ supPc' = "connect"
    /\ UNCHANGED <<currentlyServicing, listening, conn, handler, asked, fromVars, toVars>>

-------------------------------------------------------------------------------
(* sendRoutineSpamFilter of connection g *)

(* for msg := range h.marlinTo *)
SendTake(g) ==
    /\ handler[g].send = "range" /\ marlinTo # << >>
    /\ handler' = [handler EXCEPT ![g].send = "check", ![g].verdict = Head(marlinTo)]
    /\ marlinTo' = Tail(marlinTo)
    /\ UNCHANGED <<currentlyServicing, supVars, asked, fromVars, written, lost>>

(* <-h.signalShutSend *)
SendShutdown(g) ==
    /\ handler[g].send = "check" /\ handler[g].shutSend = 1
    /\ handler' = [handler EXCEPT ![g].send = "requeue", ![g].shutSend = 0]
    /\ UNCHANGED <<currentlyServicing, supVars, asked, fromVars, toVars>>

(* Mutant of SendRequeue: the return after it is missing. *)
SendRequeueAndGoOn(g) ==
    /\ handler[g].send = "requeue" /\ Len(marlinTo) < Capacity
    /\ marlinTo' = Append(marlinTo, handler[g].verdict)
    /\ handler' = [handler EXCEPT ![g].send = "write"]
    /\ UNCHANGED <<currentlyServicing, supVars, asked, fromVars, written, lost>>

(* h.marlinTo <- msg waits for room; the next connection will answer. *)
SendRequeue(g) ==
    /\ handler[g].send = "requeue" /\ Len(marlinTo) < Capacity
    /\ marlinTo' = Append(marlinTo, handler[g].verdict)
    /\ handler' = [handler EXCEPT ![g].send = "shut", ![g].verdict = NoVerdict]
    /\ UNCHANGED <<currentlyServicing, supVars, asked, fromVars, written, lost>>

(* A denial made before the chain was registered has no chain. *)
SendDiscard(g) ==
    /\ handler[g].send = "check" /\ handler[g].shutSend = 0
    /\ handler[g].verdict.chain # currentlyServicing
    /\ lost' = lost \union {handler[g].verdict}
    /\ handler' = [handler EXCEPT ![g].send = "range", ![g].verdict = NoVerdict]
    /\ UNCHANGED <<currentlyServicing, supVars, asked, fromVars, marlinTo, written>>

SendEncode(g) ==
    /\ handler[g].send = "check" /\ handler[g].shutSend = 0
    /\ handler[g].verdict.chain = currentlyServicing
    /\ handler' = [handler EXCEPT ![g].send = "write"]
    /\ UNCHANGED <<currentlyServicing, supVars, asked, fromVars, toVars>>

(* Write and Flush succeed. *)
SendWrite(g) ==
    /\ handler[g].send = "write" /\ handler[g].link # "down"
    /\ written' = [written EXCEPT ![g] = Append(@, handler[g].verdict)]
    /\ handler' = [handler EXCEPT ![g].send = "range", ![g].verdict = NoVerdict]
    /\ UNCHANGED <<currentlyServicing, supVars, asked, fromVars, marlinTo, lost>>

(* Write or Flush fails: the verdict is gone. *)
SendWriteFails(g) ==
    /\ handler[g].send = "write" /\ handler[g].link # "up"
    /\ lost' = lost \union {handler[g].verdict}
    /\ handler' = [handler EXCEPT ![g].send = "fail", ![g].verdict = NoVerdict]
    /\ UNCHANGED <<currentlyServicing, supVars, asked, fromVars, marlinTo, written>>

(* h.signalConnError <- struct{}{}; return *)
SendSignal(g) ==
    /\ handler[g].send = "fail" /\ handler[g].connError = 0
    /\ handler' = [handler EXCEPT ![g].send = "failed", ![g].connError = 1]
    /\ UNCHANGED <<currentlyServicing, supVars, asked, fromVars, toVars>>

-------------------------------------------------------------------------------
(* recvRoutineSpamFilter of connection g *)

(* <-h.signalShutRecv *)
RecvShutdown(g) ==
    /\ handler[g].recv = "top" /\ handler[g].shutRecv = 1
    /\ handler' = [handler EXCEPT ![g].recv = "shut", ![g].shutRecv = 0]
    /\ UNCHANGED <<currentlyServicing, supVars, asked, fromVars, toVars>>

(* No token: the routine waits in ReadFull. *)
RecvRead(g) ==
    /\ handler[g].recv = "top" /\ handler[g].shutRecv = 0
    /\ handler' = [handler EXCEPT ![g].recv = "read"]
    /\ UNCHANGED <<currentlyServicing, supVars, asked, fromVars, toVars>>

Readable(g) == handler[g].recv = "read" /\ handler[g].unread > 0

(* A request of two bytes or less, or for another chain, gets no verdict. *)
RecvIgnored(g) ==
    /\ Readable(g)
    /\ handler' = [handler EXCEPT ![g].unread = @ - 1, ![g].recv = "top"]
    /\ UNCHANGED <<currentlyServicing, supVars, asked, fromVars, toVars>>

(* proto.Unmarshal fails: a denial for the chain let through at this time. *)
RecvUndecodable(g) ==
    /\ Readable(g)
    /\ handler' = [handler EXCEPT ![g].unread = @ - 1, ![g].read = @ + 1,
          ![g].request = Request(g, handler[g].read + 1, "garbled"),
          ![g].chain = currentlyServicing, ![g].recv = "deny"]
    /\ UNCHANGED <<currentlyServicing, supVars, asked, fromVars, toVars>>

(* h.marlinTo <- denial waits for room. *)
RecvDeny(g) ==
    /\ handler[g].recv = "deny" /\ Len(marlinTo) < Capacity
    /\ marlinTo' = Append(marlinTo, Verdict(handler[g].request, "garbled", FALSE,
                                            handler[g].chain))
    /\ handler' = [handler EXCEPT ![g].recv = "top", ![g].request = NoRequest,
                                  ![g].chain = "none"]
    /\ UNCHANGED <<currentlyServicing, supVars, asked, fromVars, written, lost>>

(* case h.marlinFrom <- message.  Its chain is the one in                  *)
(* currentlyServicing, whichever that is.                                  *)
RecvSelectSend(g) ==
    /\ Readable(g) /\ Len(marlinFrom) < Capacity
    /\ \E c \in Contents :
         marlinFrom' = Append(marlinFrom, Request(g, handler[g].read + 1, c))
    /\ handler' = [handler EXCEPT ![g].unread = @ - 1, ![g].read = @ + 1,
                                  ![g].recv = "top"]
    /\ UNCHANGED <<currentlyServicing, supVars, asked, dropped, worker, toVars>>

(* default: the channel is full. *)
RecvSelectDefault(g) ==
    /\ Readable(g) /\ Len(marlinFrom) = Capacity
    /\ \E c \in Contents :
         handler' = [handler EXCEPT ![g].unread = @ - 1, ![g].read = @ + 1,
           ![g].request = Request(g, handler[g].read + 1, c), ![g].recv = "drop"]
    /\ UNCHANGED <<currentlyServicing, supVars, asked, fromVars, toVars>>

(* _ = <-h.marlinFrom: the oldest request now, if any, gets no verdict. *)
RecvDrop(g) ==
    /\ handler[g].recv = "drop" /\ marlinFrom # << >>
    /\ dropped' = dropped \union {Head(marlinFrom)}
    /\ marlinFrom' = Tail(marlinFrom)
    /\ handler' = [handler EXCEPT ![g].recv = "put"]
    /\ UNCHANGED <<currentlyServicing, supVars, asked, worker, toVars>>

(* h.marlinFrom <- message *)
RecvPut(g) ==
    /\ handler[g].recv = "put" /\ Len(marlinFrom) < Capacity
    /\ marlinFrom' = Append(marlinFrom, handler[g].request)
    /\ handler' = [handler EXCEPT ![g].recv = "top", ![g].request = NoRequest]
    /\ UNCHANGED <<currentlyServicing, supVars, asked, dropped, worker, toVars>>

(* ReadFull fails: nothing more to read, or a broken connection. *)
ReadFails(g) ==
    /\ handler[g].recv = "read"
    /\ handler[g].link = "down" \/ (handler[g].link = "eof" /\ handler[g].unread = 0)

RecvFails(g) ==
    /\ ReadFails(g)
    /\ handler' = [handler EXCEPT ![g].recv = "fail"]
    /\ UNCHANGED <<currentlyServicing, supVars, asked, fromVars, toVars>>

(* h.signalConnError <- struct{}{}; return *)
RecvSignal(g) ==
    /\ handler[g].recv = "fail" /\ handler[g].connError = 0
    /\ handler' = [handler EXCEPT ![g].recv = "failed", ![g].connError = 1]
    /\ UNCHANGED <<currentlyServicing, supVars, asked, fromVars, toVars>>

-------------------------------------------------------------------------------
(* RunSpamFilter and its workers *)

(* The chain is registered and then the workers are started. *)
AllowServicedChainMessages ==
    /\ currentlyServicing = "none"
    /\ currentlyServicing' = "chain"
    /\ UNCHANGED <<supVars, handler, asked, fromVars, toVars>>

(* for marlinMsg := range h.marlinFrom *)
WorkerTake(w) ==
    /\ currentlyServicing = "chain"
    /\ worker[w].pc = "idle" /\ marlinFrom # << >>
    /\ LET r == Head(marlinFrom) IN
       worker' = [worker EXCEPT ![w] =
         [pc |-> IF r.content \in Bundles THEN "first" ELSE "judge", request |-> r]]
    /\ marlinFrom' = Tail(marlinFrom)
    /\ UNCHANGED <<currentlyServicing, supVars, handler, asked, dropped, toVars>>

(* A bundle is decoded in two steps. *)
Undecodable(step) ==
    IF step = "first" THEN {"noFirst", "neither"} ELSE {"noSecond", "neither"}
AfterDecoding(step) == IF step = "first" THEN "second" ELSE "judge"

WorkerDecodes(w) ==
    /\ worker[w].pc \in {"first", "second"}
    /\ worker[w].request.content \notin Undecodable(worker[w].pc)
    /\ worker' = [worker EXCEPT ![w].pc = AfterDecoding(@)]
    /\ UNCHANGED <<currentlyServicing, supVars, handler, asked, marlinFrom, dropped, toVars>>

(* Mutant of SendVerdict: off by one about the room in marlinTo. *)
SendVerdictOver(w, allow) ==
    /\ Len(marlinTo) <= Capacity
    /\ marlinTo' = Append(marlinTo,
                          Verdict(worker[w].request, worker[w].pc, allow, "chain"))

(* h.marlinTo <- verdict waits for room. *)
SendVerdict(w, allow) ==
    /\ Len(marlinTo) < Capacity
    /\ marlinTo' = Append(marlinTo,
                          Verdict(worker[w].request, worker[w].pc, allow, "chain"))

(* Mutant of WorkerCannotDecode: return after the denial ends the worker.  *)
WorkerReturns(w) ==
    /\ worker[w].pc \in {"first", "second"}
    /\ worker[w].request.content \in Undecodable(worker[w].pc)
    /\ SendVerdict(w, FALSE)
    /\ worker' = [worker EXCEPT ![w] = [pc |-> "ended", request |-> NoRequest]]
    /\ UNCHANGED <<currentlyServicing, supVars, handler, asked, marlinFrom, dropped,
                   written, lost>>

(* A denial for the message that does not decode, and on with the next.    *)
WorkerCannotDecode(w) ==
    /\ worker[w].pc \in {"first", "second"}
    /\ worker[w].request.content \in Undecodable(worker[w].pc)
    /\ SendVerdict(w, FALSE)
    /\ worker' = [worker EXCEPT ![w].pc = AfterDecoding(@)]
    /\ UNCHANGED <<currentlyServicing, supVars, handler, asked, marlinFrom, dropped,
                   written, lost>>

(* Mutant of WorkerJudge: the types of the two messages are not looked at. *)
WorkerJudgesAll(w) ==
    /\ worker[w].pc = "judge"
    /\ \E allow \in BOOLEAN : SendVerdict(w, allow)
    /\ worker' = [worker EXCEPT ![w] = [pc |-> "idle", request |-> NoRequest]]
    /\ UNCHANGED <<currentlyServicing, supVars, handler, asked, marlinFrom, dropped,
                   written, lost>>

(* The last verdict.  One that could be allowed is denied all the same if  *)
(* the node does not tell the validators.                                  *)
WorkerJudge(w) ==
    /\ worker[w].pc = "judge"
    /\ \E allow \in BOOLEAN :
         /\ allow => worker[w].request.content \in {"vote", "block"}
         /\ SendVerdict(w, allow)
    /\ worker' = [worker EXCEPT ![w] = [pc |-> "idle", request |-> NoRequest]]
    /\ UNCHANGED <<currentlyServicing, supVars, handler, asked, marlinFrom, dropped,
                   written, lost>>

(* A reply of the node without validators, or a cached set that is evicted *)
(* between Contains and Get, fails a type assertion.                       *)
WorkerPanics(w) ==
    /\ worker[w].pc = "judge" /\ worker[w].request.content \in {"vote", "block", "falseBlock"}
    /\ supPc' = "crashed"
    /\ UNCHANGED <<currentlyServicing, listening, retried, conn, handler, asked,
                   fromVars, toVars>>

-------------------------------------------------------------------------------
(* The gateway and the network *)

GatewayAsks(g) ==
    /\ handler[g].link = "up" /\ asked < MaxRequests
    /\ asked' = asked + 1
    /\ handler' = [handler EXCEPT ![g].unread = @ + 1]
    /\ UNCHANGED <<currentlyServicing, supVars, fromVars, toVars>>

(* The gateway closes its end, or the connection breaks. *)
LinkFails(g) ==
    /\ g < MaxConns
    /\ \E s \in {"eof", "down"} :
         /\ handler[g].link = "up" \/ (handler[g].link = "eof" /\ s = "down")
         /\ handler' = [handler EXCEPT ![g].link = s]
    /\ UNCHANGED <<currentlyServicing, supVars, asked, fromVars, toVars>>

-------------------------------------------------------------------------------

RunSpamFilterHandler ==
    \/ Listen \/ ListenFails \/ ClosePanics \/ Accept \/ AcceptFails
    \/ ConnErrorSeen \/ ShutSend \/ ShutRecv \/ Reattempt

sendRoutineSpamFilter(g) ==
    \/ SendTake(g) \/ SendShutdown(g) \/ SendRequeue(g) \/ SendDiscard(g)
    \/ SendEncode(g) \/ SendWrite(g) \/ SendWriteFails(g) \/ SendSignal(g)

recvRoutineSpamFilter(g) ==
    \/ RecvShutdown(g) \/ RecvRead(g) \/ RecvIgnored(g) \/ RecvUndecodable(g)
    \/ RecvDeny(g) \/ RecvSelectSend(g) \/ RecvSelectDefault(g) \/ RecvDrop(g)
    \/ RecvPut(g) \/ RecvFails(g) \/ RecvSignal(g)

beginServicingSpamFilter(w) ==
    WorkerTake(w) \/ WorkerDecodes(w) \/ WorkerCannotDecode(w) \/ WorkerJudge(w)

(* A panic ends the process. *)
Running == supPc # "crashed"

Next ==
    /\ Running
    /\ \/ RunSpamFilterHandler
       \/ AllowServicedChainMessages
       \/ \E w \in Workers : beginServicingSpamFilter(w) \/ WorkerPanics(w)
       \/ \E g \in Conns :
            \/ sendRoutineSpamFilter(g) \/ recvRoutineSpamFilter(g)
            \/ GatewayAsks(g) \/ LinkFails(g)

Spec == Init /\ [][Next]_vars

(* The Go scheduler runs every goroutine that can take its next step, the  *)
(* one that registers the chain and starts the workers included.  The     *)
(* gateway connects in the end: Accept is enabled between two sleeps only, *)
(* so its fairness is strong.                                              *)
Fairness ==
    /\ SF_vars(Running /\ Accept)
    /\ WF_vars(Running /\ RunSpamFilterHandler)
    /\ WF_vars(Running /\ AllowServicedChainMessages)
    /\ \A w \in Workers : WF_vars(Running /\ beginServicingSpamFilter(w))
    /\ \A g \in Conns :
         /\ WF_vars(Running /\ sendRoutineSpamFilter(g))
         /\ WF_vars(Running /\ recvRoutineSpamFilter(g))

FairSpec == Spec /\ Fairness

-------------------------------------------------------------------------------

HandlerType ==
    [link : {"none", "up", "eof", "down"},
     connError : 0..1, shutSend : 0..1, shutRecv : 0..1,
     unread : 0..MaxRequests, read : 0..MaxRequests,
     recv : {"none", "top", "read", "deny", "drop", "put", "fail", "failed", "shut"},
     request : Requests \union {NoRequest}, chain : {"none", "chain"},
     send : {"none", "range", "check", "requeue", "write", "fail", "failed", "shut"},
     verdict : Verdicts \union {NoVerdict}]

(* Every variable has a value of its type and neither channel holds more   *)
(* than its capacity.                                                      *)
TypeOK ==
    /\ currentlyServicing \in {"none", "chain"}
    /\ listening \in BOOLEAN /\ retried \in BOOLEAN
    /\ conn \in 0..MaxConns /\ asked \in 0..MaxRequests
    /\ supPc \in {"connect", "accept", "watch", "shutSend", "shutRecv", "sleep", "crashed"}
    /\ handler \in [Conns -> HandlerType]
    /\ marlinFrom \in Seq(Requests) /\ Len(marlinFrom) <= Capacity
    /\ dropped \subseteq Requests
    /\ worker \in [Workers -> [pc : {"idle", "first", "second", "judge"},
                               request : Requests \union {NoRequest}]]
    /\ marlinTo \in Seq(Verdicts) /\ Len(marlinTo) <= Capacity
    /\ written \in [Conns -> Seq(Verdicts)]
    /\ lost \subseteq Verdicts

(* The verdicts that end request n of connection g, wherever they are.     *)
Ends(v, g, n) ==
    v.request.from = g /\ v.request.n = n /\ v.step \in {"garbled", "judge"}

(* Where that request is: in the hand of its receiving routine or of a     *)
(* worker, waiting, thrown away, or in its last verdict, which waits, is   *)
(* in the hand of a sending routine, was written or was lost.              *)
Places(g, n) ==
    {<<"recv", h>> : h \in {h \in Conns : handler[h].request.from = g
                                          /\ handler[h].request.n = n}}
    \union {<<"worker", w>> : w \in {w \in Workers : worker[w].request.from = g
                                                    /\ worker[w].request.n = n}}
    \union {<<"marlinFrom", i>> : i \in {i \in DOMAIN marlinFrom :
                             marlinFrom[i].from = g /\ marlinFrom[i].n = n}}
    \union {<<"dropped", r>> : r \in {r \in dropped : r.from = g /\ r.n = n}}
    \union {<<"marlinTo", i>> : i \in {i \in DOMAIN marlinTo : Ends(marlinTo[i], g, n)}}
    \union {<<"send", h>> : h \in {h \in Conns : Ends(handler[h].verdict, g, n)}}
    \union {<<"lost", v>> : v \in {v \in lost : Ends(v, g, n)}}
    \union UNION {{<<"written", h, i>> : i \in {i \in DOMAIN written[h] :
                                  Ends(written[h][i], g, n)}} : h \in Conns}

(* However many workers, routines and connections there are, a request is  *)
(* judged once, and is never forgotten but by being thrown away.           *)
RequestInOnePlace ==
    \A g \in Conns : \A n \in 1..handler[g].read : Cardinality(Places(g, n)) = 1

(* Every verdict that the gateway has or may yet get.                      *)
AllVerdicts ==
    (UNION {{written[g][i] : i \in DOMAIN written[g]} : g \in Conns})
    \union {marlinTo[i] : i \in DOMAIN marlinTo}
    \union {handler[g].verdict : g \in Conns}

(* A request may get several verdicts, in any order, on several            *)
(* connections, but never an allowing and a denying one.                   *)
NoContradiction ==
    \A v, u \in AllVerdicts : v.request = u.request => v.allow = u.allow

(* Every request that is read has its last verdict written in the end, on  *)
(* some connection, unless it is thrown away, its verdict is lost with a   *)
(* connection, its receiver waits on an empty marlinFrom, or the process   *)
(* panics: workers and routines that wait for room in marlinTo do not wait *)
(* for each other for ever, and a connection that is lost is replaced.     *)
Settled(g, n) ==
    \/ \E r \in dropped : r.from = g /\ r.n = n
    \/ \E v \in lost : Ends(v, g, n)
    \/ \E h \in Conns : \E i \in DOMAIN written[h] : Ends(written[h][i], g, n)
AllSettled ==
    \A g \in Conns : \A n \in 1..handler[g].read :
        Settled(g, n) \/ (handler[g].recv = "drop" /\ handler[g].request.n = n)

RequestsSettle == []<>(AllSettled \/ ~Running)

(* "Spamfilter replies with a single byte (0 or 1)": README.md, line 127,  *)
(* and the comment of sendRoutineSpamFilter.  A bundle that does not       *)
(* decode is answered more than once.                                      *)
OneVerdictPerRequest ==
    \A g \in Conns : \A i, j \in DOMAIN written[g] :
        written[g][i].request = written[g][j].request => i = j
===============================================================================
