---------------------------- MODULE PeerDataConnect ----------------------------
(***************************************************************************)
(* The peer side of dataconnect mode (chains/cosmos/handlerCOSMOS.go): the *)
(* supervisor RunDataConnect, which makes a handler for each attempt to    *)
(* connect to the Tendermint node, and the goroutines that a handler runs  *)
(* once it is connected.  recvRoutine reads packets, answers pings through *)
(* the channel pong, sends votes and block parts to marlinTo and reflects  *)
(* NewRoundStep messages to marlinFrom.  sendRoutine waits on pong and on  *)
(* marlinFrom and writes to the node.  presentThroughput prints counters.  *)
(*                                                                         *)
(* A routine that fails puts a token in signalConnError; the supervisor    *)
(* answers with one token for each of the three routines, closes the       *)
(* connection, sleeps and makes the next handler.  sendRoutine never reads *)
(* its token: recvRoutine closes pong as it ends, which makes sendRoutine  *)
(* write pongs until the closed connection gives it an error.              *)
(*                                                                         *)
(* The handler's connections are nil until they have been made, and        *)
(* closing a nil connection panics, which ends the process.  The listener  *)
(* of an accepting handler is never closed: its port is in use until the   *)
(* garbage collector finds it.                                             *)
(*                                                                         *)
(* The Marlin side is the environment here: one sending and one receiving  *)
(* routine for each of its connections, those of former connections living *)
(* on beside the new.  A sending routine takes from marlinTo, and one that *)
(* is shut down puts its last message back there.                          *)
(*                                                                         *)
(* Bounds: MaxConns handlers, MaxPackets packets on all connections,       *)
(* MarlinConns connections of the Marlin side and MaxRelayed messages on   *)
(* all of them.  The last connection to the node does not fail.            *)
(***************************************************************************)
EXTENDS Integers, Sequences, FiniteSets

CONSTANTS Capacity, MaxConns, MaxPackets, MarlinConns, MaxRelayed

ASSUME CapacityAssumption == Capacity \in Nat \ {0}
ASSUME BoundsAssumption ==
    /\ MaxConns \in Nat \ {0} /\ MaxPackets \in Nat
    /\ MarlinConns \in Nat /\ MaxRelayed \in Nat

VARIABLES
    isConnectionOutgoing, \* the connector dials the node, else it listens
    staleListener,        \* a former handler's listener still has the port
    conn,                 \* handlers made so far; the last one is current
    supPc,                \* where the supervisor is
    handler,              \* the handlers (see NewHandler)
    packets,              \* packets that have arrived on all of them
    marlinTo,             \* messages for the Marlin side, oldest first
    droppedTo,            \* messages thrown away from marlinTo
    marlinGot,            \* what each Marlin sending routine has taken
    returnedTo,           \* the messages that one of them has put back
    marlinEnded,          \* the routines that did so and ended
    marlinFrom,           \* number of messages in marlinFrom
    relayed,              \* messages the Marlin side has started to send
    relaying              \* how many of these sends wait to "drop" or to "put"

modeVars == <<isConnectionOutgoing, staleListener>>
supVars == <<modeVars, conn, supPc>>
takerVars == <<marlinGot, returnedTo, marlinEnded>>
toVars == <<marlinTo, droppedTo, takerVars>>
relayVars == <<relayed, relaying>>
fromVars == <<marlinFrom, relayVars>>
dataVars == <<packets, toVars, fromVars>>
vars == <<supVars, handler, dataVars>>

Conns == 1..MaxConns
Routines == 1..MarlinConns
Messages == [from : Conns, n : 1..MaxPackets]

(* A TendermintHandler as createTMHandler makes it, with what is in its    *)
(* channels and where the goroutines are that beginServicing starts.       *)
NewHandler ==
    [base |-> FALSE,       \* baseConnection is not nil
     secret |-> FALSE,     \* secretConnection is not nil
     link |-> "none",      \* then "up"; "eof" or "down" is the node's doing,
                           \*   "closed" the supervisor's
     connError |-> 0,      \* tokens in signalConnError and in the three
     shutSend |-> 0,       \*   signalShut channels, of capacity 1
     shutRecv |-> 0,
     shutThroughput |-> 0,
     buffered |-> 0,       \* packets that have arrived and have not been read
     recv |-> "none",      \* where recvRoutine is
     forwarded |-> 0,      \* messages it has sent to marlinTo
     late |-> 0,           \* messages it has sent on after its shutdown token
     pong |-> "empty",     \* or "token", or "closed"
     send |-> "none",      \* where sendRoutine is
     writeError |-> FALSE, \* bufConnWriter has met an error, which it keeps
     throughput |-> "none"] \* where presentThroughput is

Init ==
    /\ isConnectionOutgoing \in BOOLEAN
    /\ staleListener = FALSE
    /\ conn = 0 /\ supPc = "create"
    /\ handler = [g \in Conns |-> NewHandler]
    /\ packets = 0
    /\ marlinTo = << >> /\ droppedTo = {}
    /\ marlinGot = [r \in Routines |-> << >>]
    /\ returnedTo = {} /\ marlinEnded = {}
    /\ marlinFrom = 0 /\ relayed = 0
    /\ relaying = [at \in {"drop", "put"} |-> 0]

-------------------------------------------------------------------------------
(* RunDataConnect *)

CreateHandler ==
    /\ supPc = "create" /\ conn < MaxConns
    /\ conn' = conn + 1
    /\ supPc' = "connect"
    /\ UNCHANGED <<modeVars, handler, dataVars>>

(* dialPeer or acceptPeer succeeds.  acceptPeer leaves its listener behind *)
(* and cannot listen while there is a former one.                          *)
ConnectPeer ==
    /\ supPc = "connect"
    /\ isConnectionOutgoing \/ ~staleListener
    /\ staleListener' = ~isConnectionOutgoing
    /\ handler' = [handler EXCEPT ![conn].base = TRUE, ![conn].link = "up"]
    /\ supPc' = "upgrade"
    /\ UNCHANGED <<isConnectionOutgoing, conn, dataVars>>

(* The node does not answer, or the port cannot be listened on. *)
ConnectPeerFails ==
    /\ supPc = "connect"
    /\ supPc' = "close"
    /\ UNCHANGED <<modeVars, conn, handler, dataVars>>

(* upgradeConnectionAndHandshake and beginServicing *)
BeginServicing ==
    /\ supPc = "upgrade"
    /\ handler' = [handler EXCEPT ![conn].secret = TRUE, ![conn].send = "select",
                                  ![conn].recv = "top", ![conn].throughput = "run"]
    /\ supPc' = "watch"
    /\ UNCHANGED <<modeVars, conn, dataVars>>

(* MakeSecretConnection fails and returns nil, or the handshake after it. *)
UpgradeFails ==
    /\ supPc = "upgrade"
    /\ \E made \in BOOLEAN : handler' = [handler EXCEPT ![conn].secret = made]
    /\ supPc' = "close"
    /\ UNCHANGED <<modeVars, conn, dataVars>>

(* case <-handler.signalConnError *)
ConnErrorSeen ==
    /\ supPc = "watch" /\ handler[conn].connError = 1
    /\ handler' = [handler EXCEPT ![conn].connError = 0]
    /\ supPc' = "shutSend"
    /\ UNCHANGED <<modeVars, conn, dataVars>>

ShutSend ==
    /\ supPc = "shutSend" /\ handler[conn].shutSend = 0
    /\ handler' = [handler EXCEPT ![conn].shutSend = 1]
    /\ supPc' = "shutRecv"
    /\ UNCHANGED <<modeVars, conn, dataVars>>

ShutRecv ==
    /\ supPc = "shutRecv" /\ handler[conn].shutRecv = 0
    /\ handler' = [handler EXCEPT ![conn].shutRecv = 1]
    /\ supPc' = "shutThroughput"
    /\ UNCHANGED <<modeVars, conn, dataVars>>

ShutThroughput ==
    /\ supPc = "shutThroughput" /\ handler[conn].shutThroughput = 0
    /\ handler' = [handler EXCEPT ![conn].shutThroughput = 1]
    /\ supPc' = "close"
    /\ UNCHANGED <<modeVars, conn, dataVars>>

(* Mutant of CloseConnections: the connections are left to the node. *)
ForgetConnections ==
    /\ supPc = "close" /\ handler[conn].base /\ handler[conn].secret
    /\ supPc' = "sleep"
    /\ UNCHANGED <<modeVars, conn, handler, dataVars>>

(* REATTEMPT_CONNECTION: Close on both connections *)
CloseConnections ==
    /\ supPc = "close" /\ handler[conn].base /\ handler[conn].secret
    /\ handler' = [handler EXCEPT ![conn].link = "closed"]
    /\ supPc' = "sleep"
    /\ UNCHANGED <<modeVars, conn, dataVars>>

(* Close on a connection that is nil panics. *)
ClosePanics ==
    /\ supPc = "close" /\ ~(handler[conn].base /\ handler[conn].secret)
    /\ supPc' = "crashed"
    /\ UNCHANGED <<modeVars, conn, handler, dataVars>>

(* One second later *)
Reattempt ==
    /\ supPc = "sleep"
    /\ supPc' = "create"
    /\ UNCHANGED <<modeVars, conn, handler, dataVars>>

(* The garbage collector closes a listener that nobody refers to. *)
CollectListener ==
    /\ staleListener /\ supPc \in {"create", "connect"}
    /\ staleListener' = FALSE
    /\ UNCHANGED <<isConnectionOutgoing, conn, supPc, handler, dataVars>>

-------------------------------------------------------------------------------
(* recvRoutine of handler g *)

(* case <-h.signalShutRecv *)
RecvShutdown(g) ==
    /\ handler[g].recv = "top" /\ handler[g].shutRecv = 1
    /\ handler' = [handler EXCEPT ![g].shutRecv = 0, ![g].recv = "cleanup"]
    /\ UNCHANGED <<supVars, dataVars>>

(* Mutant of RecvRead: a select that may pass over the token. *)
RecvReadAnyway(g) ==
    /\ handler[g].recv = "top"
    /\ handler' = [handler EXCEPT ![g].recv = "read"]
    /\ UNCHANGED <<supVars, dataVars>>

(* No token: the routine waits in ReadMsg. *)
RecvRead(g) ==
    /\ handler[g].recv = "top" /\ handler[g].shutRecv = 0
    /\ handler' = [handler EXCEPT ![g].recv = "read"]
    /\ UNCHANGED <<supVars, dataVars>>

(* ReadMsg returns a packet, on a closed connection too if it is buffered. *)
Readable(g) == handler[g].recv = "read" /\ handler[g].buffered > 0

(* A ping: ask sendRoutine for a pong, never waiting for it *)
RecvPing(g) ==
    /\ Readable(g)
    /\ handler' = [handler EXCEPT ![g].buffered = @ - 1, ![g].pong = "token",
                                  ![g].recv = "top"]
    /\ UNCHANGED <<supVars, dataVars>>

(* A pong, a packet that does not end a message, or a message that is not  *)
(* serviced or does not decode                                             *)
RecvIgnored(g) ==
    /\ Readable(g)
    /\ handler' = [handler EXCEPT ![g].buffered = @ - 1, ![g].recv = "top"]
    /\ UNCHANGED <<supVars, dataVars>>

(* Mutant of RecvSelectSend: off by one about the room in marlinTo. *)
RecvSelectSendOver(g) ==
    /\ Readable(g) /\ Len(marlinTo) <= Capacity
    /\ marlinTo' = Append(marlinTo, [from |-> g, n |-> handler[g].forwarded + 1])
    /\ handler' = [handler EXCEPT ![g].buffered = @ - 1, ![g].forwarded = @ + 1,
                                  ![g].late = @ + handler[g].shutRecv,
                                  ![g].recv = "top"]
    /\ UNCHANGED <<supVars, droppedTo, takerVars, packets, fromVars>>

(* serviceConsensusVoteMessage and serviceConsensusDataMessage, with a     *)
(* message for the Marlin side: case h.marlinTo <- message                 *)
RecvSelectSend(g) ==
    /\ Readable(g) /\ Len(marlinTo) < Capacity
    /\ marlinTo' = Append(marlinTo, [from |-> g, n |-> handler[g].forwarded + 1])
    /\ handler' = [handler EXCEPT ![g].buffered = @ - 1, ![g].forwarded = @ + 1,
                                  ![g].late = @ + handler[g].shutRecv,
                                  ![g].recv = "top"]
    /\ UNCHANGED <<supVars, droppedTo, takerVars, packets, fromVars>>

(* Mutant of RecvSelectDefault: it waits for room and drops nothing. *)
RecvWaitsForRoom(g) ==
    /\ Readable(g) /\ Len(marlinTo) = Capacity
    /\ handler' = [handler EXCEPT ![g].buffered = @ - 1, ![g].forwarded = @ + 1,
                                  ![g].recv = "put"]
    /\ UNCHANGED <<supVars, dataVars>>

(* default: marlinTo is full *)
RecvSelectDefault(g) ==
    /\ Readable(g) /\ Len(marlinTo) = Capacity
    /\ handler' = [handler EXCEPT ![g].buffered = @ - 1, ![g].forwarded = @ + 1,
                                  ![g].recv = "drop"]
    /\ UNCHANGED <<supVars, dataVars>>

(* _ = <-h.marlinTo *)
RecvDrop(g) ==
    /\ handler[g].recv = "drop" /\ marlinTo # << >>
    /\ droppedTo' = droppedTo \union {Head(marlinTo)}
    /\ marlinTo' = Tail(marlinTo)
    /\ handler' = [handler EXCEPT ![g].recv = "put"]
    /\ UNCHANGED <<supVars, takerVars, packets, fromVars>>

(* h.marlinTo <- message *)
RecvPut(g) ==
    /\ handler[g].recv = "put" /\ Len(marlinTo) < Capacity
    /\ marlinTo' = Append(marlinTo, [from |-> g, n |-> handler[g].forwarded])
    /\ handler' = [handler EXCEPT ![g].late = @ + handler[g].shutRecv, ![g].recv = "top"]
    /\ UNCHANGED <<supVars, droppedTo, takerVars, packets, fromVars>>

(* serviceConsensusStateMessage, with a NewRoundStep message, which goes   *)
(* back to the node: case h.marlinFrom <- message                          *)
ReflectSelectSend(g) ==
    /\ Readable(g) /\ marlinFrom < Capacity
    /\ marlinFrom' = marlinFrom + 1
    /\ handler' = [handler EXCEPT ![g].buffered = @ - 1,
                                  ![g].late = @ + handler[g].shutRecv,
                                  ![g].recv = "top"]
    /\ UNCHANGED <<supVars, packets, toVars, relayVars>>

(* default: marlinFrom is full *)
ReflectSelectDefault(g) ==
    /\ Readable(g) /\ marlinFrom = Capacity
    /\ handler' = [handler EXCEPT ![g].buffered = @ - 1, ![g].recv = "dropFrom"]
    /\ UNCHANGED <<supVars, dataVars>>

(* _ = <-h.marlinFrom *)
ReflectDrop(g) ==
    /\ handler[g].recv = "dropFrom" /\ marlinFrom > 0
    /\ marlinFrom' = marlinFrom - 1
    /\ handler' = [handler EXCEPT ![g].recv = "putFrom"]
    /\ UNCHANGED <<supVars, packets, toVars, relayVars>>

(* h.marlinFrom <- message *)
ReflectPut(g) ==
    /\ handler[g].recv = "putFrom" /\ marlinFrom < Capacity
    /\ marlinFrom' = marlinFrom + 1
    /\ handler' = [handler EXCEPT ![g].late = @ + handler[g].shutRecv, ![g].recv = "top"]
    /\ UNCHANGED <<supVars, packets, toVars, relayVars>>

(* Mutant of RecvFails: the error is logged and the loop goes on. *)
RecvTriesAgain(g) ==
    /\ handler[g].recv = "read" /\ (Readable(g) \/ handler[g].link # "up")
    /\ handler' = [handler EXCEPT ![g].recv = "top"]
    /\ UNCHANGED <<supVars, dataVars>>

(* ReadMsg fails: the connection is gone, or what it brought is no packet. *)
RecvFails(g) ==
    /\ handler[g].recv = "read" /\ (Readable(g) \/ handler[g].link # "up")
    /\ handler' = [handler EXCEPT ![g].recv = "fail"]
    /\ UNCHANGED <<supVars, dataVars>>

(* h.signalConnError <- struct{}{} *)
RecvSignal(g) ==
    /\ handler[g].recv = "fail" /\ handler[g].connError = 0
    /\ handler' = [handler EXCEPT ![g].connError = 1, ![g].recv = "cleanup"]
    /\ UNCHANGED <<supVars, dataVars>>

(* Mutant of RecvCleanup: pong is drained and not closed. *)
RecvDrainsPong(g) ==
    /\ handler[g].recv = "cleanup"
    /\ handler' = [handler EXCEPT ![g].pong = "empty", ![g].recv = "done"]
    /\ UNCHANGED <<supVars, dataVars>>

(* close(h.p2pConnection.pong) and the draining of what was in it *)
RecvCleanup(g) ==
    /\ handler[g].recv = "cleanup"
    /\ handler' = [handler EXCEPT ![g].pong = "closed", ![g].recv = "done"]
    /\ UNCHANGED <<supVars, dataVars>>

-------------------------------------------------------------------------------
(* sendRoutine and presentThroughput of handler g *)

(* Whether Flush may fail.  Once it did, every later write fails.          *)
FlushFails(g) ==
    CASE handler[g].link = "up" -> {FALSE}
      [] handler[g].link = "eof" -> BOOLEAN
      [] OTHER -> {TRUE}

(* What receiving from pong leaves in it *)
PongTaken(g) == IF handler[g].pong = "closed" THEN "closed" ELSE "empty"

(* case <-pong, which a closed channel always lets through; the error of   *)
(* flush is not looked at.                                                 *)
SendPong(g) ==
    /\ handler[g].send = "select" /\ handler[g].pong # "empty"
    /\ ~handler[g].writeError
    /\ \E failed \in FlushFails(g) :
         handler' = [handler EXCEPT ![g].pong = PongTaken(g), ![g].writeError = failed]
    /\ UNCHANGED <<supVars, dataVars>>

(* WriteMsg gives the error of an earlier flush. *)
SendPongFails(g) ==
    /\ handler[g].send = "select" /\ handler[g].pong # "empty"
    /\ handler[g].writeError
    /\ handler' = [handler EXCEPT ![g].pong = PongTaken(g), ![g].send = "fail"]
    /\ UNCHANGED <<supVars, dataVars>>

(* Mutant of SendSignal: the return after the signal is missing. *)
SendSignalAndGoOn(g) ==
    /\ handler[g].send = "fail" /\ handler[g].connError = 0
    /\ handler' = [handler EXCEPT ![g].connError = 1, ![g].send = "select"]
    /\ UNCHANGED <<supVars, dataVars>>

(* h.signalConnError <- struct{}{}; return *)
SendSignal(g) ==
    /\ handler[g].send = "fail" /\ handler[g].connError = 0
    /\ handler' = [handler EXCEPT ![g].connError = 1, ![g].send = "failed"]
    /\ UNCHANGED <<supVars, dataVars>>

(* case marlinMsg := <-h.marlinFrom: a NewRoundStep message is written to  *)
(* the node, another is not, and errors do not stop the routine.           *)
SendRelay(g) ==
    /\ handler[g].send = "select" /\ marlinFrom > 0
    /\ marlinFrom' = marlinFrom - 1
    /\ \E failed \in {FALSE} \union FlushFails(g) :
         handler' = [handler EXCEPT ![g].writeError = @ \/ failed]
    /\ UNCHANGED <<supVars, packets, toVars, relayVars>>

(* Every five seconds: case <-shutdownCh *)
ThroughputShutdown(g) ==
    /\ handler[g].throughput = "run" /\ handler[g].shutThroughput = 1
    /\ handler' = [handler EXCEPT ![g].shutThroughput = 0, ![g].throughput = "done"]
    /\ UNCHANGED <<supVars, dataVars>>

-------------------------------------------------------------------------------
(* The node and the Marlin side *)

PacketArrives(g) ==
    /\ handler[g].link = "up" /\ handler[g].secret /\ packets < MaxPackets
    /\ packets' = packets + 1
    /\ handler' = [handler EXCEPT ![g].buffered = @ + 1]
    /\ UNCHANGED <<supVars, toVars, fromVars>>

(* The node closes its end, or the network breaks. *)
LinkFails(g) ==
    /\ g < MaxConns
    /\ \E s \in {"eof", "down"} :
         /\ handler[g].link = "up" \/ (handler[g].link = "eof" /\ s = "down")
         /\ handler' = [handler EXCEPT ![g].link = s]
    /\ UNCHANGED <<supVars, dataVars>>

HasTaken(r) == r \in marlinEnded \/ marlinGot[r] # << >>

(* for msg := range h.marlinTo in a sending routine of the Marlin side.    *)
(* (These are alike, and numbered as they take their first message.)       *)
MarlinTake(r) ==
    /\ r \notin marlinEnded /\ marlinTo # << >>
    /\ \A q \in 1..(r - 1) : HasTaken(q)
    /\ marlinGot' = [marlinGot EXCEPT ![r] = Append(@, Head(marlinTo))]
    /\ marlinTo' = Tail(marlinTo)
    /\ UNCHANGED <<supVars, handler, droppedTo, returnedTo, marlinEnded, packets, fromVars>>

(* h.marlinTo <- msg; return, when it has taken its shutdown token.  (It   *)
(* may do so whenever it has a message in its hand.)                       *)
MarlinReturn(r) ==
    /\ r \notin marlinEnded /\ marlinGot[r] # << >> /\ Len(marlinTo) < Capacity
    /\ LET m == marlinGot[r][Len(marlinGot[r])] IN
         /\ marlinTo' = Append(marlinTo, m)
         /\ returnedTo' = returnedTo \union {m}
    /\ marlinGot' = [marlinGot EXCEPT ![r] = SubSeq(@, 1, Len(@) - 1)]
    /\ marlinEnded' = marlinEnded \union {r}
    /\ UNCHANGED <<supVars, handler, droppedTo, packets, fromVars>>

(* A receiving routine of the Marlin side that is not in a send has a      *)
(* message from the bridge.                                                *)
Relays ==
    /\ relayed < MaxRelayed
    /\ relaying["drop"] + relaying["put"] < MarlinConns
    /\ relayed' = relayed + 1

(* case h.marlinFrom <- message *)
RelaySelectSend ==
    /\ Relays /\ marlinFrom < Capacity
    /\ marlinFrom' = marlinFrom + 1
    /\ UNCHANGED <<supVars, handler, packets, toVars, relaying>>

(* default: marlinFrom is full *)
RelaySelectDefault ==
    /\ Relays /\ marlinFrom = Capacity
    /\ relaying' = [relaying EXCEPT !["drop"] = @ + 1]
    /\ UNCHANGED <<supVars, handler, packets, toVars, marlinFrom>>

(* _ = <-h.marlinFrom *)
RelayDrop ==
    /\ relaying["drop"] > 0 /\ marlinFrom > 0
    /\ marlinFrom' = marlinFrom - 1
    /\ relaying' = [relaying EXCEPT !["drop"] = @ - 1, !["put"] = @ + 1]
    /\ UNCHANGED <<supVars, handler, packets, toVars, relayed>>

(* h.marlinFrom <- message *)
RelayPut ==
    /\ relaying["put"] > 0 /\ marlinFrom < Capacity
    /\ marlinFrom' = marlinFrom + 1
    /\ relaying' = [relaying EXCEPT !["put"] = @ - 1]
    /\ UNCHANGED <<supVars, handler, packets, toVars, relayed>>

-------------------------------------------------------------------------------

Supervisor ==
    \/ CreateHandler \/ ConnectPeer \/ ConnectPeerFails \/ BeginServicing
    \/ UpgradeFails \/ ConnErrorSeen \/ ShutSend \/ ShutRecv \/ ShutThroughput
    \/ CloseConnections \/ ClosePanics \/ Reattempt

recvRoutine(g) ==
    \/ RecvShutdown(g) \/ RecvRead(g) \/ RecvPing(g) \/ RecvIgnored(g)
    \/ RecvSelectSend(g) \/ RecvSelectDefault(g) \/ RecvDrop(g) \/ RecvPut(g)
    \/ ReflectSelectSend(g) \/ ReflectSelectDefault(g) \/ ReflectDrop(g)
    \/ ReflectPut(g) \/ RecvFails(g) \/ RecvSignal(g) \/ RecvCleanup(g)

sendRoutine(g) == SendPong(g) \/ SendPongFails(g) \/ SendSignal(g) \/ SendRelay(g)

MarlinSide ==
    \/ \E r \in Routines : MarlinTake(r) \/ MarlinReturn(r)
    \/ RelaySelectSend \/ RelaySelectDefault \/ RelayDrop \/ RelayPut

(* A panic ends the process. *)
Next ==
    /\ supPc # "crashed"
    /\ \/ Supervisor
       \/ CollectListener
       \/ MarlinSide
       \/ \E g \in Conns :
            \/ recvRoutine(g) \/ sendRoutine(g) \/ ThroughputShutdown(g)
            \/ PacketArrives(g) \/ LinkFails(g)

Spec == Init /\ [][Next]_vars

(* The Go scheduler runs every goroutine that can take its next step, and  *)
(* the select of sendRoutine does not pass over a pong for ever.           *)
Fairness ==
    /\ WF_vars(Supervisor /\ supPc # "crashed")
    /\ \A g \in Conns :
         /\ WF_vars(recvRoutine(g) /\ supPc # "crashed")
         /\ WF_vars((SendPong(g) \/ SendPongFails(g) \/ SendSignal(g)) /\ supPc # "crashed")

FairSpec == Spec /\ Fairness

-------------------------------------------------------------------------------

HandlerType ==
    [base : BOOLEAN, secret : BOOLEAN,
     link : {"none", "up", "eof", "down", "closed"},
     connError : 0..1, shutSend : 0..1, shutRecv : 0..1, shutThroughput : 0..1,
     buffered : 0..MaxPackets,
     recv : {"none", "top", "read", "drop", "put", "dropFrom", "putFrom", "fail",
             "cleanup", "done"},
     forwarded : 0..MaxPackets, late : Nat,
     pong : {"empty", "token", "closed"},
     send : {"none", "select", "fail", "failed"},
     writeError : BOOLEAN, throughput : {"none", "run", "done"}]

MarlinSideType ==
    /\ marlinGot \in [Routines -> Seq(Messages)]
    /\ returnedTo \subseteq Messages /\ marlinEnded \subseteq Routines
    /\ relayed \in 0..MaxRelayed
    /\ relaying \in [{"drop", "put"} -> 0..MarlinConns]
    /\ relaying["drop"] + relaying["put"] <= MarlinConns

(* Every handler is of its type and neither channel holds more than its    *)
(* capacity.                                                               *)
TypeOK ==
    /\ isConnectionOutgoing \in BOOLEAN /\ staleListener \in BOOLEAN
    /\ conn \in 0..MaxConns
    /\ supPc \in {"create", "connect", "upgrade", "watch", "shutSend", "shutRecv",
                  "shutThroughput", "close", "sleep", "crashed"}
    /\ handler \in [Conns -> HandlerType]
    /\ packets \in 0..MaxPackets
    /\ marlinTo \in Seq(Messages) /\ Len(marlinTo) \in 0..Capacity
    /\ droppedTo \subseteq Messages
    /\ marlinFrom \in 0..Capacity
    /\ MarlinSideType

(* The supervisor has left handler g. *)
Abandoned(g) == g < conn \/ (g = conn /\ supPc \notin {"connect", "upgrade", "watch"})

(* No send on a signal channel waits for ever: not the supervisor's, which *)
(* could then never reconnect (nobody takes from signalShutSend, so it is  *)
(* given once), and not that of a routine that outlives its connection,    *)
(* whose token nobody takes any more.                                      *)
NoSignalBlocks ==
    /\ supPc = "shutSend" => handler[conn].shutSend = 0
    /\ supPc = "shutRecv" => handler[conn].shutRecv = 0
    /\ supPc = "shutThroughput" => handler[conn].shutThroughput = 0
    /\ \A g \in Conns :
         Abandoned(g) /\ "fail" \in {handler[g].send, handler[g].recv}
           => handler[g].connError = 0 /\ handler[g].send # handler[g].recv

(* The supervisor has closed every connection but the current one before   *)
(* it makes the next, however the attempt ended, so the routines of a      *)
(* former handler cannot write to the node.                                *)
FormerAreClosed == \A g \in Conns : g < conn => handler[g].link = "closed"

(* recvRoutine looks at its shutdown token between packets only and can    *)
(* read what is buffered after the connection is closed; still at most one *)
(* message of an old connection reaches either channel after the token.    *)
OneAfterShutdown == \A g \in Conns : handler[g].late <= 1

(* What a handler has read and not, and a message in recvRoutine's hand.   *)
Counted(g) ==
    /\ handler[g].forwarded + handler[g].buffered <= packets
    /\ handler[g].recv \in {"drop", "put"} => handler[g].forwarded # 0

(* The supervisor has passed step s of the shutdown of handler g. *)
After(s, g) ==
    \/ g < conn
    \/ g = conn /\ supPc \in {"close", "sleep", "create", "crashed"}
    \/ g = conn /\ s \in {"shutSend", "shutRecv"} /\ supPc = "shutThroughput"
    \/ g = conn /\ s = "shutSend" /\ supPc = "shutRecv"

(* Handlers have goroutines from BeginServicing on, and only the current   *)
(* one is not closed.                                                      *)
Stage(g) ==
    /\ g > conn \/ (g = conn /\ supPc \in {"connect", "upgrade"}) =>
         /\ handler[g].send = "none" /\ handler[g].recv = "none"
         /\ handler[g].connError = 0
    /\ handler[g].send = "none" <=> handler[g].recv = "none"
    /\ g = conn /\ supPc \in {"watch", "shutSend", "shutRecv", "shutThroughput"} =>
         handler[g].send # "none"
    /\ g < conn \/ (g = conn /\ supPc \in {"sleep", "create"}) =>
         handler[g].link = "closed"

(* recvRoutine has put a token in signalConnError: it has ended, and not   *)
(* by taking its shutdown token.                                           *)
RecvSignalled(g) ==
    /\ handler[g].recv \in {"cleanup", "done"}
    /\ After("shutRecv", g) => handler[g].shutRecv = 1

(* The tokens of handler g: each routine signals at most once, and the     *)
(* supervisor takes one and gives each shutdown token once.                *)
Tokens(g) ==
    /\ handler[g].connError + (IF handler[g].send # "none" /\ Abandoned(g) THEN 1 ELSE 0)
         = (IF handler[g].send = "failed" THEN 1 ELSE 0)
             + (IF RecvSignalled(g) THEN 1 ELSE 0)
    /\ handler[g].recv \notin {"none", "cleanup", "done"} =>
         (After("shutRecv", g) <=> handler[g].shutRecv = 1)
    /\ handler[g].shutSend = 1 => After("shutSend", g)
    /\ handler[g].shutRecv = 1 => After("shutRecv", g)
    /\ handler[g].shutThroughput = 1 => After("shutThroughput", g)

(* After a late message recvRoutine meets its token at once. *)
Lateness(g) ==
    /\ handler[g].late \in 0..1
    /\ handler[g].late = 1 =>
         \/ handler[g].recv = "top" /\ handler[g].shutRecv = 1
         \/ handler[g].recv \in {"cleanup", "done"}

(* The inductive invariant of the safety properties above. *)
IInv ==
    /\ TypeOK
    /\ supPc \notin {"create", "sleep"} => conn # 0
    /\ \A g \in Conns :
         Counted(g) /\ Stage(g) /\ Tokens(g) /\ Lateness(g)

(* The receiving routines of all handlers together use marlinTo as the     *)
(* drop-oldest channel, through reconnections and shutdowns, while the     *)
(* Marlin side's sending routines take from it and, as they are shut down, *)
(* put messages back.                                                      *)
chanPc == [g \in Conns |->
             IF handler[g].recv \in {"drop", "put"} THEN handler[g].recv ELSE "select"]
chanOffered == [g \in Conns |-> handler[g].forwarded]

Channel == INSTANCE DropOldest WITH
    Producers <- Conns,
    Consumers <- Routines,
    Returners <- Routines,
    MaxOffers <- MaxPackets,
    channel <- marlinTo,
    pc <- chanPc,
    offered <- chanOffered,
    received <- marlinGot,
    dropped <- droppedTo,
    returned <- returnedTo,
    ended <- marlinEnded

MarlinToIsDropOldest == Channel!Spec

(* The shutdown of sendRoutine, which never reads its token: the closed    *)
(* pong channel and the closed connection together make it end.            *)
SenderEndsItself ==
    []<>(\/ supPc = "crashed"
         \/ \A g \in Conns : handler[g].recv = "done" => handler[g].send = "failed")

(* A connection that the node has ended is given up, unless recvRoutine is *)
(* waiting on a channel: for a message to throw away or for room.          *)
LostPeerIsNoticed ==
    []<>(\/ supPc = "crashed"
         \/ \A g \in Conns :
              conn = g /\ handler[g].link \in {"eof", "down"}
                => handler[g].recv \in {"drop", "put", "dropFrom", "putFrom"})

(* "Attempting reconnect post 1 second.": the log line that follows every  *)
(* failed attempt and every failed connection.  The code panics before it  *)
(* when the failure came before both connections had been made.            *)
FailureLeadsToReconnect == supPc # "crashed"
===============================================================================
