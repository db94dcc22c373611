--------------------------- MODULE MarlinDataConnect ---------------------------
(***************************************************************************)
(* The Marlin side of dataconnect mode (marlin/marlin.go): the supervisor  *)
(* RunDataConnectHandler, which makes one connection to the Marlin TCP     *)
(* bridge after another, and the two goroutines it starts on each:         *)
(* sendRoutineConnection ranges over marlinTo and writes to the bridge,    *)
(* recvRoutineConnection reads from the bridge and fills marlinFrom.       *)
(*                                                                         *)
(* A routine that fails puts a token in signalConnError and returns.  The  *)
(* supervisor answers it with a token in signalShutSend and one in         *)
(* signalShutRecv, sleeps and connects again; it never closes the old      *)
(* connection and never waits for the old routines, which live on beside   *)
(* those of the next connection until they see their token.  The old       *)
(* sending routine looks at its token only with a message in its hand, and *)
(* puts that message back at the end of marlinTo.                          *)
(*                                                                         *)
(* The peer side is the environment here: it sends on marlinTo (dropping   *)
(* the oldest message when that is full), receives from marlinFrom, and    *)
(* sets currentlyServicing some time after its routines have started.      *)
(*                                                                         *)
(* A message for the bridge is the number the peer side gave it.  One from *)
(* the bridge is the connection it came on and its number among those of   *)
(* the connection.  Bounds: MaxConns successful connections, MaxMsgs       *)
(* messages from the peer side, MaxFrames forwarded messages of each       *)
(* connection.  The last connection does not fail.                         *)
(***************************************************************************)
EXTENDS Integers, Sequences, FiniteSets

CONSTANTS Capacity, MaxConns, MaxMsgs, MaxFrames

ASSUME CapacityAssumption == Capacity \in Nat \ {0}
ASSUME BoundsAssumption ==
    MaxConns \in Nat \ {0} /\ MaxMsgs \in Nat /\ MaxFrames \in Nat

VARIABLES
    direction,           \* the --direction flag
    currentlyServicing,  \* the chain let through: "none" or "chain"
    conn,                \* connections made so far; the last one is watched
    supPc,               \* where the supervisor is
    link,                \* per connection: "up", "eof" (reads fail) or "down"
    signalConnError,     \* per connection: tokens in each of the
    signalShutSend,      \*   three signal channels of its handler,
    signalShutRecv,      \*   which have capacity 1
    marlinTo,            \* messages for the bridge, oldest first
    sendPc,              \* per connection: where its sending routine is
    sendMsg,             \* per connection: the message that one took last
    written,             \* per connection: the messages written to the bridge
    lost,                \* messages for the bridge that were thrown away
    requeued,            \* messages a shut-down sending routine put back
    marlinFrom,          \* messages from the bridge, oldest first
    recvPc,              \* per connection: where its receiving routine is
    forwarded,           \* per connection: messages that one sent to marlinFrom
    lostFrom,            \* messages from the bridge that were thrown away
    peerPc,              \* where the peer side's send on marlinTo is
    peerMsgs,            \* messages the peer side has started to send
    peerGot              \* what the peer side has received

modeVars == <<direction, currentlyServicing>>
supVars == <<conn, supPc>>
sigVars == <<signalConnError, signalShutSend, signalShutRecv>>
sendVars == <<sendPc, sendMsg, written, requeued>>
recvVars == <<marlinFrom, recvPc, forwarded, lostFrom>>
peerVars == <<peerPc, peerMsgs>>
vars == <<modeVars, supVars, link, sigVars, sendVars, marlinTo, lost, recvVars,
          peerVars, peerGot>>

Conns == 1..MaxConns
Msgs == 1..MaxMsgs
Frames == [from : Conns, n : 1..MaxFrames]

canProduce == direction # "consumer"
canConsume == direction # "producer"

(* The n-th message of the serviced chain that connection g brings. *)
FromBridge(g, n) == [from |-> g, n |-> n]

Init ==
    /\ direction \in {"both", "producer", "consumer"}
    /\ currentlyServicing = "none"
    /\ conn = 0 /\ supPc = "connect"
    /\ link = [g \in Conns |-> "none"]
    /\ signalConnError = [g \in Conns |-> 0]
    /\ signalShutSend = [g \in Conns |-> 0]
    /\ signalShutRecv = [g \in Conns |-> 0]
    /\ marlinTo = << >> /\ lost = {} /\ requeued = {}
    /\ sendPc = [g \in Conns |-> "none"]
    /\ sendMsg = [g \in Conns |-> 0]
    /\ written = [g \in Conns |-> << >>]
    /\ marlinFrom = << >> /\ lostFrom = {}
    /\ recvPc = [g \in Conns |-> "none"]
    /\ forwarded = [g \in Conns |-> 0]
    /\ peerPc = "select" /\ peerMsgs = 0 /\ peerGot = << >>

-------------------------------------------------------------------------------
(* RunDataConnectHandler *)

(* connectMarlin succeeds; beginServicingDataConnect starts both routines. *)
Connect ==
    /\ supPc = "connect" /\ conn < MaxConns
    /\ conn' = conn + 1
    /\ supPc' = "watch"
    /\ link' = [link EXCEPT ![conn + 1] = "up"]
    /\ sendPc' = [sendPc EXCEPT ![conn + 1] = "range"]
    /\ recvPc' = [recvPc EXCEPT ![conn + 1] = "top"]
    /\ UNCHANGED <<modeVars, sigVars, sendMsg, written, requeued, marlinTo, lost,
                   marlinFrom, forwarded, lostFrom, peerVars, peerGot>>

ConnectFails ==
    /\ supPc = "connect"
    /\ supPc' = "sleep"
    /\ UNCHANGED <<modeVars, conn, link, sigVars, sendVars, marlinTo, lost,
                   recvVars, peerVars, peerGot>>

(* The supervisor's select: a routine of the watched connection failed. *)
ConnErrorSeen ==
    /\ supPc = "watch" /\ signalConnError[conn] = 1
    /\ signalConnError' = [signalConnError EXCEPT ![conn] = 0]
    /\ supPc' = "shutSend"
    /\ UNCHANGED <<modeVars, conn, link, signalShutSend, signalShutRecv, sendVars,
                   marlinTo, lost, recvVars, peerVars, peerGot>>

ShutSend ==
    /\ supPc = "shutSend" /\ signalShutSend[conn] = 0
    /\ signalShutSend' = [signalShutSend EXCEPT ![conn] = 1]
    /\ supPc' = "shutRecv"
    /\ UNCHANGED <<modeVars, conn, link, signalConnError, signalShutRecv, sendVars,
                   marlinTo, lost, recvVars, peerVars, peerGot>>

ShutRecv ==
    /\ supPc = "shutRecv" /\ signalShutRecv[conn] = 0
    /\ signalShutRecv' = [signalShutRecv EXCEPT ![conn] = 1]
    /\ supPc' = "sleep"
    /\ UNCHANGED <<modeVars, conn, link, signalConnError, signalShutSend, sendVars,
                   marlinTo, lost, recvVars, peerVars, peerGot>>

(* Mutant of Reattempt: the supervisor tries no further connection. *)
GiveUp == supPc = "sleep" /\ UNCHANGED vars

(* REATTEMPT_CONNECTION, one second later. *)
Reattempt ==
    /\ supPc = "sleep"
    /\ supPc' = "connect"
    /\ UNCHANGED <<modeVars, conn, link, sigVars, sendVars, marlinTo, lost,
                   recvVars, peerVars, peerGot>>

-------------------------------------------------------------------------------
(* sendRoutineConnection of connection g *)

(* for msg := range h.marlinTo *)
SendTake(g) ==
    /\ sendPc[g] = "range" /\ marlinTo # << >>
    /\ sendMsg' = [sendMsg EXCEPT ![g] = Head(marlinTo)]
    /\ marlinTo' = Tail(marlinTo)
    /\ sendPc' = [sendPc EXCEPT ![g] = "check"]
    /\ UNCHANGED <<modeVars, supVars, link, sigVars, written, requeued, lost,
                   recvVars, peerVars, peerGot>>

(* <-h.signalShutSend: the message goes back, at the end of the channel. *)
SendShutdown(g) ==
    /\ sendPc[g] = "check" /\ signalShutSend[g] = 1
    /\ signalShutSend' = [signalShutSend EXCEPT ![g] = 0]
    /\ sendPc' = [sendPc EXCEPT ![g] = "requeue"]
    /\ UNCHANGED <<modeVars, supVars, link, signalConnError, signalShutRecv, sendMsg,
                   written, requeued, marlinTo, lost, recvVars, peerVars, peerGot>>

(* Mutant of SendRequeue: the return after it is missing. *)
SendRequeueAndGoOn(g) ==
    /\ sendPc[g] = "requeue" /\ Len(marlinTo) < Capacity
    /\ marlinTo' = Append(marlinTo, sendMsg[g])
    /\ requeued' = requeued \union {sendMsg[g]}
    /\ sendPc' = [sendPc EXCEPT ![g] = "write"]
    /\ UNCHANGED <<modeVars, supVars, link, sigVars, sendMsg, written, lost,
                   recvVars, peerVars, peerGot>>

(* h.marlinTo <- msg waits for room. *)
SendRequeue(g) ==
    /\ sendPc[g] = "requeue" /\ Len(marlinTo) < Capacity
    /\ marlinTo' = Append(marlinTo, sendMsg[g])
    /\ requeued' = requeued \union {sendMsg[g]}
    /\ sendPc' = [sendPc EXCEPT ![g] = "shut"]
    /\ UNCHANGED <<modeVars, supVars, link, sigVars, sendMsg, written, lost,
                   recvVars, peerVars, peerGot>>

(* Nothing is produced in this direction, or the chain is not let through. *)
SendDiscard(g) ==
    /\ sendPc[g] = "check" /\ signalShutSend[g] = 0
    /\ ~canProduce \/ currentlyServicing # "chain"
    /\ lost' = lost \union {sendMsg[g]}
    /\ sendPc' = [sendPc EXCEPT ![g] = "range"]
    /\ UNCHANGED <<modeVars, supVars, link, sigVars, sendMsg, written, requeued,
                   marlinTo, recvVars, peerVars, peerGot>>

(* The message passes the checks and is encoded.  (A message of integers   *)
(* and byte strings always marshals: the error branch is left out.)        *)
SendEncode(g) ==
    /\ sendPc[g] = "check" /\ signalShutSend[g] = 0
    /\ canProduce /\ currentlyServicing = "chain"
    /\ sendPc' = [sendPc EXCEPT ![g] = "write"]
    /\ UNCHANGED <<modeVars, supVars, link, sigVars, sendMsg, written, requeued,
                   marlinTo, lost, recvVars, peerVars, peerGot>>

(* Write and Flush succeed. *)
SendWrite(g) ==
    /\ sendPc[g] = "write" /\ link[g] # "down"
    /\ written' = [written EXCEPT ![g] = Append(@, sendMsg[g])]
    /\ sendPc' = [sendPc EXCEPT ![g] = "range"]
    /\ UNCHANGED <<modeVars, supVars, link, sigVars, sendMsg, requeued, marlinTo,
                   lost, recvVars, peerVars, peerGot>>

(* Mutant of SendWriteFails: the message goes back to the channel. *)
SendWriteRetries(g) ==
    /\ sendPc[g] = "write" /\ link[g] # "up" /\ Len(marlinTo) < Capacity
    /\ marlinTo' = Append(marlinTo, sendMsg[g])
    /\ sendPc' = [sendPc EXCEPT ![g] = "fail"]
    /\ UNCHANGED <<modeVars, supVars, link, sigVars, sendMsg, written, requeued,
                   lost, recvVars, peerVars, peerGot>>

(* Write or Flush fails: the message is gone. *)
SendWriteFails(g) ==
    /\ sendPc[g] = "write" /\ link[g] # "up"
    /\ lost' = lost \union {sendMsg[g]}
    /\ sendPc' = [sendPc EXCEPT ![g] = "fail"]
    /\ UNCHANGED <<modeVars, supVars, link, sigVars, sendMsg, written, requeued,
                   marlinTo, recvVars, peerVars, peerGot>>

(* Mutant of SendSignal: the return after it is missing. *)
SendSignalAndGoOn(g) ==
    /\ sendPc[g] = "fail" /\ signalConnError[g] = 0
    /\ signalConnError' = [signalConnError EXCEPT ![g] = 1]
    /\ sendPc' = [sendPc EXCEPT ![g] = "range"]
    /\ UNCHANGED <<modeVars, supVars, link, signalShutSend, signalShutRecv, sendMsg,
                   written, requeued, marlinTo, lost, recvVars, peerVars, peerGot>>

(* h.signalConnError <- struct{}{}; return *)
SendSignal(g) ==
    /\ sendPc[g] = "fail" /\ signalConnError[g] = 0
    /\ signalConnError' = [signalConnError EXCEPT ![g] = 1]
    /\ sendPc' = [sendPc EXCEPT ![g] = "failed"]
    /\ UNCHANGED <<modeVars, supVars, link, signalShutSend, signalShutRecv, sendMsg,
                   written, requeued, marlinTo, lost, recvVars, peerVars, peerGot>>

-------------------------------------------------------------------------------
(* recvRoutineConnection of connection g *)

(* <-h.signalShutRecv *)
RecvShutdown(g) ==
    /\ recvPc[g] = "top" /\ signalShutRecv[g] = 1
    /\ signalShutRecv' = [signalShutRecv EXCEPT ![g] = 0]
    /\ recvPc' = [recvPc EXCEPT ![g] = "shut"]
    /\ UNCHANGED <<modeVars, supVars, link, signalConnError, signalShutSend, sendVars,
                   marlinTo, lost, marlinFrom, forwarded, lostFrom, peerVars, peerGot>>

(* No token: the routine waits in ReadFull. *)
RecvRead(g) ==
    /\ recvPc[g] = "top" /\ signalShutRecv[g] = 0
    /\ recvPc' = [recvPc EXCEPT ![g] = "read"]
    /\ UNCHANGED <<modeVars, supVars, link, sigVars, sendVars, marlinTo, lost,
                   marlinFrom, forwarded, lostFrom, peerVars, peerGot>>

(* Mutant of RecvIgnore: a short or foreign message is taken for an error. *)
RecvRejects(g) ==
    /\ recvPc[g] = "read" /\ link[g] = "up"
    /\ recvPc' = [recvPc EXCEPT ![g] = "fail"]
    /\ UNCHANGED <<modeVars, supVars, link, sigVars, sendVars, marlinTo, lost,
                   marlinFrom, forwarded, lostFrom, peerVars, peerGot>>

(* A message that is not forwarded: nothing is consumed in this direction, *)
(* it is too short, or it is of a chain that is not let through.  It may   *)
(* have come before the connection was lost.                               *)
RecvIgnore(g) ==
    /\ recvPc[g] = "read"
    /\ recvPc' = [recvPc EXCEPT ![g] = "top"]
    /\ UNCHANGED <<modeVars, supVars, link, sigVars, sendVars, marlinTo, lost,
                   marlinFrom, forwarded, lostFrom, peerVars, peerGot>>

(* A message of the serviced chain has been read.  What the bridge sent    *)
(* before its end was gone can be read afterwards.                         *)
Readable(g) ==
    /\ recvPc[g] = "read"
    /\ canConsume /\ currentlyServicing = "chain"
    /\ forwarded[g] < MaxFrames

(* case h.marlinFrom <- message *)
RecvSelectSend(g) ==
    /\ Readable(g) /\ Len(marlinFrom) < Capacity
    /\ forwarded' = [forwarded EXCEPT ![g] = @ + 1]
    /\ marlinFrom' = Append(marlinFrom, FromBridge(g, forwarded[g] + 1))
    /\ recvPc' = [recvPc EXCEPT ![g] = "top"]
    /\ UNCHANGED <<modeVars, supVars, link, sigVars, sendVars, marlinTo, lost,
                   lostFrom, peerVars, peerGot>>

(* Mutant of RecvSelectDefault: it waits for room and drops nothing. *)
RecvWaitsForRoom(g) ==
    /\ Readable(g) /\ Len(marlinFrom) = Capacity
    /\ forwarded' = [forwarded EXCEPT ![g] = @ + 1]
    /\ recvPc' = [recvPc EXCEPT ![g] = "put"]
    /\ UNCHANGED <<modeVars, supVars, link, sigVars, sendVars, marlinTo, lost,
                   marlinFrom, lostFrom, peerVars, peerGot>>

(* default: the channel is full *)
RecvSelectDefault(g) ==
    /\ Readable(g) /\ Len(marlinFrom) = Capacity
    /\ forwarded' = [forwarded EXCEPT ![g] = @ + 1]
    /\ recvPc' = [recvPc EXCEPT ![g] = "drop"]
    /\ UNCHANGED <<modeVars, supVars, link, sigVars, sendVars, marlinTo, lost,
                   marlinFrom, lostFrom, peerVars, peerGot>>

(* _ = <-h.marlinFrom *)
RecvDrop(g) ==
    /\ recvPc[g] = "drop" /\ marlinFrom # << >>
    /\ lostFrom' = lostFrom \union {Head(marlinFrom)}
    /\ marlinFrom' = Tail(marlinFrom)
    /\ recvPc' = [recvPc EXCEPT ![g] = "put"]
    /\ UNCHANGED <<modeVars, supVars, link, sigVars, sendVars, marlinTo, lost,
                   forwarded, peerVars, peerGot>>

(* h.marlinFrom <- message *)
RecvPut(g) ==
    /\ recvPc[g] = "put" /\ Len(marlinFrom) < Capacity
    /\ marlinFrom' = Append(marlinFrom, FromBridge(g, forwarded[g]))
    /\ recvPc' = [recvPc EXCEPT ![g] = "top"]
    /\ UNCHANGED <<modeVars, supVars, link, sigVars, sendVars, marlinTo, lost,
                   forwarded, lostFrom, peerVars, peerGot>>

(* Mutant of RecvFails: the routine ends without a signal. *)
RecvEndsQuietly(g) ==
    /\ recvPc[g] = "read" /\ link[g] \in {"eof", "down"}
    /\ recvPc' = [recvPc EXCEPT ![g] = "failed"]
    /\ UNCHANGED <<modeVars, supVars, link, sigVars, sendVars, marlinTo, lost,
                   marlinFrom, forwarded, lostFrom, peerVars, peerGot>>

(* ReadFull fails. *)
RecvFails(g) ==
    /\ recvPc[g] = "read" /\ link[g] \in {"eof", "down"}
    /\ recvPc' = [recvPc EXCEPT ![g] = "fail"]
    /\ UNCHANGED <<modeVars, supVars, link, sigVars, sendVars, marlinTo, lost,
                   marlinFrom, forwarded, lostFrom, peerVars, peerGot>>

(* h.signalConnError <- struct{}{}; return *)
RecvSignal(g) ==
    /\ recvPc[g] = "fail" /\ signalConnError[g] = 0
    /\ signalConnError' = [signalConnError EXCEPT ![g] = 1]
    /\ recvPc' = [recvPc EXCEPT ![g] = "failed"]
    /\ UNCHANGED <<modeVars, supVars, link, signalShutSend, signalShutRecv, sendVars,
                   marlinTo, lost, marlinFrom, forwarded, lostFrom, peerVars, peerGot>>

-------------------------------------------------------------------------------
(* The peer side and the bridge *)

(* beginServicing of the peer side: AllowServicedChainMessages. *)
AllowServicedChainMessages ==
    /\ currentlyServicing' = "chain"
    /\ UNCHANGED <<direction, supVars, link, sigVars, sendVars, marlinTo, lost,
                   recvVars, peerVars, peerGot>>

(* Mutant of PeerSelectSend: off by one about the room in marlinTo. *)
PeerSelectSendOver ==
    /\ peerPc = "select" /\ peerMsgs < MaxMsgs /\ Len(marlinTo) <= Capacity
    /\ peerMsgs' = peerMsgs + 1
    /\ marlinTo' = Append(marlinTo, peerMsgs + 1)
    /\ UNCHANGED <<modeVars, supVars, link, sigVars, sendVars, lost, recvVars,
                   peerPc, peerGot>>

PeerSelectSend ==
    /\ peerPc = "select" /\ peerMsgs < MaxMsgs /\ Len(marlinTo) < Capacity
    /\ peerMsgs' = peerMsgs + 1
    /\ marlinTo' = Append(marlinTo, peerMsgs + 1)
    /\ UNCHANGED <<modeVars, supVars, link, sigVars, sendVars, lost, recvVars,
                   peerPc, peerGot>>

PeerSelectDefault ==
    /\ peerPc = "select" /\ peerMsgs < MaxMsgs /\ Len(marlinTo) = Capacity
    /\ peerMsgs' = peerMsgs + 1
    /\ peerPc' = "drop"
    /\ UNCHANGED <<modeVars, supVars, link, sigVars, sendVars, marlinTo, lost,
                   recvVars, peerGot>>

PeerDrop ==
    /\ peerPc = "drop" /\ marlinTo # << >>
    /\ lost' = lost \union {Head(marlinTo)}
    /\ marlinTo' = Tail(marlinTo)
    /\ peerPc' = "put"
    /\ UNCHANGED <<modeVars, supVars, link, sigVars, sendVars, recvVars, peerMsgs,
                   peerGot>>

PeerPut ==
    /\ peerPc = "put" /\ Len(marlinTo) < Capacity
    /\ marlinTo' = Append(marlinTo, peerMsgs)
    /\ peerPc' = "select"
    /\ UNCHANGED <<modeVars, supVars, link, sigVars, sendVars, lost, recvVars,
                   peerMsgs, peerGot>>

(* marlinMsg := <-h.marlinFrom in the peer side's sending routine. *)
PeerReceive ==
    /\ marlinFrom # << >>
    /\ peerGot' = Append(peerGot, Head(marlinFrom))
    /\ marlinFrom' = Tail(marlinFrom)
    /\ UNCHANGED <<modeVars, supVars, link, sigVars, sendVars, marlinTo, lost,
                   recvPc, forwarded, lostFrom, peerVars>>

(* The bridge closes its end, or the network breaks.  (A bound: not on the *)
(* last connection.)                                                       *)
LinkFails(g) ==
    /\ g < MaxConns
    /\ \E s \in {"eof", "down"} :
         /\ link[g] = "up" \/ (link[g] = "eof" /\ s = "down")
         /\ link' = [link EXCEPT ![g] = s]
    /\ UNCHANGED <<modeVars, supVars, sigVars, sendVars, marlinTo, lost, recvVars,
                   peerVars, peerGot>>

-------------------------------------------------------------------------------

Supervisor ==
    Connect \/ ConnectFails \/ ConnErrorSeen \/ ShutSend \/ ShutRecv \/ Reattempt

sendRoutineConnection(g) ==
    \/ SendTake(g) \/ SendShutdown(g) \/ SendRequeue(g) \/ SendDiscard(g)
    \/ SendEncode(g) \/ SendWrite(g) \/ SendWriteFails(g) \/ SendSignal(g)

recvRoutineConnection(g) ==
    \/ RecvShutdown(g) \/ RecvRead(g) \/ RecvIgnore(g) \/ RecvSelectSend(g)
    \/ RecvSelectDefault(g) \/ RecvDrop(g) \/ RecvPut(g) \/ RecvFails(g)
    \/ RecvSignal(g)

Peer ==
    \/ AllowServicedChainMessages \/ PeerSelectSend \/ PeerSelectDefault
    \/ PeerDrop \/ PeerPut \/ PeerReceive

Next ==
    \/ Supervisor
    \/ Peer
    \/ \E g \in Conns :
         sendRoutineConnection(g) \/ recvRoutineConnection(g) \/ LinkFails(g)

Spec == Init /\ [][Next]_vars

(* The Go scheduler runs every goroutine that can take its next step, and  *)
(* the bridge accepts a connection in the end: Connect is enabled between  *)
(* two sleeps only, so its fairness is strong.  A connection whose other   *)
(* end is gone has only so much left to read: each of these reads disables *)
(* RecvFails for a while, but it comes in the end.  (A routine fails once, *)
(* so strong fairness of any failing is strong fairness of each.)          *)
Fairness ==
    /\ SF_vars(Connect)
    /\ WF_vars(Reattempt \/ ConnErrorSeen \/ ShutSend \/ ShutRecv)
    /\ SF_vars(\E g \in Conns : RecvFails(g))
    /\ \A g \in Conns :
         /\ WF_vars(sendRoutineConnection(g))
         /\ WF_vars(RecvShutdown(g) \/ RecvRead(g) \/ RecvSignal(g))

FairSpec == Spec /\ Fairness

-------------------------------------------------------------------------------

(* Every variable has a value of its type and neither channel holds more   *)
(* than its capacity.                                                      *)
TypeOK ==
    /\ direction \in {"both", "producer", "consumer"}
    /\ currentlyServicing \in {"none", "chain"}
    /\ conn \in 0..MaxConns
    /\ supPc \in {"connect", "watch", "shutSend", "shutRecv", "sleep"}
    /\ link \in [Conns -> {"none", "up", "eof", "down"}]
    /\ signalConnError \in [Conns -> 0..1]
    /\ signalShutSend \in [Conns -> 0..1]
    /\ signalShutRecv \in [Conns -> 0..1]
    /\ marlinTo \in Seq(Msgs) /\ Len(marlinTo) \in 0..Capacity
    /\ sendPc \in [Conns -> {"none", "range", "check", "requeue", "write",
                             "shut", "fail", "failed"}]
    /\ sendMsg \in [Conns -> 0..MaxMsgs]
    /\ written \in [Conns -> Seq(Msgs)]
    /\ lost \subseteq Msgs /\ requeued \subseteq Msgs
    /\ marlinFrom \in Seq(Frames)
    /\ Len(marlinFrom) \in 0..Capacity
    /\ recvPc \in [Conns -> {"none", "top", "read", "drop", "put", "shut",
                             "fail", "failed"}]
    /\ forwarded \in [Conns -> 0..MaxFrames]
    /\ lostFrom \subseteq Frames
    /\ peerPc \in {"select", "drop", "put"}
    /\ peerMsgs \in 0..MaxMsgs
    /\ peerGot \in Seq(Frames)

(* The supervisor no longer watches connection g. *)
Abandoned(g) == g < conn \/ (g = conn /\ supPc # "watch")

(* The signal channels have room for one token, and nobody reads           *)
(* signalConnError of a connection once the supervisor has left it.  Still *)
(* no send on a signal channel waits for ever: not the supervisor's, which *)
(* could then never reconnect, and not that of a routine that outlives its *)
(* connection.                                                             *)
NoSignalBlocks ==
    /\ supPc = "shutSend" => signalShutSend[conn] = 0
    /\ supPc = "shutRecv" => signalShutRecv[conn] = 0
    /\ \A g \in Conns :
         Abandoned(g) /\ "fail" \in {sendPc[g], recvPc[g]}
           => signalConnError[g] = 0 /\ sendPc[g] # recvPc[g]

(* The supervisor never closes a connection, yet it never leaves one open: *)
(* it only goes on to the next when the bridge's side of this one is gone. *)
AbandonedIsDead == \A g \in Conns : Abandoned(g) => link[g] \in {"eof", "down"}

(* Where message m is: in marlinTo, in the hand of a sending routine or of *)
(* the peer side, written on a connection, or lost.                        *)
Places(m) ==
    {<<"marlinTo", i>> : i \in {k \in DOMAIN marlinTo : marlinTo[k] = m}}
      \union {<<"hand", g>> : g \in {h \in Conns :
                 sendMsg[h] = m /\ sendPc[h] \in {"check", "requeue", "write"}}}
      \union (UNION {{<<"written", g, i>> : i \in {k \in DOMAIN written[g] :
                 written[g][k] = m}} : g \in Conns})
      \union (IF peerPc # "select" /\ m = peerMsgs THEN {<<"peer">>} ELSE {})
      \union (IF m \in lost THEN {<<"lost">>} ELSE {})

(* A message of the peer side is in exactly one place whatever connections *)
(* fail and routines of several of them take, put back, drop and write at  *)
(* the same time: it is written at most once over all connections, and     *)
(* none is lost but to make room, by the direction or chain filter, or in  *)
(* the hand of a routine whose write failed.                               *)
ExactlyOnePlace == \A m \in 1..peerMsgs : Cardinality(Places(m)) = 1

(* On each connection the bridge gets the messages in the order in which   *)
(* the peer side sent them, but for those that a shut-down routine put     *)
(* back at the end of marlinTo.                                            *)
InOrderUnlessRequeued ==
    \A g \in Conns : \A i, j \in DOMAIN written[g] :
        i < j /\ {written[g][i], written[g][j]} \cap requeued = {}
            => written[g][i] < written[g][j]

(* Goroutines between taking a message and letting go of it have one, and  *)
(* the supervisor watches and shuts down only a connection that it made.   *)
Holding ==
    /\ supPc \notin {"connect", "sleep"} => conn # 0
    /\ \A g \in Conns :
         /\ sendPc[g] \in {"check", "requeue", "write"} => sendMsg[g] # 0
         /\ recvPc[g] \in {"drop", "put"} => forwarded[g] # 0
    /\ peerPc # "select" => peerMsgs # 0

(* How many routines of connection g have put a token in signalConnError. *)
Signalled(g) ==
    (IF sendPc[g] = "failed" THEN 1 ELSE 0) + (IF recvPc[g] = "failed" THEN 1 ELSE 0)

(* The tokens of connection g: each routine signals at most once and the   *)
(* supervisor takes one; it gives each shutdown token once.                *)
Tokens(g) ==
    /\ signalConnError[g] + (IF Abandoned(g) THEN 1 ELSE 0) = Signalled(g)
    /\ signalShutSend[g] = 1 =>
         g < conn \/ (g = conn /\ supPc \in {"shutRecv", "sleep", "connect"})
    /\ signalShutRecv[g] = 1 =>
         g < conn \/ (g = conn /\ supPc \in {"sleep", "connect"})

(* A routine fails only on a connection whose other end is gone, and there *)
(* are no routines where there was no connection.                          *)
Routines(g) ==
    /\ {sendPc[g], recvPc[g]} \cap {"fail", "failed"} # {} => link[g] \in {"eof", "down"}
    /\ g > conn => sendPc[g] = "none" /\ recvPc[g] = "none" /\ link[g] = "none"

(* The inductive invariant of NoSignalBlocks and AbandonedIsDead. *)
IInv ==
    /\ TypeOK
    /\ Holding
    /\ \A g \in Conns : Tokens(g) /\ Routines(g)

(* The part of the receiving routines on marlinFrom, old and new ones      *)
(* together, is the drop-oldest channel: a shut-down receiving routine     *)
(* neither repeats nor reorders what its connection brought.               *)
Channel == INSTANCE DropOldest WITH
    Producers <- Conns,
    Consumers <- {"peer"},
    Returners <- {},
    MaxOffers <- MaxFrames,
    channel <- marlinFrom,
    pc <- [g \in Conns |-> IF recvPc[g] \in {"drop", "put"} THEN recvPc[g] ELSE "select"],
    offered <- forwarded,
    received <- [c \in {"peer"} |-> peerGot],
    dropped <- lostFrom,
    returned <- {},
    ended <- {}

MarlinFromIsDropOldest == Channel!Spec

(* In the default direction (producer) the receiving routine is always     *)
(* ready to notice that the connection is gone, and the supervisor makes   *)
(* the next one.                                                           *)
LostLinkIsReplaced ==
    []<>(\A g \in Conns : ~(direction = "producer" /\ conn = g /\ link[g] # "up"))

(* A message that the channel accepted does not stay there, nor in the     *)
(* hand of a routine: connections that fail and routines that are shut     *)
(* down delay it, but in the end it is written or lost.                    *)
MessagesSettle ==
    []<>(\A m \in 1..peerMsgs : \A p \in Places(m) : p[1] \in {"written", "lost", "peer"})
===============================================================================
