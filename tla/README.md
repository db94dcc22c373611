# Tendermint Connector in TLA+

Specifications of the Tendermint Connector, the TLC runs that check them and
the TLAPS proofs about them. The connector stands between a Tendermint node
("TMCore") and the Marlin relay network. In *dataconnect* mode it connects to
the node as a peer, takes votes and proposals with their block parts from it,
and hands them to a Marlin TCP bridge; what the bridge brings goes the other
way. In *spamfilter* mode a relay asks it whether a message is worth passing on.

Sources are named relative to the repository: `marlin.go` is
`src/marlin/marlin.go` and `handlerCOSMOS.go` is
`src/chains/cosmos/handlerCOSMOS.go`.

## The system

| Part | State it keeps | Operations | What is hard about it |
|---|---|---|---|
| Channels `marlinTo`, `marlinFrom` (cmd/dataconnect.go, cmd/spamfilter.go) | bounded FIFO queues | drop-oldest send, ranging receive | the send to a full channel is three operations that others interleave with |
| Marlin side (marlin.go) | connection, three signal channels per handler, `currentlyServicing` | supervisor, `sendRoutineConnection`, `recvRoutineConnection` | routines outlive their connection and compete with the next one's |
| Peer side (handlerCOSMOS.go) | a `TendermintHandler` per attempt: connections, four signal channels, `pong`, reader, writer | supervisor, `recvRoutine`, `sendRoutine`, `presentThroughput` | shutdown by token, closed channel and closed connection; nil connections; a listener that stays open |
| Channel buffers, proposal cache (handlerCOSMOS.go) | packets of unfinished messages per channel, last proposal | append, service, reset | queued messages share arrays with the buffer |
| Wire protocol (marlin.go, types) | none | encode, decode | header and body slices, two packet lists |
| Spam filter (both files) | workers, requests in flight | verdict per request | exactly one verdict per request, across connections |
| Validator and proposer caches (handlerCOSMOS.go) | 2Q cache, `maxValidHeight` | look up, fetch, refuse old heights | shared by the workers without a lock |
| Secret connection (conn/secret_connection.go) | nonces, receive remainder | Read, Write, handshake | frames, partial reads, nonces |
| Merkle proofs (crypto/merkle) | none | verify | index and total decide the tree (not modelled) |
| Key files, command line, Iris handler, tm34, vendored libraries, generated code, tools | - | - | not modelled, see below |

The parts meet at the two channels. The peer side sends what the node says to
`marlinTo` and reflects the node's NewRoundStep messages through `marlinFrom`;
the Marlin side sends what the bridge says to `marlinFrom`. Each side has a
supervisor that makes a handler, connects it, starts its goroutines, waits on
`signalConnError`, gives each goroutine a shutdown token and starts again a
second later. The one other thing that the sides share is the global
`currentlyServicing`.

What makes each part correct:

- channels: nothing lost but the oldest, order kept, nobody waiting for ever;
- both supervisors: the shutdown protocol cannot block, a lost connection is
  noticed and replaced, a former connection's goroutines end and do no harm
  while they live;
- messages: each is written at most once, in order, as the node sent it, and
  read as it was written, whatever portions it arrives in;
- spam filter: one verdict for each request, on the connection that asked; only
  what is signed by whom it has to be is let through, whatever the workers share
  and the node fails to answer;
- secret connection: what is read is a prefix of what was written, no nonce is
  used twice.

## The modules

| Module | Models | Extends / instantiates |
|---|---|---|
| `DropOldest` | one channel with its producers and consumers | |
| `MarlinDataConnect` | marlin.go 18-328, peer side as environment | INSTANCE `DropOldest` |
| `PeerDataConnect` | handlerCOSMOS.go 49-565, 643-686, 737-757, Marlin side as environment | INSTANCE `DropOldest` |
| `SpamFilter` | marlin.go 334-515, handlerCOSMOS.go 1029-1204 and 1361-1375, gateway as environment | |
| `ChannelBuffer` | handlerCOSMOS.go 222-274 and 350-562, marlin.go 176-252: the packets themselves | |
| `WireProtocol` | marlin.go 216-230, 290-317, 448-504: what is encoded and decoded, as operators | |
| `DataPath` | `ChannelBuffer` composed with the frames and marlin.go 257-328 | `ChannelBuffer`, `WireProtocol` |
| `MessageCheck` | handlerCOSMOS.go 1086-1178, 1206-1359: what a worker of the spam filter checks | |
| `ByteStream` | what a secret connection promises in one direction | |
| `SecretStream` | conn/secret_connection.go 187-275, 456-465 | INSTANCE `ByteStream` |
| `*_proofs` | theorems | their module, TLAPS |
| `MC*` | instances for TLC | their module |

`DropOldest` is both a model of the send (marlin.go 318-324, 505-511;
handlerCOSMOS.go 461-467, 521-527, 552-558) and the abstract specification of a
channel: the two sides are shown to implement it.

### DropOldest

`channel` is the Go channel, `pc` the place of each producer in the three-step
send, `offered`, `received` and `dropped` are history. `SelectSend` and
`SelectDefault` are the two outcomes of the select, `DropHead` is
`_ = <-channel`, `Put` the blocking send and `Receive` one turn of a consumer's
`range`. A consumer in `Returners` may put the message it took last back at the
end of the channel and end (`Return`): that is what a sending routine of the
Marlin side does with `marlinTo` when it finds its shutdown token (marlin.go
180-184). Nobody puts anything back into `marlinFrom`. The promises about order
except the messages in `returned`, and `SomeoneHasRoom` holds until the first
put-back, which can fill a place that a drop has made; that nothing is lost or
in two places (`NothingElseLost`) holds with put-backs too.

### MarlinDataConnect

`conn` counts the connections; everything a handler owns is a function of the
connection's number, because old handlers live on. The supervisor's actions are
the lines of `RunDataConnectHandler`: `Connect`, `ConnectFails`,
`ConnErrorSeen`, `ShutSend`, `ShutRecv`, `Reattempt`. A sending routine takes a
message (`SendTake`), looks for its token (`SendShutdown`, then `SendRequeue`
puts the message back), filters (`SendDiscard`), encodes and writes. A receiving
routine looks for its token, reads, ignores or forwards with the drop-oldest
send. A failing routine goes through `fail` and signals. `link` is the bridge's
end: `eof` lets writes succeed and reads fail, `down` fails both; frames that
came before the end can still be read after it, from the socket and the
`bufio.Reader`.

A message is its number: the properties are about where it is, not what it
says. The bridge is assumed to name a real chain (6 or 10) in its messages, so
that none is let through before `AllowServicedChainMessages`.

### PeerDataConnect

`handler[g]` is the record of the g-th `TendermintHandler` with the places of
its goroutines. `CloseConnections` and `ClosePanics` are the two outcomes of
lines 97-98; a panic ends the process, so `Next` is disabled in `crashed`.
`staleListener` says that an earlier `acceptPeer` left its listener: `ConnectPeer`
is then impossible until `CollectListener`, the finalizer of the garbage
collector (external: nothing in the repository closes it). A packet is only counted; what it is (ping, ignored, for the Marlin
side, NewRoundStep, undecodable) is chosen when it is read. `late` counts the
messages a routine sends on while its shutdown token is waiting. `writeError` is
the sticky error of `bufio.Writer`.

Of the Marlin side there are, for each of its `MarlinConns` connections, a sending
routine, which takes from `marlinTo` (`MarlinTake`) and may put the message in its
hand back and end (`MarlinReturn`), and a receiving routine, which does the
drop-oldest send on `marlinFrom` (`RelaySelectSend` to `RelayPut`); routines of
former connections are there beside those of the new one. When a sending routine is
told to stop is the Marlin side's affair, so it may put back at any time. The
routines are alike and are numbered as they take their first message.

Two things that the Go code does on one line are one action: closing `pong` and
draining it (what is left in it is not told apart from the closed channel by
its only receiver), and `Write` with `Flush`.

### SpamFilter

`handler[g]` is again the record of one connection with the places of its two
routines; `worker[w]` is one goroutine of `beginServicingSpamFilter` in
handlerCOSMOS.go. `connectMarlin` for `tcpaccept` is `Listen`, `ListenFails`,
`Accept`, `AcceptFails` and `ClosePanics`, the Close of a listener that an
earlier failure left nil. A request is its connection and number, which stand
for its 8-byte id, and a *content*, which says what the checks will find: a
vote or a bundle that may be allowed, a bundle that decodes and fails, bundles
of which the first, the second or neither message decodes, anything else.
`WorkerDecodes` and `WorkerCannotDecode` are the two decoding steps of a 0x90
request, `WorkerJudge` the one verdict that every request gets at the end; a
check that would pass may still deny, because the node need not answer, and
`WorkerPanics` is a failed type assertion in `getValidators`. `step` in a verdict
says which of them it came from. Unlike in dataconnect mode, every send to
`marlinTo` waits for room.

### ChannelBuffer, WireProtocol, DataPath

`ChannelBuffer` is about memory. `memory` is the list of arrays that Go's
slices lie in, a slice is an array and a length, and `AppendMemory` is Go's
append: in place while the array has room, into an array of twice the size
otherwise. `buffer[ch]` is `h.channelBuffer[ch]`, `cached` the proposal and its
packets, `queue` the two Go channels, and `copier[q]` the routine at the other
end of a channel, which reads the packets one by one (`CopyPacket`): packets
that arrive meanwhile are seen by it. `RecvFirst` and `RecvNext` are a packet of
the node, `Service...` the outcomes of the three `service...Message` functions
with the reset of the buffer that follows each of them. `Check` is the first
pass of `sendRoutine` over the packets. A buffer decodes exactly if it holds the
packets of one message; that it never holds anything else when it is serviced
is the property `BufferHoldsOneMessage`.

`WireProtocol` gives frames as sequences of fields: what is written
(`Encode`), the places of a field and the list in it (`Places`, `Fields`), what
`recvRoutineConnection` makes of it (`Decode`, which looks
into `buffer[:2]`), and what `recvRoutineSpamFilter` does (`DecodeRequest`).
`DataPath` puts both together with the relay network between two connectors:
what `Write` writes goes on `stream`, from which the other connector reads
lengths and bodies until the connection is `Cut`. The relay is assumed to hand
on the frames as they are.

### MessageCheck

One `worker[w]` is one goroutine in `getValidators`, `thoroughMessageCheck` or
`getProposerAtHeight`; each access to the cache, to `maxValidHeight` and to
the node is a step of its own. `NodePages` says, per height, which validators
the node gives on each of its pages; the code asks for two. The node moves
to other rounds and heights in between (`NodeMoves`), answers, fails
(`PageFails`, `AskProposerFails`) or answers something else (`PageGarbled`, a
failed type assertion). A page that the node has nothing for is an error, as in
Tendermint. What a message claims is chosen where it is looked at, but for its
height, which is any `int64`: one below 1 or beyond the node is asked for and
refused, unless it passes for too old, and `Wrap` is what the sum of
handlerCOSMOS.go:1300 gives near the greatest integer. The index of a
vote may be negative, because the `ValidateBasic` of handlerCOSMOS.go:886 is
commented out; that panics (`JudgeVotePanics`). The eviction of the 2Q cache
is any choice of a height.

### SecretStream and ByteStream

`writer[w]` is a call of `Write`: it waits for the mutex (`Lock`), then per
frame seals (`Seal`), increments the nonce (`IncrNonce`, `IncrNoncePanics`) and
writes (`WriteFrame`, `WriteFails`; after the latter there may be a part of a
frame on the wire). `ReadBuffer`, `ReadFrame` and `OpenFails` are the three
outcomes of `Read` with something to read. Sealing is abstract: a frame opens
with the nonce it was sealed with, and not if the reader is `misaligned`, that
is after a part of a frame. Bytes are named by call and place. `ByteStream` is
the promise: frames of at most `DataMaxSize` bytes go in, at most `ReadSize`
bytes at a time come out, and what came out is a prefix of what went in.

## The runs

| Run | Question | Bounds |
|---|---|---|
| `drop_oldest` | is the three-step send a drop-oldest channel? | 2 producers, 2 consumers that may each put one message back, capacity 2, 4 messages each |
| `drop_oldest_blocks` | does an overflowing send complete? (no) | 1 producer, 1 consumer, capacity 2 |
| `marlin_data_connect` | do several generations of routines stay out of each other's way, is a lost connection replaced, does a message settle? | capacity 1, 3 connections, 2 messages out, 1 frame in per connection, every direction |
| `peer_data_connect` | the same for the peer side, dialling and accepting; does sendRoutine end, is a lost node noticed? | capacity 1, 2 handlers, 3 packets in all, 1 connection of the Marlin side with 1 relayed message |
| `peer_reconnect_crash` | is every failure followed by a reconnect? (no) | 2 handlers |
| `spam_filter` | is every request judged once, do its verdicts agree, does it settle? | 2 workers, capacity 1, 2 connections, 2 requests in all |
| `spam_verdicts` | one answer for each request? (no) | 1 worker, 1 connection, 1 request |
| `data_path` | what can a message lose between the node and the other connector? | 3 channels, 3 messages of 1 or 2 packets, 2 heights, capacity 1 |
| `passed_on_as_sent` | is a message passed on as the node sent it? (no) | 2 messages of 1 packet |
| `forwarded_as_framed` | is what the relay brings forwarded with its packets? (no) | 1 message of 1 packet |
| `message_check` | do shared cache and maximum ever let a worker judge wrongly? | 2 workers, 3 heights with one page, two and three pages, cache of 1, 4 messages, 3 moves of the node, integers from -5 to 4 |
| `secret_stream` | are nonces unique, calls whole, is it a byte stream? | 2 writers, frames of 2 bytes, reads of 1 or 2, calls of up to 5, 3 calls, last nonce 4 |

Why the bounds are enough: the hazards need a full channel (capacity 1 or 2
with at least one message more), a producer in each of its three steps while
another one passes it (2 producers), and a routine of an abandoned connection
that meets the next one's (2 connections; 3 let two old ones meet a new one). Signal
channels have their real capacity, 1. The theorems remove the bounds where
there is one. In `data_path` three messages are enough for a queued one, one
that is being copied and one that overwrites; two packets are the smallest
number that makes a slice grow and a message partial. In `message_check` a cache
of one height makes every second height evict, and three heights with a window
of one make the first too old; the integer 4 with the window is already no
`int64`. In `peer_data_connect` three packets are a message taken, a second one
that fills the channel, and a third whose drop makes the place that the first one,
put back, then fills; that two routines put back and order is kept among the rest
is in the bounds of `drop_oldest`. In `secret_stream` a call of five bytes is three
frames, reads of one byte leave a remainder, and the counter ends within the
bounds. Deadlock is not checked: the bounds on messages end every behaviour, and
the process may end in a panic.

What the passing runs show: consumers see each producer's messages in order and
without gaps other than dropped older ones, except that a message which a
shut-down sending routine has put back on `marlinTo` comes behind younger ones, and
even then no message is received twice (`ReceivedInOrder`, `OldestLeaveFirst`,
`NothingElseLost`); until there is such a put-back, the blocking second send cannot
make all producers wait (`SomeoneHasRoom`); on both channels the program's own
routines, put-backs included, are users of that kind (`MarlinToIsDropOldest`,
`MarlinFromIsDropOldest`); no signal is sent to a full signal
channel that nobody reads (`NoSignalBlocks`), which is what lets supervisors
answer without looking and routines leave without being waited for; an
abandoned Marlin connection, which is never closed, is always one whose other
end has gone (`AbandonedIsDead`); a message is in exactly one place
(`ExactlyOnePlace`) and on each connection in order but for those put back
(`InOrderUnlessRequeued`); former peer connections are closed
(`FormerAreClosed`) and pass on at most one message more
(`OneAfterShutdown`); a spam filter request is judged once or thrown away,
whichever workers, routines and connections it meets (`RequestInOnePlace`), and
however many verdicts it gets they agree (`NoContradiction`).

A buffer of the node's packets holds one message at any time
(`BufferHoldsOneMessage`); a queued message can only be spoiled by newer packets
of its own channel, place by place (`WrittenInPlace`); a bundle keeps its
proposal, because that is copied (`ProposalStaysIntact`); frames are never read
out of step, and a cut loses what had not come whole (`ForwardedInStep`); a spam
filter judges the message that the frame holds (`JudgedAsFramed`). Workers judge
by whole sets of validators of the right height (`SetsAreWhole`), let through
what is signed as it has to be (`LetThroughIfSigned`), refuse as old only what the
node has passed or what is within the window of the greatest integer
(`RefusedOnlyIfPassed`), and can lose a set between Contains and
Get only if more heights were fetched than the cache holds
(`PanicsOnlyBeyondLimits`). Nonces never repeat (`NoncesDiffer`), calls of Write
are read whole or cut at the end for good (`CallsArriveWhole`), the connection
implements its promise (`IsByteStream`), and no call waits for ever
(`CallsReturn`).

What the violated ones show:

- `OverflowingSendCompletes`: src/README.md:38 promises that the oldest message is
  dropped on overflow. If the consumer empties the channel after the producer's
  select, the producer waits in `_ = <-h.marlinTo` for a message that only it
  would send.
- `FailureLeadsToReconnect`: the log line of handlerCOSMOS.go:99 announces a
  reconnect, but lines 97-98 close connections that are nil after a failed
  dial, listen or key exchange, and that panics.
- `OneVerdictPerRequest`: src/README.md:127 says that the spam filter replies with a
  single byte. A worker that cannot decode a message of a 0x90 request denies
  and falls through to the next step, which answers again
  (handlerCOSMOS.go 1124-1134).

- `PassedOnAsSent`: the slice in a queued message is the buffer's own, and the
  next vote of the node overwrites it before it is encoded (handlerCOSMOS.go 385,
  393, 401).
- `ForwardedAsFramed`: marlin.go:294 unmarshals the two-byte header, so nothing of
  what the relay brings reaches the node with its packets.

### Fairness

`Spec` has none. The runs with liveness properties use weak fairness of the goroutines: the Go
scheduler runs a goroutine that can go on. In `MarlinDataConnect` the bridge
accepts a connection in the end (strong fairness of `Connect`, since the
supervisor sleeps between attempts), and a receiving routine whose connection is
gone meets the error in the end (strong fairness of `RecvFails`: what was buffered
is finite, though the model does not count messages that are ignored); the peer side need not send, receive or
allow messages. In `PeerDataConnect` a `select` with a ready `pong` takes it in the end,
which Go's random choice among ready cases justifies; nothing is assumed of
the node or the Marlin side, and the properties except a process that has
panicked. `LostLinkIsReplaced` is stated for the default direction only,
because in the others the receiving routine can wait on `marlinFrom` for ever.
In `SpamFilter` the chain is registered, the workers run and the gateway
connects in the end; nothing is assumed of what it asks. The receiver that
waits in the drop-oldest send is excepted from `RequestsSettle`. These
properties say that the good state comes back again and again (`[]<>`): with
finitely many messages that is that each of them gets there. In `SecretStream`
writers and reader are scheduled (weak fairness) and a writer that waits for the
mutex gets it in the end (strong fairness of `Lock`, which Go's starvation mode of
`sync.Mutex` provides); writes may fail whenever they like.

## The proofs

`DropOldest_proofs`, for every set of producers and consumers and every
capacity, and whichever consumers put messages back: `TypeCorrect`,
`ReceivingInOrder`, `DroppingOldest`, `LosingNothingElse` from the inductive invariant `IInv`, which adds to the
properties that the channel itself is ordered and that a producer beyond its
select has a message; `SomeoneHavingRoom` from `RoomBudget`, which counts that
messages and producers at the blocking send never need more places than drops
have made. The steps on the channel are three kinds only: a new message at the
end, the head gone, or an old message back at the end. A lemma for each carries the
order through; for the third it is enough that the message is then among the
`returned`, which the order excepts, and that it leaves its consumer as it enters
the channel, so that it stays in one place.

`MarlinDataConnect_proofs`, for every number of connections, messages and every
capacity: `TypeCorrect`, `SignalsNeverBlock` and `AbandoningTheDead` from its
`IInv`. Its core is `Tokens`: tokens in `signalConnError`, plus one if the
supervisor has left the connection, equal the routines that have signalled.
Each routine signals at most once, so the second of them always finds room.
`Implementation` proves that every step of the Marlin side is a step of
`DropOldest` on `marlinFrom`, or leaves it alone: the theorems of
`DropOldest` hold of it.

`ExactlyOnePlace` follows from `PlaceInv`: the channel, the hands of the sending
routines, what was written, what the peer side is about to offer and what was lost
are five sets that share no message, none has one twice, and together they are
all messages. Every step is a move of one message from one set to another, and
there is a lemma for each kind of move. `InOrderUnlessRequeued` follows from
`OrderInv`: of two messages that were never put back the smaller one is ahead, in
the channel, between a routine's hand and the channel, and on each connection.

`PeerDataConnect_proofs`, for every number of handlers, packets and messages and
every capacity: `TypeCorrect`, `SignalsNeverBlock`, `ClosingFormer`,
`OneMessageAfterShutdown` and, on `marlinTo`, `Implementation`: every step of the
peer side and of the Marlin side, the put-back included, is a step of `DropOldest`
or leaves its variables alone. The consumers there are the Marlin side's sending
routines, and all of them are `Returners`. `IInv` has a part for each: `Counted` (packets read and not, without which a handler's
counters leave their bounds), `Stage` (a handler has goroutines from
`BeginServicing` on, and is closed before the next is made), `Tokens` (the same
account of signals as on the Marlin side, with the three shutdown tokens and the
fact that a living recvRoutine still has its token to read), and `Lateness`
(after a late message recvRoutine is at the top of its loop, where the token is
the first thing it looks at). `StepHandlers`, `StepType`, `StepCounted`,
`StepTokens` and `StepLateness` prove one part each, action by action.

`SecretStream_proofs`, for every set of writers, all sizes and every failure of a
write: `TypeCorrect`, `NoncesDiffering`, `CallsArrivingWhole`, and with
`Implementation` that the connection is `ByteStream`. The argument has three
layers. `IInv`: the mutex lets one writer in (`Exclusive`), the nonces are used in
order (`Counted`), and what is on the wire or in a writer's hand has an earlier
one (`Used`). `StreamInv` adds that there is a function `off` from nonces to places
in the stream such that every frame has the bytes of its place, and that what
was read, with what is kept, reaches up to the place of the next nonce. `WholeInv`
adds that every two neighbouring bytes of the stream fit together, unless they
come after a frame that is `Lost`; a lost frame stays lost (`LostStays`), and the
reader never gets past it.

`SpamFilter_proofs`, for every number of connections, workers and requests, every
capacity and every set of contents: `TypeCorrect`, `BeingInOnePlace`,
`NeverContradicting`. `IInv` says that a routine or worker holds a request or
verdict exactly where its code does. `PlaceInv` writes down where every request
is: `Where` gives, for each of eight kinds of place, a function from its places to
the request there (a verdict that nobody will overrule stands for its request);
each function has no request twice, no two share one, and their values are the
requests that were read. Every step takes a request from one kind of place to
another, so eight kinds need one lemma about leaving and one about arriving.
`VerdictInv` says what each verdict comes from: an allowing one only from `judge`
and only for contents that have no denying one.

`ChannelBuffer_proofs`, for every set of channels and heights, every capacity, any
number of messages and of packets in each: `TypeCorrect`, `HoldingOneMessage`,
`KeepingProposalsIntact`, `WritingInPlace`. The argument is one of ownership. A
buffer has the packets of its channel's last message, in an array that no other
buffer has (`BufferInv`); a cached or bundled proposal is whole, in an array that
no buffer has (`Proposals`); a message that is waiting or being copied has a
message of the node no later than its channel's last one, and an array that only
that channel's buffer can have (`Fine`). `Evolves` is what any step may do to the
arrays: a cell keeps its packet, or it gets the packet of the same number of the
last message of the channel that owns the array. `ProposalsStay`, `FineStays`,
`CopyingsStay` and `DeliveredStay` carry the sets through such a step; the rest is
one lemma for each action. `PassingOnTheUnfollowed` states what is left of
`PassedOnAsSent`, which the code breaks: a message that nothing has followed on its
channel is written as the node sent it.

`DataPath_proofs`, for the same constants and a cut at any place: `Implementation`
shows that the composition behaves as `ChannelBuffer`, so that its theorems hold
in it (`PathInvariance`). `JudgingAsFramed` comes from lemmas about
`WireProtocol`: the units of one list are an interval of the units of a protobuf
message, and `Fields` gives back the list. `ForwardingInStep` needs `WireInv`:
there are a sequence of frames, one for each message written, and a function `at`
that gives each its place in the stream, one behind the other; the reader is at
the place of the next frame, or one length behind it. The places move down as
units are read, and a frame has one length only, so that the lengths in the
stream count the frames that are not begun. That a frame has more than two units,
without which the reader would skip it, rests on `WritingInPlace`'s invariant: no
message without packets is ever written.

`MessageCheck_proofs`, for every set of workers, every history of validators, every
size of the cache, of the window and of the integers: `TypeCorrect`, `SetsBeingWhole`,
`LettingThroughTheSigned`, `RefusingThePassed`, `PanickingBeyondLimits`. `IInv` has
what a worker has fetched by the time it is where it is (`Stage`), what its verdict
rests on in terms of all that the node has ever said (`Justified`), that
`maxValidHeight` is at most one beyond the node's height (`MaxInv`), and that the
cache has every height that was fetched unless more were than it has room for
(`CacheInv`).

Assumptions are those of the constants, which the runs evaluate too: capacity and
sizes at least one, bounds natural numbers, a finite set of producers
(`ProducersAssumption`), channels and contents out of those that the code knows
(`ChannelsAssumption`, `ContentsAssumption`), and a node that names three pages of
validators for every height, the first not empty (`PagesAssumption`: a Tendermint
chain has a validator at every height). Only consumers put messages back
(`ReturnersAssumption`), and the heights of the chain, with the window added, are
integers that the machine has (`MaxIntAssumption`); what messages claim need not be.

Every safety property of a passing run is proved. Only model-checked: the liveness
properties (`LostLinkIsReplaced`, `MessagesSettle`, `SenderEndsItself`,
`LostPeerIsNoticed`, `RequestsSettle`, `CallsReturn`), which are out of the
prover's reach with `ENABLED` and fairness, and the violations.

## Not modelled

Wording, logging and statistics. The rate limit of `recvRoutine`, which only
delays. Ping timers, which are made and never used. A `write` that neither
succeeds nor fails, and an HTTP request to the node that never ends (the code
sets no timeout). The branch of `sendRoutineConnection` for a message that cannot be
marshalled (marlin.go 221-226): the message is made of integers and byte strings
there, and marshalling those gives no error. The secret handshake and all cryptography: steps that succeed
or fail. Merkle proofs: a pure function copied unchanged from Tendermint, where it
is tested. Key files and the command line: input and output around one hash and
one retry loop.

The Iris handler is a near copy of the Cosmos one for another encoding, with less
in it: only votes are sent on, there are no bundles, and no proposer is asked for.
tm34 is switched off in cmd/common.go and `_deprecated_chains` is not built.

The map covers little of the lines of the repository, and cannot cover much
more: of some 205000 lines nearly all are generated protocol buffers and copies
of Tendermint's libraries, three times over, once for each chain. The program's
own code is marlin.go, the handler of each chain, secret_connection.go and a few
hundred lines of cmd; of the first three, for Cosmos, every function with state
is modelled but the handshake.

## Plan

Done: the modules above, their runs, and the proofs above. In order of
importance, still to come:

1. Proofs: that a relay and its spam filter lose no request between them, from
   `BeingInOnePlace` and `JudgingAsFramed`, and the steps of the liveness
   arguments that are safety (that a waiting routine finds room or a reader).
2. `DataConnect`: the two sides composed through both channels, showing which
   properties of each side survive when the other is not an arbitrary
   environment. `DataPath` does this for the data, not for the reconnections.
3. `Merkle`, as operators against a reference definition.
